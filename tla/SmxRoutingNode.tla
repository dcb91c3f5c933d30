---------------------------- MODULE SmxRoutingNode ----------------------------
(***************************************************************************)
(* A routing node (box_smx_rn.c): a net that reads whichever of its input  *)
(* channels has a message and copies it to all of its outputs.  Its inputs *)
(* share a collector, a counter of messages with a condition variable of   *)
(* its own, which the producers raise from inside smx_channel_write and    *)
(* the routing node lowers from inside smx_channel_read.                   *)
(*                                                                         *)
(* The routing node looks at the collector's counter and at the fill of    *)
(* its inputs without a lock, so that a write is three steps here: the     *)
(* message is stored, the collector is raised, the reader is notified and  *)
(* the channel's mutex released.  Waits, timeouts, filters and guards of   *)
(* a single channel are SmxChannel's.                                      *)
(***************************************************************************)
EXTENDS SmxFifo, FiniteSets

CONSTANTS
  N,          \* number of input channels
  Kinds,      \* the input channels considered: a [type, length] for each
  MaxWrites,  \* bound: messages each producer creates
  M           \* number of output channels

ASSUME RoutingAssumption ==
  /\ N \in Nat \ {0}
  /\ MaxWrites \in Nat
  /\ M \in Nat \ {0}

Inputs == 0 .. (N - 1)
Outputs == 0 .. (M - 1)

ASSUME KindsAssumption ==
  Kinds \subseteq [Inputs -> [type : ChannelType, length : Nat \ {0}]]

VARIABLES
  chans,    \* the input channels
  col,      \* the collector: count, ch_count, state and whether rn sleeps on it
  prod,     \* the producers: pc and the number of messages created
  rn,       \* the routing node: pc, index and rest of the loop it is in, the
            \*   index it read last, the message it is writing, and whether a
            \*   collector read went wrong
  routed,   \* history: what each output has got, as <<input, seq>>
  open,     \* the outputs whose consumer has not terminated
  skipped   \* history: for each input, how often others were read while it
            \*   was left with a message

vars == <<chans, col, prod, rn, routed, open, skipped>>

ProdPc == {"idle", "wait", "stored", "counted", "closing", "testing",
           "ended"}
RnPc == {"collector", "sleep", "count", "scan", "read", "sleepCh", "write",
         "state", "fill", "term", "ended"}

TypeOK ==
  /\ chans \in [Inputs -> Channel]
  /\ col \in [count : Int, ch_count : Int, state : EndState, waiting : BOOLEAN]
  /\ prod \in [Inputs -> [pc : ProdPc, created : 0..MaxWrites]]
  /\ rn \in [pc : RnPc, idx : Nat, left : 0..N, last : Inputs, done : 0..N,
             failed : BOOLEAN,
             msg : [input : Inputs, seq : Nat] \union {NoMsg}]
  /\ routed \in [Outputs -> Seq([input : Inputs, seq : Nat])]
  /\ open \subseteq Outputs
  /\ skipped \in [Inputs -> Nat]

Init ==
  /\ \E kind \in Kinds :
       chans = [i \in Inputs |-> ChannelCreate(kind[i].type, kind[i].length,
                                               "none", FALSE, FALSE)]
  /\ col = [count |-> 0, ch_count |-> N, state |-> "PENDING", waiting |-> FALSE]
  /\ prod = [i \in Inputs |-> [pc |-> "idle", created |-> 0]]
  /\ rn = [pc |-> "collector", idx |-> 0, left |-> 0, last |-> 0, done |-> 0,
           failed |-> FALSE, msg |-> NoMsg]
  /\ routed = [o \in Outputs |-> <<>>]
  /\ open = Outputs
  /\ skipped = [i \in Inputs |-> 0]

-----------------------------------------------------------------------------
(* The collector, changed with col_mutex held.                             *)

(* Mutant: nobody is signalled.                                            *)
ChangeCollectorStateSilently(c, state) ==
  IF c.state \in {state, "END"} THEN c ELSE [c EXCEPT !.state = state]

ChangeCollectorState(c, state) ==
  IF c.state \in {state, "END"} THEN c
  ELSE [c EXCEPT !.state = state, !.waiting = FALSE]

CollectorRaise(c) == ChangeCollectorState([c EXCEPT !.count = @ + 1], "READY")

(* Mutant: an empty collector stays READY.                                 *)
CollectorLowerStaysReady(c) == [c EXCEPT !.count = @ - 1]

CollectorLower(c) ==
  LET lowered == [c EXCEPT !.count = @ - 1]
  IN  IF lowered.count = 0 THEN ChangeCollectorState(lowered, "PENDING")
                           ELSE lowered

-----------------------------------------------------------------------------
(* The producer of input i: the write path with a collector.               *)

GoTo(i, pc) == prod' = [prod EXCEPT ![i].pc = pc]

(* The mutex of input i is held from the look at its state to the release. *)
ChLocked(i) == prod[i].pc \in {"stored", "counted"}

(* The producer begins to write its next message or wakes up in a write,   *)
(* and looks at the state of the sink.                                     *)
WriterTests(i) ==
  \/ prod[i].pc = "idle" /\ prod[i].created < MaxWrites
  \/ prod[i].pc = "wait" /\ ~chans[i].sink.waiting

Writing(i) == IF prod[i].pc = "idle" THEN prod[i].created + 1 ELSE prod[i].created

WriteTo(i, pc) == prod' = [prod EXCEPT ![i] = [pc |-> pc, created |-> Writing(i)]]

WriteWait(i) ==
  /\ WriterTests(i) /\ chans[i].sink.state = "PENDING"
  /\ chans' = [chans EXCEPT ![i].sink.waiting = TRUE]
  /\ WriteTo(i, "wait")
  /\ UNCHANGED <<col, rn, routed, open, skipped>>

WriteAbort(i) ==
  /\ WriterTests(i) /\ chans[i].sink.state = "END"
  /\ chans' = [chans EXCEPT ![i] = SetWriteErr(@, "NO_TARGET")]
  /\ WriteTo(i, "idle")
  /\ UNCHANGED <<col, rn, routed, open, skipped>>

WriteStore(i) ==
  /\ WriterTests(i) /\ chans[i].sink.state \notin {"PENDING", "END"}
  /\ chans' = [chans EXCEPT ![i] =
                 StoreMsg(@, [seq |-> Writing(i), prevent_backup |-> FALSE])]
  /\ WriteTo(i, "stored")
  /\ UNCHANGED <<col, rn, routed, open, skipped>>

(* Mutant: a message that overwrites another is counted as well.           *)
WriteCountAll(i) ==
  /\ prod[i].pc = "stored"
  /\ col' = CollectorRaise(col)
  /\ GoTo(i, "counted")
  /\ UNCHANGED <<chans, rn, routed, open, skipped>>

(* A message that took the place of another one is counted already.        *)
WriteCount(i) ==
  /\ prod[i].pc = "stored"
  /\ col' = IF chans[i].overwritten THEN col ELSE CollectorRaise(col)
  /\ GoTo(i, "counted")
  /\ UNCHANGED <<chans, rn, routed, open, skipped>>

WriteNotify(i) ==
  /\ prod[i].pc = "counted"
  /\ chans' = [chans EXCEPT ![i] = ChangeReadState(@, "READY")]
  /\ GoTo(i, "idle")
  /\ UNCHANGED <<col, rn, routed, open, skipped>>

(* smx_net_terminate: the channel first, then its collector, which every   *)
(* producer leaves once; the test of ch_count is made without the mutex.   *)
ProducerEnd(i) ==
  /\ prod[i].pc = "idle"
  /\ chans' = [chans EXCEPT ![i] = TerminateSource(@)]
  /\ GoTo(i, "closing")
  /\ UNCHANGED <<col, rn, routed, open, skipped>>

CollectorLeave(i) ==
  /\ prod[i].pc = "closing"
  /\ col' = [col EXCEPT !.ch_count = @ - 1]
  /\ GoTo(i, "testing")
  /\ UNCHANGED <<chans, rn, routed, open, skipped>>

(* Mutants: the first producer that leaves terminates the collector; none  *)
(* does.                                                                   *)
CollectorTerminateFirst(i) ==
  /\ prod[i].pc = "testing"
  /\ col' = ChangeCollectorState(col, "END")
  /\ GoTo(i, "ended")
  /\ UNCHANGED <<chans, rn, routed, open, skipped>>

CollectorTerminateNever(i) ==
  /\ prod[i].pc = "testing"
  /\ GoTo(i, "ended")
  /\ UNCHANGED <<chans, col, rn, routed, open, skipped>>

CollectorTerminate(i) ==
  /\ prod[i].pc = "testing"
  /\ col' = IF col.ch_count = 0 THEN ChangeCollectorState(col, "END") ELSE col
  /\ GoTo(i, "ended")
  /\ UNCHANGED <<chans, rn, routed, open, skipped>>

Producer(i) ==
  \/ WriteWait(i) \/ WriteAbort(i) \/ WriteStore(i)
  \/ WriteCount(i) \/ WriteNotify(i)
  \/ ProducerEnd(i) \/ CollectorLeave(i) \/ CollectorTerminate(i)

-----------------------------------------------------------------------------
(* The routing node: smx_net_collector_read.                               *)

RnTests == \/ rn.pc = "collector"
           \/ rn.pc = "sleep" /\ ~col.waiting

CollectorWait ==
  /\ RnTests /\ col.state = "PENDING"
  /\ col' = [col EXCEPT !.waiting = TRUE]
  /\ rn' = [rn EXCEPT !.pc = "sleep"]
  /\ UNCHANGED <<chans, prod, routed, open, skipped>>

CollectorSpurious ==
  /\ rn.pc = "sleep" /\ col.waiting
  /\ col' = [col EXCEPT !.waiting = FALSE]
  /\ UNCHANGED <<chans, prod, rn, routed, open, skipped>>

CollectorPass ==
  /\ RnTests /\ col.state # "PENDING"
  /\ rn' = [rn EXCEPT !.pc = "count"]
  /\ UNCHANGED <<chans, col, prod, routed, open, skipped>>

Succ(i) == (i + 1) % N

(* Mutant: the scan starts at the first input always.                      *)
LookAtCountUnfair ==
  /\ rn.pc = "count"
  /\ rn' = IF col.count > 0
           THEN [rn EXCEPT !.pc = "scan", !.idx = 0, !.left = N]
           ELSE [rn EXCEPT !.pc = "term", !.idx = 0,
                           !.failed = col.state # "END"]
  /\ UNCHANGED <<chans, col, prod, routed, open, skipped>>

(* Without a lock: look at the counter; start to look for a message behind *)
(* the input that was read last.  Nothing to read ends the routing node.   *)
LookAtCount ==
  /\ rn.pc = "count"
  /\ rn' = IF col.count > 0
           THEN [rn EXCEPT !.pc = "scan", !.idx = Succ(rn.last), !.left = N]
           ELSE [rn EXCEPT !.pc = "term", !.idx = 0, !.failed = col.state # "END"]
  /\ UNCHANGED <<chans, col, prod, routed, open, skipped>>

ReadyToRead(c) == c.fifo # <<>> \/ DecoupledOut(c)

ScanHit ==
  /\ rn.pc = "scan" /\ ReadyToRead(chans[rn.idx])
  /\ rn' = [rn EXCEPT !.pc = "read", !.last = rn.idx]
  /\ skipped' = [i \in Inputs |->
                   IF i # rn.idx /\ chans[i].fifo # <<>>
                                 /\ (i - rn.idx) % N < rn.left
                   THEN skipped[i] + 1 ELSE 0]
  /\ UNCHANGED <<chans, col, prod, routed, open>>

(* After the last input, "something went wrong: no msg ready in collector" *)
(* and the routing node ends.                                              *)
ScanMiss ==
  /\ rn.pc = "scan" /\ ~ReadyToRead(chans[rn.idx])
  /\ rn' = IF rn.left = 1
           THEN [rn EXCEPT !.pc = "term", !.idx = 0, !.failed = TRUE]
           ELSE [rn EXCEPT !.idx = Succ(@), !.left = @ - 1]
  /\ skipped' = [skipped EXCEPT ![rn.idx] = 0]
  /\ UNCHANGED <<chans, col, prod, routed, open>>

(* smx_channel_read on the input that was found.                           *)
ReadInput ==
  LET c == chans[rn.last]
      m == ChannelReadMsg(c)
  IN  /\ \/ rn.pc = "read"
         \/ rn.pc = "sleepCh" /\ ~c.source.waiting
      /\ ~ChLocked(rn.last)
      /\ IF c.source.state = "PENDING"
         THEN /\ chans' = [chans EXCEPT ![rn.last].source.waiting = TRUE]
              /\ rn' = [rn EXCEPT !.pc = "sleepCh"]
              /\ UNCHANGED col
         ELSE /\ chans' = [chans EXCEPT ![rn.last] = ChannelRead(c)]
              /\ rn' = IF m = NoMsg
                       THEN [rn EXCEPT !.pc = "term", !.idx = 0]
                       ELSE [rn EXCEPT !.pc = "write", !.idx = 0,
                               !.msg = [input |-> rn.last, seq |-> m.seq]]
              /\ col' = IF ChannelRead(c).copied THEN col ELSE CollectorLower(col)
      /\ UNCHANGED <<prod, routed, open, skipped>>

(* Mutant: the last output is forgotten.                                   *)
WriteOutAllButOne ==
  /\ rn.pc = "write"
  /\ routed' = IF rn.idx \in open
               THEN [routed EXCEPT ![rn.idx] = Append(@, rn.msg)] ELSE routed
  /\ rn' = [rn EXCEPT !.pc = "state", !.idx = 0, !.done = 0, !.msg = NoMsg]
  /\ UNCHANGED <<chans, col, prod, open, skipped>>

(* smx_rn: the message, or a copy of it, is written to one output after    *)
(* the other before the next one is read.  What a write does is            *)
(* SmxChannel's: it delivers the message, or drops it because the consumer *)
(* has terminated.                                                         *)
WriteOut ==
  /\ rn.pc = "write"
  /\ routed' = IF rn.idx \in open
               THEN [routed EXCEPT ![rn.idx] = Append(@, rn.msg)] ELSE routed
  /\ rn' = IF rn.idx < M - 1
           THEN [rn EXCEPT !.idx = @ + 1]
           ELSE [rn EXCEPT !.pc = "state", !.idx = 0, !.done = 0, !.msg = NoMsg]
  /\ UNCHANGED <<chans, col, prod, open, skipped>>

(* smx_net_update_state: input after input, its state and then its fill,   *)
(* without a lock; only inputs with a coupled read end are triggers.       *)
LookAtState ==
  /\ rn.pc = "state" /\ rn.idx < N
  /\ LET c == chans[rn.idx]
     IN  rn' = IF ~DecoupledOut(c) /\ c.source.state = "END"
               THEN [rn EXCEPT !.pc = "fill"]
               ELSE [rn EXCEPT !.idx = @ + 1]
  /\ UNCHANGED <<chans, col, prod, routed, open, skipped>>

(* Mutant: messages left in a terminated input do not matter.              *)
LookAtFillBlindly ==
  /\ rn.pc = "fill"
  /\ rn' = [rn EXCEPT !.pc = "state", !.idx = @ + 1, !.done = @ + 1]
  /\ UNCHANGED <<chans, col, prod, routed, open, skipped>>

LookAtFill ==
  /\ rn.pc = "fill"
  /\ rn' = [rn EXCEPT !.pc = "state", !.idx = @ + 1,
                      !.done = IF chans[rn.idx].fifo = <<>> THEN @ + 1 ELSE @]
  /\ UNCHANGED <<chans, col, prod, routed, open, skipped>>

Triggers == {i \in Inputs : ~DecoupledOut(chans[i])}

UpdateState ==
  /\ rn.pc = "state" /\ rn.idx = N
  /\ rn' = IF \/ Triggers # {} /\ rn.done >= Cardinality(Triggers)
              \/ open = {}
           THEN [rn EXCEPT !.pc = "term", !.idx = 0]
           ELSE [rn EXCEPT !.pc = "collector", !.idx = 0]
  /\ UNCHANGED <<chans, col, prod, routed, open, skipped>>

(* smx_net_terminate: every input is told that its consumer is gone.       *)
RnEnd ==
  /\ rn.pc = "term" /\ rn.idx < N /\ ~ChLocked(rn.idx)
  /\ chans' = [chans EXCEPT ![rn.idx] = TerminateSink(@)]
  /\ rn' = [rn EXCEPT !.idx = @ + 1, !.pc = IF rn.idx = N - 1 THEN "ended" ELSE @]
  /\ UNCHANGED <<col, prod, routed, open, skipped>>

Rn == \/ CollectorWait \/ CollectorPass \/ LookAtCount
      \/ ScanHit \/ ScanMiss \/ ReadInput
      \/ WriteOut
      \/ LookAtState \/ LookAtFill \/ UpdateState \/ RnEnd

-----------------------------------------------------------------------------
(* A consumer of the routing node terminates when it likes.                *)
ConsumerEnd(o) ==
  /\ o \in open
  /\ open' = open \ {o}
  /\ UNCHANGED <<chans, col, prod, rn, routed, skipped>>

AllEnded == rn.pc = "ended" /\ \A i \in Inputs : prod[i].pc = "ended"

Ended == AllEnded /\ UNCHANGED vars

Next == \/ \E i \in Inputs : Producer(i)
        \/ Rn \/ CollectorSpurious
        \/ \E o \in Outputs : ConsumerEnd(o)
        \/ Ended

Fairness == WF_vars(Rn) /\ \A i \in Inputs : WF_vars(Producer(i))

Spec == Init /\ [][Next]_vars
FairSpec == Spec /\ Fairness

-----------------------------------------------------------------------------
(* Safety.                                                                 *)

(* The collector counts the messages in the inputs, but for those of a     *)
(* write that has stored its message and not yet raised the collector.  A  *)
(* message is known by its input and its place in the ring.                *)
Stored == UNION {{i} \X (1 .. Len(chans[i].fifo)) : i \in Inputs}
Uncounted == {i \in Inputs : prod[i].pc = "stored" /\ ~chans[i].overwritten}

CollectorAgrees == col.count = Cardinality(Stored) - Cardinality(Uncounted)

(* What smx_net_collector_read logs as "collector is ready but count is 0" *)
(* and "no msg ready in collector" does not happen, and the routing node   *)
(* sleeps on its collector only, never on one of its inputs.               *)
ReadNeverFails ==
  /\ ~rn.failed
  /\ rn.pc # "sleepCh"

(* No wake-up of the collector is lost: the routing node sleeps only while *)
(* the collector is empty and PENDING, and the one message an input may    *)
(* have then is one its producer is about to raise the collector for.      *)
CollectorWakeup ==
  col.waiting => /\ rn.pc = "sleep" /\ col.state = "PENDING"
                 /\ \A i \in Inputs : /\ Len(chans[i].fifo) <= 1
                                      /\ chans[i].fifo # <<>> => i \in Uncounted

(* A routing node with a consumer left terminates only when every producer *)
(* has and when all that was written to it has been read.                  *)
DrainsBeforeEnd ==
  rn.pc \in {"term", "ended"} /\ open # {} =>
    \A i \in Inputs : chans[i].source.state = "END" /\ chans[i].fifo = <<>>

(* End to end: the last message written gets through whatever the          *)
(* channel's type, and of an input that blocks its producer every message  *)
(* does, once and in the order of the writes.                              *)
SeqsOf(o, i) == {routed[o][k].seq : k \in {n \in DOMAIN routed[o] :
                                             routed[o][n].input = i}}
InOrder(o, i) ==
  \A k, n \in DOMAIN routed[o] :
    k < n /\ routed[o][k].input = i /\ routed[o][n].input = i =>
      routed[o][k].seq < routed[o][n].seq

AllRouted ==
  rn.pc = "ended" => \A o \in open, i \in Inputs :
    /\ prod[i].created > 0 => prod[i].created \in SeqsOf(o, i)
    /\ ~DecoupledIn(chans[i]) => /\ SeqsOf(o, i) = 1..prod[i].created
                                 /\ InOrder(o, i)

(* Every output gets the same messages in the same order: the outputs that *)
(* still have a consumer never differ by more than the message being       *)
(* written, and nothing is read before all of them have it.                *)
OutputsAgree ==
  \A o, p \in open : o < p =>
    LET a == routed[o]
        b == routed[p]
    IN  b = a \/ (rn.pc = "write" /\ a = Append(b, rn.msg))

(* box_smx_rn.h: the routing node remembers the last index "in order to    *)
(* provide fairness".  An input with a message is passed over at most once *)
(* for every other input.                                                  *)
BoundedBypass == \A i \in Inputs : skipped[i] <= N - 1

-----------------------------------------------------------------------------
(* Liveness.                                                               *)

(* The routing node terminates once its producers have (changelog 0.7.1),  *)
(* and no producer is left blocked when it does.                           *)
EverybodyEnds == <>[]AllEnded
=============================================================================
