------------------------- MODULE SmxRoutingNodeProofs -------------------------
(***************************************************************************)
(* Any number of inputs of any length, any number of outputs: the routing  *)
(* node serves its inputs fairly and its outputs alike; and if none of its *)
(* inputs has a decoupled read end, its collector counts right, no wake-up *)
(* is lost, no read fails, and everything is routed before it ends.        *)
(***************************************************************************)
EXTENDS SmxRoutingNode, SmxFifoProofs, FiniteSetTheorems

(* No input has a decoupled read end.                                      *)
Coupled == \A kind \in Kinds : \A i \in Inputs : kind[i].type \in {"FIFO", "D_FIFO"}

(* Where the routing node is in its loops.                                 *)
Loops ==
  /\ rn.pc = "scan" => /\ rn.idx \in Inputs /\ rn.left > 0
                       /\ (rn.idx - rn.last - 1) % N = N - rn.left
  /\ rn.pc = "write" => /\ rn.msg \in [input : Inputs, seq : Nat]
                        /\ rn.idx < M
  /\ rn.pc = "state" => rn.idx <= N /\ rn.done <= rn.idx
  /\ rn.pc = "fill" => rn.idx < N /\ rn.done <= rn.idx

Typed == TypeOK /\ Loops

(* An input that has been passed over comes the sooner.                    *)
Waited == \A i \in Inputs : skipped[i] + ((i - rn.last - 1) % N) <= N - 1

(* The outputs before the one being written to are a message ahead.        *)
Alike ==
  \A o, p \in open : o < p =>
    routed[o] = IF rn.pc = "write" /\ o < rn.idx /\ rn.idx <= p
                THEN Append(routed[p], rn.msg) ELSE routed[p]

(* A channel with a coupled read end between its threads.                  *)
FitsAt(i) ==
  LET c == chans[i]
  IN  /\ ~DecoupledOut(c) /\ ~c.copied
      /\ ~DecoupledIn(c) => ~c.overwritten
      /\ Len(c.fifo) <= c.length
      /\ ~DecoupledIn(c) /\ c.sink.state \notin {"PENDING", "END"} => ~Full(c)
      /\ c.source.state = "PENDING" => c.fifo = <<>> \/ ChLocked(i)
      /\ c.source.state = "END" <=> prod[i].pc \in {"closing", "testing", "ended"}
      /\ c.sink.state = "END" => rn.pc \in {"term", "ended"}
      /\ prod[i].pc = "stored" => c.fifo # <<>>

Fits == \A i \in Inputs : FitsAt(i)

(* The collector.                                                          *)
Left == {i \in Inputs : prod[i].pc \in {"testing", "ended"}}

Counts ==
  /\ IsFiniteSet(Stored)
  /\ CollectorAgrees
  /\ col.ch_count = N - Cardinality(Left)
  /\ col.state # "UNINITIALISED"
  /\ col.state = "PENDING" => col.count = 0
  /\ col.state = "READY" => col.count > 0
  /\ col.state = "END" => Left = Inputs
  /\ col.waiting => rn.pc = "sleep" /\ col.state = "PENDING"

(* What the routing node has seen without a lock is so when it acts on it. *)
Finds ==
  /\ ReadNeverFails
  /\ rn.pc = "count" => col.state # "PENDING"
  /\ rn.pc = "scan" => \E i \in Inputs : chans[i].fifo # <<>>
                                          /\ (i - rn.idx) % N < rn.left
  /\ rn.pc = "read" => chans[rn.last].fifo # <<>>

Empty(i) == chans[i].source.state = "END" /\ chans[i].fifo = <<>>

Drains ==
  /\ DrainsBeforeEnd
  /\ rn.pc = "fill" => chans[rn.idx].source.state = "END"
  /\ rn.pc \in {"state", "fill"} /\ rn.done = rn.idx =>
       \A i \in Inputs : i < rn.idx => Empty(i)

(* The messages of an input on their way to output o.                      *)
Accepted(i) == IF prod[i].pc = "wait" THEN prod[i].created - 1
                                      ELSE prod[i].created
Taken(i) == Accepted(i) - Len(chans[i].fifo)
InHand(o, i) == rn.pc = "write" /\ rn.msg.input = i /\ rn.idx <= o

LastOnWay(o, i) ==
  \/ Accepted(i) = 0
  \/ Accepted(i) \in SeqsOf(o, i)
  \/ InHand(o, i) /\ rn.msg.seq = Accepted(i)
  \/ \E k \in DOMAIN chans[i].fifo : chans[i].fifo[k].seq = Accepted(i)

AllOnWay(o, i) ==
  /\ \A k \in DOMAIN chans[i].fifo : chans[i].fifo[k].seq = Taken(i) + k
  /\ Taken(i) >= 0
  /\ InHand(o, i) => rn.msg.seq = Taken(i) /\ Taken(i) > 0
  /\ SeqsOf(o, i) = 1 .. (IF InHand(o, i) THEN Taken(i) - 1 ELSE Taken(i))
  /\ InOrder(o, i)

StreamAt(o, i) ==
  /\ LastOnWay(o, i)
  /\ ~DecoupledIn(chans[i]) => AllOnWay(o, i)

Streams ==
  \A i \in Inputs : /\ prod[i].pc = "wait" => prod[i].created > 0
                    /\ \A o \in open : StreamAt(o, i)

FairInv == Typed /\ Waited /\ Alike
CoupledInv == Typed /\ Fits /\ Counts /\ Finds /\ Drains /\ Streams
-----------------------------------------------------------------------------
(* Helpers.                                                                *)

(* How far it is from one input to another.                                *)
LEMMA Distances ==
  ASSUME NEW i \in Inputs, NEW j \in Inputs
  PROVE  /\ (j - i - 1) % N = IF j > i THEN j - i - 1 ELSE j - i - 1 + N
         /\ (j - i) % N = IF j >= i THEN j - i ELSE j - i + N
<1>1. N \in Nat \ {0} /\ i \in 0 .. N - 1 /\ j \in 0 .. N - 1
  BY RoutingAssumption DEF Inputs
<1>2. ASSUME NEW x \in Int, x >= 0, x < N PROVE x % N = x
  BY <1>1, <1>2
<1>3. ASSUME NEW x \in Int, x < 0, x >= -N PROVE x % N = x + N
  BY <1>1, <1>3
<1>4. (j - i - 1) % N = IF j > i THEN j - i - 1 ELSE j - i - 1 + N
  BY <1>1, <1>2, <1>3
<1>5. (j - i) % N = IF j >= i THEN j - i ELSE j - i + N
  BY <1>1, <1>2, <1>3
<1> QED BY <1>4, <1>5

(* Going round the inputs.                                                 *)
LEMMA Turns ==
  ASSUME NEW i \in Inputs, NEW j \in Inputs
  PROVE  /\ N \in Nat \ {0} /\ (j - i - 1) % N \in 0 .. N - 1
         /\ (j - i - 1) % N = N - 1 <=> j = i
         /\ Succ(i) = (IF i < N - 1 THEN i + 1 ELSE 0) /\ Succ(i) \in Inputs
         /\ (Succ(i) - i - 1) % N = 0
         /\ (j - i - 1) % N < N - 1 => (Succ(j) - i - 1) % N = ((j - i - 1) % N) + 1
<1>1. N \in Nat \ {0} /\ i \in 0 .. N - 1 /\ j \in 0 .. N - 1
  BY RoutingAssumption DEF Inputs
<1>2. ASSUME NEW x \in Int, x >= 0, x < N PROVE x % N = x
  BY <1>1, <1>2
<1>3. ASSUME NEW x \in Int, x < 0, x >= -N PROVE x % N = x + N
  BY <1>1, <1>3
<1>4. (j - i - 1) % N = IF j > i THEN j - i - 1 ELSE j - i - 1 + N
  BY Distances
<1>6. Succ(i) = IF i < N - 1 THEN i + 1 ELSE 0
  BY <1>1, <1>2 DEF Succ
<1>7. Succ(i) \in Inputs /\ Succ(j) = IF j < N - 1 THEN j + 1 ELSE 0
  BY <1>1, <1>2, <1>6 DEF Succ, Inputs
<1>8. (Succ(i) - i - 1) % N = 0
  BY <1>1, <1>2, <1>3, <1>6
<1>9. (j - i - 1) % N < N - 1 => (Succ(j) - i - 1) % N = ((j - i - 1) % N) + 1
  <2>1. CASE j < N - 1
    <3>1. Succ(j) - i - 1 = j + 1 - i - 1
      BY <1>1, <1>7, <2>1
    <3>2. (j + 1 - i - 1) % N = IF j + 1 > i THEN j + 1 - i - 1 ELSE j + 1 - i - 1 + N
      BY <1>1, <1>2, <1>3, <2>1
    <3> QED BY <1>1, <1>4, <2>1, <3>1, <3>2
  <2>2. CASE j = N - 1
    <3>1. Succ(j) - i - 1 = -i - 1
      BY <1>1, <1>7, <2>2
    <3>2. (-i - 1) % N = -i - 1 + N
      BY <1>1, <1>3
    <3> QED BY <1>1, <1>4, <2>2, <3>1, <3>2
  <2> QED BY <1>1, <2>1, <2>2
<1> QED BY <1>1, <1>4, <1>6, <1>7, <1>8, <1>9

CollectorRecord == [count : Int, ch_count : Int, state : EndState, waiting : BOOLEAN]

(* The collector stays a collector, and END stays END.                     *)
LEMMA CollectorTypes ==
  ASSUME NEW c \in CollectorRecord,
         NEW s \in EndState
  PROVE  LET d == ChangeCollectorState(c, s)
         IN  /\ d \in CollectorRecord
             /\ d.count = c.count /\ d.ch_count = c.ch_count
             /\ d.state = IF c.state = "END" THEN "END" ELSE s
             /\ d.waiting => c.waiting /\ d.state = c.state
BY DEF ChangeCollectorState, CollectorRecord

(* A message more raises the collector.                                    *)
LEMMA RaiseEffect ==
  ASSUME NEW c \in CollectorRecord
  PROVE  LET d == CollectorRaise(c)
         IN  /\ d \in CollectorRecord
             /\ d.count = c.count + 1 /\ d.ch_count = c.ch_count
             /\ d.state = IF c.state = "END" THEN "END" ELSE "READY"
             /\ d.waiting => c.waiting /\ d.state = c.state
<1> DEFINE e == [c EXCEPT !.count = @ + 1]
<1>1. /\ e \in CollectorRecord
      /\ e.count = c.count + 1 /\ e.ch_count = c.ch_count /\ e.state = c.state
      /\ e.waiting = c.waiting
  BY DEF CollectorRecord
<1>2. CollectorRaise(c) = ChangeCollectorState(e, "READY")
  BY DEF CollectorRaise
<1> HIDE DEF e
<1> QED BY <1>1, <1>2, CollectorTypes DEF EndState

(* A message less lowers it, and makes it wait when that was the last.     *)
LEMMA LowerEffect ==
  ASSUME NEW c \in CollectorRecord
  PROVE  LET d == CollectorLower(c)
         IN  /\ d \in CollectorRecord
             /\ d.count = c.count - 1 /\ d.ch_count = c.ch_count
             /\ d.state = IF c.count = 1 /\ c.state # "END" THEN "PENDING"
                                                            ELSE c.state
             /\ d.waiting => c.waiting /\ d.state = c.state
<1> DEFINE e == [c EXCEPT !.count = @ - 1]
<1>1. /\ e \in CollectorRecord
      /\ e.count = c.count - 1 /\ e.ch_count = c.ch_count /\ e.state = c.state
      /\ e.waiting = c.waiting
  BY DEF CollectorRecord
<1>2. CollectorLower(c) = IF e.count = 0 THEN ChangeCollectorState(e, "PENDING")
                                         ELSE e
  BY DEF CollectorLower
<1> HIDE DEF e
<1> QED BY <1>1, <1>2, CollectorTypes DEF EndState

(* What a read returns is a message or none.                               *)
LEMMA ReadMsgType ==
  ASSUME NEW c \in Channel
  PROVE  ChannelReadMsg(c) \in Message \union {NoMsg}
BY DEF ChannelReadMsg, FifoReadMsg, FifoDReadMsg, Channel

-----------------------------------------------------------------------------
(* Types.                                                                  *)

RnRecord == [pc : RnPc, idx : Nat, left : 0..N, last : Inputs, done : 0..N,
             failed : BOOLEAN, msg : [input : Inputs, seq : Nat] \union {NoMsg}]

(* The routing node field by field, so that a step names all it changes.   *)
RnAt(pc, idx, left, last, done, failed, msg) ==
  [pc |-> pc, idx |-> idx, left |-> left, last |-> last, done |-> done,
   failed |-> failed, msg |-> msg]

(* The types hold at the start ...                                         *)
LEMMA TypedInit == Init => Typed
<1> SUFFICES ASSUME Init PROVE Typed
  OBVIOUS
<1>1. chans \in [Inputs -> Channel]
  <2>1. PICK kind \in Kinds :
          chans = [i \in Inputs |-> ChannelCreate(kind[i].type, kind[i].length,
                                                  "none", FALSE, FALSE)]
    BY DEF Init
  <2>2. \A i \in Inputs : kind[i].type \in ChannelType /\ kind[i].length \in Nat \ {0}
    BY KindsAssumption
  <2>3. ASSUME NEW t \in ChannelType, NEW l \in Nat \ {0}
        PROVE  ChannelCreate(t, l, "none", FALSE, FALSE) \in Channel
    BY DEF ChannelCreate, NewEnd, Channel, ChannelEnd, EndState, EndErr, GuardState
  <2> QED BY <2>1, <2>2, <2>3
<1>2. N \in Nat \ {0} /\ 0 \in Inputs /\ MaxWrites \in Nat
  BY RoutingAssumption DEF Inputs
<1> QED
  BY <1>1, <1>2 DEF Init, Typed, TypeOK, Loops, ProdPc, RnPc, EndState

(* A step of a producer keeps the types.                                   *)
LEMMA TypedProducer ==
  ASSUME Typed, NEW i \in Inputs, Producer(i)
  PROVE  /\ Typed' /\ UNCHANGED <<rn, routed, open, skipped>>
         /\ \A j \in Inputs \ {i} : chans'[j] = chans[j] /\ prod'[j] = prod[j]
<1>1. /\ chans \in [Inputs -> Channel] /\ chans[i] \in Channel
      /\ prod \in [Inputs -> [pc : ProdPc, created : 0..MaxWrites]]
      /\ col \in CollectorRecord
  BY DEF Typed, TypeOK, CollectorRecord
<1>2. ASSUME NEW c \in Channel, chans' = [chans EXCEPT ![i] = c]
      PROVE  /\ chans' \in [Inputs -> Channel]
             /\ \A j \in Inputs \ {i} : chans'[j] = chans[j]
  BY <1>1, <1>2
<1>3. ASSUME NEW pc \in ProdPc, GoTo(i, pc)
      PROVE  /\ prod' \in [Inputs -> [pc : ProdPc, created : 0..MaxWrites]]
             /\ \A j \in Inputs \ {i} : prod'[j] = prod[j]
  BY <1>1, <1>3 DEF GoTo
<1>4. ASSUME NEW pc \in ProdPc, WriteTo(i, pc), WriterTests(i)
      PROVE  /\ prod' \in [Inputs -> [pc : ProdPc, created : 0..MaxWrites]]
             /\ \A j \in Inputs \ {i} : prod'[j] = prod[j]
  <2>1. Writing(i) \in 0..MaxWrites
    BY <1>1, <1>4, RoutingAssumption DEF WriterTests, Writing
  <2> QED BY <1>1, <1>4, <2>1 DEF WriteTo
<1>5. ASSUME chans' \in [Inputs -> Channel],
             prod' \in [Inputs -> [pc : ProdPc, created : 0..MaxWrites]],
             col' \in CollectorRecord,
             UNCHANGED <<rn, routed, open, skipped>>
      PROVE  Typed'
  BY <1>5 DEF Typed, TypeOK, Loops, CollectorRecord
<1>6. CASE WriteWait(i)
  <2>1. [chans[i] EXCEPT !.sink.waiting = TRUE] \in Channel
    BY <1>1 DEF Channel, ChannelEnd
  <2>2. chans' = [chans EXCEPT ![i] = [chans[i] EXCEPT !.sink.waiting = TRUE]]
    BY <1>1, <1>6 DEF WriteWait
  <2>3. WriteTo(i, "wait") /\ WriterTests(i) /\ UNCHANGED <<col, rn, routed, open, skipped>>
    BY <1>6 DEF WriteWait
  <2> QED BY <1>1, <1>2, <1>4, <1>5, <2>1, <2>2, <2>3 DEF ProdPc
<1>7. CASE WriteAbort(i)
  BY <1>1, <1>2, <1>4, <1>5, <1>7, SetWriteErrType DEF WriteAbort, ProdPc, EndErr
<1>8. CASE WriteStore(i)
  <2> DEFINE m == [seq |-> Writing(i), prevent_backup |-> FALSE]
  <2>1. m \in Message
    BY <1>1, RoutingAssumption DEF Writing, Message
  <2>2. StoreMsg(chans[i], m) \in Channel
    BY <1>1, <2>1, FifoWriteType, DFifoWriteType DEF StoreMsg
  <2>3. /\ chans' = [chans EXCEPT ![i] = StoreMsg(chans[i], m)]
        /\ WriteTo(i, "stored") /\ WriterTests(i) /\ UNCHANGED <<col, rn, routed, open, skipped>>
    BY <1>8 DEF WriteStore
  <2> HIDE DEF m
  <2> QED BY <1>1, <1>2, <1>4, <1>5, <2>2, <2>3 DEF ProdPc
<1>9. CASE WriteCount(i)
  BY <1>1, <1>3, <1>5, <1>9, RaiseEffect DEF WriteCount, ProdPc
<1>10. CASE WriteNotify(i)
  BY <1>1, <1>2, <1>3, <1>5, <1>10, ChangeReadStateType DEF WriteNotify, ProdPc, EndState
<1>11. CASE ProducerEnd(i)
  BY <1>1, <1>2, <1>3, <1>5, <1>11, ChangeReadStateType
     DEF ProducerEnd, TerminateSource, ProdPc, EndState
<1>12. CASE CollectorLeave(i)
  <2>1. col' \in CollectorRecord
    BY <1>1, <1>12 DEF CollectorLeave, CollectorRecord
  <2> QED BY <1>1, <1>3, <1>5, <1>12, <2>1 DEF CollectorLeave, ProdPc
<1>13. CASE CollectorTerminate(i)
  <2>1. col' \in CollectorRecord
    BY <1>1, <1>13, CollectorTypes DEF CollectorTerminate, EndState
  <2> QED BY <1>1, <1>3, <1>5, <1>13, <2>1 DEF CollectorTerminate, ProdPc
<1> QED
  BY <1>6, <1>7, <1>8, <1>9, <1>10, <1>11, <1>12, <1>13 DEF Producer

(* A step of the routing node goes on in its loops and changes none of the *)
(* producers.                                                              *)
LEMMA TypedRn ==
  ASSUME Typed, Rn \/ CollectorSpurious
  PROVE  Typed' /\ UNCHANGED <<prod, open>>
<1> DEFINE At(pc, idx) == RnAt(pc, idx, rn.left, rn.last, rn.done, rn.failed, rn.msg)
<1>1. /\ chans \in [Inputs -> Channel] /\ col \in CollectorRecord /\ rn \in RnRecord
      /\ routed \in [Outputs -> Seq([input : Inputs, seq : Nat])]
      /\ skipped \in [Inputs -> Nat] /\ Loops
  BY DEF Typed, TypeOK, CollectorRecord, RnRecord
<1>2. /\ rn.pc \in RnPc /\ rn.idx \in Nat /\ rn.left \in 0..N /\ rn.last \in Inputs
      /\ rn.done \in 0..N /\ rn.failed \in BOOLEAN
      /\ rn.msg \in [input : Inputs, seq : Nat] \union {NoMsg}
  BY <1>1 DEF RnRecord
<1>3. N \in Nat \ {0} /\ M \in Nat \ {0} /\ 0 \in Inputs /\ Inputs \subseteq Nat
  BY RoutingAssumption DEF Inputs
<1>4. ASSUME chans' \in [Inputs -> Channel], col' \in CollectorRecord, rn' \in RnRecord,
             routed' \in [Outputs -> Seq([input : Inputs, seq : Nat])],
             skipped' \in [Inputs -> Nat], UNCHANGED <<prod, open>>, Loops'
      PROVE  Typed'
  BY <1>1, <1>4 DEF Typed, TypeOK, CollectorRecord, RnRecord
<1>5. ASSUME NEW pc \in RnPc, NEW idx \in Nat, NEW left \in 0..N, NEW last \in Inputs,
             NEW done \in 0..N, NEW failed \in BOOLEAN,
             NEW msg \in [input : Inputs, seq : Nat] \union {NoMsg},
             rn' = RnAt(pc, idx, left, last, done, failed, msg)
      PROVE  /\ rn' \in RnRecord /\ rn'.pc = pc /\ rn'.idx = idx /\ rn'.left = left
             /\ rn'.last = last /\ rn'.done = done /\ rn'.msg = msg
  BY <1>5 DEF RnAt, RnRecord
<1>6. ASSUME NEW pc \in RnPc \ {"scan", "write", "state", "fill"}, NEW idx \in Nat,
             NEW failed \in BOOLEAN, NEW last \in Inputs,
             rn' = RnAt(pc, idx, rn.left, last, rn.done, failed, rn.msg)
      PROVE  rn' \in RnRecord /\ Loops'
  <2>1. rn' \in RnRecord /\ rn'.pc = pc
    BY <1>2, <1>5, <1>6
  <2> QED BY <2>1 DEF Loops
<1>7. CASE CollectorWait
  <2>1. /\ UNCHANGED <<chans, prod, routed, open, skipped>>
        /\ rn' = At("sleep", rn.idx)
        /\ col' \in CollectorRecord
    BY <1>1, <1>7 DEF CollectorWait, RnAt, RnRecord, CollectorRecord
  <2> QED BY <1>1, <1>2, <1>4, <1>6, <2>1 DEF RnPc
<1>8. CASE CollectorSpurious
  <2>1. UNCHANGED <<chans, prod, rn, routed, open, skipped>> /\ col' \in CollectorRecord
    BY <1>1, <1>8 DEF CollectorSpurious, CollectorRecord
  <2>2. Loops'
    BY <1>1, <2>1 DEF Loops
  <2> QED BY <1>1, <1>4, <2>1, <2>2
<1>9. CASE CollectorPass
  <2>1. /\ UNCHANGED <<chans, col, prod, routed, open, skipped>>
        /\ rn' = At("count", rn.idx)
    BY <1>1, <1>9 DEF CollectorPass, RnAt, RnRecord
  <2> QED BY <1>1, <1>2, <1>4, <1>6, <2>1 DEF RnPc
<1>10. CASE LookAtCount
  <2>1. UNCHANGED <<chans, col, prod, routed, open, skipped>>
    BY <1>10 DEF LookAtCount
  <2>2. CASE col.count > 0
    <3>1. rn' = RnAt("scan", Succ(rn.last), N, rn.last, rn.done, rn.failed, rn.msg)
      BY <1>1, <1>10, <2>2 DEF LookAtCount, RnAt, RnRecord
    <3>2. Succ(rn.last) \in Inputs /\ (Succ(rn.last) - rn.last - 1) % N = 0
      BY <1>2, Turns
    <3>3. /\ rn' \in RnRecord /\ rn'.pc = "scan" /\ rn'.idx = Succ(rn.last)
          /\ rn'.left = N /\ rn'.last = rn.last
      <4>1. Succ(rn.last) \in Nat
        BY <1>3, <3>2
      <4>2. N \in 0..N
        BY <1>3
      <4> QED BY <1>2, <3>1, <4>1, <4>2 DEF RnAt, RnRecord, RnPc
    <3>4. Loops'
      BY <1>3, <3>2, <3>3 DEF Loops
    <3> QED BY <1>1, <1>4, <2>1, <3>3, <3>4
  <2>3. CASE ~(col.count > 0)
    <3>1. rn' = RnAt("term", 0, rn.left, rn.last, rn.done, col.state # "END", rn.msg)
      BY <1>1, <1>10, <2>3 DEF LookAtCount, RnAt, RnRecord
    <3> QED BY <1>1, <1>2, <1>4, <1>6, <2>1, <3>1 DEF RnPc
  <2> QED BY <2>2, <2>3
<1>11. CASE ScanHit
  <2>1. rn.idx \in Inputs
    BY <1>1, <1>11 DEF ScanHit, Loops
  <2>2. /\ UNCHANGED <<chans, col, prod, routed, open>>
        /\ rn' = RnAt("read", rn.idx, rn.left, rn.idx, rn.done, rn.failed, rn.msg)
    BY <1>1, <1>11 DEF ScanHit, RnAt, RnRecord
  <2>3. skipped' \in [Inputs -> Nat]
    BY <1>1, <1>11 DEF ScanHit
  <2> QED BY <1>1, <1>2, <1>4, <1>6, <2>1, <2>2, <2>3 DEF RnPc
<1>12. CASE ScanMiss
  <2>1. /\ rn.pc = "scan" /\ rn.idx \in Inputs /\ rn.left \in 1 .. N
        /\ (rn.idx - rn.last - 1) % N = N - rn.left
        /\ UNCHANGED <<chans, col, prod, routed, open>>
        /\ skipped' = [skipped EXCEPT ![rn.idx] = 0]
    BY <1>1, <1>2, <1>3, <1>12 DEF ScanMiss, Loops
  <2>2. skipped' \in [Inputs -> Nat]
    BY <1>1, <2>1
  <2>3. CASE rn.left = 1
    <3>1. rn' = RnAt("term", 0, rn.left, rn.last, rn.done, TRUE, rn.msg)
      BY <1>1, <1>12, <2>3 DEF ScanMiss, RnAt, RnRecord
    <3> QED BY <1>1, <1>2, <1>4, <1>6, <2>1, <2>2, <3>1 DEF RnPc
  <2>4. CASE rn.left # 1
    <3>1. rn' = RnAt("scan", Succ(rn.idx), rn.left - 1, rn.last, rn.done, rn.failed,
                     rn.msg)
      BY <1>1, <1>12, <2>1, <2>4 DEF ScanMiss, RnAt, RnRecord
    <3>2. Succ(rn.idx) \in Inputs
      BY <2>1, Turns
    <3>3. (Succ(rn.idx) - rn.last - 1) % N = N - (rn.left - 1)
      <4>1. (rn.idx - rn.last - 1) % N < N - 1
        BY <1>3, <2>1, <2>4
      <4>2. (Succ(rn.idx) - rn.last - 1) % N = ((rn.idx - rn.last - 1) % N) + 1
        BY <1>2, <2>1, <4>1, Turns
      <4> QED BY <1>3, <2>1, <4>2
    <3>4. /\ rn' \in RnRecord /\ rn'.pc = "scan" /\ rn'.idx = Succ(rn.idx)
          /\ rn'.left = rn.left - 1 /\ rn'.last = rn.last
      <4>1. Succ(rn.idx) \in Nat
        BY <1>3, <3>2
      <4>2. rn.left - 1 \in 0..N
        BY <1>3, <2>1
      <4> QED BY <1>2, <3>1, <4>1, <4>2 DEF RnAt, RnRecord, RnPc
    <3>5. Loops'
      BY <1>3, <2>1, <2>4, <3>2, <3>3, <3>4 DEF Loops
    <3> QED BY <1>1, <1>4, <2>1, <2>2, <3>4, <3>5
  <2> QED BY <2>3, <2>4
<1>13. CASE ReadInput
  <2> DEFINE c == chans[rn.last]
             m == ChannelReadMsg(c)
  <2>1. c \in Channel /\ ChannelRead(c) \in Channel /\ m \in Message \union {NoMsg}
    BY <1>1, <1>2, ChannelReadType, ReadMsgType
  <2>2. CASE c.source.state = "PENDING"
    <3>1. /\ chans' = [chans EXCEPT ![rn.last] = [c EXCEPT !.source.waiting = TRUE]]
          /\ rn' = At("sleepCh", rn.idx)
          /\ UNCHANGED <<col, prod, routed, open, skipped>>
      BY <1>1, <1>13, <2>2 DEF ReadInput, RnAt, RnRecord
    <3>2. [c EXCEPT !.source.waiting = TRUE] \in Channel
      BY <2>1 DEF Channel, ChannelEnd
    <3> HIDE DEF c
    <3>3. chans' \in [Inputs -> Channel]
      BY <1>1, <3>1, <3>2
    <3> QED BY <1>1, <1>2, <1>4, <1>6, <3>1, <3>3 DEF RnPc
  <2>3. CASE c.source.state # "PENDING"
    <3>1. /\ chans' = [chans EXCEPT ![rn.last] = ChannelRead(c)]
          /\ rn' = IF m = NoMsg
                   THEN [rn EXCEPT !.pc = "term", !.idx = 0]
                   ELSE [rn EXCEPT !.pc = "write", !.idx = 0,
                           !.msg = [input |-> rn.last, seq |-> m.seq]]
          /\ col' = IF ChannelRead(c).copied THEN col ELSE CollectorLower(col)
          /\ UNCHANGED <<prod, routed, open, skipped>>
      BY <1>13, <2>3 DEF ReadInput
    <3>2. col' \in CollectorRecord
      BY <1>1, <3>1, LowerEffect
    <3>3. m # NoMsg => [input |-> rn.last, seq |-> m.seq] \in [input : Inputs, seq : Nat]
      BY <1>2, <2>1 DEF Message
    <3> HIDE DEF m, c
    <3>4. chans' \in [Inputs -> Channel]
      BY <1>1, <2>1, <3>1
    <3>5. CASE m = NoMsg
      <4>1. rn' = At("term", 0)
        BY <1>1, <3>1, <3>5 DEF RnAt, RnRecord
      <4> QED BY <1>1, <1>2, <1>4, <1>6, <3>1, <3>2, <3>4, <4>1 DEF RnPc
    <3>6. CASE m # NoMsg
      <4>1. rn' = RnAt("write", 0, rn.left, rn.last, rn.done, rn.failed,
                       [input |-> rn.last, seq |-> m.seq])
        BY <1>1, <3>1, <3>6 DEF RnAt, RnRecord
      <4>2. /\ rn' \in RnRecord /\ rn'.pc = "write" /\ rn'.idx = 0
            /\ rn'.msg = [input |-> rn.last, seq |-> m.seq]
        BY <1>2, <1>5, <3>3, <3>6, <4>1 DEF RnPc
      <4>3. Loops'
        BY <1>3, <3>3, <3>6, <4>2 DEF Loops
      <4> QED BY <1>1, <1>4, <3>1, <3>2, <3>4, <4>2, <4>3
    <3> QED BY <3>5, <3>6
  <2> QED BY <2>2, <2>3
<1>14. CASE WriteOut
  <2>1. /\ rn.pc = "write" /\ rn.msg \in [input : Inputs, seq : Nat]
        /\ rn.idx \in Outputs /\ rn.idx < M
        /\ UNCHANGED <<chans, col, prod, open, skipped>>
    BY <1>1, <1>2, <1>3, <1>14 DEF WriteOut, Loops, Outputs
  <2>2. routed' \in [Outputs -> Seq([input : Inputs, seq : Nat])]
    <3>1. routed[rn.idx] \in Seq([input : Inputs, seq : Nat])
      BY <1>1, <2>1
    <3>2. Append(routed[rn.idx], rn.msg) \in Seq([input : Inputs, seq : Nat])
      BY <2>1, <3>1
    <3>3. \/ routed' = [routed EXCEPT ![rn.idx] = Append(routed[rn.idx], rn.msg)]
          \/ routed' = routed
      BY <1>1, <1>14, <2>1 DEF WriteOut
    <3> QED BY <1>1, <3>2, <3>3
  <2>3. CASE rn.idx < M - 1
    <3>1. rn' = At("write", rn.idx + 1)
      BY <1>1, <1>14, <2>1, <2>3 DEF WriteOut, RnAt, RnRecord
    <3>2. /\ rn' \in RnRecord /\ rn'.pc = "write" /\ rn'.idx = rn.idx + 1
          /\ rn'.msg = rn.msg
      BY <1>2, <1>5, <3>1 DEF RnPc
    <3>3. Loops'
      BY <1>2, <1>3, <2>1, <2>3, <3>2 DEF Loops
    <3> QED BY <1>1, <1>4, <2>1, <2>2, <3>2, <3>3
  <2>4. CASE ~(rn.idx < M - 1)
    <3>1. rn' = RnAt("state", 0, rn.left, rn.last, 0, rn.failed, NoMsg)
      BY <1>1, <1>14, <2>4 DEF WriteOut, RnAt, RnRecord
    <3>2. rn' \in RnRecord /\ rn'.pc = "state" /\ rn'.idx = 0 /\ rn'.done = 0
      BY <1>2, <1>3, <3>1 DEF RnAt, RnRecord, RnPc
    <3>3. Loops'
      BY <1>3, <3>2 DEF Loops
    <3> QED BY <1>1, <1>4, <2>1, <2>2, <3>2, <3>3
  <2> QED BY <2>3, <2>4
<1>15. CASE LookAtState
  <2>1. /\ rn.pc = "state" /\ rn.idx < N /\ rn.done <= rn.idx
        /\ UNCHANGED <<chans, col, prod, routed, open, skipped>>
    BY <1>1, <1>15 DEF LookAtState, Loops
  <2>2. \/ rn' = At("fill", rn.idx)
        \/ rn' = At("state", rn.idx + 1)
    BY <1>1, <1>15 DEF LookAtState, RnAt, RnRecord
  <2>3. /\ rn' \in RnRecord /\ rn'.done = rn.done
        /\ \/ rn'.pc = "fill" /\ rn'.idx = rn.idx
           \/ rn'.pc = "state" /\ rn'.idx = rn.idx + 1
    <3>1. CASE rn' = At("fill", rn.idx)
      BY <1>2, <3>1 DEF RnAt, RnRecord, RnPc
    <3>2. CASE rn' = At("state", rn.idx + 1)
      <4>1. rn.idx + 1 \in Nat
        BY <1>2
      <4> QED BY <1>2, <3>2, <4>1 DEF RnAt, RnRecord, RnPc
    <3> QED BY <2>2, <3>1, <3>2
  <2>4. Loops'
    BY <1>2, <1>3, <2>1, <2>3 DEF Loops
  <2> QED BY <1>1, <1>4, <2>1, <2>3, <2>4
<1>16. CASE LookAtFill
  <2>1. /\ rn.pc = "fill" /\ rn.idx < N /\ rn.done <= rn.idx
        /\ UNCHANGED <<chans, col, prod, routed, open, skipped>>
    BY <1>1, <1>16 DEF LookAtFill, Loops
  <2>2. PICK done \in {rn.done, rn.done + 1} :
          rn' = RnAt("state", rn.idx + 1, rn.left, rn.last, done, rn.failed, rn.msg)
    BY <1>1, <1>16 DEF LookAtFill, RnAt, RnRecord
  <2>3. done \in 0..N /\ done <= rn.idx + 1
    BY <1>2, <1>3, <2>1
  <2>4. rn' \in RnRecord /\ rn'.pc = "state" /\ rn'.idx = rn.idx + 1 /\ rn'.done = done
    BY <1>2, <2>2, <2>3 DEF RnAt, RnRecord, RnPc
  <2>5. Loops'
    BY <1>2, <1>3, <2>1, <2>3, <2>4 DEF Loops
  <2> QED BY <1>1, <1>4, <2>1, <2>4, <2>5
<1>17. CASE UpdateState
  <2>1. /\ UNCHANGED <<chans, col, prod, routed, open, skipped>>
        /\ rn' = At("term", 0) \/ rn' = At("collector", 0)
    BY <1>1, <1>17 DEF UpdateState, RnAt, RnRecord
  <2> QED BY <1>1, <1>2, <1>4, <1>6, <2>1 DEF RnPc
<1>18. CASE RnEnd
  <2>1. /\ chans' = [chans EXCEPT ![rn.idx] = ChangeWriteState(chans[rn.idx], "END")]
        /\ rn.pc = "term" /\ rn.idx \in Inputs
        /\ UNCHANGED <<col, prod, routed, open, skipped>>
    BY <1>2, <1>3, <1>18 DEF RnEnd, TerminateSink, Inputs
  <2>2. ChangeWriteState(chans[rn.idx], "END") \in Channel
    BY <1>1, <2>1, ChangeWriteStateType DEF EndState
  <2>3. rn' = At("ended", rn.idx + 1) \/ rn' = At("term", rn.idx + 1)
    BY <1>1, <1>18 DEF RnEnd, RnAt, RnRecord
  <2> QED BY <1>1, <1>2, <1>4, <1>6, <2>1, <2>2, <2>3 DEF RnPc
<1>19. UNCHANGED <<prod, open>>
  BY DEF Rn, CollectorWait, CollectorSpurious, CollectorPass, LookAtCount, ScanHit,
         ScanMiss, ReadInput, WriteOut, LookAtState, LookAtFill, UpdateState, RnEnd
<1> QED
  BY <1>7, <1>8, <1>9, <1>10, <1>11, <1>12, <1>13, <1>14, <1>15, <1>16, <1>17, <1>18,
     <1>19 DEF Rn

(* ... and through every step.                                             *)
LEMMA TypedStep == Typed /\ [Next]_vars => Typed'
<1> SUFFICES ASSUME Typed, [Next]_vars PROVE Typed'
  OBVIOUS
<1>1. CASE \E o \in Outputs : ConsumerEnd(o)
  BY <1>1 DEF ConsumerEnd, Typed, TypeOK, Loops
<1>2. CASE UNCHANGED vars
  BY <1>2 DEF vars, Typed, TypeOK, Loops
<1> QED BY <1>1, <1>2, TypedProducer, TypedRn DEF Next, Ended

(* So the variables always have their types.                               *)
LEMMA Typing == Spec => []Typed
BY TypedInit, TypedStep, PTL DEF Spec

(* The type invariant of SmxRoutingNode, for inputs of every type.         *)
THEOREM TypeCorrect == Spec => []TypeOK
<1>1. Typed => TypeOK
  BY DEF Typed
<1> QED BY Typing, <1>1, PTL

-----------------------------------------------------------------------------
(* Fairness among the inputs.                                              *)

(* Only a read counts who has been passed over.                            *)
LEMMA LastFrame ==
  ASSUME Typed, Next, ~ScanHit, ~ScanMiss
  PROVE  skipped' = skipped /\ rn'.last = rn.last
<1>1. rn \in RnRecord
  BY DEF Typed, TypeOK, RnRecord
<1>2. CASE \E i \in Inputs : Producer(i)
  BY <1>2 DEF Producer, WriteWait, WriteAbort, WriteStore, WriteCount, WriteNotify,
              ProducerEnd, CollectorLeave, CollectorTerminate
<1>3. CASE Rn
  BY <1>1, <1>3 DEF Rn, RnRecord, CollectorWait, CollectorPass, LookAtCount, ReadInput, WriteOut, LookAtState, LookAtFill,
                    UpdateState, RnEnd
<1>4. CASE CollectorSpurious \/ \E o \in Outputs : ConsumerEnd(o)
  BY <1>4 DEF CollectorSpurious, ConsumerEnd
<1>5. CASE Ended
  BY <1>5 DEF Ended, vars
<1> QED BY <1>2, <1>3, <1>4, <1>5 DEF Next

(* The nearer an input is to its turn the more often it may have been      *)
(* passed over: a read that passes over it brings its turn nearer.         *)
LEMMA WaitedStep == Typed /\ Waited /\ [Next]_vars => Waited'
<1> SUFFICES ASSUME Typed, Waited, [Next]_vars, NEW i \in Inputs
             PROVE  skipped'[i] + ((i - rn'.last - 1) % N) <= N - 1
  BY DEF Waited
<1> DEFINE Distance == (i - rn.last - 1) % N
<1>1. /\ rn \in RnRecord /\ rn.last \in Inputs /\ skipped \in [Inputs -> Nat]
      /\ N \in Nat \ {0} /\ Inputs = 0 .. N - 1
      /\ skipped[i] + Distance <= N - 1
  BY RoutingAssumption DEF Typed, TypeOK, RnRecord, Waited, Inputs
<1>2. Distance \in 0 .. N - 1
  BY <1>1, Turns
<1>3. CASE ScanHit
  <2>1. /\ rn.pc = "scan" /\ rn.idx \in Inputs /\ rn.left > 0
        /\ (rn.idx - rn.last - 1) % N = N - rn.left
    BY <1>3 DEF ScanHit, Typed, Loops
  <2>2. rn'.last = rn.idx
    BY <1>1, <1>3 DEF ScanHit, RnRecord
  <2>3. (i - rn.idx - 1) % N \in 0 .. N - 1
    BY <2>1, Turns
  <2>4. CASE i # rn.idx /\ (i - rn.idx) % N < rn.left /\ skipped'[i] = skipped[i] + 1
    <3> DEFINE Next_ == (i - rn.idx - 1) % N
               Now == (i - rn.idx) % N
               Gone == (rn.idx - rn.last - 1) % N
    <3>1. /\ Distance = IF i > rn.last THEN i - rn.last - 1 ELSE i - rn.last - 1 + N
          /\ Gone = IF rn.idx > rn.last THEN rn.idx - rn.last - 1
                                        ELSE rn.idx - rn.last - 1 + N
          /\ Next_ = IF i > rn.idx THEN i - rn.idx - 1 ELSE i - rn.idx - 1 + N
          /\ Now = IF i >= rn.idx THEN i - rn.idx ELSE i - rn.idx + N
      <4>1. Distance = IF i > rn.last THEN i - rn.last - 1 ELSE i - rn.last - 1 + N
        BY <1>1, Distances
      <4>2. Gone = IF rn.idx > rn.last THEN rn.idx - rn.last - 1
                                       ELSE rn.idx - rn.last - 1 + N
        BY <1>1, <2>1, Distances
      <4>3. /\ Next_ = IF i > rn.idx THEN i - rn.idx - 1 ELSE i - rn.idx - 1 + N
            /\ Now = IF i >= rn.idx THEN i - rn.idx ELSE i - rn.idx + N
        BY <2>1, Distances
      <4> QED BY <4>1, <4>2, <4>3
    <3>2. rn.left \in 0..N
      BY <1>1 DEF RnRecord
    <3>3. Gone = N - rn.left /\ Now < rn.left /\ skipped[i] \in Nat
      BY <1>1, <2>1, <2>4
    <3>4. /\ i \in 0 .. N - 1 /\ rn.idx \in 0 .. N - 1 /\ rn.last \in 0 .. N - 1
          /\ i # rn.idx
      BY <1>1, <2>1, <2>4
    <3> HIDE DEF Distance, Next_, Now, Gone
    <3>5. skipped[i] + 1 + Next_ <= N - 1
      <4>1. skipped[i] + Distance <= N - 1 /\ N \in Nat
        BY <1>1
      <4> QED BY <3>1, <3>2, <3>3, <3>4, <4>1
    <3> QED BY <2>2, <2>4, <3>5 DEF Next_
  <2>5. CASE skipped'[i] = 0
    BY <1>1, <2>2, <2>3, <2>5
  <2> QED BY <1>1, <1>3, <2>4, <2>5 DEF ScanHit
<1>4. CASE ScanMiss
  <2>1. rn.idx \in Inputs
    BY <1>4 DEF ScanMiss, Typed, Loops
  <2>2. rn'.last = rn.last
    BY <1>1, <1>4 DEF ScanMiss, RnRecord
  <2>3. skipped'[i] \in {0, skipped[i]}
    BY <1>1, <1>4, <2>1 DEF ScanMiss
  <2> HIDE DEF Distance
  <2>4. skipped'[i] + Distance <= N - 1
    BY <1>1, <1>2, <2>3
  <2> QED BY <2>2, <2>4 DEF Distance
<1>5. CASE UNCHANGED vars
  BY <1>1, <1>5 DEF vars
<1> QED BY <1>1, <1>3, <1>4, <1>5, LastFrame

(* The longer an input has been passed over, the sooner its turn comes.    *)
LEMMA WaitedAlways == Spec => []Waited
<1>1. Init => Waited
  <2> SUFFICES ASSUME Init, NEW i \in Inputs
               PROVE  skipped[i] + ((i - rn.last - 1) % N) <= N - 1
    BY DEF Waited
  <2>1. rn.last \in Inputs /\ rn.last = 0 /\ skipped[i] = 0
    BY RoutingAssumption DEF Init, Inputs
  <2>2. (i - rn.last - 1) % N \in 0 .. N - 1
    BY <2>1, Turns
  <2> QED BY <2>1, <2>2, RoutingAssumption
<1> QED BY <1>1, Typing, WaitedStep, PTL DEF Spec

(* No input with a message is passed over more than once for every other   *)
(* input, whatever the types of the inputs and however many there are.     *)
THEOREM BypassBound == Spec => []BoundedBypass
<1>1. Typed /\ Waited => BoundedBypass
  <2> SUFFICES ASSUME Typed, Waited, NEW i \in Inputs PROVE skipped[i] <= N - 1
    BY DEF BoundedBypass
  <2>1. /\ rn.last \in Inputs /\ skipped[i] \in Nat /\ N \in Nat
        /\ skipped[i] + ((i - rn.last - 1) % N) <= N - 1
    BY RoutingAssumption DEF Typed, TypeOK, Waited
  <2>2. (i - rn.last - 1) % N \in 0 .. N - 1
    BY <2>1, Turns
  <2> QED BY <2>1, <2>2
<1> QED BY <1>1, Typing, WaitedAlways, PTL

-----------------------------------------------------------------------------
(* The outputs.                                                            *)

(* Only WriteOut writes to an output; a read that finds a message starts   *)
(* at the first of them.                                                   *)
LEMMA OutputFrame ==
  ASSUME Typed, Next, ~WriteOut
  PROVE  /\ routed' = routed /\ open' \subseteq open
         /\ \/ rn' = rn
            \/ /\ rn.pc # "write"
               /\ rn'.pc = "write" => rn'.idx = 0
<1>1. rn \in RnRecord
  BY DEF Typed, TypeOK, RnRecord
<1>2. CASE \E i \in Inputs : Producer(i)
  BY <1>2 DEF Producer, WriteWait, WriteAbort, WriteStore, WriteCount, WriteNotify,
              ProducerEnd, CollectorLeave, CollectorTerminate
<1>3. CASE Rn
  <2>1. CASE CollectorWait \/ CollectorPass \/ LookAtCount \/ ScanHit \/ ScanMiss
    BY <1>1, <2>1 DEF RnRecord, CollectorWait, CollectorPass, RnTests, LookAtCount,
                      ScanHit, ScanMiss
  <2>2. CASE ReadInput
    BY <1>1, <2>2 DEF RnRecord, ReadInput
  <2>3. CASE LookAtState \/ LookAtFill \/ UpdateState \/ RnEnd
    BY <1>1, <2>3 DEF RnRecord, LookAtState, LookAtFill, UpdateState, RnEnd
  <2> QED BY <1>3, <2>1, <2>2, <2>3 DEF Rn
<1>4. CASE CollectorSpurious \/ \E o \in Outputs : ConsumerEnd(o)
  BY <1>4 DEF CollectorSpurious, ConsumerEnd
<1>5. CASE Ended
  BY <1>5 DEF Ended, vars
<1> QED BY <1>2, <1>3, <1>4, <1>5 DEF Next

(* A write to one output.                                                  *)
LEMMA WriteOutEffect ==
  ASSUME Typed, WriteOut
  PROVE  /\ rn.pc = "write" /\ rn.idx \in Outputs /\ UNCHANGED <<chans, col, prod, open, skipped>>
         /\ \A o \in Outputs : routed'[o] = IF o = rn.idx /\ o \in open
                                            THEN Append(routed[o], rn.msg)
                                            ELSE routed[o]
         /\ \/ /\ rn.idx < M - 1 /\ rn'.pc = "write"
               /\ rn'.idx = rn.idx + 1 /\ rn'.msg = rn.msg
            \/ rn.idx = M - 1 /\ rn'.pc = "state" /\ rn'.idx = 0 /\ rn'.done = 0
<1>1. /\ rn \in RnRecord /\ rn.pc = "write" /\ rn.idx < M /\ rn.idx \in Nat
      /\ M \in Nat \ {0} /\ routed \in [Outputs -> Seq([input : Inputs, seq : Nat])]
  BY RoutingAssumption DEF Typed, TypeOK, RnRecord, Loops, WriteOut
<1>2. rn.idx \in Outputs
  BY <1>1 DEF Outputs
<1>3. \/ /\ rn.idx < M - 1 /\ rn'.pc = "write"
         /\ rn'.idx = rn.idx + 1 /\ rn'.msg = rn.msg
      \/ rn.idx = M - 1 /\ rn'.pc = "state" /\ rn'.idx = 0 /\ rn'.done = 0
  <2>1. CASE rn.idx < M - 1
    BY <1>1, <2>1 DEF WriteOut, RnRecord
  <2>2. CASE ~(rn.idx < M - 1)
    <3>1. rn.idx = M - 1
      BY <1>1, <2>2
    <3> QED BY <1>1, <2>2, <3>1 DEF WriteOut, RnRecord
  <2> QED BY <2>1, <2>2
<1> QED BY <1>1, <1>2, <1>3 DEF WriteOut

(* The outputs are written in turn by one thread: every step keeps them    *)
(* alike.                                                                  *)
LEMMA AlikeStep == Typed /\ Alike /\ [Next]_vars => Alike'
<1> SUFFICES ASSUME Typed, Alike, [Next]_vars,
                    NEW o \in open', NEW p \in open', o < p
             PROVE  routed'[o] = IF rn'.pc = "write" /\ o < rn'.idx /\ rn'.idx <= p
                                 THEN Append(routed'[p], rn'.msg) ELSE routed'[p]
  BY DEF Alike
<1>1. Typed' /\ Outputs \subseteq Nat /\ M \in Nat
  BY TypedStep, RoutingAssumption DEF Outputs
<1>2. o \in Outputs /\ p \in Outputs /\ o \in 0 .. M - 1 /\ p \in 0 .. M - 1
  BY <1>1 DEF Typed, TypeOK, Outputs
<1>3. CASE Next /\ ~WriteOut
  <2>1. o \in open /\ p \in open /\ routed' = routed
    BY <1>3, OutputFrame
  <2>2. routed[o] = IF rn.pc = "write" /\ o < rn.idx /\ rn.idx <= p
                    THEN Append(routed[p], rn.msg) ELSE routed[p]
    BY <2>1 DEF Alike
  <2>3. CASE rn' = rn
    BY <2>1, <2>2, <2>3
  <2>4. CASE rn.pc # "write" /\ (rn'.pc = "write" => rn'.idx = 0)
    BY <1>2, <2>1, <2>2, <2>4
  <2> QED BY <1>3, <2>3, <2>4, OutputFrame
<1>4. CASE WriteOut
  <2>1. /\ rn.pc = "write" /\ rn.idx \in Outputs /\ open' = open
        /\ routed'[o] = IF o = rn.idx THEN Append(routed[o], rn.msg) ELSE routed[o]
        /\ routed'[p] = IF p = rn.idx THEN Append(routed[p], rn.msg) ELSE routed[p]
        /\ \/ /\ rn.idx < M - 1 /\ rn'.pc = "write"
              /\ rn'.idx = rn.idx + 1 /\ rn'.msg = rn.msg
           \/ rn.idx = M - 1 /\ rn'.pc = "state"
    BY <1>2, <1>4, WriteOutEffect
  <2>2. routed[o] = IF o < rn.idx /\ rn.idx <= p
                    THEN Append(routed[p], rn.msg) ELSE routed[p]
    BY <2>1 DEF Alike
  <2>3. rn.idx \in 0 .. M - 1
    BY <2>1 DEF Outputs
  <2> QED BY <1>1, <1>2, <2>1, <2>2, <2>3
<1>5. CASE UNCHANGED vars
  BY <1>5 DEF vars, Alike
<1> QED BY <1>3, <1>4, <1>5

(* So the outputs always differ by what the write in progress explains.    *)
LEMMA AlikeAlways == Spec => []Alike
<1>1. Init => Alike
  BY DEF Init, Alike
<1> QED BY <1>1, Typing, AlikeStep, PTL DEF Spec

(* Outputs whose consumers have not ended get the same messages in the     *)
(* same order, none more than one message ahead of another.                *)
THEOREM OutputSafety == Spec => []OutputsAgree
<1>1. Alike => OutputsAgree
  BY DEF Alike, OutputsAgree
<1> QED BY <1>1, AlikeAlways, PTL

-----------------------------------------------------------------------------
(* Channels with a coupled read end.                                       *)

(* A read takes the oldest message and waits for the next when it was the  *)
(* last.                                                                   *)
LEMMA ReadEffect ==
  ASSUME NEW c \in Channel, ~DecoupledOut(c)
  PROVE  LET r == ChannelRead(c)
         IN  /\ r.type = c.type /\ r.length = c.length
             /\ r.copied = c.copied /\ r.overwritten = c.overwritten
             /\ r.source.state = "END" <=> c.source.state = "END"
             /\ r.source.state = "PENDING" /\ c.source.state # "PENDING" => r.fifo = <<>>
             /\ r.sink.state = "END" <=> c.sink.state = "END"
             /\ r.fifo = IF c.fifo = <<>> THEN <<>> ELSE Tail(c.fifo)
             /\ ChannelReadMsg(c) = IF c.fifo = <<>> THEN NoMsg ELSE Head(c.fifo)
<1> DEFINE r == ChannelRead(c)
<1>1. /\ r.type = c.type /\ r.length = c.length
      /\ r.source.state = "END" <=> c.source.state = "END"
      /\ r.sink.state = "END" <=> c.sink.state = "END"
      /\ r.fifo = IF c.fifo = <<>> THEN <<>> ELSE Tail(c.fifo)
  BY ReadFrame
<1>2. /\ r.copied = c.copied /\ r.overwritten = c.overwritten
      /\ r.source.state = "PENDING" /\ c.source.state # "PENDING" => r.fifo = <<>>
  BY DEF ChannelRead, ChangeWriteState, FifoRead, SetReadErr, Pop, ChangeReadState,
         SetState, Channel, ChannelEnd
<1>3. ChannelReadMsg(c) = IF c.fifo = <<>> THEN NoMsg ELSE Head(c.fifo)
  BY DEF ChannelReadMsg, FifoReadMsg
<1> QED BY <1>1, <1>2, <1>3

(* A write to an end that is READY appends, or overwrites the oldest       *)
(* message of a full ring.                                                 *)
LEMMA StoreEffect ==
  ASSUME NEW c \in Channel, NEW m \in Message,
         c.sink.state \notin {"PENDING", "END"}, ~DecoupledIn(c) => ~Full(c),
         Len(c.fifo) <= c.length
  PROVE  LET w == StoreMsg(c, m)
         IN  /\ w \in Channel
             /\ w.type = c.type /\ w.length = c.length
             /\ w.copied = c.copied /\ w.source = c.source
             /\ w.sink.state # "END"
             /\ Len(w.fifo) <= w.length /\ w.fifo # <<>>
             /\ ~DecoupledIn(c) /\ w.sink.state # "PENDING" => ~Full(w)
             /\ ~Full(c) => /\ w.fifo = Append(c.fifo, m)
                            /\ DecoupledIn(c) => ~w.overwritten
                            /\ ~DecoupledIn(c) => w.overwritten = c.overwritten
             /\ Full(c) => /\ w.fifo = [c.fifo EXCEPT ![1] = m]
                           /\ w.overwritten /\ DecoupledIn(c) /\ c.fifo # <<>>
<1> DEFINE w == StoreMsg(c, m)
<1>1. /\ c.fifo \in Seq(Message) /\ c.length \in Nat \ {0} /\ c.overwritten \in BOOLEAN
      /\ Append(c.fifo, m) \in Seq(Message)
      /\ Len(Append(c.fifo, m)) = Len(c.fifo) + 1 /\ Append(c.fifo, m) # <<>>
  BY DEF Channel
<1>2. w \in Channel
  BY FifoWriteType, DFifoWriteType DEF StoreMsg
<1>3. CASE Full(c)
  <2>1. DecoupledIn(c) /\ Len(c.fifo) = c.length /\ c.fifo # <<>>
    BY <1>1, <1>3 DEF Full
  <2>2. w = [c EXCEPT !.fifo = [c.fifo EXCEPT ![1] = m], !.overwritten = TRUE]
    BY <1>3, <2>1 DEF StoreMsg, DFifoWrite, Channel
  <2>3. Len([c.fifo EXCEPT ![1] = m]) = Len(c.fifo)
    BY <1>1, <2>1, ExceptSeq
  <2>4. [c.fifo EXCEPT ![1] = m] # <<>>
    BY <1>1, <2>1, <2>3
  <2>5. /\ w.type = c.type /\ w.length = c.length /\ w.copied = c.copied
        /\ w.source = c.source /\ w.sink = c.sink /\ w.overwritten
        /\ w.fifo = [c.fifo EXCEPT ![1] = m]
    BY <2>2 DEF Channel
  <2> QED BY <1>2, <1>3, <2>1, <2>3, <2>4, <2>5
<1>4. CASE ~Full(c) /\ DecoupledIn(c)
  <2>1. w = [c EXCEPT !.fifo = Append(c.fifo, m), !.overwritten = FALSE]
    BY <1>4 DEF StoreMsg, DFifoWrite, Channel
  <2>2. /\ w.type = c.type /\ w.length = c.length /\ w.copied = c.copied
        /\ w.source = c.source /\ w.sink = c.sink /\ ~w.overwritten
        /\ w.fifo = Append(c.fifo, m)
    BY <2>1 DEF Channel
  <2>3. Len(w.fifo) <= w.length
    BY <1>1, <1>4, <2>2 DEF Full
  <2> QED BY <1>1, <1>2, <1>4, <2>2, <2>3
<1>5. CASE ~Full(c) /\ ~DecoupledIn(c)
  <2> DEFINE stored == [c EXCEPT !.fifo = Append(c.fifo, m)]
  <2>1. w = IF Full(stored) THEN ChangeWriteState(stored, "PENDING") ELSE stored
    BY <1>5 DEF StoreMsg, FifoWrite, Channel
  <2>2. /\ stored.type = c.type /\ stored.length = c.length /\ stored.copied = c.copied
        /\ stored.source = c.source /\ stored.sink = c.sink
        /\ stored.overwritten = c.overwritten /\ stored.fifo = Append(c.fifo, m)
        /\ stored \in Channel
    BY <1>1 DEF Channel
  <2> HIDE DEF stored
  <2>3. /\ ChangeWriteState(stored, "PENDING").sink.state = "PENDING"
        /\ LET d == ChangeWriteState(stored, "PENDING")
           IN  /\ d.type = stored.type /\ d.length = stored.length
               /\ d.copied = stored.copied /\ d.source = stored.source
               /\ d.overwritten = stored.overwritten /\ d.fifo = stored.fifo
    BY <2>2 DEF ChangeWriteState, SetState, Channel, ChannelEnd
  <2>4. /\ w.type = c.type /\ w.length = c.length /\ w.copied = c.copied
        /\ w.source = c.source /\ w.overwritten = c.overwritten
        /\ w.fifo = Append(c.fifo, m) /\ w.sink.state # "END"
    BY <2>1, <2>2, <2>3
  <2>5. w.sink.state # "PENDING" => ~Full(w)
    BY <2>1, <2>3
  <2>6. Len(w.fifo) <= w.length
    BY <1>1, <1>5, <2>4 DEF Full
  <2> QED BY <1>1, <1>2, <1>5, <2>4, <2>5, <2>6
<1> QED BY <1>3, <1>4, <1>5

(* The routing node tells its inputs of its end and does nothing else then.*)
LEMMA EndIsLast ==
  ASSUME Typed, Next, rn.pc \in {"term", "ended"}
  PROVE  rn'.pc \in {"term", "ended"}
<1>1. rn \in RnRecord
  BY DEF Typed, TypeOK, RnRecord
<1>2. CASE \E i \in Inputs : Producer(i)
  BY <1>2, TypedProducer
<1>3. CASE Rn
  BY <1>1, <1>3 DEF Rn, RnRecord, CollectorWait, CollectorPass, RnTests, LookAtCount,
     ScanHit, ScanMiss, ReadInput, WriteOut, LookAtState, LookAtFill, UpdateState, RnEnd
<1>4. CASE CollectorSpurious \/ \E o \in Outputs : ConsumerEnd(o)
  BY <1>4 DEF CollectorSpurious, ConsumerEnd
<1>5. CASE Ended
  BY <1>5 DEF Ended, vars
<1> QED BY <1>2, <1>3, <1>4, <1>5 DEF Next

(* A step of its producer keeps an input fit.                              *)
LEMMA FitsProducer ==
  ASSUME Typed, NEW i \in Inputs, FitsAt(i), Producer(i)
  PROVE  FitsAt(i)'
<1> DEFINE c == chans[i]
           d == chans'[i]
<1>1. /\ chans \in [Inputs -> Channel] /\ c \in Channel
      /\ prod \in [Inputs -> [pc : ProdPc, created : 0..MaxWrites]]
      /\ UNCHANGED rn
  BY TypedProducer DEF Typed, TypeOK
<1>2. /\ prod[i].pc = "wait" \/ prod[i].pc = "idle" => c.source.state # "END"
      /\ c.source.state = "PENDING" => c.fifo = <<>> \/ ChLocked(i)
  BY DEF FitsAt
<1>3. ASSUME NEW pc, GoTo(i, pc) PROVE prod'[i].pc = pc
  BY <1>1, <1>3 DEF GoTo
<1>4. ASSUME NEW pc, WriteTo(i, pc) PROVE prod'[i].pc = pc
  BY <1>1, <1>4 DEF WriteTo
<1>5. CASE WriteWait(i) \/ WriteAbort(i)
  <2>0. \/ d = [c EXCEPT !.sink.waiting = TRUE]
        \/ d = [c EXCEPT !.sink.err = "NO_TARGET"]
    BY <1>1, <1>5 DEF WriteWait, WriteAbort, SetWriteErr
  <2>1. /\ d.type = c.type /\ d.length = c.length /\ d.fifo = c.fifo
        /\ d.copied = c.copied /\ d.overwritten = c.overwritten
        /\ d.source.state = c.source.state /\ d.sink.state = c.sink.state
    <3>1. CASE d = [c EXCEPT !.sink.waiting = TRUE]
      BY <1>1, <3>1 DEF Channel, ChannelEnd
    <3>2. CASE d = [c EXCEPT !.sink.err = "NO_TARGET"]
      BY <1>1, <3>2 DEF Channel, ChannelEnd
    <3> QED BY <2>0, <3>1, <3>2
  <2>2. /\ prod[i].pc \in {"idle", "wait"} /\ prod'[i].pc \in {"idle", "wait"}
    BY <1>4, <1>5 DEF WriteWait, WriteAbort, WriterTests
  <2> QED BY <1>1, <2>1, <2>2 DEF FitsAt, DecoupledIn, DecoupledOut, Full, ChLocked
<1>6. CASE WriteStore(i)
  <2> DEFINE m == [seq |-> Writing(i), prevent_backup |-> FALSE]
  <2>1. m \in Message
    BY <1>1, RoutingAssumption DEF Writing, Message
  <2>2. /\ d = StoreMsg(c, m) /\ prod'[i].pc = "stored"
        /\ prod[i].pc \in {"idle", "wait"} /\ c.sink.state \notin {"PENDING", "END"}
    BY <1>1, <1>4, <1>6 DEF WriteStore, WriterTests
  <2> HIDE DEF m
  <2>3. /\ ~DecoupledIn(c) => ~Full(c)
        /\ Len(c.fifo) <= c.length
    BY <2>2 DEF FitsAt
  <2>4. /\ d.type = c.type /\ d.length = c.length /\ d.copied = c.copied
        /\ d.source = c.source /\ d.sink.state # "END"
        /\ Len(d.fifo) <= d.length /\ d.fifo # <<>>
        /\ ~DecoupledIn(c) /\ d.sink.state # "PENDING" => ~Full(d)
        /\ ~DecoupledIn(c) => ~d.overwritten
    <3>1. LET w == StoreMsg(c, m)
          IN  /\ w.type = c.type /\ w.length = c.length /\ w.copied = c.copied
              /\ w.source = c.source /\ w.sink.state # "END"
              /\ Len(w.fifo) <= w.length /\ w.fifo # <<>>
              /\ ~DecoupledIn(c) /\ w.sink.state # "PENDING" => ~Full(w)
              /\ ~Full(c) /\ ~DecoupledIn(c) => w.overwritten = c.overwritten
      <4> HIDE DEF c, d
      <4> QED BY <1>1, <2>1, <2>2, <2>3, StoreEffect
    <3>2. ~DecoupledIn(c) => ~c.overwritten
      BY DEF FitsAt
    <3> QED BY <2>2, <2>3, <3>1, <3>2
  <2> QED BY <1>1, <2>2, <2>4 DEF FitsAt, DecoupledIn, DecoupledOut, ChLocked
<1>7. CASE WriteCount(i)
  BY <1>1, <1>3, <1>7 DEF WriteCount, FitsAt, ChLocked
<1>8. CASE WriteNotify(i)
  <2>1. /\ d.type = c.type /\ d.length = c.length /\ d.fifo = c.fifo
        /\ d.copied = c.copied /\ d.overwritten = c.overwritten
        /\ d.source.state = IF c.source.state = "END" THEN "END" ELSE "READY"
        /\ d.sink.state = c.sink.state
    BY <1>1, <1>8 DEF WriteNotify, ChangeReadState, SetState, Channel, ChannelEnd
  <2>2. prod[i].pc = "counted" /\ prod'[i].pc = "idle"
    BY <1>3, <1>8 DEF WriteNotify
  <2> QED BY <1>1, <2>1, <2>2 DEF FitsAt, DecoupledIn, DecoupledOut, Full, ChLocked
<1>9. CASE ProducerEnd(i)
  <2>1. /\ d.type = c.type /\ d.length = c.length /\ d.fifo = c.fifo
        /\ d.copied = c.copied /\ d.overwritten = c.overwritten
        /\ d.source.state = "END" /\ d.sink.state = c.sink.state
    BY <1>1, <1>9 DEF ProducerEnd, TerminateSource, ChangeReadState, SetState, Channel,
                      ChannelEnd
  <2>2. prod'[i].pc = "closing"
    BY <1>3, <1>9 DEF ProducerEnd
  <2> QED BY <1>1, <2>1, <2>2 DEF FitsAt, DecoupledIn, DecoupledOut, Full, ChLocked
<1>10. CASE CollectorLeave(i)
  BY <1>1, <1>3, <1>10 DEF CollectorLeave, FitsAt, ChLocked
<1>11. CASE CollectorTerminate(i)
  BY <1>1, <1>3, <1>11 DEF CollectorTerminate, FitsAt, ChLocked
<1> QED BY <1>5, <1>6, <1>7, <1>8, <1>9, <1>10, <1>11 DEF Producer

(* So does a step of the routing node.                                     *)
LEMMA FitsRn ==
  ASSUME Typed, Next, NEW i \in Inputs, FitsAt(i), Rn \/ CollectorSpurious
  PROVE  FitsAt(i)'
<1> DEFINE c == chans[i]
           d == chans'[i]
<1>1. /\ chans \in [Inputs -> Channel] /\ c \in Channel /\ prod' = prod
      /\ rn \in RnRecord
  BY TypedRn DEF Typed, TypeOK, RnRecord
<1>2. rn.pc \in {"term", "ended"} => rn'.pc \in {"term", "ended"}
  BY EndIsLast
<1>3. CASE d = c
  BY <1>1, <1>2, <1>3 DEF FitsAt, ChLocked
<1>4. CASE ReadInput /\ i = rn.last
  <2>1. ~ChLocked(i)
    BY <1>4 DEF ReadInput
  <2>2. CASE c.source.state = "PENDING"
    <3>1. d = [c EXCEPT !.source.waiting = TRUE]
      BY <1>1, <1>4, <2>2 DEF ReadInput
    <3>2. /\ d.type = c.type /\ d.length = c.length /\ d.fifo = c.fifo
          /\ d.copied = c.copied /\ d.overwritten = c.overwritten
          /\ d.source.state = c.source.state /\ d.sink.state = c.sink.state
      BY <1>1, <3>1 DEF Channel, ChannelEnd
    <3> QED
      BY <1>1, <1>2, <3>2 DEF FitsAt, DecoupledIn, DecoupledOut, Full, ChLocked
  <2>3. CASE c.source.state # "PENDING"
    <3>1. d = ChannelRead(c)
      BY <1>1, <1>4, <2>3 DEF ReadInput
    <3>2. ~DecoupledOut(c)
      BY DEF FitsAt
    <3>3. /\ d.type = c.type /\ d.length = c.length
          /\ d.copied = c.copied /\ d.overwritten = c.overwritten
          /\ d.source.state = "END" <=> c.source.state = "END"
          /\ d.source.state = "PENDING" => d.fifo = <<>>
          /\ d.sink.state = "END" <=> c.sink.state = "END"
          /\ d.fifo = IF c.fifo = <<>> THEN <<>> ELSE Tail(c.fifo)
      BY <1>1, <2>3, <3>1, <3>2, ReadEffect
    <3>4. Len(d.fifo) < c.length
      <4>1. c.fifo \in Seq(Message) /\ c.length \in Nat \ {0} /\ Len(c.fifo) <= c.length
        BY <1>1 DEF Channel, FitsAt
      <4> HIDE DEF c, d
      <4> QED BY <3>3, <4>1
    <3>5. Len(d.fifo) <= d.length /\ ~Full(d)
      <4>1. Len(d.fifo) \in Nat /\ c.length \in Nat
        <5>1. d \in Channel
          BY <1>1, <3>1, ChannelReadType
        <5> QED BY <1>1, <5>1 DEF Channel
      <4> QED BY <3>3, <3>4, <4>1 DEF Full
    <3> QED
      BY <1>1, <1>2, <2>1, <3>3, <3>5 DEF FitsAt, DecoupledIn, DecoupledOut, ChLocked
  <2> QED BY <2>2, <2>3
<1>5. CASE RnEnd /\ i = rn.idx
  <2>1. /\ d = ChangeWriteState(c, "END") /\ rn'.pc \in {"term", "ended"}
    BY <1>1, <1>2, <1>5 DEF RnEnd, TerminateSink
  <2>2. /\ d.type = c.type /\ d.length = c.length /\ d.fifo = c.fifo
        /\ d.copied = c.copied /\ d.overwritten = c.overwritten
        /\ d.source.state = c.source.state /\ d.sink.state = "END"
    BY <1>1, <2>1 DEF ChangeWriteState, SetState, Channel, ChannelEnd
  <2> QED BY <1>1, <2>1, <2>2 DEF FitsAt, DecoupledIn, DecoupledOut, Full, ChLocked
<1>6. ~ReadInput /\ ~RnEnd => d = c
  BY DEF Rn, CollectorSpurious, CollectorWait, CollectorPass, LookAtCount, ScanHit,
         ScanMiss, WriteOut, LookAtState, LookAtFill, UpdateState
<1>7. ReadInput /\ i # rn.last => d = c
  BY <1>1 DEF ReadInput
<1>8. RnEnd /\ i # rn.idx => d = c
  BY <1>1 DEF RnEnd
<1> QED BY <1>3, <1>4, <1>5, <1>6, <1>7, <1>8

(* No step puts more in a ring than its length.                            *)
LEMMA FitsStep == Typed /\ Fits /\ [Next]_vars => Fits'
<1> SUFFICES ASSUME Typed, Fits, [Next]_vars, NEW i \in Inputs PROVE FitsAt(i)'
  BY DEF Fits
<1>1. FitsAt(i)
  BY DEF Fits
<1>2. CASE \E j \in Inputs : Producer(j)
  <2>1. PICK j \in Inputs : Producer(j)
    BY <1>2
  <2>2. CASE j = i
    BY <1>1, <2>1, <2>2, FitsProducer
  <2>3. CASE j # i
    <3>1. chans'[i] = chans[i] /\ prod'[i] = prod[i] /\ rn' = rn
      BY <2>1, <2>3, TypedProducer
    <3> QED BY <1>1, <3>1 DEF FitsAt, ChLocked
  <2> QED BY <2>2, <2>3
<1>3. CASE Next /\ (Rn \/ CollectorSpurious)
  BY <1>1, <1>3, FitsRn
<1>4. CASE (\E o \in Outputs : ConsumerEnd(o)) \/ UNCHANGED vars
  BY <1>1, <1>4 DEF ConsumerEnd, vars, FitsAt, ChLocked
<1> QED BY <1>2, <1>3, <1>4 DEF Next, Ended

(* The rings are empty at the start.                                       *)
LEMMA FitsInit == Coupled /\ Init => Fits
<1> SUFFICES ASSUME Coupled, Init, NEW i \in Inputs PROVE FitsAt(i)
  BY DEF Fits
<1>1. PICK kind \in Kinds :
        chans = [j \in Inputs |-> ChannelCreate(kind[j].type, kind[j].length,
                                                "none", FALSE, FALSE)]
  BY DEF Init
<1>2. kind[i].type \in {"FIFO", "D_FIFO"} /\ kind[i].length \in Nat \ {0}
  BY KindsAssumption DEF Coupled
<1>3. chans[i] = ChannelCreate(kind[i].type, kind[i].length, "none", FALSE, FALSE)
  BY <1>1
<1>4. prod[i].pc = "idle"
  BY DEF Init
<1> QED
  BY <1>2, <1>3, <1>4 DEF ChannelCreate, NewEnd, FitsAt, DecoupledIn, DecoupledOut, Full

-----------------------------------------------------------------------------
(* What the collector counts.                                              *)

(* The messages of the inputs, when at most one input changes.             *)
LEMMA StoredSame ==
  ASSUME \A i \in Inputs : Len(chans'[i].fifo) = Len(chans[i].fifo)
  PROVE  Stored' = Stored
BY DEF Stored

(* A message more.                                                         *)
LEMMA StoredMore ==
  ASSUME NEW i \in Inputs, Len(chans[i].fifo) \in Nat,
         Len(chans'[i].fifo) = Len(chans[i].fifo) + 1,
         \A j \in Inputs \ {i} : chans'[j] = chans[j]
  PROVE  \E x : x \notin Stored /\ Stored' = Stored \union {x}
<1> DEFINE x == <<i, Len(chans[i].fifo) + 1>>
<1>1. x \notin Stored
  BY DEF Stored
<1>2. ASSUME NEW y \in Stored' PROVE y \in Stored \union {x}
  <2>1. PICK j \in Inputs : y \in {j} \X (1 .. Len(chans'[j].fifo))
    BY <1>2 DEF Stored
  <2>2. PICK k \in 1 .. Len(chans'[j].fifo) : y = <<j, k>>
    BY <2>1
  <2>3. CASE k \in 1 .. Len(chans[j].fifo)
    BY <2>2, <2>3 DEF Stored
  <2>4. CASE k \notin 1 .. Len(chans[j].fifo)
    <3>1. j = i /\ k = Len(chans[i].fifo) + 1
      BY <2>2, <2>4
    <3> QED BY <2>2, <3>1
  <2> QED BY <2>3, <2>4
<1>3. ASSUME NEW y \in Stored PROVE y \in Stored'
  <2>1. PICK j \in Inputs : y \in {j} \X (1 .. Len(chans[j].fifo))
    BY <1>3 DEF Stored
  <2>2. PICK k \in 1 .. Len(chans[j].fifo) : y = <<j, k>>
    BY <2>1
  <2>3. k \in 1 .. Len(chans'[j].fifo)
    BY <2>2
  <2> QED BY <2>2, <2>3 DEF Stored
<1>4. x \in Stored'
  <2>1. Len(chans[i].fifo) + 1 \in 1 .. Len(chans'[i].fifo)
    OBVIOUS
  <2> QED BY <2>1 DEF Stored
<1> QED BY <1>1, <1>2, <1>3, <1>4

(* A message less.                                                         *)
LEMMA StoredLess ==
  ASSUME NEW i \in Inputs, Len(chans'[i].fifo) \in Nat,
         Len(chans[i].fifo) = Len(chans'[i].fifo) + 1,
         \A j \in Inputs \ {i} : chans'[j] = chans[j]
  PROVE  \E x : x \in Stored /\ Stored' = Stored \ {x}
<1> DEFINE x == <<i, Len(chans[i].fifo)>>
<1>1. x \in Stored
  <2>1. Len(chans[i].fifo) \in 1 .. Len(chans[i].fifo)
    OBVIOUS
  <2> QED BY <2>1 DEF Stored
<1>2. ASSUME NEW y \in Stored' PROVE y \in Stored \ {x}
  <2>1. PICK j \in Inputs : y \in {j} \X (1 .. Len(chans'[j].fifo))
    BY <1>2 DEF Stored
  <2>2. PICK k \in 1 .. Len(chans'[j].fifo) : y = <<j, k>>
    BY <2>1
  <2>3. k \in 1 .. Len(chans[j].fifo) /\ y # x
    BY <2>2
  <2> QED BY <2>2, <2>3 DEF Stored
<1>3. ASSUME NEW y \in Stored, y # x PROVE y \in Stored'
  <2>1. PICK j \in Inputs : y \in {j} \X (1 .. Len(chans[j].fifo))
    BY <1>3 DEF Stored
  <2>2. PICK k \in 1 .. Len(chans[j].fifo) : y = <<j, k>>
    BY <2>1
  <2>3. k \in 1 .. Len(chans'[j].fifo)
    BY <1>3, <2>2
  <2> QED BY <2>2, <2>3 DEF Stored
<1> QED BY <1>1, <1>2, <1>3

(* Every message that is not counted yet is the message of a write of its  *)
(* own.                                                                    *)
LEMMA UncountedStored ==
  ASSUME Typed, Fits, IsFiniteSet(Stored)
  PROVE  /\ IsFiniteSet(Inputs) /\ Cardinality(Inputs) = N
         /\ IsFiniteSet(Uncounted) /\ IsFiniteSet(Left)
         /\ Cardinality(Stored) \in Nat /\ Cardinality(Uncounted) \in Nat
         /\ Cardinality(Uncounted) <= Cardinality(Stored)
         /\ \A j \in Inputs \ Uncounted : chans[j].fifo # <<>> =>
              Cardinality(Uncounted) < Cardinality(Stored)
         /\ Cardinality(Uncounted) = Cardinality(Stored) =>
              \A j \in Inputs : /\ Len(chans[j].fifo) <= 1
                                /\ chans[j].fifo # <<>> => j \in Uncounted
<1> DEFINE f == [i \in Uncounted |-> <<i, 1>>]
<1>1. IsFiniteSet(Inputs) /\ Cardinality(Inputs) = N
  BY RoutingAssumption, FS_Interval DEF Inputs
<1>2. Uncounted \subseteq Inputs /\ Left \subseteq Inputs
  BY DEF Uncounted, Left
<1>3. IsFiniteSet(Uncounted) /\ IsFiniteSet(Left)
  BY <1>1, <1>2, FS_Subset
<1>4. Cardinality(Stored) \in Nat /\ Cardinality(Uncounted) \in Nat
  BY <1>3, FS_CardinalityType
<1>5. ASSUME NEW j \in Inputs
      PROVE  /\ chans[j].fifo \in Seq(Message) /\ Len(chans[j].fifo) \in Nat
             /\ chans[j].fifo # <<>> => <<j, 1>> \in Stored /\ Len(chans[j].fifo) > 0
  <2>1. chans[j].fifo \in Seq(Message)
    BY DEF Typed, TypeOK, Channel
  <2>2. CASE chans[j].fifo # <<>>
    <3>1. 1 \in 1 .. Len(chans[j].fifo)
      BY <2>1, <2>2
    <3> QED BY <2>1, <2>2, <3>1 DEF Stored
  <2> QED BY <2>1, <2>2
<1>6. ASSUME NEW i \in Uncounted PROVE <<i, 1>> \in Stored
  <2>1. i \in Inputs /\ chans[i].fifo # <<>>
    BY DEF Uncounted, Fits, FitsAt
  <2> QED BY <1>5, <2>1
<1>7. f \in Injection(Uncounted, Stored)
  BY <1>6 DEF Injection, IsInjective
<1>8. Cardinality(Uncounted) <= Cardinality(Stored)
  BY <1>7, FS_Injection
<1>9. ASSUME NEW j \in Inputs \ Uncounted, chans[j].fifo # <<>>
      PROVE  Cardinality(Uncounted) < Cardinality(Stored)
  <2> DEFINE rest == Stored \ {<<j, 1>>}
  <2>1. f \in Injection(Uncounted, rest)
    <3>1. \A i \in Uncounted : <<i, 1>> \in rest
      BY <1>6, <1>9
    <3> QED BY <3>1 DEF Injection, IsInjective
  <2>2. IsFiniteSet(rest) /\ Cardinality(rest) = Cardinality(Stored) - 1
    BY <1>5, <1>9, FS_RemoveElement
  <2>3. Cardinality(Uncounted) <= Cardinality(rest)
    BY <2>1, <2>2, FS_Injection
  <2> QED BY <1>4, <2>2, <2>3
<1>10. ASSUME Cardinality(Uncounted) = Cardinality(Stored), NEW j \in Inputs
       PROVE  Len(chans[j].fifo) <= 1 /\ (chans[j].fifo # <<>> => j \in Uncounted)
  <2>1. \A x \in Stored : \E i \in Uncounted : x = <<i, 1>>
    <3>1. f \in Surjection(Uncounted, Stored)
      BY <1>7, <1>10, FS_Injection
    <3> QED BY <3>1 DEF Surjection
  <2>2. CASE Len(chans[j].fifo) > 1
    <3>1. 2 \in 1 .. Len(chans[j].fifo)
      BY <1>5, <2>2
    <3>2. <<j, 2>> \in Stored
      BY <3>1 DEF Stored
    <3> QED BY <2>1, <3>2
  <2>3. chans[j].fifo # <<>> => j \in Uncounted
    BY <1>5, <2>1
  <2> QED BY <1>5, <2>2, <2>3
<1> QED BY <1>1, <1>3, <1>4, <1>8, <1>9, <1>10

(* What the collector knows stays right when nothing of it changes.        *)
LEMMA CountsFrame ==
  ASSUME Counts, Stored' = Stored, Uncounted' = Uncounted, Left' = Left,
         col' = col, col.waiting => rn'.pc = "sleep"
  PROVE  Counts'
BY DEF Counts, CollectorAgrees

(* A step of a producer keeps the collector's count right.                 *)
LEMMA CountsProducer ==
  ASSUME Typed, Fits, Counts, NEW i \in Inputs, Producer(i)
  PROVE  Counts'
<1> DEFINE c == chans[i]
           d == chans'[i]
<1>1. /\ chans \in [Inputs -> Channel] /\ c \in Channel
      /\ prod \in [Inputs -> [pc : ProdPc, created : 0..MaxWrites]]
      /\ col \in CollectorRecord /\ FitsAt(i)
  BY DEF Typed, TypeOK, CollectorRecord, Fits
<1>2. /\ Typed' /\ UNCHANGED <<rn, routed, open, skipped>>
      /\ \A j \in Inputs \ {i} : chans'[j] = chans[j] /\ prod'[j] = prod[j]
  BY TypedProducer
<1>3. /\ IsFiniteSet(Stored) /\ IsFiniteSet(Inputs) /\ Cardinality(Inputs) = N
      /\ IsFiniteSet(Uncounted) /\ IsFiniteSet(Left)
      /\ Cardinality(Stored) \in Nat /\ Cardinality(Uncounted) \in Nat
      /\ Cardinality(Uncounted) <= Cardinality(Stored)
  BY UncountedStored DEF Counts
<1>4. ASSUME NEW pc, GoTo(i, pc) PROVE prod'[i].pc = pc
  BY <1>1, <1>4 DEF GoTo
<1>5. ASSUME NEW pc, WriteTo(i, pc) PROVE prod'[i].pc = pc
  BY <1>1, <1>5 DEF WriteTo
<1>6. ASSUME i \in Uncounted <=> prod'[i].pc = "stored" /\ ~d.overwritten
      PROVE  Uncounted' = Uncounted
  BY <1>2, <1>6 DEF Uncounted
<1>7. ASSUME i \in Left <=> prod'[i].pc \in {"testing", "ended"}
      PROVE  Left' = Left
  BY <1>2, <1>7 DEF Left
<1>8. ASSUME Len(d.fifo) = Len(c.fifo) PROVE Stored' = Stored
  BY <1>2, <1>8, StoredSame
<1>9. col.waiting => rn'.pc = "sleep"
  BY <1>2 DEF Counts
<1>10. CASE WriteWait(i) \/ WriteAbort(i)
  <2>1. /\ d.fifo = c.fifo /\ col' = col
        /\ prod[i].pc \in {"idle", "wait"} /\ prod'[i].pc \in {"idle", "wait"}
    <3>1. CASE WriteWait(i)
      BY <1>1, <1>5, <3>1 DEF WriteWait, WriterTests, Channel, ChannelEnd
    <3>2. CASE WriteAbort(i)
      BY <1>1, <1>5, <3>2 DEF WriteAbort, WriterTests, SetWriteErr, Channel, ChannelEnd
    <3> QED BY <1>10, <3>1, <3>2
  <2>2. Uncounted' = Uncounted /\ Left' = Left /\ Stored' = Stored
    BY <1>6, <1>7, <1>8, <2>1 DEF Uncounted, Left
  <2> QED BY <1>9, <2>1, <2>2, CountsFrame
<1>11. CASE WriteStore(i)
  <2> DEFINE m == [seq |-> Writing(i), prevent_backup |-> FALSE]
  <2>1. m \in Message
    BY <1>1, RoutingAssumption DEF Writing, Message
  <2>2. /\ d = StoreMsg(c, m) /\ prod'[i].pc = "stored" /\ col' = col
        /\ prod[i].pc \in {"idle", "wait"} /\ c.sink.state \notin {"PENDING", "END"}
    BY <1>1, <1>5, <1>11 DEF WriteStore, WriterTests
  <2> HIDE DEF m
  <2>3. /\ ~DecoupledIn(c) => ~Full(c) /\ ~c.overwritten
        /\ Len(c.fifo) <= c.length /\ c.fifo \in Seq(Message)
    BY <1>1, <2>2 DEF FitsAt, Channel
  <2>4. /\ ~Full(c) => d.fifo = Append(c.fifo, m) /\ ~d.overwritten
        /\ Full(c) => d.fifo = [c.fifo EXCEPT ![1] = m] /\ d.overwritten
    <3>1. LET w == StoreMsg(c, m)
          IN  /\ ~Full(c) => /\ w.fifo = Append(c.fifo, m)
                             /\ DecoupledIn(c) => ~w.overwritten
                             /\ ~DecoupledIn(c) => w.overwritten = c.overwritten
              /\ Full(c) => w.fifo = [c.fifo EXCEPT ![1] = m] /\ w.overwritten
      <4> HIDE DEF c, d
      <4> QED BY <1>1, <2>1, <2>2, <2>3, StoreEffect
    <3> QED BY <2>2, <2>3, <3>1
  <2>5. Left' = Left
    BY <1>7, <2>2 DEF Left
  <2>6. CASE Full(c)
    <3>1. Len(d.fifo) = Len(c.fifo)
      BY <2>3, <2>4, <2>6
    <3>2. Stored' = Stored /\ Uncounted' = Uncounted
      BY <1>6, <1>8, <2>2, <2>4, <2>6, <3>1 DEF Uncounted
    <3> QED BY <1>9, <2>2, <2>5, <3>2, CountsFrame
  <2>7. CASE ~Full(c)
    <3>1. Len(d.fifo) = Len(c.fifo) + 1 /\ Len(c.fifo) \in Nat
      BY <2>1, <2>3, <2>4, <2>7
    <3>2. PICK x : x \notin Stored /\ Stored' = Stored \union {x}
      BY <1>2, <3>1, StoredMore
    <3>3. i \notin Uncounted /\ Uncounted' = Uncounted \union {i}
      BY <1>2, <2>2, <2>4, <2>7 DEF Uncounted
    <3>4. /\ IsFiniteSet(Stored') /\ Cardinality(Stored') = Cardinality(Stored) + 1
          /\ Cardinality(Uncounted') = Cardinality(Uncounted) + 1
      BY <1>3, <3>2, <3>3, FS_AddElement
    <3>5. CollectorAgrees'
      BY <1>3, <2>2, <3>4 DEF Counts, CollectorAgrees
    <3> QED BY <1>9, <2>2, <2>5, <3>4, <3>5 DEF Counts
  <2> QED BY <2>6, <2>7
<1>12. CASE WriteCount(i)
  <2>1. /\ prod[i].pc = "stored" /\ prod'[i].pc = "counted" /\ chans' = chans
        /\ col' = IF c.overwritten THEN col ELSE CollectorRaise(col)
    BY <1>4, <1>12 DEF WriteCount
  <2>2. Stored' = Stored /\ Left' = Left
    BY <1>7, <1>8, <2>1 DEF Left
  <2>3. CASE c.overwritten
    <3>1. Uncounted' = Uncounted
      BY <1>6, <2>1, <2>3 DEF Uncounted
    <3> QED BY <1>9, <2>1, <2>2, <2>3, <3>1, CountsFrame
  <2>4. CASE ~c.overwritten
    <3>1. i \in Uncounted /\ Uncounted' = Uncounted \ {i}
      BY <1>2, <2>1, <2>4 DEF Uncounted
    <3>2. Cardinality(Uncounted') = Cardinality(Uncounted) - 1
      BY <1>3, <3>1, FS_RemoveElement
    <3>3. col.state # "END"
      BY <2>1 DEF Counts, Left
    <3>4. /\ col' \in CollectorRecord
          /\ col'.count = col.count + 1 /\ col'.ch_count = col.ch_count
          /\ col'.state = "READY"
          /\ col'.waiting => col.waiting /\ col'.state = col.state
      BY <1>1, <2>1, <2>4, <3>3, RaiseEffect
    <3>5. /\ col.count \in Int
          /\ col.count = Cardinality(Stored) - Cardinality(Uncounted)
      BY <1>1 DEF Counts, CollectorAgrees, CollectorRecord
    <3>6. CollectorAgrees' /\ col'.count > 0
      <4>1. col'.count = Cardinality(Stored') - Cardinality(Uncounted')
        BY <1>3, <2>2, <3>2, <3>4, <3>5
      <4> QED BY <1>3, <3>4, <3>5, <4>1 DEF CollectorAgrees
    <3>7. col'.ch_count = N - Cardinality(Left') /\ IsFiniteSet(Stored')
      BY <1>3, <2>2, <3>4 DEF Counts
    <3>8. ~col'.waiting
      BY <3>4 DEF Counts
    <3> QED BY <3>4, <3>6, <3>7, <3>8 DEF Counts
  <2> QED BY <2>3, <2>4
<1>13. CASE WriteNotify(i)
  <2>1. /\ d.fifo = c.fifo /\ col' = col
        /\ prod[i].pc = "counted" /\ prod'[i].pc = "idle"
    BY <1>1, <1>4, <1>13 DEF WriteNotify, ChangeReadState, Channel
  <2>2. Uncounted' = Uncounted /\ Left' = Left /\ Stored' = Stored
    BY <1>6, <1>7, <1>8, <2>1 DEF Uncounted, Left
  <2> QED BY <1>9, <2>1, <2>2, CountsFrame
<1>14. CASE ProducerEnd(i)
  <2>1. /\ d.fifo = c.fifo /\ col' = col
        /\ prod[i].pc = "idle" /\ prod'[i].pc = "closing"
    BY <1>1, <1>4, <1>14 DEF ProducerEnd, TerminateSource, ChangeReadState, Channel
  <2>2. Uncounted' = Uncounted /\ Left' = Left /\ Stored' = Stored
    BY <1>6, <1>7, <1>8, <2>1 DEF Uncounted, Left
  <2> QED BY <1>9, <2>1, <2>2, CountsFrame
<1>15. CASE CollectorLeave(i)
  <2>1. /\ prod[i].pc = "closing" /\ prod'[i].pc = "testing" /\ chans' = chans
        /\ col'.ch_count = col.ch_count - 1 /\ col'.count = col.count
        /\ col'.state = col.state /\ col'.waiting = col.waiting
    BY <1>1, <1>4, <1>15 DEF CollectorLeave, CollectorRecord
  <2>2. Uncounted' = Uncounted /\ Stored' = Stored
    BY <1>6, <1>8, <2>1 DEF Uncounted
  <2>3. i \notin Left /\ Left' = Left \union {i}
    BY <1>2, <2>1 DEF Left
  <2>4. Cardinality(Left') = Cardinality(Left) + 1 /\ Cardinality(Left) \in Nat
    BY <1>3, <2>3, FS_AddElement, FS_CardinalityType
  <2>5. col'.ch_count = N - Cardinality(Left')
    BY <2>1, <2>4, RoutingAssumption DEF Counts
  <2>6. col.state # "END"
    BY <2>3 DEF Counts
  <2> QED BY <1>9, <2>1, <2>2, <2>5, <2>6 DEF Counts, CollectorAgrees
<1>16. CASE CollectorTerminate(i)
  <2>1. /\ prod[i].pc = "testing" /\ prod'[i].pc = "ended" /\ chans' = chans
        /\ col' = IF col.ch_count = 0 THEN ChangeCollectorState(col, "END") ELSE col
    BY <1>4, <1>16 DEF CollectorTerminate
  <2>2. Uncounted' = Uncounted /\ Left' = Left /\ Stored' = Stored
    BY <1>6, <1>7, <1>8, <2>1 DEF Uncounted, Left
  <2>3. CASE col.ch_count = 0
    <3>1. Left = Inputs
      <4>1. Cardinality(Left) \in Nat /\ N \in Nat /\ N - Cardinality(Left) = 0
        BY <1>3, <2>3, FS_CardinalityType, RoutingAssumption DEF Counts
      <4>2. Cardinality(Left) = Cardinality(Inputs) /\ Left \subseteq Inputs
        BY <1>3, <4>1 DEF Left
      <4> QED BY <1>3, <4>2, FS_Subset
    <3>2. /\ col'.count = col.count /\ col'.ch_count = col.ch_count
          /\ col'.state = "END"
          /\ col'.waiting => col.waiting /\ col'.state = col.state
      BY <1>1, <2>1, <2>3, CollectorTypes DEF EndState
    <3>3. ~col'.waiting
      BY <3>2 DEF Counts
    <3> QED BY <2>2, <3>1, <3>2, <3>3 DEF Counts, CollectorAgrees
  <2>4. CASE col.ch_count # 0
    BY <1>9, <2>1, <2>2, <2>4, CountsFrame
  <2> QED BY <2>3, <2>4
<1> QED
  BY <1>10, <1>11, <1>12, <1>13, <1>14, <1>15, <1>16 DEF Producer

(* So does a step of the routing node.                                     *)
LEMMA CountsRn ==
  ASSUME Typed, Fits, Counts, Finds, Rn \/ CollectorSpurious
  PROVE  Counts'
<1>1. /\ chans \in [Inputs -> Channel] /\ col \in CollectorRecord /\ rn \in RnRecord
      /\ rn.last \in Inputs
  BY DEF Typed, TypeOK, CollectorRecord, RnRecord
<1>2. Typed' /\ prod' = prod
  BY TypedRn
<1>3. Left' = Left
  BY <1>2 DEF Left
<1>4. CASE CollectorWait
  <2>1. /\ chans' = chans /\ rn'.pc = "sleep" /\ col.state = "PENDING"
        /\ col'.count = col.count /\ col'.ch_count = col.ch_count
        /\ col'.state = col.state
    BY <1>1, <1>4 DEF CollectorWait, CollectorRecord, RnRecord
  <2>2. Stored' = Stored /\ Uncounted' = Uncounted
    BY <1>2, <2>1 DEF Stored, Uncounted
  <2> QED BY <1>3, <2>1, <2>2 DEF Counts, CollectorAgrees
<1>5. CASE CollectorSpurious
  <2>1. /\ chans' = chans /\ ~col'.waiting
        /\ col'.count = col.count /\ col'.ch_count = col.ch_count
        /\ col'.state = col.state
    BY <1>1, <1>5 DEF CollectorSpurious, CollectorRecord
  <2>2. Stored' = Stored /\ Uncounted' = Uncounted
    BY <1>2, <2>1 DEF Stored, Uncounted
  <2> QED BY <1>3, <2>1, <2>2 DEF Counts, CollectorAgrees
<1>6. CASE ReadInput
  <2> DEFINE i == rn.last
             c == chans[i]
             d == chans'[i]
  <2>1. /\ rn.pc = "read" /\ ~ChLocked(i) /\ c.fifo # <<>> /\ ~DecoupledOut(c)
        /\ ~c.copied /\ c.source.state # "PENDING"
    BY <1>1, <1>6 DEF ReadInput, Finds, ReadNeverFails, Fits, FitsAt
  <2>2. chans' = [chans EXCEPT ![i] = ChannelRead(c)]
    BY <1>6, <2>1 DEF ReadInput
  <2>3. /\ d = ChannelRead(c)
        /\ \A j \in Inputs \ {i} : chans'[j] = chans[j]
    BY <1>1, <2>2
  <2>4. /\ d.fifo = Tail(c.fifo) /\ d.copied = c.copied
        /\ d.overwritten = c.overwritten /\ c.fifo \in Seq(Message) /\ c \in Channel
    <3>1. c \in Channel
      BY <1>1
    <3> HIDE DEF c, d
    <3>2. c.fifo \in Seq(Message)
      BY <3>1 DEF Channel
    <3> QED BY <2>1, <2>3, <3>1, <3>2, ReadEffect
  <2>5. col' = CollectorLower(col)
    BY <1>6, <2>1, <2>3, <2>4 DEF ReadInput
  <2>6. PICK x : x \in Stored /\ Stored' = Stored \ {x}
    <3>1. Len(d.fifo) \in Nat /\ Len(c.fifo) = Len(d.fifo) + 1
      BY <2>1, <2>4
    <3> QED BY <1>1, <2>3, <3>1, StoredLess
  <2>7. Uncounted' = Uncounted /\ i \notin Uncounted
    BY <1>1, <1>2, <2>1, <2>3, <2>4 DEF Uncounted, ChLocked
  <2>8. /\ IsFiniteSet(Stored) /\ Cardinality(Stored) \in Nat
        /\ Cardinality(Uncounted) \in Nat
        /\ Cardinality(Uncounted) < Cardinality(Stored)
    BY <1>1, <2>1, <2>7, UncountedStored DEF Counts
  <2>9. IsFiniteSet(Stored') /\ Cardinality(Stored') = Cardinality(Stored) - 1
    BY <2>6, <2>8, FS_RemoveElement
  <2>10. /\ col'.count = col.count - 1 /\ col'.ch_count = col.ch_count
         /\ col'.state = IF col.count = 1 /\ col.state # "END" THEN "PENDING" ELSE col.state
         /\ col'.waiting => col.waiting /\ col'.state = col.state
    BY <1>1, <2>5, LowerEffect
  <2>11. CollectorAgrees' /\ col.count > 0 /\ col.count \in Int
    BY <2>7, <2>8, <2>9, <2>10 DEF Counts, CollectorAgrees
  <2>12. ~col'.waiting
    BY <2>1, <2>10 DEF Counts
  <2>13. /\ col'.state = "PENDING" => col'.count = 0
         /\ col'.state = "READY" => col'.count > 0
    BY <2>10, <2>11 DEF Counts
  <2> QED BY <1>3, <2>9, <2>10, <2>11, <2>12, <2>13 DEF Counts
<1>7. CASE RnEnd
  <2> DEFINE i == rn.idx
  <2>1. /\ rn.pc = "term" /\ col' = col
        /\ chans' = [chans EXCEPT ![i] = TerminateSink(@)]
    BY <1>7 DEF RnEnd
  <2>2. \A j \in Inputs : chans'[j].fifo = chans[j].fifo
                          /\ chans'[j].overwritten = chans[j].overwritten
    BY <1>1, <2>1 DEF TerminateSink, ChangeWriteState, Channel
  <2>3. Stored' = Stored /\ Uncounted' = Uncounted
    BY <1>2, <2>2 DEF Stored, Uncounted
  <2> QED BY <1>3, <2>1, <2>3, CountsFrame DEF Counts
<1>8. CASE ~CollectorWait /\ ~CollectorSpurious /\ ~ReadInput /\ ~RnEnd
  <2>1. chans' = chans /\ col' = col
    BY <1>8 DEF Rn, CollectorPass, LookAtCount, ScanHit, ScanMiss, WriteOut,
       LookAtState, LookAtFill, UpdateState
  <2>2. ~col.waiting
    BY <1>8 DEF Rn, CollectorPass, RnTests, LookAtCount, ScanHit, ScanMiss, WriteOut,
       LookAtState, LookAtFill, UpdateState, Counts
  <2>3. Stored' = Stored /\ Uncounted' = Uncounted
    BY <1>2, <2>1 DEF Stored, Uncounted
  <2> QED BY <1>3, <2>1, <2>2, <2>3, CountsFrame
<1> QED BY <1>4, <1>5, <1>6, <1>7, <1>8

(* Every step keeps the collector count and the rings together.            *)
LEMMA CountsStep == Typed /\ Fits /\ Counts /\ Finds /\ [Next]_vars => Counts'
<1> SUFFICES ASSUME Typed, Fits, Counts, Finds, [Next]_vars PROVE Counts'
  OBVIOUS
<1>1. CASE (\E o \in Outputs : ConsumerEnd(o)) \/ UNCHANGED vars
  <2>1. /\ UNCHANGED <<chans, col, prod, rn>>
        /\ Stored' = Stored /\ Uncounted' = Uncounted /\ Left' = Left
    BY <1>1 DEF ConsumerEnd, vars, Stored, Uncounted, Left
  <2> QED BY <2>1, CountsFrame DEF Counts
<1> QED BY <1>1, CountsProducer, CountsRn DEF Next, Ended

(* Nothing is counted and nothing stored at the start.                     *)
LEMMA CountsInit == Init => Counts
<1> SUFFICES ASSUME Init PROVE Counts
  OBVIOUS
<1>1. Stored = {}
  BY DEF Init, Stored, ChannelCreate
<1>2. Uncounted = {} /\ Left = {}
  BY DEF Init, Uncounted, Left
<1> QED
  BY <1>1, <1>2, FS_EmptySet, RoutingAssumption DEF Init, Counts, CollectorAgrees

-----------------------------------------------------------------------------
(* What the routing node finds.                                            *)

(* A producer leaves no input empty that was not, and does not make the    *)
(* collector wait.                                                         *)
LEMMA ProducerAdds ==
  ASSUME Typed, Fits, NEW i \in Inputs, Producer(i)
  PROVE  /\ col.state # "PENDING" => col'.state # "PENDING"
         /\ \A j \in Inputs : chans[j].fifo # <<>> => chans'[j].fifo # <<>>
<1>1. /\ chans \in [Inputs -> Channel] /\ chans[i] \in Channel
      /\ col \in CollectorRecord /\ FitsAt(i)
  BY DEF Typed, TypeOK, CollectorRecord, Fits
<1>2. col.state # "PENDING" => col'.state # "PENDING"
  <2>1. col' = col \/ col' = CollectorRaise(col) \/ col'.state = col.state
        \/ col' = ChangeCollectorState(col, "END")
    BY <1>1 DEF Producer, WriteWait, WriteAbort, WriteStore, WriteCount, WriteNotify,
       ProducerEnd, CollectorLeave, CollectorTerminate, CollectorRecord
  <2> QED BY <1>1, <2>1, RaiseEffect, CollectorTypes DEF EndState
<1>3. chans[i].fifo # <<>> => chans'[i].fifo # <<>>
  <2>1. CASE WriteStore(i)
    <3> DEFINE m == [seq |-> Writing(i), prevent_backup |-> FALSE]
    <3>1. m \in Message
      BY RoutingAssumption DEF Typed, TypeOK, Writing, Message
    <3>2. /\ chans'[i] = StoreMsg(chans[i], m)
          /\ chans[i].sink.state \notin {"PENDING", "END"}
      BY <1>1, <2>1 DEF WriteStore
    <3>3. /\ ~DecoupledIn(chans[i]) => ~Full(chans[i])
          /\ Len(chans[i].fifo) <= chans[i].length
      BY <1>1, <3>2 DEF FitsAt
    <3> HIDE DEF m
    <3>4. StoreMsg(chans[i], m).fifo # <<>>
      BY <1>1, <3>1, <3>2, <3>3, StoreEffect
    <3> QED BY <3>2, <3>4
  <2>2. CASE ~WriteStore(i)
    <3>1. chans'[i].fifo = chans[i].fifo
      BY <1>1, <2>2 DEF Producer, WriteWait, WriteAbort, WriteCount, WriteNotify,
         ProducerEnd, CollectorLeave, CollectorTerminate, SetWriteErr, ChangeReadState,
         TerminateSource, Channel, ChannelEnd
    <3> QED BY <3>1
  <2> QED BY <2>1, <2>2
<1>4. \A j \in Inputs \ {i} : chans'[j] = chans[j]
  BY TypedProducer
<1> QED BY <1>2, <1>3, <1>4

(* Where the collector counts a message, there is one in an input.         *)
LEMMA CountedIsThere ==
  ASSUME Typed, Fits, Counts
  PROVE  /\ col.count \in Nat
         /\ col.count > 0 => \E i \in Inputs : chans[i].fifo # <<>>
<1>1. /\ Cardinality(Stored) \in Nat /\ Cardinality(Uncounted) \in Nat
      /\ Cardinality(Uncounted) <= Cardinality(Stored)
      /\ col.count = Cardinality(Stored) - Cardinality(Uncounted)
  BY UncountedStored DEF Counts, CollectorAgrees
<1>2. ASSUME col.count > 0 PROVE \E i \in Inputs : chans[i].fifo # <<>>
  <2>1. Stored # {}
    BY <1>1, <1>2, FS_EmptySet
  <2>2. PICK i \in Inputs : {i} \X (1 .. Len(chans[i].fifo)) # {}
    BY <2>1 DEF Stored
  <2>3. chans[i].fifo # <<>>
    BY <2>2
  <2> QED BY <2>3
<1> QED BY <1>1, <1>2

(* A read takes the oldest message of the input that was found.            *)
LEMMA ReadDelivers ==
  ASSUME Typed, Fits, Finds, ReadInput
  PROVE  LET c == chans[rn.last]
             d == chans'[rn.last]
         IN  /\ rn.pc = "read" /\ ~ChLocked(rn.last) /\ c.fifo # <<>>
             /\ d = ChannelRead(c) /\ d.fifo = Tail(c.fifo) /\ d.type = c.type
             /\ d.copied = c.copied /\ d.overwritten = c.overwritten
             /\ d.source.state = "END" <=> c.source.state = "END"
             /\ \A j \in Inputs \ {rn.last} : chans'[j] = chans[j]
             /\ col' = CollectorLower(col)
             /\ rn'.pc = "write" /\ rn'.idx = 0 /\ rn'.failed = rn.failed
             /\ rn'.msg = [input |-> rn.last, seq |-> Head(c.fifo).seq]
             /\ UNCHANGED <<prod, routed, open, skipped>>
<1> DEFINE i == rn.last
           c == chans[i]
           d == chans'[i]
<1>1. /\ chans \in [Inputs -> Channel] /\ rn \in RnRecord /\ i \in Inputs
  BY DEF Typed, TypeOK, RnRecord
<1>2. /\ rn.pc = "read" /\ ~ChLocked(i) /\ c.fifo # <<>> /\ ~DecoupledOut(c)
      /\ ~c.copied /\ c.source.state # "PENDING" /\ c \in Channel
  BY <1>1 DEF ReadInput, Finds, ReadNeverFails, Fits, FitsAt
<1>3. /\ chans' = [chans EXCEPT ![i] = ChannelRead(c)]
      /\ UNCHANGED <<prod, routed, open, skipped>>
  BY <1>2 DEF ReadInput
<1>4. /\ d = ChannelRead(c)
      /\ \A j \in Inputs \ {i} : chans'[j] = chans[j]
  BY <1>1, <1>3
<1>5. /\ d.fifo = Tail(c.fifo) /\ d.type = c.type
      /\ d.copied = c.copied /\ d.overwritten = c.overwritten
      /\ d.source.state = "END" <=> c.source.state = "END"
      /\ ChannelReadMsg(c) = Head(c.fifo) /\ ChannelReadMsg(c) # NoMsg
  <2> HIDE DEF c, d
  <2>1. c.fifo \in Seq(Message)
    BY <1>2 DEF Channel
  <2> QED BY <1>2, <1>4, <2>1, ReadEffect, NoMsgAssumption
<1>6. col' = CollectorLower(col)
  BY <1>2, <1>4, <1>5 DEF ReadInput
<1>7. rn' = [rn EXCEPT !.pc = "write", !.idx = 0,
                       !.msg = [input |-> i, seq |-> Head(c.fifo).seq]]
  BY <1>2, <1>5 DEF ReadInput
<1>8. /\ rn'.pc = "write" /\ rn'.idx = 0 /\ rn'.failed = rn.failed
      /\ rn'.msg = [input |-> i, seq |-> Head(c.fifo).seq]
  BY <1>1, <1>7 DEF RnRecord
<1> QED BY <1>2, <1>3, <1>4, <1>5, <1>6, <1>8

(* A step of the routing node finds what it looks for.                     *)
LEMMA FindsRn ==
  ASSUME Typed, Fits, Counts, Finds, Rn \/ CollectorSpurious
  PROVE  Finds'
<1>1. /\ chans \in [Inputs -> Channel] /\ col \in CollectorRecord /\ rn \in RnRecord
      /\ rn.last \in Inputs /\ rn.left \in 0 .. N /\ ~rn.failed /\ rn.pc # "sleepCh"
      /\ \A i \in Inputs : ~DecoupledOut(chans[i])
  BY DEF Typed, TypeOK, CollectorRecord, RnRecord, Finds, ReadNeverFails, Fits, FitsAt
<1>2. CASE LookAtCount
  <2>1. rn.pc = "count" /\ chans' = chans /\ col' = col
    BY <1>2 DEF LookAtCount
  <2>2. CASE col.count > 0
    <3>1. /\ rn'.pc = "scan" /\ rn'.idx = Succ(rn.last) /\ rn'.left = N
          /\ rn'.failed = rn.failed
      BY <1>1, <1>2, <2>2 DEF LookAtCount, RnRecord
    <3>2. PICK i \in Inputs : chans[i].fifo # <<>>
      BY <2>2, CountedIsThere
    <3>3. (i - Succ(rn.last)) % N < N
      <4>1. Succ(rn.last) \in Inputs
        BY <1>1, Turns
      <4> QED BY <4>1, RoutingAssumption, Distances DEF Inputs
    <3> QED BY <1>1, <2>1, <3>1, <3>2, <3>3 DEF Finds, ReadNeverFails
  <2>3. CASE ~(col.count > 0)
    <3>1. col.state = "END"
      <4>1. col.count = 0
        BY <2>3, CountedIsThere
      <4> QED BY <1>1, <2>1, <4>1 DEF Counts, Finds, CollectorRecord, EndState
    <3>2. rn'.pc = "term" /\ rn'.failed = FALSE
      BY <1>1, <1>2, <2>3, <3>1 DEF LookAtCount, RnRecord
    <3> QED BY <3>2 DEF Finds, ReadNeverFails
  <2> QED BY <2>2, <2>3
<1>3. CASE CollectorPass
  <2>1. rn'.pc = "count" /\ rn'.failed = rn.failed /\ col'.state # "PENDING"
    BY <1>1, <1>3 DEF CollectorPass, RnRecord
  <2> QED BY <1>1, <2>1 DEF Finds, ReadNeverFails
<1>4. CASE ScanHit
  <2>1. /\ rn'.pc = "read" /\ rn'.last = rn.idx /\ rn'.failed = rn.failed
        /\ chans' = chans /\ ReadyToRead(chans[rn.idx]) /\ rn.idx \in Inputs
    BY <1>1, <1>4 DEF ScanHit, RnRecord, Typed, Loops
  <2> QED BY <1>1, <2>1 DEF Finds, ReadNeverFails, ReadyToRead
<1>5. CASE ScanMiss
  <2>1. /\ rn.pc = "scan" /\ chans' = chans /\ chans[rn.idx].fifo = <<>>
        /\ rn.idx \in Inputs
    BY <1>5 DEF ScanMiss, ReadyToRead, Typed, Loops
  <2>2. PICK i \in Inputs : chans[i].fifo # <<>> /\ (i - rn.idx) % N < rn.left
    BY <2>1 DEF Finds
  <2>3. i # rn.idx
    BY <2>1, <2>2
  <2>4. /\ Succ(rn.idx) = (IF rn.idx < N - 1 THEN rn.idx + 1 ELSE 0)
        /\ Succ(rn.idx) \in Inputs
    BY <2>1, Turns
  <2>5. /\ (i - rn.idx) % N = IF i >= rn.idx THEN i - rn.idx ELSE i - rn.idx + N
        /\ (i - Succ(rn.idx)) % N = IF i >= Succ(rn.idx) THEN i - Succ(rn.idx)
                                                         ELSE i - Succ(rn.idx) + N
    BY <2>1, <2>4, Distances
  <2>6. /\ (i - rn.idx) % N >= 1
        /\ (i - Succ(rn.idx)) % N = ((i - rn.idx) % N) - 1 /\ (i - rn.idx) % N \in Int
    <3>1. N \in Nat \ {0} /\ i \in 0 .. N - 1 /\ rn.idx \in 0 .. N - 1
      BY <2>1, RoutingAssumption DEF Inputs
    <3>2. CASE rn.idx < N - 1
      BY <2>3, <2>4, <2>5, <3>1, <3>2
    <3>3. CASE rn.idx = N - 1
      BY <2>3, <2>4, <2>5, <3>1, <3>3
    <3> QED BY <3>1, <3>2, <3>3
  <2>7. rn.left # 1 /\ (i - Succ(rn.idx)) % N < rn.left - 1
    BY <1>1, <2>2, <2>6, RoutingAssumption
  <2>8. /\ rn'.pc = "scan" /\ rn'.idx = Succ(rn.idx) /\ rn'.left = rn.left - 1
        /\ rn'.failed = rn.failed
    BY <1>1, <1>5, <2>1, <2>7 DEF ScanMiss, RnRecord
  <2> QED BY <1>1, <2>1, <2>2, <2>7, <2>8 DEF Finds, ReadNeverFails
<1>6. CASE ReadInput
  <2>1. rn'.pc = "write" /\ rn'.failed = rn.failed
    BY <1>6, ReadDelivers
  <2> QED BY <1>1, <2>1 DEF Finds, ReadNeverFails
<1>7. CASE CollectorSpurious
  <2>1. rn' = rn /\ rn.pc = "sleep"
    BY <1>7 DEF CollectorSpurious
  <2> QED BY <1>1, <2>1 DEF Finds, ReadNeverFails
<1>8. CASE CollectorWait \/ WriteOut \/ LookAtState \/ LookAtFill \/ UpdateState \/ RnEnd
  <2>1. /\ rn'.pc \in {"sleep", "write", "state", "fill", "term", "collector", "ended"}
        /\ rn'.failed = rn.failed
    BY <1>1, <1>8 DEF CollectorWait, WriteOut, LookAtState, LookAtFill, UpdateState,
       RnEnd, RnRecord
  <2> QED BY <1>1, <2>1 DEF Finds, ReadNeverFails
<1> QED BY <1>2, <1>3, <1>4, <1>5, <1>6, <1>7, <1>8 DEF Rn

(* What the routing node has seen in an unlocked look stays so until it    *)
(* acts.                                                                   *)
LEMMA FindsStep == Typed /\ Fits /\ Counts /\ Finds /\ [Next]_vars => Finds'
<1> SUFFICES ASSUME Typed, Fits, Counts, Finds, [Next]_vars PROVE Finds'
  OBVIOUS
<1>1. CASE (\E o \in Outputs : ConsumerEnd(o)) \/ UNCHANGED vars
  BY <1>1 DEF ConsumerEnd, vars, Finds, ReadNeverFails
<1>2. CASE \E i \in Inputs : Producer(i)
  <2>1. rn' = rn /\ rn.last \in Inputs
    BY <1>2, TypedProducer DEF Typed, TypeOK
  <2>2. /\ col.state # "PENDING" => col'.state # "PENDING"
        /\ \A j \in Inputs : chans[j].fifo # <<>> => chans'[j].fifo # <<>>
    BY <1>2, ProducerAdds
  <2> QED BY <2>1, <2>2 DEF Finds, ReadNeverFails
<1> QED BY <1>1, <1>2, FindsRn DEF Next, Ended

-----------------------------------------------------------------------------
(* The end of the routing node.                                            *)

(* An input that is empty and whose producer has ended stays so.           *)
LEMMA EmptyStays ==
  ASSUME Typed, Fits, Finds, Next, NEW i \in Inputs, chans[i].source.state = "END"
  PROVE  /\ chans'[i].source.state = "END"
         /\ Empty(i) => Empty(i)'
<1> DEFINE c == chans[i]
           d == chans'[i]
<1>1. /\ chans \in [Inputs -> Channel] /\ c \in Channel
      /\ prod[i].pc \in {"closing", "testing", "ended"}
  BY DEF Typed, TypeOK, Fits, FitsAt
<1>2. CASE d = c
  BY <1>2 DEF Empty
<1>3. CASE \E j \in Inputs : Producer(j)
  <2>1. PICK j \in Inputs : Producer(j)
    BY <1>3
  <2>2. CASE j # i
    BY <1>2, <2>1, <2>2, TypedProducer
  <2>3. CASE j = i
    BY <1>1, <1>2, <2>1, <2>3 DEF Producer, WriteWait, WriteAbort, WriteStore,
       WriterTests, WriteCount, WriteNotify, ProducerEnd, CollectorLeave,
       CollectorTerminate
  <2> QED BY <2>2, <2>3
<1>4. CASE ReadInput
  <2>1. CASE i = rn.last
    BY <1>4, <2>1, ReadDelivers DEF Empty
  <2>2. CASE i # rn.last
    BY <1>2, <1>4, <2>2, ReadDelivers
  <2> QED BY <2>1, <2>2
<1>5. CASE RnEnd
  <2>1. chans' = [chans EXCEPT ![rn.idx] = TerminateSink(@)]
    BY <1>5 DEF RnEnd
  <2>2. d.fifo = c.fifo /\ d.source = c.source
    BY <1>1, <2>1 DEF TerminateSink, ChangeWriteState, Channel
  <2> QED BY <2>2 DEF Empty
<1>6. CASE \/ (Rn \/ CollectorSpurious) /\ ~ReadInput /\ ~RnEnd
           \/ \E o \in Outputs : ConsumerEnd(o)
           \/ Ended
  BY <1>2, <1>6 DEF Rn, CollectorWait, CollectorSpurious, CollectorPass, LookAtCount,
     ScanHit, ScanMiss, WriteOut, LookAtState, LookAtFill, UpdateState, ConsumerEnd,
     Ended, vars
<1> QED BY <1>3, <1>4, <1>5, <1>6 DEF Next

(* When the collector has ended and counts nothing, everybody is done.     *)
LEMMA EndedAndCounted ==
  ASSUME Typed, Fits, Counts, Finds, rn.pc = "count", ~(col.count > 0)
  PROVE  \A i \in Inputs : Empty(i)
<1>1. col \in CollectorRecord
  BY DEF Typed, TypeOK, CollectorRecord
<1>2. col.count = 0
  BY CountedIsThere
<1>3. col.state = "END"
  BY <1>1, <1>2 DEF Counts, Finds, CollectorRecord, EndState
<1>4. Left = Inputs
  BY <1>3 DEF Counts
<1>5. Uncounted = {}
  BY <1>4 DEF Left, Uncounted
<1>6. Cardinality(Uncounted) = Cardinality(Stored)
  BY <1>2, UncountedStored DEF Counts, CollectorAgrees
<1>7. ASSUME NEW i \in Inputs PROVE Empty(i)
  <2>1. chans[i].fifo = <<>>
    BY <1>5, <1>6, UncountedStored DEF Counts
  <2>2. chans[i].source.state = "END"
    BY <1>4 DEF Left, Fits, FitsAt
  <2> QED BY <2>1, <2>2 DEF Empty
<1> QED BY <1>7

(* A step of the routing node drains its inputs before it ends.            *)
LEMMA DrainsRn ==
  ASSUME Typed, Fits, Counts, Finds, Drains, Next, Rn \/ CollectorSpurious
  PROVE  Drains'
<1>1. /\ rn \in RnRecord /\ N \in Nat \ {0} /\ Inputs = 0 .. N - 1 /\ Loops
      /\ rn.done \in 0 .. N /\ rn.idx \in Nat
      /\ \A i \in Inputs : ~DecoupledOut(chans[i])
  BY RoutingAssumption DEF Typed, TypeOK, RnRecord, Inputs, Fits, FitsAt
<1>2. Finds' /\ open' = open
  BY FindsRn, TypedRn
<1>3. \A i \in Inputs : Empty(i) => Empty(i)'
  BY EmptyStays DEF Empty
<1>4. ASSUME \A i \in Inputs : Empty(i) PROVE DrainsBeforeEnd'
  BY <1>3, <1>4 DEF DrainsBeforeEnd, Empty
<1>5. ASSUME rn'.pc \notin {"state", "fill", "term", "ended"} PROVE Drains'
  BY <1>5 DEF Drains, DrainsBeforeEnd
<1>6. ASSUME rn'.pc \in {"term", "ended"}, DrainsBeforeEnd' PROVE Drains'
  BY <1>6 DEF Drains
<1>7. ASSUME rn'.pc \in {"state", "fill"},
             rn'.pc = "fill" => chans'[rn'.idx].source.state = "END",
             rn'.done = rn'.idx => \A i \in Inputs : i < rn'.idx => Empty(i)'
      PROVE  Drains'
  BY <1>7 DEF Drains, DrainsBeforeEnd, Empty
<1>8. CASE \/ CollectorWait \/ CollectorSpurious \/ CollectorPass \/ ScanHit
           \/ ReadInput
  <2>1. ReadInput => rn'.pc = "write"
    BY ReadDelivers
  <2>2. rn'.pc \in {"sleep", "count", "read", "write"}
    BY <1>1, <1>8, <2>1 DEF CollectorWait, CollectorSpurious, CollectorPass, ScanHit,
       RnRecord
  <2> QED BY <1>5, <2>2
<1>9. CASE LookAtCount
  <2>1. CASE col.count > 0
    <3>1. rn'.pc = "scan"
      BY <1>1, <1>9, <2>1 DEF LookAtCount, RnRecord
    <3> QED BY <1>5, <3>1
  <2>2. CASE ~(col.count > 0)
    <3>1. rn.pc = "count" /\ rn'.pc = "term"
      BY <1>1, <1>9, <2>2 DEF LookAtCount, RnRecord
    <3> QED BY <1>4, <1>6, <2>2, <3>1, EndedAndCounted
  <2> QED BY <2>1, <2>2
<1>10. CASE ScanMiss
  <2>1. rn.left # 1
    BY <1>1, <1>2, <1>10 DEF ScanMiss, RnRecord, Finds, ReadNeverFails
  <2>2. rn'.pc = "scan"
    BY <1>1, <1>10, <2>1 DEF ScanMiss, RnRecord
  <2> QED BY <1>5, <2>2
<1>11. CASE WriteOut
  <2>1. rn'.pc = "write" \/ (rn'.pc = "state" /\ rn'.idx = 0)
    BY <1>1, <1>11 DEF WriteOut, RnRecord
  <2>2. CASE rn'.pc = "state" /\ rn'.idx = 0
    BY <1>1, <1>7, <2>2
  <2> QED BY <1>5, <2>1, <2>2
<1>12. CASE LookAtState
  <2>1. /\ rn.pc = "state" /\ rn.idx < N /\ rn.done <= rn.idx /\ chans' = chans
    BY <1>1, <1>12 DEF LookAtState, Loops
  <2>2. \/ /\ rn'.pc = "fill" /\ rn'.idx = rn.idx /\ rn'.done = rn.done
           /\ chans[rn.idx].source.state = "END"
        \/ rn'.pc = "state" /\ rn'.idx = rn.idx + 1 /\ rn'.done = rn.done
    BY <1>1, <1>12 DEF LookAtState, RnRecord
  <2>3. rn'.done = rn'.idx => \A i \in Inputs : i < rn'.idx => Empty(i)'
    BY <1>1, <1>3, <2>1, <2>2 DEF Drains
  <2> QED BY <1>7, <2>1, <2>2, <2>3
<1>13. CASE LookAtFill
  <2>1. /\ rn.pc = "fill" /\ rn.idx < N /\ rn.done <= rn.idx
        /\ chans[rn.idx].source.state = "END"
    BY <1>1, <1>13 DEF LookAtFill, Loops, Drains
  <2>2. /\ rn'.pc = "state" /\ rn'.idx = rn.idx + 1
        /\ rn'.done = IF chans[rn.idx].fifo = <<>> THEN rn.done + 1 ELSE rn.done
    BY <1>1, <1>13 DEF LookAtFill, RnRecord
  <2>3. ASSUME rn'.done = rn'.idx, NEW i \in Inputs, i < rn'.idx PROVE Empty(i)'
    <3>1. rn.done = rn.idx /\ chans[rn.idx].fifo = <<>>
      BY <1>1, <2>1, <2>2, <2>3
    <3>2. CASE i < rn.idx
      BY <1>3, <2>1, <3>1, <3>2 DEF Drains
    <3>3. CASE i = rn.idx
      BY <1>3, <2>1, <3>1, <3>3 DEF Empty
    <3> QED BY <1>1, <2>2, <2>3, <3>2, <3>3
  <2> QED BY <1>7, <2>2, <2>3
<1>14. CASE UpdateState
  <2>1. CASE rn'.pc = "collector"
    BY <1>5, <2>1
  <2>2. CASE rn'.pc # "collector"
    <3>1. /\ rn.pc = "state" /\ rn.idx = N /\ rn'.pc = "term"
          /\ rn.done >= Cardinality(Triggers) \/ open = {}
      BY <1>1, <1>14, <2>2 DEF UpdateState, RnRecord
    <3>2. CASE open = {}
      BY <1>2, <1>6, <3>1, <3>2 DEF DrainsBeforeEnd
    <3>3. CASE rn.done >= Cardinality(Triggers)
      <4>1. Triggers = Inputs
        BY <1>1 DEF Triggers
      <4>2. Cardinality(Triggers) = N
        BY <4>1, UncountedStored DEF Counts
      <4>3. rn.done = rn.idx
        BY <1>1, <3>1, <3>3, <4>2
      <4>4. \A i \in Inputs : Empty(i)
        BY <1>1, <3>1, <4>3 DEF Drains
      <4> QED BY <1>4, <1>6, <3>1, <4>4
    <3> QED BY <3>1, <3>2, <3>3
  <2> QED BY <2>1, <2>2
<1>15. CASE RnEnd
  <2>1. rn.pc = "term" /\ rn'.pc \in {"term", "ended"}
    BY <1>15, EndIsLast DEF RnEnd
  <2>2. DrainsBeforeEnd'
    BY <1>2, <1>3, <2>1 DEF Drains, DrainsBeforeEnd, Empty
  <2> QED BY <1>6, <2>1, <2>2
<1> QED
  BY <1>8, <1>9, <1>10, <1>11, <1>12, <1>13, <1>14, <1>15 DEF Rn

(* No step closes the node while messages are left behind.                 *)
LEMMA DrainsStep == Typed /\ Fits /\ Counts /\ Finds /\ Drains /\ [Next]_vars => Drains'
<1> SUFFICES ASSUME Typed, Fits, Counts, Finds, Drains, [Next]_vars PROVE Drains'
  OBVIOUS
<1>1. CASE UNCHANGED vars
  BY <1>1 DEF vars, Drains, DrainsBeforeEnd, Empty
<1>2. CASE \/ \E i \in Inputs : Producer(i)
           \/ \E o \in Outputs : ConsumerEnd(o)
  <2>1. Next /\ rn' = rn /\ open' \subseteq open
    BY <1>2, TypedProducer DEF ConsumerEnd, Next
  <2>2. \A i \in Inputs : /\ Empty(i) => Empty(i)'
                          /\ chans[i].source.state = "END" => chans'[i].source.state = "END"
    BY <2>1, EmptyStays DEF Empty
  <2>3. rn.pc = "fill" => rn.idx \in Inputs
    BY RoutingAssumption DEF Typed, TypeOK, Loops, Inputs
  <2> QED BY <2>1, <2>2, <2>3 DEF Drains, DrainsBeforeEnd, Empty
<1> QED BY <1>1, <1>2, DrainsRn DEF Next, Ended

-----------------------------------------------------------------------------
(* What gets through.                                                      *)

(* What an output has got, when nothing is written to it.                  *)
LEMMA SeqsFrame ==
  ASSUME NEW o, NEW i, routed'[o] = routed[o]
  PROVE  /\ SeqsOf(o, i)' = SeqsOf(o, i)
         /\ InOrder(o, i) => InOrder(o, i)'
BY DEF SeqsOf, InOrder

(* And when a message is.                                                  *)
LEMMA SeqsAppend ==
  ASSUME NEW o, NEW i, NEW m \in [input : Inputs, seq : Nat],
         routed[o] \in Seq([input : Inputs, seq : Nat]),
         routed'[o] = Append(routed[o], m)
  PROVE  /\ SeqsOf(o, i)' = IF m.input = i THEN SeqsOf(o, i) \union {m.seq}
                                           ELSE SeqsOf(o, i)
         /\ /\ InOrder(o, i)
            /\ m.input = i => \A s \in SeqsOf(o, i) : s < m.seq
            => InOrder(o, i)'
<1> DEFINE r == routed[o]
           w == routed'[o]
<1>1. /\ Len(r) \in Nat /\ DOMAIN r = 1 .. Len(r) /\ DOMAIN w = 1 .. Len(r) + 1
      /\ \A k \in 1 .. Len(r) : w[k] = r[k]
      /\ w[Len(r) + 1] = m
  OBVIOUS
<1>2. ASSUME NEW s PROVE s \in SeqsOf(o, i) <=>
                           \E k \in 1 .. Len(r) : r[k].input = i /\ s = r[k].seq
  BY <1>1 DEF SeqsOf
<1>3. ASSUME NEW s PROVE s \in SeqsOf(o, i)' <=>
                           \E k \in 1 .. Len(r) + 1 : w[k].input = i /\ s = w[k].seq
  BY <1>1 DEF SeqsOf
<1> HIDE DEF r, w
<1>4. ASSUME NEW s
      PROVE  s \in SeqsOf(o, i)' <=> s \in SeqsOf(o, i) \/ (m.input = i /\ s = m.seq)
  <2>1. ASSUME s \in SeqsOf(o, i)' PROVE s \in SeqsOf(o, i) \/ (m.input = i /\ s = m.seq)
    <3>1. PICK k \in 1 .. Len(r) + 1 : w[k].input = i /\ s = w[k].seq
      BY <1>3, <2>1
    <3>2. CASE k = Len(r) + 1
      BY <1>1, <3>1, <3>2
    <3>3. CASE k \in 1 .. Len(r)
      BY <1>1, <1>2, <3>1, <3>3
    <3> QED BY <1>1, <3>2, <3>3
  <2>2. ASSUME s \in SeqsOf(o, i) PROVE s \in SeqsOf(o, i)'
    <3>1. PICK k \in 1 .. Len(r) : r[k].input = i /\ s = r[k].seq
      BY <1>2, <2>2
    <3> QED BY <1>1, <1>3, <3>1
  <2>3. ASSUME m.input = i, s = m.seq PROVE s \in SeqsOf(o, i)'
    <3>1. Len(r) + 1 \in 1 .. Len(r) + 1
      BY <1>1
    <3> QED BY <1>1, <1>3, <2>3, <3>1
  <2> QED BY <2>1, <2>2, <2>3
<1>5. ASSUME InOrder(o, i), m.input = i => \A s \in SeqsOf(o, i) : s < m.seq,
             NEW k \in 1 .. Len(r) + 1, NEW n \in 1 .. Len(r) + 1,
             k < n, w[k].input = i, w[n].input = i
      PROVE  w[k].seq < w[n].seq
  <2>1. k \in 1 .. Len(r)
    BY <1>1, <1>5
  <2>2. CASE n = Len(r) + 1
    <3>1. w[k].seq \in SeqsOf(o, i)
      BY <1>1, <1>2, <1>5, <2>1
    <3> QED BY <1>1, <1>5, <2>2, <3>1
  <2>3. CASE n \in 1 .. Len(r)
    BY <1>1, <1>5, <2>1, <2>3 DEF InOrder, r
  <2> QED BY <1>1, <2>2, <2>3
<1>6. ASSUME InOrder(o, i), m.input = i => \A s \in SeqsOf(o, i) : s < m.seq
      PROVE  InOrder(o, i)'
  BY <1>1, <1>5, <1>6 DEF InOrder, w
<1> QED BY <1>4, <1>6

(* A stream that a step does not touch.                                    *)
LEMMA StreamFrame ==
  ASSUME NEW o, NEW i, StreamAt(o, i),
         chans'[i].fifo = chans[i].fifo, chans'[i].type = chans[i].type,
         Accepted(i)' = Accepted(i), routed'[o] = routed[o],
         InHand(o, i)' <=> InHand(o, i),
         InHand(o, i) => rn'.msg = rn.msg
  PROVE  StreamAt(o, i)'
<1>1. SeqsOf(o, i)' = SeqsOf(o, i) /\ (InOrder(o, i) => InOrder(o, i)')
  BY SeqsFrame
<1>2. Taken(i)' = Taken(i)
  BY DEF Taken
<1>3. LastOnWay(o, i)'
  BY <1>1 DEF StreamAt, LastOnWay
<1>4. AllOnWay(o, i) => AllOnWay(o, i)'
  BY <1>1, <1>2 DEF AllOnWay
<1> QED BY <1>3, <1>4 DEF StreamAt, DecoupledIn

(* A message that is stored is on its way.                                 *)
LEMMA StreamStore ==
  ASSUME Typed, NEW i \in Inputs, FitsAt(i), WriteStore(i),
         prod[i].pc = "wait" => prod[i].created > 0,
         NEW o, StreamAt(o, i)
  PROVE  StreamAt(o, i)'
<1> DEFINE c == chans[i]
           d == chans'[i]
           m == [seq |-> Writing(i), prevent_backup |-> FALSE]
<1>1. /\ chans \in [Inputs -> Channel] /\ c \in Channel
      /\ prod \in [Inputs -> [pc : ProdPc, created : 0..MaxWrites]]
      /\ prod[i].created \in Nat
  BY RoutingAssumption DEF Typed, TypeOK
<1>2. m \in Message
  BY <1>1 DEF Writing, Message
<1>3. /\ d = StoreMsg(c, m) /\ prod' = [prod EXCEPT ![i] = [pc |-> "stored", created |-> Writing(i)]]
      /\ prod[i].pc \in {"idle", "wait"} /\ c.sink.state \notin {"PENDING", "END"}
      /\ UNCHANGED <<rn, routed>>
  BY <1>1 DEF WriteStore, WriterTests, WriteTo
<1>4. /\ Accepted(i)' = Accepted(i) + 1 /\ Accepted(i) \in Nat
      /\ m.seq = Accepted(i) + 1
  BY <1>1, <1>3 DEF Accepted, Writing
<1>5. /\ ~DecoupledIn(c) => ~Full(c)
      /\ Len(c.fifo) <= c.length /\ c.fifo \in Seq(Message)
  BY <1>1, <1>3 DEF FitsAt, Channel
<1> HIDE DEF m
<1>6. /\ d.type = c.type
      /\ ~Full(c) => d.fifo = Append(c.fifo, m)
      /\ Full(c) => d.fifo = [c.fifo EXCEPT ![1] = m] /\ c.fifo # <<>>
  <2>1. LET w == StoreMsg(c, m)
        IN  /\ w.type = c.type
            /\ ~Full(c) => w.fifo = Append(c.fifo, m)
            /\ Full(c) => w.fifo = [c.fifo EXCEPT ![1] = m] /\ c.fifo # <<>>
    <3> HIDE DEF c, d
    <3> QED BY <1>1, <1>2, <1>3, <1>5, StoreEffect
  <2> QED BY <1>3, <2>1
<1>7. LastOnWay(o, i)'
  <2>1. \E k \in DOMAIN d.fifo : d.fifo[k] = m
    <3>1. CASE Full(c)
      BY <1>5, <1>6, <3>1
    <3>2. CASE ~Full(c)
      <4>1. Len(c.fifo) + 1 \in DOMAIN d.fifo /\ d.fifo[Len(c.fifo) + 1] = m
        BY <1>2, <1>5, <1>6, <3>2
      <4> QED BY <4>1
    <3> QED BY <3>1, <3>2
  <2>2. \E k \in DOMAIN d.fifo : d.fifo[k].seq = Accepted(i)'
    BY <1>4, <2>1
  <2> QED BY <2>2 DEF LastOnWay
<1>8. ASSUME ~DecoupledIn(c), AllOnWay(o, i) PROVE AllOnWay(o, i)'
  <2>1. d.fifo = Append(c.fifo, m) /\ Len(d.fifo) = Len(c.fifo) + 1 /\ Len(c.fifo) \in Nat
    BY <1>2, <1>5, <1>6, <1>8
  <2>2. Taken(i)' = Taken(i) /\ Taken(i) \in Int /\ m.seq = Taken(i) + Len(c.fifo) + 1
    BY <1>4, <2>1 DEF Taken
  <2>3. SeqsOf(o, i)' = SeqsOf(o, i) /\ InOrder(o, i)'
    BY <1>3, <1>8, SeqsFrame DEF AllOnWay
  <2>4. InHand(o, i)' = InHand(o, i) /\ rn' = rn
    BY <1>3 DEF InHand
  <2>5. ASSUME NEW k \in DOMAIN d.fifo PROVE d.fifo[k].seq = Taken(i) + k
    <3>1. CASE k = Len(c.fifo) + 1
      BY <1>2, <1>5, <2>1, <2>2, <3>1
    <3>2. CASE k # Len(c.fifo) + 1
      <4>1. k \in DOMAIN c.fifo /\ d.fifo[k] = c.fifo[k]
        BY <1>2, <1>5, <2>1, <3>2
      <4> QED BY <1>8, <4>1 DEF AllOnWay
    <3> QED BY <3>1, <3>2
  <2> QED BY <1>8, <2>2, <2>3, <2>4, <2>5 DEF AllOnWay
<1> QED BY <1>6, <1>7, <1>8 DEF StreamAt, DecoupledIn

(* A step of its producer keeps the stream of an input.                    *)
LEMMA StreamProducer ==
  ASSUME Typed, Fits, Drains, NEW i \in Inputs, Producer(i),
         prod[i].pc = "wait" => prod[i].created > 0
  PROVE  /\ prod'[i].pc = "wait" => prod'[i].created > 0
         /\ \A o \in open : StreamAt(o, i) => StreamAt(o, i)'
<1> DEFINE c == chans[i]
           d == chans'[i]
<1>1. /\ chans \in [Inputs -> Channel] /\ c \in Channel
      /\ prod \in [Inputs -> [pc : ProdPc, created : 0..MaxWrites]]
      /\ prod[i].created \in Nat /\ FitsAt(i) /\ UNCHANGED <<rn, routed>>
  <2>1. UNCHANGED <<rn, routed>>
    BY TypedProducer
  <2> QED BY <2>1, RoutingAssumption DEF Typed, TypeOK, Fits
<1>2. CASE WriteStore(i)
  <2>1. prod'[i].pc = "stored"
    BY <1>1, <1>2 DEF WriteStore, WriteTo
  <2> QED BY <1>1, <1>2, <2>1, StreamStore
<1>3. ASSUME d.fifo = c.fifo, d.type = c.type, Accepted(i)' = Accepted(i)
      PROVE  \A o \in open : StreamAt(o, i) => StreamAt(o, i)'
  BY <1>1, <1>3, StreamFrame DEF InHand
<1>4. CASE WriteWait(i)
  <2>1. /\ prod[i].pc \in {"idle", "wait"} /\ prod'[i].pc = "wait"
        /\ prod'[i].created = Writing(i)
    BY <1>1, <1>4 DEF WriteWait, WriterTests, WriteTo
  <2>2. Accepted(i)' = Accepted(i) /\ prod'[i].created > 0
    BY <1>1, <2>1 DEF Accepted, Writing
  <2>3. d.fifo = c.fifo /\ d.type = c.type
    BY <1>1, <1>4 DEF WriteWait, Channel, ChannelEnd
  <2> QED BY <1>3, <2>2, <2>3
<1>5. CASE WriteAbort(i)
  <2>1. /\ c.sink.state = "END" /\ prod[i].pc \in {"idle", "wait"}
        /\ prod'[i].pc = "idle"
    BY <1>1, <1>5 DEF WriteAbort, WriterTests, WriteTo
  <2>2. c.source.state # "END" /\ rn.pc \in {"term", "ended"}
    BY <1>1, <2>1 DEF FitsAt
  <2>3. open = {}
    BY <2>2 DEF Drains, DrainsBeforeEnd
  <2> QED BY <2>1, <2>3
<1>6. CASE \/ WriteCount(i) \/ WriteNotify(i) \/ ProducerEnd(i) \/ CollectorLeave(i)
           \/ CollectorTerminate(i)
  <2>1. /\ prod[i].pc # "wait" /\ prod'[i].pc # "wait"
        /\ prod'[i].created = prod[i].created
    BY <1>1, <1>6 DEF WriteCount, WriteNotify, ProducerEnd, CollectorLeave,
       CollectorTerminate, GoTo
  <2>2. d.fifo = c.fifo /\ d.type = c.type
    BY <1>1, <1>6 DEF WriteCount, WriteNotify, ProducerEnd, CollectorLeave,
       CollectorTerminate, ChangeReadState, TerminateSource, Channel
  <2>3. Accepted(i)' = Accepted(i)
    BY <2>1 DEF Accepted
  <2> QED BY <1>3, <2>1, <2>2, <2>3
<1> QED BY <1>2, <1>4, <1>5, <1>6 DEF Producer

(* So does a read, which takes the message in hand.                        *)
LEMMA StreamRead ==
  ASSUME Typed, Fits, Finds, ReadInput, NEW i \in Inputs, NEW o \in Outputs,
         StreamAt(o, i)
  PROVE  StreamAt(o, i)'
<1> DEFINE c == chans[i]
           d == chans'[i]
<1>1. c \in Channel /\ c.fifo \in Seq(Message) /\ prod' = prod /\ routed' = routed
  BY ReadDelivers DEF Typed, TypeOK, Channel
<1>2. /\ rn.pc = "read" /\ rn'.pc = "write" /\ rn'.idx = 0
      /\ rn'.msg = [input |-> rn.last, seq |-> Head(chans[rn.last].fifo).seq]
  BY ReadDelivers
<1>3. ~InHand(o, i) /\ Accepted(i)' = Accepted(i)
  BY <1>1, <1>2 DEF InHand, Accepted
<1>4. CASE i # rn.last
  <2>1. d = c
    BY <1>4, ReadDelivers
  <2>2. ~InHand(o, i)'
    BY <1>2, <1>4 DEF InHand
  <2> QED BY <1>1, <1>3, <2>1, <2>2, StreamFrame
<1>5. CASE i = rn.last
  <2>1. c.fifo # <<>> /\ d.fifo = Tail(c.fifo) /\ d.type = c.type
    BY <1>5, ReadDelivers
  <2>2. InHand(o, i)' /\ rn'.msg.seq = c.fifo[1].seq
    <3>1. 0 <= o
      BY RoutingAssumption DEF Outputs
    <3> QED BY <1>1, <1>2, <1>5, <2>1, <3>1 DEF InHand
  <2>3. /\ Len(c.fifo) \in Nat \ {0} /\ Len(d.fifo) = Len(c.fifo) - 1
        /\ DOMAIN c.fifo = 1 .. Len(c.fifo) /\ DOMAIN d.fifo = 1 .. Len(c.fifo) - 1
        /\ \A k \in 1 .. Len(c.fifo) - 1 : d.fifo[k] = c.fifo[k + 1]
    BY <1>1, <2>1
  <2>4. SeqsOf(o, i)' = SeqsOf(o, i) /\ (InOrder(o, i) => InOrder(o, i)')
    BY <1>1, SeqsFrame
  <2>5. LastOnWay(o, i)'
    <3>1. CASE Accepted(i) = 0 \/ Accepted(i) \in SeqsOf(o, i)
      BY <1>3, <2>4, <3>1 DEF LastOnWay
    <3>2. CASE \E k \in DOMAIN c.fifo : c.fifo[k].seq = Accepted(i)
      <4>1. PICK k \in 1 .. Len(c.fifo) : c.fifo[k].seq = Accepted(i)
        BY <2>3, <3>2
      <4>2. CASE k = 1
        BY <1>3, <2>2, <4>1, <4>2 DEF LastOnWay
      <4>3. CASE k # 1
        <5>1. k - 1 \in DOMAIN d.fifo /\ d.fifo[k - 1] = c.fifo[k]
          BY <2>3, <4>3
        <5> QED BY <1>3, <4>1, <5>1 DEF LastOnWay
      <4> QED BY <4>2, <4>3
    <3> QED BY <1>3, <3>1, <3>2 DEF StreamAt, LastOnWay
  <2>6. ASSUME AllOnWay(o, i) PROVE AllOnWay(o, i)'
    <3>1. Accepted(i) \in Int
      BY RoutingAssumption DEF Typed, TypeOK, Accepted
    <3>2. Taken(i)' = Taken(i) + 1 /\ Taken(i) \in Int
      <4>1. Len(d.fifo) = Len(c.fifo) - 1 /\ Len(c.fifo) \in Nat
        BY <2>3
      <4>2. \A a \in Int, n \in Nat : a - (n - 1) = (a - n) + 1 /\ a - n \in Int
        OBVIOUS
      <4>3. /\ Taken(i) = Accepted(i) - Len(c.fifo)
            /\ Taken(i)' = Accepted(i) - Len(d.fifo)
        BY <1>3 DEF Taken
      <4> HIDE DEF c, d
      <4> QED BY <3>1, <4>1, <4>2, <4>3
    <3>3. /\ \A k \in DOMAIN c.fifo : c.fifo[k].seq = Taken(i) + k
          /\ Taken(i) >= 0 /\ SeqsOf(o, i) = 1 .. Taken(i) /\ InOrder(o, i)
      BY <1>3, <2>6 DEF AllOnWay
    <3>4. ASSUME NEW k \in DOMAIN d.fifo PROVE d.fifo[k].seq = Taken(i)' + k
      <4>1. k \in Int /\ k + 1 \in DOMAIN c.fifo /\ d.fifo[k] = c.fifo[k + 1]
        BY <2>3
      <4>2. c.fifo[k + 1].seq = Taken(i) + (k + 1)
        BY <3>3, <4>1
      <4> QED BY <3>2, <4>1, <4>2
    <3>5. rn'.msg.seq = Taken(i)'
      <4>1. 1 \in DOMAIN c.fifo
        BY <2>3
      <4> QED BY <2>2, <3>2, <3>3, <4>1
    <3>6. SeqsOf(o, i)' = 1 .. Taken(i)' - 1 /\ Taken(i)' > 0 /\ Taken(i)' >= 0
      BY <2>4, <3>2, <3>3
    <3> QED BY <2>2, <2>4, <3>3, <3>4, <3>5, <3>6 DEF AllOnWay
  <2> QED BY <2>1, <2>5, <2>6 DEF StreamAt, DecoupledIn
<1> QED BY <1>4, <1>5

(* And a write, which hands it over to one output.                         *)
LEMMA StreamWrite ==
  ASSUME Typed, WriteOut, NEW i \in Inputs, NEW o \in open, StreamAt(o, i)
  PROVE  StreamAt(o, i)'
<1> DEFINE m == rn.msg
<1>1. /\ rn.pc = "write" /\ rn.idx \in Outputs /\ UNCHANGED <<chans, prod>>
      /\ o \in Outputs /\ m \in [input : Inputs, seq : Nat]
      /\ routed \in [Outputs -> Seq([input : Inputs, seq : Nat])]
  BY WriteOutEffect DEF Typed, TypeOK, Loops
<1>2. routed'[o] = IF o = rn.idx THEN Append(routed[o], m) ELSE routed[o]
  BY <1>1, WriteOutEffect
<1>3. \/ /\ rn.idx < M - 1 /\ rn'.pc = "write" /\ rn'.idx = rn.idx + 1 /\ rn'.msg = m
      \/ rn.idx = M - 1 /\ rn'.pc = "state"
  BY WriteOutEffect
<1>4. InHand(o, i)' <=> InHand(o, i) /\ o # rn.idx
  BY <1>1, <1>3, RoutingAssumption DEF InHand, Outputs
<1>5. Accepted(i)' = Accepted(i) /\ Taken(i)' = Taken(i) /\ Accepted(i) \in Int
  BY <1>1, RoutingAssumption DEF Accepted, Taken, Typed, TypeOK
<1>6. CASE o # rn.idx \/ m.input # i
  <2>1. InHand(o, i)' <=> InHand(o, i)
    BY <1>4, <1>6 DEF InHand
  <2>2. InHand(o, i)' => rn'.msg = m
    BY <1>3 DEF InHand
  <2>3. CASE o # rn.idx
    BY <1>1, <1>2, <1>5, <2>1, <2>2, <2>3, StreamFrame
  <2>4. CASE o = rn.idx /\ m.input # i
    <3>1. /\ SeqsOf(o, i)' = SeqsOf(o, i)
          /\ InOrder(o, i) => InOrder(o, i)'
      BY <1>1, <1>2, <2>4, SeqsAppend
    <3>2. LastOnWay(o, i)'
      BY <1>1, <1>5, <2>1, <2>2, <3>1 DEF StreamAt, LastOnWay
    <3>3. AllOnWay(o, i) => AllOnWay(o, i)'
      BY <1>1, <1>5, <2>1, <2>2, <3>1 DEF AllOnWay
    <3> QED BY <1>1, <3>2, <3>3 DEF StreamAt
  <2> QED BY <1>6, <2>3, <2>4
<1>7. CASE o = rn.idx /\ m.input = i
  <2>1. InHand(o, i) /\ ~InHand(o, i)'
    BY <1>1, <1>4, <1>7, RoutingAssumption DEF InHand, Outputs
  <2>2. /\ SeqsOf(o, i)' = SeqsOf(o, i) \union {m.seq}
        /\ InOrder(o, i) /\ (\A s \in SeqsOf(o, i) : s < m.seq) => InOrder(o, i)'
    BY <1>1, <1>2, <1>7, SeqsAppend
  <2>3. LastOnWay(o, i)'
    BY <1>1, <1>5, <2>1, <2>2 DEF StreamAt, LastOnWay
  <2>4. ASSUME AllOnWay(o, i) PROVE AllOnWay(o, i)'
    <3>1. /\ SeqsOf(o, i) = 1 .. Taken(i) - 1 /\ m.seq = Taken(i) /\ InOrder(o, i)
          /\ Taken(i) > 0 /\ Taken(i) \in Nat
      BY <1>1, <2>1, <2>4 DEF AllOnWay
    <3>2. InOrder(o, i)' /\ SeqsOf(o, i)' = 1 .. Taken(i)
      <4>1. (1 .. Taken(i) - 1) \union {Taken(i)} = 1 .. Taken(i)
        BY <3>1
      <4>2. \A s \in SeqsOf(o, i) : s < m.seq
        BY <3>1
      <4> QED BY <2>2, <3>1, <4>1, <4>2
    <3> QED BY <1>1, <1>5, <2>1, <2>4, <3>2 DEF AllOnWay
  <2> QED BY <1>1, <2>3, <2>4 DEF StreamAt
<1> QED BY <1>6, <1>7

(* Every step keeps the streams together: no message is lost, doubled or   *)
(* overtaken.                                                              *)
LEMMA StreamsStep ==
  Typed /\ Fits /\ Finds /\ Drains /\ Streams /\ [Next]_vars => Streams'
<1> SUFFICES ASSUME Typed, Fits, Finds, Drains, Streams, [Next]_vars,
                    NEW i \in Inputs
             PROVE  /\ prod'[i].pc = "wait" => prod'[i].created > 0
                    /\ \A o \in open' : StreamAt(o, i)'
  BY DEF Streams
<1>1. /\ prod[i].pc = "wait" => prod[i].created > 0
      /\ \A o \in open : StreamAt(o, i)
      /\ open \subseteq Outputs
  BY DEF Streams, Typed, TypeOK
<1>2. ASSUME open' \subseteq open, prod'[i] = prod[i], rn' = rn, routed' = routed,
             chans'[i] = chans[i]
      PROVE  /\ prod'[i].pc = "wait" => prod'[i].created > 0
             /\ \A o \in open' : StreamAt(o, i)'
  <2>1. Accepted(i)' = Accepted(i) /\ \A o \in open : InHand(o, i)' <=> InHand(o, i)
    BY <1>2 DEF Accepted, InHand
  <2> QED BY <1>1, <1>2, <2>1, StreamFrame
<1>3. CASE \E j \in Inputs : Producer(j)
  <2>1. PICK j \in Inputs : Producer(j)
    BY <1>3
  <2>2. open' = open /\ rn' = rn /\ routed' = routed
    BY <2>1, TypedProducer
  <2>3. CASE j = i
    BY <1>1, <2>1, <2>2, <2>3, StreamProducer
  <2>4. CASE j # i
    BY <1>2, <2>1, <2>2, <2>4, TypedProducer
  <2> QED BY <2>3, <2>4
<1>4. CASE (\E o \in Outputs : ConsumerEnd(o)) \/ UNCHANGED vars
  <2>1. /\ open' \subseteq open /\ UNCHANGED <<prod, rn, routed, chans>>
    BY <1>4 DEF ConsumerEnd, vars
  <2> QED BY <1>2, <2>1
<1>5. CASE ReadInput
  BY <1>1, <1>5, StreamRead, ReadDelivers
<1>6. CASE WriteOut
  <2>1. open' = open /\ prod' = prod
    BY <1>6 DEF WriteOut
  <2> QED BY <1>1, <1>6, <2>1, StreamWrite
<1>7. CASE (Rn \/ CollectorSpurious) /\ ~ReadInput /\ ~WriteOut
  <2>1. /\ open' = open /\ prod' = prod /\ routed' = routed
        /\ rn' = rn \/ (rn'.pc # "write" /\ rn.pc # "write")
        /\ chans'[i].fifo = chans[i].fifo /\ chans'[i].type = chans[i].type
    <3>1. chans \in [Inputs -> Channel] /\ chans[i] \in Channel /\ rn \in RnRecord
      BY DEF Typed, TypeOK, RnRecord
    <3>2. /\ rn' = rn \/ (rn'.pc # "write" /\ rn.pc # "write")
          /\ open' = open /\ prod' = prod /\ routed' = routed
      BY <1>7, <3>1 DEF Rn, RnRecord, CollectorWait, CollectorSpurious, CollectorPass,
         RnTests, LookAtCount, ScanHit, ScanMiss, LookAtState, LookAtFill, UpdateState,
         RnEnd
    <3>3. chans' = chans \/ chans' = [chans EXCEPT ![rn.idx] = TerminateSink(@)]
      BY <1>7 DEF Rn, CollectorWait, CollectorSpurious, CollectorPass,
         LookAtCount, ScanHit, ScanMiss, LookAtState, LookAtFill, UpdateState, RnEnd
    <3>4. chans'[i].fifo = chans[i].fifo /\ chans'[i].type = chans[i].type
      <4>1. CASE chans' = chans
        BY <4>1
      <4>2. CASE chans' = [chans EXCEPT ![rn.idx] = TerminateSink(@)]
        BY <3>1, <4>2 DEF TerminateSink, ChangeWriteState, Channel
      <4> QED BY <3>3, <4>1, <4>2
    <3> QED BY <3>2, <3>4
  <2>2. Accepted(i)' = Accepted(i)
        /\ \A o \in open : (InHand(o, i)' <=> InHand(o, i))
                           /\ (InHand(o, i) => rn'.msg = rn.msg)
    BY <2>1 DEF Accepted, InHand
  <2> QED BY <1>1, <2>1, <2>2, StreamFrame
<1> QED BY <1>3, <1>4, <1>5, <1>6, <1>7 DEF Next, Ended

(* All streams are empty at the start.                                     *)
LEMMA StreamsInit == Init => Streams
<1> SUFFICES ASSUME Init, NEW i \in Inputs
             PROVE  /\ prod[i].pc = "wait" => prod[i].created > 0
                    /\ \A o \in open : StreamAt(o, i)
  BY DEF Streams
<1>1. prod[i].pc = "idle" /\ prod[i].created = 0 /\ rn.pc = "collector"
  BY DEF Init
<1>2. chans[i].fifo = <<>>
  BY DEF Init, ChannelCreate
<1>3. Accepted(i) = 0 /\ Taken(i) = 0
  <2>1. Accepted(i) = 0
    BY <1>1 DEF Accepted
  <2>2. Len(chans[i].fifo) = 0
    BY <1>2
  <2> QED BY <2>1, <2>2 DEF Taken
<1>4. ASSUME NEW o \in open PROVE StreamAt(o, i)
  <2>1. routed[o] = <<>> /\ ~InHand(o, i)
    BY <1>1 DEF Init, InHand
  <2>2. SeqsOf(o, i) = {} /\ InOrder(o, i)
    BY <2>1 DEF SeqsOf, InOrder
  <2> QED BY <1>2, <1>3, <2>1, <2>2 DEF StreamAt, LastOnWay, AllOnWay
<1> QED BY <1>1, <1>4

-----------------------------------------------------------------------------
(* The theorems about coupled inputs.                                      *)

(* No input is decoupled from the routing node: all the parts hold.        *)
LEMMA Coupling == ASSUME Coupled PROVE Spec => []CoupledInv
<1>1. Init => CoupledInv
  <2>1. Init => Finds /\ Drains
    BY DEF Init, Finds, ReadNeverFails, Drains, DrainsBeforeEnd
  <2> QED BY <2>1, TypedInit, FitsInit, CountsInit, StreamsInit DEF CoupledInv
<1>2. CoupledInv /\ [Next]_vars => CoupledInv'
  BY TypedStep, FitsStep, CountsStep, FindsStep, DrainsStep, StreamsStep DEF CoupledInv
<1> QED BY <1>1, <1>2, PTL DEF Spec

(* Between a write that raises the collector and a read that lowers it the *)
(* counter never disagrees with the rings.                                 *)
THEOREM CollectorSafety == ASSUME Coupled PROVE Spec => []CollectorAgrees
<1>1. CoupledInv => CollectorAgrees
  BY DEF CoupledInv, Counts
<1> QED BY <1>1, Coupling, PTL

(* The routing node never finds a READY collector with nothing to read.    *)
THEOREM ReadSafety == ASSUME Coupled PROVE Spec => []ReadNeverFails
<1>1. CoupledInv => ReadNeverFails
  BY DEF CoupledInv, Finds
<1> QED BY <1>1, Coupling, PTL

(* It sleeps only while no message is counted, so no wake-up is lost.      *)
THEOREM WakeupSafety == ASSUME Coupled PROVE Spec => []CollectorWakeup
<1>1. CoupledInv => CollectorWakeup
  <2> SUFFICES ASSUME Typed, Fits, Counts, col.waiting PROVE CollectorWakeup
    BY DEF CoupledInv, CollectorWakeup
  <2>1. rn.pc = "sleep" /\ col.state = "PENDING" /\ col.count = 0
    BY DEF Counts
  <2>2. Cardinality(Uncounted) = Cardinality(Stored)
    BY <2>1, UncountedStored DEF Counts, CollectorAgrees
  <2> QED BY <2>1, <2>2, UncountedStored DEF Counts, CollectorWakeup
<1> QED BY <1>1, Coupling, PTL

(* It terminates with a consumer left only after all its producers, and    *)
(* with all its inputs empty.                                              *)
THEOREM DrainSafety == ASSUME Coupled PROVE Spec => []DrainsBeforeEnd
<1>1. CoupledInv => DrainsBeforeEnd
  BY DEF CoupledInv, Drains
<1> QED BY <1>1, Coupling, PTL

(* When it has, every output with a consumer has got the last message of   *)
(* every input, and all the messages of the inputs that block, in order.   *)
THEOREM RoutingSafety == ASSUME Coupled PROVE Spec => []AllRouted
<1>1. CoupledInv => AllRouted
  <2> SUFFICES ASSUME CoupledInv, rn.pc = "ended", NEW o \in open, NEW i \in Inputs
               PROVE  /\ prod[i].created > 0 => prod[i].created \in SeqsOf(o, i)
                      /\ ~DecoupledIn(chans[i]) => /\ SeqsOf(o, i) = 1..prod[i].created
                                                   /\ InOrder(o, i)
    BY DEF AllRouted
  <2>1. chans[i].source.state = "END" /\ chans[i].fifo = <<>>
    BY DEF CoupledInv, Drains, DrainsBeforeEnd
  <2>2. prod[i].pc # "wait" /\ prod[i].created \in Nat
    <3>1. prod[i].pc # "wait"
      BY <2>1 DEF CoupledInv, Fits, FitsAt
    <3>2. prod[i].created \in 0 .. MaxWrites
      BY DEF CoupledInv, Typed, TypeOK
    <3> QED BY <3>1, <3>2, RoutingAssumption
  <2>3. Accepted(i) = prod[i].created /\ Taken(i) = prod[i].created /\ ~InHand(o, i)
    BY <2>1, <2>2 DEF Accepted, Taken, InHand
  <2>4. StreamAt(o, i)
    BY DEF CoupledInv, Streams
  <2> QED BY <2>1, <2>2, <2>3, <2>4 DEF StreamAt, LastOnWay, AllOnWay
<1> QED BY <1>1, Coupling, PTL
=============================================================================
