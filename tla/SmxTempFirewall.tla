--------------------------- MODULE SmxTempFirewall ---------------------------
(***************************************************************************)
(* Temporal firewalls (box_smx_tf.c): one net, woken by a timer, that      *)
(* takes a message from the input channel of each of its firewalls and     *)
(* writes it to that firewall's output channel.  It reads states and fill  *)
(* of its channels without a lock, never blocks, and passes the end of a   *)
(* producer on to its consumer and the other way round.                    *)
(*                                                                         *)
(* Inputs have a decoupled read end, outputs a decoupled write end         *)
(* (box_smx_tf.h).  The waits inside the channels are SmxChannel's: a step *)
(* that needs a state simply waits for it here.                            *)
(***************************************************************************)
EXTENDS SmxFifo

CONSTANTS
  N,         \* number of firewalls of the timer
  Timers,    \* the timers considered: for each firewall its channels,
             \*   [inType, inLength, outLength], and a bound: the messages
             \*   its producer creates
  Copies     \* the values of the configuration "copy"

Firewalls == 0 .. (N - 1)

Kind == [inType : {"FIFO_D", "D_FIFO_D"}, inLength : Nat \ {0},
         outLength : Nat \ {0}, writes : Nat]

ASSUME FirewallAssumption ==
  /\ N \in Nat \ {0}
  /\ \A timer \in Timers : \A i \in Firewalls : timer[i] \in Kind
  /\ Copies \subseteq BOOLEAN

VARIABLES
  chIn, chOut,  \* the channels of each firewall
  copy,         \* do_copy
  prod,         \* the producers: pc, the messages created and those to come
  tf,           \* the firewall net: [pc, idx, msg]
  cons,         \* the consumers: [pc, last], last being the position of the
                \*   last message read
  between       \* history: the firewalls whose producer wrote after tf had
                \*   found its input empty and before tf looked at its state

vars == <<chIn, chOut, copy, prod, tf, cons, between>>

ProdPc == {"idle", "write", "ended"}
TfPc == {"uninit", "count", "state", "out", "tellConsumer", "tellProducer",
         "read", "write", "update", "termIn", "termOut", "ended"}
ConsPc == {"read", "update", "ended"}

TypeOK ==
  /\ chIn \in [Firewalls -> Channel] /\ chOut \in [Firewalls -> Channel]
  /\ copy \in BOOLEAN
  /\ prod \in [Firewalls -> [pc : ProdPc, created : Nat, left : Nat]]
  /\ tf \in [pc : TfPc, idx : 0 .. N, msg : Message \union {NoMsg}]
  /\ tf.pc = "update" <=> tf.idx = N
  /\ cons \in [Firewalls -> [pc : ConsPc, last : Nat]]
  /\ between \subseteq Firewalls

Init ==
  /\ \E kind \in Timers :
       /\ chIn = [i \in Firewalls |-> ChannelCreate(kind[i].inType,
                    kind[i].inLength, "none", FALSE, FALSE)]
       /\ chOut = [i \in Firewalls |-> ChannelCreate("D_FIFO",
                    kind[i].outLength, "none", FALSE, FALSE)]
       /\ prod = [i \in Firewalls |-> [pc |-> "idle", created |-> 0,
                                       left |-> kind[i].writes]]
  /\ copy \in Copies
  /\ tf = [pc |-> "uninit", idx |-> 0, msg |-> NoMsg]
  /\ cons = [i \in Firewalls |-> [pc |-> "read", last |-> 0]]
  /\ between = {}

-----------------------------------------------------------------------------
(* Producers: any net that writes to the input of firewall i.              *)

ProducerCall(i) ==
  /\ prod[i].pc = "idle" /\ prod[i].left > 0
  /\ prod' = [prod EXCEPT ![i] = [pc |-> "write", created |-> @.created + 1,
                                  left |-> @.left - 1]]
  /\ UNCHANGED <<chIn, chOut, copy, tf, cons, between>>

Look(i) == tf.pc = "state" /\ tf.idx = i

ProducerWrite(i) ==
  /\ prod[i].pc = "write" /\ chIn[i].sink.state # "PENDING"
  /\ IF chIn[i].sink.state = "END"
     THEN /\ chIn' = [chIn EXCEPT ![i] = SetWriteErr(@, "NO_TARGET")]
          /\ UNCHANGED between
     ELSE /\ chIn' = [chIn EXCEPT ![i] = ChannelWrite(@,
                        [seq |-> prod[i].created, prevent_backup |-> FALSE])]
          /\ between' = IF Look(i) THEN between \union {i} ELSE between
  /\ prod' = [prod EXCEPT ![i].pc = "idle"]
  /\ UNCHANGED <<chOut, copy, tf, cons>>

(* On its own, or because its consumer, the firewall, has gone.            *)
ProducerEnd(i) ==
  /\ prod[i].pc = "idle"
  /\ prod' = [prod EXCEPT ![i].pc = "ended"]
  /\ chIn' = [chIn EXCEPT ![i] = TerminateSource(@)]
  /\ UNCHANGED <<chOut, copy, tf, cons, between>>

Producer(i) == ProducerCall(i) \/ ProducerWrite(i) \/ ProducerEnd(i)

-----------------------------------------------------------------------------
(* The firewall net: smx_tf_propagate_msgs for one firewall after the      *)
(* other, then smx_tf_wait and smx_net_update_state.                       *)

At(pc) == tf.pc = pc /\ (pc \notin {"update", "ended"} => tf.idx < N)

TfGoTo(pc) == tf' = [tf EXCEPT !.pc = pc]

NextFirewall ==
  tf' = [pc |-> IF tf.idx = N - 1 THEN "update" ELSE "uninit",
         idx |-> tf.idx + 1, msg |-> NoMsg]

in == chIn[tf.idx]
out == chOut[tf.idx]

TfLookUninitialised ==
  /\ At("uninit")
  /\ IF in.source.state = "UNINITIALISED" THEN NextFirewall ELSE TfGoTo("count")
  /\ UNCHANGED <<chIn, chOut, copy, prod, cons, between>>

(* Mutant: the fill of the input is not looked at.                         *)
TfLookCountNever ==
  /\ At("count")
  /\ TfGoTo("state")
  /\ between' = IF out.source.state = "END" THEN between
                ELSE between \ {tf.idx}
  /\ UNCHANGED <<chIn, chOut, copy, prod, cons>>

(* The three operands of the condition, one look each.                     *)
TfLookCount ==
  /\ At("count")
  /\ TfGoTo(IF in.fifo = <<>> THEN "state" ELSE "out")
  /\ between' = IF out.source.state = "END" THEN between
                ELSE between \ {tf.idx}
  /\ UNCHANGED <<chIn, chOut, copy, prod, cons>>

TfLookState ==
  /\ At("state")
  /\ TfGoTo(IF in.source.state = "END" THEN "tellConsumer" ELSE "out")
  /\ UNCHANGED <<chIn, chOut, copy, prod, cons, between>>

TfLookOut ==
  /\ At("out")
  /\ TfGoTo(IF out.sink.state = "END" THEN "tellConsumer" ELSE "read")
  /\ UNCHANGED <<chIn, chOut, copy, prod, cons, between>>

(* Mutant: the consumer is told whoever has ended.                         *)
TfTellConsumerAlways ==
  /\ At("tellConsumer")
  /\ chOut' = [chOut EXCEPT ![tf.idx] = ChangeReadState(@, "END")]
  /\ TfGoTo("tellProducer")
  /\ UNCHANGED <<chIn, copy, prod, cons, between>>

(* END is final, so that the test and what it guards are one step.         *)
TfTellConsumer ==
  /\ At("tellConsumer")
  /\ chOut' = IF in.source.state = "END"
              THEN [chOut EXCEPT ![tf.idx] = ChangeReadState(@, "END")]
              ELSE chOut
  /\ TfGoTo("tellProducer")
  /\ UNCHANGED <<chIn, copy, prod, cons, between>>

TfTellProducer ==
  /\ At("tellProducer")
  /\ chIn' = IF out.sink.state = "END"
             THEN [chIn EXCEPT ![tf.idx] = ChangeWriteState(@, "END")]
             ELSE chIn
  /\ NextFirewall
  /\ UNCHANGED <<chOut, copy, prod, cons, between>>

(* Mutant: messages are duplicated though "copy" is off.                   *)
TfReadCopies ==
  /\ At("read")
  /\ chIn' = [chIn EXCEPT ![tf.idx] = ChangeWriteState(FifoDRead(@), "READY")]
  /\ IF FifoDReadMsg(in) = NoMsg
     THEN NextFirewall
     ELSE tf' = [tf EXCEPT !.pc = "write", !.msg = FifoDReadMsg(in)]
  /\ UNCHANGED <<chOut, copy, prod, cons, between>>

TfRead ==
  /\ At("read")
  /\ LET read == IF copy THEN FifoDRead(in) ELSE FifoDDRead(in)
         msg == IF copy THEN FifoDReadMsg(in) ELSE FifoReadMsg(in)
     IN  /\ chIn' = [chIn EXCEPT ![tf.idx] = ChangeWriteState(read, "READY")]
         /\ IF msg = NoMsg THEN NextFirewall
                           ELSE tf' = [tf EXCEPT !.pc = "write", !.msg = msg]
  /\ UNCHANGED <<chOut, copy, prod, cons, between>>

TfWrite ==
  /\ At("write") /\ out.sink.state # "PENDING"
  /\ chOut' = [chOut EXCEPT ![tf.idx] =
                 IF @.sink.state = "END" THEN SetWriteErr(@, "NO_TARGET")
                                         ELSE ChannelWrite(@, tf.msg)]
  /\ NextFirewall
  /\ UNCHANGED <<chIn, copy, prod, cons, between>>

(* No input is a trigger: the net goes on until every consumer has gone.   *)
TfUpdateState ==
  /\ At("update")
  /\ tf' = [tf EXCEPT !.idx = 0,
              !.pc = IF \A i \in Firewalls : chOut[i].sink.state = "END"
                     THEN "termIn" ELSE "uninit"]
  /\ UNCHANGED <<chIn, chOut, copy, prod, cons, between>>

TfTerminate(pc, next) ==
  /\ At(pc)
  /\ tf' = IF tf.idx = N - 1 THEN [tf EXCEPT !.pc = next, !.idx = 0]
                             ELSE [tf EXCEPT !.idx = @ + 1]
  /\ UNCHANGED <<copy, prod, cons, between>>

TfTerminateIn ==
  /\ TfTerminate("termIn", "termOut")
  /\ chIn' = [chIn EXCEPT ![tf.idx] = TerminateSink(@)]
  /\ UNCHANGED chOut

TfTerminateOut ==
  /\ TfTerminate("termOut", "ended")
  /\ chOut' = [chOut EXCEPT ![tf.idx] = TerminateSource(@)]
  /\ UNCHANGED chIn

Tf == \/ TfLookUninitialised \/ TfLookCount \/ TfLookState \/ TfLookOut
      \/ TfTellConsumer \/ TfTellProducer \/ TfRead \/ TfWrite
      \/ TfUpdateState \/ TfTerminateIn \/ TfTerminateOut

-----------------------------------------------------------------------------
(* Consumers: any net that the output of firewall i triggers.              *)

ConsumerRead(i) ==
  /\ cons[i].pc = "read" /\ chOut[i].source.state # "PENDING"
  /\ chOut' = [chOut EXCEPT ![i] = ChannelRead(@)]
  /\ LET msg == ChannelReadMsg(chOut[i])
     IN  cons' = [cons EXCEPT ![i] =
                    [pc |-> "update",
                     last |-> IF msg = NoMsg THEN @.last ELSE msg.seq]]
  /\ UNCHANGED <<chIn, copy, prod, tf, between>>

(* smx_net_update_state with this one trigger; a box may also end itself.  *)
ConsumerGoesOn(i) ==
  /\ cons[i].pc = "update"
  /\ chOut[i].source.state # "END" \/ chOut[i].fifo # <<>>
  /\ cons' = [cons EXCEPT ![i].pc = "read"]
  /\ UNCHANGED <<chIn, chOut, copy, prod, tf, between>>

(* Mutant: the firewall net is not told.                                   *)
ConsumerEndSilently(i) ==
  /\ cons[i].pc = "update"
  /\ cons' = [cons EXCEPT ![i].pc = "ended"]
  /\ UNCHANGED <<chIn, chOut, copy, prod, tf, between>>

ConsumerEnd(i) ==
  /\ cons[i].pc = "update"
  /\ cons' = [cons EXCEPT ![i].pc = "ended"]
  /\ chOut' = [chOut EXCEPT ![i] = TerminateSink(@)]
  /\ UNCHANGED <<chIn, copy, prod, tf, between>>

Consumer(i) == ConsumerRead(i) \/ ConsumerGoesOn(i) \/ ConsumerEnd(i)

-----------------------------------------------------------------------------
AllEnded == /\ tf.pc = "ended"
            /\ \A i \in Firewalls : prod[i].pc = "ended" /\ cons[i].pc = "ended"

Ended == AllEnded /\ UNCHANGED vars

Next == \/ \E i \in Firewalls : Producer(i) \/ Consumer(i)
        \/ Tf \/ Ended

(* The three kinds of threads run, and the timer never stops.              *)
Fairness == /\ WF_vars(Tf)
            /\ \A i \in Firewalls : WF_vars(Producer(i)) /\ WF_vars(Consumer(i))

Spec == Init /\ [][Next]_vars
FairSpec == Spec /\ Fairness

-----------------------------------------------------------------------------
(* Safety.                                                                 *)

(* The comment above smx_tf: nets terminate individually.  A consumer sees *)
(* the end only of its own producer and a producer only of its own         *)
(* consumer, as long as one consumer keeps the firewall net going.         *)
EndsIndividually ==
  \A i \in Firewalls :
    /\ chOut[i].source.state = "END" => prod[i].pc = "ended"
                                        \/ tf.pc \in {"termOut", "ended"}
    /\ chIn[i].sink.state = "END" => cons[i].pc = "ended"

(* Where no channel reorders, a consumer never reads a message older than  *)
(* one it has read, and reads none twice without duplication; the message  *)
(* in the firewall's hands is on its way between the two.                  *)
Pipeline(i) ==
  (IF cons[i].last = 0 THEN <<>> ELSE <<cons[i].last>>)
  \o [k \in DOMAIN chOut[i].fifo |-> chOut[i].fifo[k].seq]
  \o (IF tf.msg # NoMsg /\ tf.idx = i THEN <<tf.msg.seq>> ELSE <<>>)
  \o [k \in DOMAIN chIn[i].fifo |-> chIn[i].fifo[k].seq]

NeverOlder ==
  \A i \in Firewalls :
    LET p == Pipeline(i)
    IN  \A k \in 1 .. Len(p) - 1 : p[k] < p[k + 1] \/ (copy /\ p[k] = p[k + 1])

(* A consumer that sees the end has the way to its producer drained, but   *)
(* for messages written between tf's look at the fill of the input and its *)
(* look at the state.                                                      *)
Drained(i) ==
  chOut[i].source.state = "END" => \/ chIn[i].fifo = <<>>
                                   \/ cons[i].pc = "ended"
LossOnlyBetweenLooks ==
  \A i \in Firewalls : Drained(i) \/ i \in between

(* box_smx_tf.h: "Read all input channels of a temporal firewall and       *)
(* propagate the messages to the corresponding outputs".  A consumer that  *)
(* sees the end, and so is about to terminate, has no message left to come.*)
EndAfterLastMessage == \A i \in Firewalls : Drained(i)

-----------------------------------------------------------------------------
(* Liveness.                                                               *)

(* Everybody terminates: the end of a producer reaches its consumer,       *)
(* whatever the other firewalls of the timer do, and no producer stays     *)
(* blocked on a full input, whether or not its consumer still reads.       *)
EverybodyEnds == <>[]AllEnded
=============================================================================
