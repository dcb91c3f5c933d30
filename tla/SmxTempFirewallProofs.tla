------------------------- MODULE SmxTempFirewallProofs -------------------------
(***************************************************************************)
(* Any number of temporal firewalls with channels of any length: each pair *)
(* of a producer and a consumer ends for itself, and what a consumer that  *)
(* sees the end has missed came between two looks.  Where no channel       *)
(* reorders, the messages of a producer reach its consumer in their order. *)
(***************************************************************************)
EXTENDS SmxTempFirewall, SmxFifoProofs

(* The net writes a message only when it has one.                          *)
Typed == TypeOK /\ (tf.pc = "write" => tf.msg \in Message)

(* The threads' ends and the states of their channels.                     *)
Closed ==
  \A i \in Firewalls :
    /\ chIn[i].source.state = "END" <=> prod[i].pc = "ended"
    /\ chOut[i].sink.state = "END" <=> cons[i].pc = "ended"
    /\ tf.pc \in {"termIn", "termOut", "ended"} => cons[i].pc = "ended"

(* What a consumer that is told the end may rely on: it has ended itself,  *)
(* or its producer has and left nothing, but what came between the looks.  *)
Settled(i) == \/ cons[i].pc = "ended"
              \/ /\ prod[i].pc = "ended"
                 /\ chIn[i].fifo = <<>> \/ i \in between

Told ==
  \A i \in Firewalls :
    /\ chOut[i].source.state = "END" => Settled(i)
    /\ Look(i) => chIn[i].fifo = <<>> \/ i \in between
    /\ tf.pc = "tellConsumer" /\ tf.idx = i => Settled(i)

(* Where no channel reorders: an overwriting ring holds one message.       *)
Orderly ==
  \A timer \in Timers : \A i \in Firewalls :
    /\ timer[i].outLength = 1
    /\ timer[i].inType = "D_FIFO_D" => timer[i].inLength = 1

(* The messages the producer has done with, and the ones that have left    *)
(* the input: read by the consumer, in the output, or in tf's hands.       *)
Sent(i) == IF prod[i].pc = "write" THEN prod[i].created - 1 ELSE prod[i].created
Held(i) == tf.msg # NoMsg /\ tf.idx = i
Passed(i) == {cons[i].last}
             \union {chOut[i].fifo[k].seq : k \in DOMAIN chOut[i].fifo}
             \union (IF Held(i) THEN {tf.msg.seq} ELSE {})

Before(a, b) == a < b \/ (copy /\ a = b)

(* The channels of a firewall.                                             *)
Shaped(i) ==
  /\ chOut[i].type = "D_FIFO" /\ chOut[i].length = 1 /\ Len(chOut[i].fifo) <= 1
  /\ DecoupledIn(chIn[i]) => chIn[i].length = 1 /\ Len(chIn[i].fifo) <= 1
  /\ prod[i].pc = "write" => prod[i].created > 0
  /\ tf.msg # NoMsg => tf.pc = "write"

(* The messages that have left the input are older than those in it, and   *)
(* so are they one by one; a backup that can be read is the newest of them.*)
Ordered(i) ==
  /\ Passed(i) \subseteq 0 .. Sent(i)
  /\ \A k \in DOMAIN chOut[i].fifo : /\ chOut[i].fifo[k].seq > 0
                                     /\ Before(cons[i].last, chOut[i].fifo[k].seq)
  /\ Held(i) => /\ tf.msg.seq > 0
                /\ Before(cons[i].last, tf.msg.seq)
                /\ \A k \in DOMAIN chOut[i].fifo :
                     Before(chOut[i].fifo[k].seq, tf.msg.seq)
  /\ \A k \in DOMAIN chIn[i].fifo :
       /\ chIn[i].fifo[k].seq \in 1 .. Sent(i) /\ ~chIn[i].fifo[k].prevent_backup
       /\ \A s \in Passed(i) : Before(s, chIn[i].fifo[k].seq)
       /\ \A n \in DOMAIN chIn[i].fifo : k < n =>
            chIn[i].fifo[k].seq < chIn[i].fifo[n].seq
  /\ chIn[i].backup # NoMsg =>
       /\ chIn[i].backup.seq \in 1 .. Sent(i)
       /\ copy /\ chIn[i].fifo = <<>> =>
            \A s \in Passed(i) : s <= chIn[i].backup.seq

OrderInv == \A i \in Firewalls : Shaped(i) /\ Ordered(i)

Inv == Typed /\ Closed /\ EndsIndividually /\ Told

-----------------------------------------------------------------------------
(* The channel functions.                                                  *)

(* The termination of an end closes it and leaves the rest.                *)
LEMMA EndFrame ==
  ASSUME NEW c \in Channel
  PROVE  /\ ChangeReadState(c, "END") \in Channel
         /\ ChangeReadState(c, "END").source.state = "END"
         /\ ChangeReadState(c, "END").sink = c.sink
         /\ ChangeReadState(c, "END").fifo = c.fifo
         /\ ChangeWriteState(c, "END") \in Channel
         /\ ChangeWriteState(c, "END").sink.state = "END"
         /\ ChangeWriteState(c, "END").source = c.source
         /\ ChangeWriteState(c, "END").fifo = c.fifo
<1>1. ChangeReadState(c, "END") \in Channel /\ ChangeWriteState(c, "END") \in Channel
  BY ChangeReadStateType, ChangeWriteStateType DEF EndState
<1> QED BY <1>1 DEF ChangeReadState, ChangeWriteState, SetState, Channel, ChannelEnd

(* The two reads of a firewall take a message or none.                     *)
LEMMA TfReadFrame ==
  ASSUME NEW c \in Channel, NEW r \in {FifoDRead(c), FifoDDRead(c)}
  PROVE  LET d == ChangeWriteState(r, "READY")
         IN  /\ d \in Channel
             /\ d.source.state = c.source.state
             /\ d.sink.state = "END" <=> c.sink.state = "END"
             /\ c.fifo = <<>> => d.fifo = <<>>
<1>1. FifoDDRead(c) \in Channel
  BY PopType, SetReadErrType DEF FifoDDRead, EndErr
<1>2. r \in Channel
  BY <1>1, FifoDReadType
<1>3. ChangeWriteState(r, "READY") \in Channel
  BY <1>2, ChangeWriteStateType DEF EndState
<1>4. /\ r.source.state = c.source.state /\ r.sink = c.sink
      /\ c.fifo = <<>> => r.fifo = <<>>
  <2>1. ASSUME NEW err PROVE /\ SetReadErr(c, err).source.state = c.source.state
                             /\ SetReadErr(c, err).sink = c.sink
                             /\ SetReadErr(c, err).fifo = c.fifo
    BY ReadErrFrame
  <2>2. /\ Pop(c).source.state = c.source.state /\ Pop(c).sink = c.sink
    BY DEF Pop, Channel, ChannelEnd
  <2>3. CASE r = FifoDDRead(c)
    BY <2>1, <2>2, <2>3 DEF FifoDDRead
  <2>4. CASE r = FifoDRead(c) /\ c.fifo = <<>>
    <3>1. ASSUME NEW err
          PROVE  LET d == [SetReadErr(c, err) EXCEPT !.copied = TRUE]
                 IN  /\ d.source = SetReadErr(c, err).source
                     /\ d.sink = SetReadErr(c, err).sink
                     /\ d.fifo = SetReadErr(c, err).fifo
      BY DEF SetReadErr, Channel
    <3> QED BY <2>1, <2>4, <3>1 DEF FifoDRead
  <2>5. CASE r = FifoDRead(c) /\ c.fifo # <<>>
    <3>1. ASSUME NEW b
          PROVE  LET d == [Pop(c) EXCEPT !.backup = b, !.copied = FALSE]
                 IN  d.source = Pop(c).source /\ d.sink = Pop(c).sink
      BY DEF Pop, Channel
    <3> QED BY <2>2, <2>5, <3>1 DEF FifoDRead
  <2> QED BY <2>3, <2>4, <2>5
<1>5. LET d == ChangeWriteState(r, "READY")
      IN  /\ d.source = r.source /\ d.fifo = r.fifo
          /\ d.sink.state = "END" <=> r.sink.state = "END"
  BY <1>2 DEF ChangeWriteState, SetState, Channel, ChannelEnd
<1> QED BY <1>3, <1>4, <1>5

(* And what they take.                                                     *)
LEMMA TfReadMsg ==
  ASSUME NEW c \in Channel
  PROVE  /\ FifoReadMsg(c) \in Message \union {NoMsg}
         /\ FifoDReadMsg(c) \in Message \union {NoMsg}
BY DEF FifoReadMsg, FifoDReadMsg, Channel

-----------------------------------------------------------------------------
(* The three kinds of threads.                                             *)

(* A step of a producer, seen from any firewall.                           *)
LEMMA ProducerMoves ==
  ASSUME Inv, NEW i \in Firewalls, Producer(i)
  PROVE  /\ UNCHANGED <<chOut, copy, tf, cons>>
         /\ chIn' \in [Firewalls -> Channel]
         /\ prod' \in [Firewalls -> [pc : ProdPc, created : Nat, left : Nat]]
         /\ \A j \in Firewalls \ {i} : chIn'[j] = chIn[j] /\ prod'[j] = prod[j]
         /\ between \subseteq between' /\ between' \subseteq Firewalls
         /\ prod[i].pc # "ended"
         /\ chIn'[i].source.state = "END" <=> prod'[i].pc = "ended"
         /\ chIn'[i].sink.state = "END" <=> chIn[i].sink.state = "END"
         /\ Look(i) => chIn'[i].fifo = chIn[i].fifo \/ i \in between'
<1>1. /\ chIn \in [Firewalls -> Channel] /\ between \subseteq Firewalls
      /\ prod \in [Firewalls -> [pc : ProdPc, created : Nat, left : Nat]]
      /\ chIn[i].source.state = "END" <=> prod[i].pc = "ended"
  BY DEF Inv, Typed, TypeOK, Closed
<1>2. CASE ProducerCall(i)
  BY <1>1, <1>2 DEF ProducerCall, ProdPc
<1>3. CASE ProducerWrite(i)
  <2> DEFINE m == [seq |-> prod[i].created, prevent_backup |-> FALSE]
             c == IF chIn[i].sink.state = "END"
                  THEN SetWriteErr(chIn[i], "NO_TARGET")
                  ELSE ChannelWrite(chIn[i], m)
  <2>1. m \in Message /\ chIn[i] \in Channel
    BY <1>1 DEF Message
  <2>2. /\ c \in Channel
        /\ c.source.state = "END" <=> chIn[i].source.state = "END"
        /\ c.sink.state = "END" <=> chIn[i].sink.state = "END"
        /\ chIn[i].sink.state = "END" => c.fifo = chIn[i].fifo
    <3> HIDE DEF m
    <3>1. CASE chIn[i].sink.state = "END"
      BY <2>1, <3>1, SetWriteErrType, WriteErrFrame DEF EndErr
    <3>2. CASE chIn[i].sink.state # "END"
      BY <2>1, <3>2, ChannelWriteType, WriteFrame
    <3> QED BY <3>1, <3>2
  <2>3. /\ chIn' = [chIn EXCEPT ![i] = c]
        /\ prod' = [prod EXCEPT ![i].pc = "idle"] /\ prod[i].pc = "write"
        /\ UNCHANGED <<chOut, copy, tf, cons>>
        /\ \/ between' = between /\ (Look(i) => chIn[i].sink.state = "END")
           \/ between' = between \union {i}
    BY <1>3 DEF ProducerWrite
  <2> HIDE DEF c
  <2>4. /\ prod' \in [Firewalls -> [pc : ProdPc, created : Nat, left : Nat]]
        /\ prod'[i].pc = "idle"
        /\ \A j \in Firewalls \ {i} : prod'[j] = prod[j]
    BY <1>1, <2>3 DEF ProdPc
  <2>5. /\ chIn' \in [Firewalls -> Channel] /\ chIn'[i] = c
        /\ \A j \in Firewalls \ {i} : chIn'[j] = chIn[j]
    BY <1>1, <2>2, <2>3
  <2>6. prod[i].pc # "ended" /\ chIn[i].source.state # "END"
    BY <1>1, <2>3
  <2>7. between \subseteq between' /\ between' \subseteq Firewalls
        /\ (Look(i) => chIn'[i].fifo = chIn[i].fifo \/ i \in between')
    BY <1>1, <2>2, <2>3, <2>5
  <2> QED BY <2>2, <2>3, <2>4, <2>5, <2>6, <2>7
<1>4. CASE ProducerEnd(i)
  <2>1. /\ chIn' = [chIn EXCEPT ![i] = ChangeReadState(chIn[i], "END")]
        /\ prod' = [prod EXCEPT ![i].pc = "ended"] /\ prod[i].pc = "idle"
        /\ UNCHANGED <<chOut, copy, tf, cons, between>>
    BY <1>4 DEF ProducerEnd, TerminateSource
  <2>2. chIn[i] \in Channel
    BY <1>1
  <2> QED BY <1>1, <2>1, <2>2, EndFrame DEF ProdPc
<1> QED BY <1>2, <1>3, <1>4 DEF Producer

(* A step of a consumer.                                                   *)
LEMMA ConsumerMoves ==
  ASSUME Inv, NEW i \in Firewalls, Consumer(i)
  PROVE  /\ UNCHANGED <<chIn, copy, prod, tf, between>>
         /\ chOut' \in [Firewalls -> Channel]
         /\ cons' \in [Firewalls -> [pc : ConsPc, last : Nat]]
         /\ \A j \in Firewalls \ {i} : chOut'[j] = chOut[j] /\ cons'[j] = cons[j]
         /\ cons[i].pc # "ended"
         /\ chOut'[i].source.state = "END" <=> chOut[i].source.state = "END"
         /\ chOut'[i].sink.state = "END" <=> cons'[i].pc = "ended"
<1>1. /\ chOut \in [Firewalls -> Channel] /\ chOut[i] \in Channel
      /\ cons \in [Firewalls -> [pc : ConsPc, last : Nat]]
      /\ chOut[i].sink.state = "END" <=> cons[i].pc = "ended"
  BY DEF Inv, Typed, TypeOK, Closed
<1>2. CASE ConsumerRead(i)
  <2> DEFINE c == ChannelRead(chOut[i])
             msg == ChannelReadMsg(chOut[i])
             last == IF msg = NoMsg THEN cons[i].last ELSE msg.seq
  <2>1. /\ c \in Channel
        /\ c.source.state = "END" <=> chOut[i].source.state = "END"
        /\ c.sink.state = "END" <=> chOut[i].sink.state = "END"
    BY <1>1, ChannelReadType, ReadFrame
  <2>2. last \in Nat
    <3>1. msg \in Message \union {NoMsg}
      BY <1>1, TfReadMsg DEF ChannelReadMsg
    <3> QED BY <1>1, <3>1 DEF Message
  <2>3. /\ chOut' = [chOut EXCEPT ![i] = c]
        /\ cons' = [cons EXCEPT ![i] = [pc |-> "update", last |-> last]]
        /\ cons[i].pc = "read" /\ UNCHANGED <<chIn, copy, prod, tf, between>>
    BY <1>1, <1>2 DEF ConsumerRead
  <2> HIDE DEF c, last
  <2> QED BY <1>1, <2>1, <2>2, <2>3 DEF ConsPc
<1>3. CASE ConsumerGoesOn(i)
  BY <1>1, <1>3 DEF ConsumerGoesOn, ConsPc
<1>4. CASE ConsumerEnd(i)
  <2>1. /\ chOut' = [chOut EXCEPT ![i] = ChangeWriteState(chOut[i], "END")]
        /\ cons' = [cons EXCEPT ![i].pc = "ended"] /\ cons[i].pc = "update"
        /\ UNCHANGED <<chIn, copy, prod, tf, between>>
    BY <1>4 DEF ConsumerEnd, TerminateSink
  <2> QED BY <1>1, <2>1, EndFrame DEF ConsPc
<1> QED BY <1>2, <1>3, <1>4 DEF Consumer

(* Where the net goes, and what it has seen when it gets there.            *)
Goes ==
  /\ tf'.pc = "state" => /\ tf.pc = "count" /\ tf'.idx = tf.idx
                         /\ in.fifo = <<>>
  /\ tf'.pc = "tellConsumer" =>
       /\ tf'.idx = tf.idx
       /\ \/ tf.pc = "state" /\ in.source.state = "END"
          \/ tf.pc = "out" /\ out.sink.state = "END"
  /\ tf'.pc \in {"termIn", "termOut", "ended"} =>
       \/ tf.pc \in {"termIn", "termOut", "ended"}
       \/ \A i \in Firewalls : chOut[i].sink.state = "END"
  /\ tf.pc \in {"termOut", "ended"} => tf'.pc \in {"termOut", "ended"}

(* What it does to the channels of firewall i.                             *)
Leaves(i) ==
  /\ chIn'[i].source.state = "END" <=> chIn[i].source.state = "END"
  /\ chIn[i].fifo = <<>> => chIn'[i].fifo = <<>>
  /\ chIn'[i].sink.state = "END" =>
       \/ chIn[i].sink.state = "END"
       \/ chOut[i].sink.state = "END"
       \/ tf.pc = "termIn"
  /\ chOut'[i].sink.state = "END" <=> chOut[i].sink.state = "END"
  /\ chOut'[i].source.state = "END" =>
       \/ chOut[i].source.state = "END"
       \/ tf.pc = "tellConsumer" /\ tf.idx = i /\ chIn[i].source.state = "END"
       \/ tf.pc = "termOut"
  /\ i \in between /\ i \notin between' =>
       tf.pc = "count" /\ chOut[i].source.state # "END"

(* A step of the firewall net keeps the types and does no more than Goes   *)
(* and Leaves say.                                                         *)
LEMMA TfMoves ==
  ASSUME Inv, Tf
  PROVE  /\ UNCHANGED <<copy, prod, cons>>
         /\ Typed' /\ Goes /\ \A i \in Firewalls : Leaves(i)
<1> DEFINE k == tf.idx
<1>1. /\ chIn \in [Firewalls -> Channel] /\ chOut \in [Firewalls -> Channel]
      /\ tf \in [pc : TfPc, idx : 0 .. N, msg : Message \union {NoMsg}]
      /\ tf.pc = "update" <=> tf.idx = N
      /\ tf.pc = "write" => tf.msg \in Message
      /\ between \subseteq Firewalls /\ N \in Nat \ {0}
      /\ Typed
  BY FirewallAssumption DEF Inv, Typed, TypeOK
<1>2. tf.pc \notin {"update", "ended"} => /\ k \in Firewalls
                                          /\ in = chIn[k] /\ in \in Channel
                                          /\ out = chOut[k] /\ out \in Channel
  BY <1>1 DEF in, out, Firewalls
<1>3. ASSUME UNCHANGED <<chIn, chOut, copy, prod, cons>>,
             \/ between' = between
             \/ /\ between' = between \ {k}
                /\ tf.pc = "count" /\ out.source.state # "END",
             tf.pc \notin {"update", "ended"},
             tf'.idx \in 0 .. N, tf'.pc \in TfPc, tf'.pc # "write",
             tf' = [pc |-> tf'.pc, idx |-> tf'.idx, msg |-> tf'.msg],
             tf'.msg \in {tf.msg, NoMsg}, tf'.pc = "update" <=> tf'.idx = N
      PROVE  /\ UNCHANGED <<copy, prod, cons>>
             /\ Typed' /\ \A i \in Firewalls : Leaves(i)
  <2>1. tf' \in [pc : TfPc, idx : 0 .. N, msg : Message \union {NoMsg}]
    BY <1>1, <1>3
  <2>2. Typed'
    BY <1>1, <1>3, <2>1 DEF Typed, TypeOK
  <2> QED BY <1>2, <1>3, <2>2 DEF Leaves
<1>4. CASE TfLookUninitialised
  BY <1>1, <1>2, <1>3, <1>4
     DEF TfLookUninitialised, At, NextFirewall, TfGoTo, Goes, TfPc, Firewalls
<1>5. CASE TfLookCount
  BY <1>1, <1>2, <1>3, <1>5 DEF TfLookCount, At, TfGoTo, Goes, TfPc
<1>6. CASE TfLookState
  BY <1>1, <1>2, <1>3, <1>6 DEF TfLookState, At, TfGoTo, Goes, TfPc
<1>7. CASE TfLookOut
  BY <1>1, <1>2, <1>3, <1>7 DEF TfLookOut, At, TfGoTo, Goes, TfPc
<1>8. ASSUME NEW c \in Channel, NEW d \in Channel, k \in Firewalls,
             chIn' = [chIn EXCEPT ![k] = c], chOut' = [chOut EXCEPT ![k] = d],
             UNCHANGED <<copy, prod, cons, between>>,
             tf' \in [pc : TfPc, idx : 0 .. N, msg : Message \union {NoMsg}],
             tf'.pc = "update" <=> tf'.idx = N,
             tf'.pc = "write" => tf'.msg \in Message,
             c.source.state = "END" <=> in.source.state = "END",
             in.fifo = <<>> => c.fifo = <<>>,
             c.sink.state = "END" => \/ in.sink.state = "END"
                                     \/ out.sink.state = "END"
                                     \/ tf.pc = "termIn",
             d.sink.state = "END" <=> out.sink.state = "END",
             d.source.state = "END" =>
               \/ out.source.state = "END"
               \/ tf.pc = "tellConsumer" /\ in.source.state = "END"
               \/ tf.pc = "termOut"
      PROVE  /\ UNCHANGED <<copy, prod, cons>>
             /\ Typed' /\ \A i \in Firewalls : Leaves(i)
  <2>1. /\ chIn' \in [Firewalls -> Channel] /\ chOut' \in [Firewalls -> Channel]
        /\ chIn'[k] = c /\ chOut'[k] = d
        /\ \A i \in Firewalls \ {k} : chIn'[i] = chIn[i] /\ chOut'[i] = chOut[i]
    BY <1>1, <1>8
  <2>2. Typed'
    BY <1>1, <1>8, <2>1 DEF Typed, TypeOK
  <2>3. Leaves(k)
    BY <1>8, <2>1 DEF Leaves, in, out
  <2>4. \A i \in Firewalls \ {k} : Leaves(i)
    BY <1>8, <2>1 DEF Leaves
  <2> QED BY <1>8, <2>2, <2>3, <2>4
<1>9. CASE TfTellConsumer
  <2> DEFINE d == IF in.source.state = "END" THEN ChangeReadState(out, "END")
                                             ELSE out
  <2>1. /\ tf.pc = "tellConsumer" /\ k \in Firewalls /\ k < N
        /\ chIn' = [chIn EXCEPT ![k] = in] /\ chOut' = [chOut EXCEPT ![k] = d]
        /\ UNCHANGED <<copy, prod, cons, between>>
        /\ tf' = [tf EXCEPT !.pc = "tellProducer"]
    BY <1>1, <1>2, <1>9 DEF TfTellConsumer, At, TfGoTo
  <2>2. /\ d \in Channel /\ d.sink = out.sink
        /\ d.source.state = "END" => \/ out.source.state = "END"
                                     \/ in.source.state = "END"
    BY <1>2, <2>1, EndFrame
  <2> HIDE DEF d
  <2>3. /\ tf' \in [pc : TfPc, idx : 0 .. N, msg : Message \union {NoMsg}]
        /\ tf'.pc = "tellProducer" /\ tf'.idx = tf.idx
    BY <1>1, <2>1 DEF TfPc
  <2>4. Goes
    BY <2>1, <2>3 DEF Goes
  <2> QED BY <1>1, <1>2, <1>8, <2>1, <2>2, <2>3, <2>4
<1>10. CASE TfTellProducer
  <2> DEFINE c == IF out.sink.state = "END" THEN ChangeWriteState(in, "END")
                                            ELSE in
  <2>1. /\ tf.pc = "tellProducer" /\ k \in Firewalls /\ k < N
        /\ chIn' = [chIn EXCEPT ![k] = c] /\ chOut' = [chOut EXCEPT ![k] = out]
        /\ UNCHANGED <<copy, prod, cons, between>> /\ NextFirewall
    BY <1>1, <1>2, <1>10 DEF TfTellProducer, At
  <2>2. /\ c \in Channel /\ c.source = in.source /\ c.fifo = in.fifo
        /\ c.sink.state = "END" => \/ in.sink.state = "END"
                                   \/ out.sink.state = "END"
    BY <1>2, <2>1, EndFrame
  <2> HIDE DEF c
  <2>3. /\ tf' \in [pc : TfPc, idx : 0 .. N, msg : Message \union {NoMsg}]
        /\ tf'.pc \in {"update", "uninit"} /\ (tf'.pc = "update" <=> tf'.idx = N)
    BY <1>1, <2>1 DEF NextFirewall, TfPc
  <2>4. Goes
    BY <2>1, <2>3 DEF Goes
  <2> QED BY <1>1, <1>2, <1>8, <2>1, <2>2, <2>3, <2>4
<1>11. CASE TfRead
  <2> DEFINE r == IF copy THEN FifoDRead(in) ELSE FifoDDRead(in)
             c == ChangeWriteState(r, "READY")
             msg == IF copy THEN FifoDReadMsg(in) ELSE FifoReadMsg(in)
  <2>1. /\ tf.pc = "read" /\ k \in Firewalls /\ k < N
        /\ chIn' = [chIn EXCEPT ![k] = c] /\ chOut' = [chOut EXCEPT ![k] = out]
        /\ UNCHANGED <<copy, prod, cons, between>>
        /\ IF msg = NoMsg THEN NextFirewall
           ELSE tf' = [tf EXCEPT !.pc = "write", !.msg = msg]
    BY <1>1, <1>2, <1>11 DEF TfRead, At
  <2>2. /\ c \in Channel /\ c.source.state = in.source.state
        /\ in.fifo = <<>> => c.fifo = <<>>
        /\ c.sink.state = "END" <=> in.sink.state = "END"
    <3>1. r \in {FifoDRead(in), FifoDDRead(in)}
      OBVIOUS
    <3> HIDE DEF r
    <3> QED BY <1>2, <2>1, <3>1, TfReadFrame
  <2>3. msg \in Message \union {NoMsg}
    BY <1>2, <2>1, TfReadMsg
  <2> HIDE DEF c, msg
  <2>4. /\ tf' \in [pc : TfPc, idx : 0 .. N, msg : Message \union {NoMsg}]
        /\ tf'.pc \in {"update", "uninit", "write"}
        /\ tf'.pc = "update" <=> tf'.idx = N
        /\ tf'.pc = "write" => tf'.msg \in Message
    <3>1. CASE msg = NoMsg
      BY <1>1, <2>1, <3>1 DEF NextFirewall, TfPc
    <3>2. CASE msg # NoMsg
      <4>1. tf' = [tf EXCEPT !.pc = "write", !.msg = msg] /\ msg \in Message
        BY <2>1, <2>3, <3>2
      <4>2. tf'.pc = "write" /\ tf'.idx = tf.idx /\ tf'.msg = msg
        BY <1>1, <4>1
      <4> QED BY <1>1, <2>1, <4>1, <4>2 DEF TfPc
    <3> QED BY <3>1, <3>2
  <2>5. Goes
    BY <2>1, <2>4 DEF Goes
  <2> QED BY <1>1, <1>2, <1>8, <2>1, <2>2, <2>4, <2>5
<1>12. CASE TfWrite
  <2> DEFINE d == IF out.sink.state = "END" THEN SetWriteErr(out, "NO_TARGET")
                                            ELSE ChannelWrite(out, tf.msg)
  <2>1. /\ tf.pc = "write" /\ k \in Firewalls /\ k < N
        /\ chIn' = [chIn EXCEPT ![k] = in] /\ chOut' = [chOut EXCEPT ![k] = d]
        /\ UNCHANGED <<copy, prod, cons, between>> /\ NextFirewall
    BY <1>1, <1>2, <1>12 DEF TfWrite, At
  <2>2. /\ d \in Channel
        /\ d.source.state = "END" <=> out.source.state = "END"
        /\ d.sink.state = "END" <=> out.sink.state = "END"
    <3>1. CASE out.sink.state = "END"
      BY <1>2, <2>1, <3>1, SetWriteErrType, WriteErrFrame DEF EndErr
    <3>2. CASE out.sink.state # "END"
      BY <1>1, <1>2, <2>1, <3>2, ChannelWriteType, WriteFrame
    <3> QED BY <3>1, <3>2
  <2> HIDE DEF d
  <2>3. /\ tf' \in [pc : TfPc, idx : 0 .. N, msg : Message \union {NoMsg}]
        /\ tf'.pc \in {"update", "uninit"} /\ (tf'.pc = "update" <=> tf'.idx = N)
    BY <1>1, <2>1 DEF NextFirewall, TfPc
  <2>4. Goes
    BY <2>1, <2>3 DEF Goes
  <2> QED BY <1>1, <1>2, <1>8, <2>1, <2>2, <2>3, <2>4
<1>13. CASE TfUpdateState
  <2>1. /\ tf' \in [pc : TfPc, idx : 0 .. N, msg : Message \union {NoMsg}]
        /\ tf'.idx = 0 /\ tf'.pc \in {"termIn", "uninit"}
        /\ tf'.pc = "termIn" => \A i \in Firewalls : chOut[i].sink.state = "END"
        /\ tf.pc = "update"
        /\ UNCHANGED <<chIn, chOut, copy, prod, cons, between>>
    <3>1. PICK pc \in {"termIn", "uninit"} :
            /\ tf' = [tf EXCEPT !.idx = 0, !.pc = pc]
            /\ pc = "termIn" => \A i \in Firewalls : chOut[i].sink.state = "END"
      BY <1>13 DEF TfUpdateState
    <3>2. tf'.idx = 0 /\ tf'.pc = pc
      BY <1>1, <3>1
    <3>3. 0 \in 0 .. N /\ pc \in TfPc
      BY <1>1 DEF TfPc
    <3>4. tf' \in [pc : TfPc, idx : 0 .. N, msg : Message \union {NoMsg}]
      BY <1>1, <3>1, <3>3
    <3>5. tf.pc = "update" /\ UNCHANGED <<chIn, chOut, copy, prod, cons, between>>
      BY <1>13 DEF TfUpdateState, At
    <3> QED BY <3>1, <3>2, <3>4, <3>5
  <2>2. Typed'
    BY <1>1, <2>1 DEF Typed, TypeOK
  <2> QED BY <2>1, <2>2 DEF Goes, Leaves
<1>14. ASSUME NEW pc \in {"termIn", "termOut"}, NEW next \in {"termOut", "ended"},
              TfTerminate(pc, next)
       PROVE  /\ tf.pc = pc /\ k \in Firewalls
              /\ UNCHANGED <<copy, prod, cons, between>>
              /\ tf' \in [pc : TfPc, idx : 0 .. N, msg : Message \union {NoMsg}]
              /\ tf'.pc \in {pc, next} /\ tf'.idx \in Firewalls
  <2>1. /\ tf.pc = pc /\ k \in 0 .. N - 1 /\ k \in Nat
        /\ UNCHANGED <<copy, prod, cons, between>>
    BY <1>1, <1>14 DEF TfTerminate, At
  <2>2. \/ tf' = [tf EXCEPT !.pc = next, !.idx = 0]
        \/ tf' = [tf EXCEPT !.idx = k + 1] /\ k # N - 1
    BY <1>14 DEF TfTerminate
  <2>3. CASE tf' = [tf EXCEPT !.pc = next, !.idx = 0]
    <3>1. 0 \in 0 .. N - 1 /\ 0 \in 0 .. N /\ next \in TfPc
      BY <1>1 DEF TfPc
    <3>2. tf'.pc = next /\ tf'.idx = 0
      BY <1>1, <2>3
    <3>3. tf' \in [pc : TfPc, idx : 0 .. N, msg : Message \union {NoMsg}]
      BY <1>1, <2>3, <3>1
    <3> QED BY <2>1, <3>1, <3>2, <3>3 DEF Firewalls
  <2>4. CASE tf' = [tf EXCEPT !.idx = k + 1] /\ k # N - 1
    <3>1. k + 1 \in 0 .. N - 1 /\ k + 1 \in 0 .. N
      BY <1>1, <2>1, <2>4
    <3> QED BY <1>1, <2>1, <2>4, <3>1 DEF TfPc, Firewalls
  <2> QED BY <2>2, <2>3, <2>4
<1>15. CASE TfTerminateIn
  <2>1. /\ tf.pc = "termIn" /\ k \in Firewalls
        /\ UNCHANGED <<copy, prod, cons, between>>
        /\ tf' \in [pc : TfPc, idx : 0 .. N, msg : Message \union {NoMsg}]
        /\ tf'.pc \in {"termIn", "termOut"} /\ tf'.idx \in Firewalls
    BY <1>14, <1>15 DEF TfTerminateIn
  <2>2. /\ chIn' = [chIn EXCEPT ![k] = ChangeWriteState(in, "END")]
        /\ chOut' = [chOut EXCEPT ![k] = out]
    BY <1>1, <1>2, <1>15, <2>1 DEF TfTerminateIn, TerminateSink
  <2>3. tf'.pc # "update" /\ tf'.idx # N /\ tf'.pc # "write"
    BY <1>1, <2>1 DEF Firewalls
  <2>4. Goes
    BY <2>1 DEF Goes
  <2> QED BY <1>2, <1>8, <2>1, <2>2, <2>3, <2>4, EndFrame
<1>16. CASE TfTerminateOut
  <2>1. /\ tf.pc = "termOut" /\ k \in Firewalls
        /\ UNCHANGED <<copy, prod, cons, between>>
        /\ tf' \in [pc : TfPc, idx : 0 .. N, msg : Message \union {NoMsg}]
        /\ tf'.pc \in {"termOut", "ended"} /\ tf'.idx \in Firewalls
    BY <1>14, <1>16 DEF TfTerminateOut
  <2>2. /\ chIn' = [chIn EXCEPT ![k] = in]
        /\ chOut' = [chOut EXCEPT ![k] = ChangeReadState(out, "END")]
    BY <1>1, <1>2, <1>16, <2>1 DEF TfTerminateOut, TerminateSource
  <2>3. tf'.pc # "update" /\ tf'.idx # N /\ tf'.pc # "write"
    BY <1>1, <2>1 DEF Firewalls
  <2>4. Goes
    BY <2>1 DEF Goes
  <2> QED BY <1>2, <1>8, <2>1, <2>2, <2>3, <2>4, EndFrame
<1> QED
  BY <1>4, <1>5, <1>6, <1>7, <1>9, <1>10, <1>11, <1>12, <1>13, <1>15, <1>16 DEF Tf

-----------------------------------------------------------------------------
(* The invariant.                                                          *)

(* The invariant holds at the start.                                       *)
LEMMA InvInit == Init => Inv
<1> SUFFICES ASSUME Init PROVE Inv
  OBVIOUS
<1>1. PICK kind \in Timers :
        /\ chIn = [i \in Firewalls |-> ChannelCreate(kind[i].inType,
                     kind[i].inLength, "none", FALSE, FALSE)]
        /\ chOut = [i \in Firewalls |-> ChannelCreate("D_FIFO",
                      kind[i].outLength, "none", FALSE, FALSE)]
        /\ prod = [i \in Firewalls |-> [pc |-> "idle", created |-> 0,
                                        left |-> kind[i].writes]]
  BY DEF Init
<1>2. /\ copy \in Copies /\ between = {}
      /\ tf = [pc |-> "uninit", idx |-> 0, msg |-> NoMsg]
      /\ cons = [i \in Firewalls |-> [pc |-> "read", last |-> 0]]
  BY DEF Init
<1>3. ASSUME NEW type \in ChannelType, NEW length \in Nat \ {0}
      PROVE  LET c == ChannelCreate(type, length, "none", FALSE, FALSE)
             IN  /\ c \in Channel /\ c.source.state # "END"
                 /\ c.sink.state # "END"
  BY DEF ChannelCreate, NewEnd, Channel, ChannelEnd, ChannelType, EndState,
     EndErr, GuardState
<1>4. \A i \in Firewalls :
        /\ kind[i].inType \in ChannelType /\ kind[i].inLength \in Nat \ {0}
        /\ kind[i].outLength \in Nat \ {0} /\ kind[i].writes \in Nat
        /\ "D_FIFO" \in ChannelType
  BY FirewallAssumption DEF Kind, ChannelType
<1>5. \A i \in Firewalls :
        /\ chIn[i] \in Channel /\ chIn[i].source.state # "END"
        /\ chIn[i].sink.state # "END"
        /\ chOut[i] \in Channel /\ chOut[i].source.state # "END"
        /\ chOut[i].sink.state # "END"
  BY <1>1, <1>3, <1>4
<1>6. chIn \in [Firewalls -> Channel] /\ chOut \in [Firewalls -> Channel]
  BY <1>1, <1>5
<1>7. Typed
  <2>1. prod \in [Firewalls -> [pc : ProdPc, created : Nat, left : Nat]]
    BY <1>1, <1>4 DEF ProdPc
  <2>2. /\ tf \in [pc : TfPc, idx : 0 .. N, msg : Message \union {NoMsg}]
        /\ tf.pc = "uninit" /\ tf.idx # N
    BY <1>2, FirewallAssumption DEF TfPc
  <2>3. cons \in [Firewalls -> [pc : ConsPc, last : Nat]]
    BY <1>2 DEF ConsPc
  <2>4. copy \in BOOLEAN /\ between \subseteq Firewalls
    BY <1>2, FirewallAssumption
  <2> QED BY <1>6, <2>1, <2>2, <2>3, <2>4 DEF Typed, TypeOK
<1>8. Closed /\ EndsIndividually /\ Told
  BY <1>1, <1>2, <1>5 DEF Closed, EndsIndividually, Told, Look
<1> QED BY <1>7, <1>8 DEF Inv

(* A producer keeps it, ...                                                *)
LEMMA ProducerStep ==
  ASSUME Inv, NEW i \in Firewalls, Producer(i)
  PROVE  Inv'
<1>1. Typed'
  BY ProducerMoves DEF Inv, Typed, TypeOK
<1>2. Closed' /\ EndsIndividually'
  <2>1. Closed'
    BY ProducerMoves DEF Inv, Closed
  <2>2. EndsIndividually'
    BY ProducerMoves DEF Inv, EndsIndividually
  <2> QED BY <2>1, <2>2
<1>3. \A j \in Firewalls : Settled(j) => Settled(j)'
  BY ProducerMoves DEF Settled
<1>4. Told'
  BY <1>3, ProducerMoves DEF Inv, Told, Look
<1> QED BY <1>1, <1>2, <1>4 DEF Inv

(* ... and a consumer, ...                                                 *)
LEMMA ConsumerStep ==
  ASSUME Inv, NEW i \in Firewalls, Consumer(i)
  PROVE  Inv'
<1>1. Typed'
  BY ConsumerMoves DEF Inv, Typed, TypeOK
<1>2. Closed' /\ EndsIndividually'
  BY ConsumerMoves DEF Inv, Closed, EndsIndividually
<1>3. \A j \in Firewalls : Settled(j) => Settled(j)'
  BY ConsumerMoves DEF Settled
<1>4. Told'
  BY <1>3, ConsumerMoves DEF Inv, Told, Look
<1> QED BY <1>1, <1>2, <1>4 DEF Inv

(* ... and the firewall net.                                               *)
LEMMA TfStep ==
  ASSUME Inv, Tf
  PROVE  Inv'
<1>1. /\ Typed' /\ Goes /\ UNCHANGED <<copy, prod, cons>>
      /\ \A i \in Firewalls : Leaves(i)
  BY TfMoves
<1>2. ASSUME NEW i \in Firewalls
      PROVE  /\ chIn[i].source.state = "END" <=> prod[i].pc = "ended"
             /\ chOut[i].sink.state = "END" <=> cons[i].pc = "ended"
             /\ tf.pc \in {"termIn", "termOut", "ended"} => cons[i].pc = "ended"
  BY DEF Inv, Closed
<1>3. Closed'
  BY <1>1, <1>2 DEF Closed, Goes, Leaves
<1>4. EndsIndividually'
  BY <1>1, <1>2 DEF Inv, EndsIndividually, Goes, Leaves
<1>5. ASSUME NEW i \in Firewalls
      PROVE  /\ chOut'[i].source.state = "END" => Settled(i)'
             /\ Look(i)' => chIn'[i].fifo = <<>> \/ i \in between'
             /\ tf'.pc = "tellConsumer" /\ tf'.idx = i => Settled(i)'
  <2>1. CASE cons[i].pc = "ended"
    <3>1. Settled(i)'
      BY <1>1, <2>1 DEF Settled
    <3>2. Look(i)' => chIn'[i].fifo = <<>>
      BY <1>1 DEF Look, Goes, Leaves, in
    <3> QED BY <3>1, <3>2
  <2>2. CASE cons[i].pc # "ended"
    <3>1. Look(i)' => chIn'[i].fifo = <<>>
      BY <1>1 DEF Look, Goes, Leaves, in
    <3>2. chOut'[i].source.state = "END" => Settled(i)'
      <4>1. chOut[i].source.state = "END" \/ (tf.pc = "tellConsumer" /\ tf.idx = i)
              => Settled(i)
        BY DEF Inv, Told
      <4>2. chOut'[i].source.state = "END" =>
              \/ chOut[i].source.state = "END"
              \/ tf.pc = "tellConsumer" /\ tf.idx = i
        BY <1>1, <1>2, <2>2 DEF Leaves
      <4> QED BY <1>1, <4>1, <4>2 DEF Settled, Leaves
    <3>3. tf'.pc = "tellConsumer" /\ tf'.idx = i => Settled(i)'
      <4> SUFFICES ASSUME tf'.pc = "tellConsumer", tf'.idx = i
                   PROVE  Settled(i)'
        OBVIOUS
      <4>1. tf.pc = "state" /\ tf.idx = i /\ chIn[i].source.state = "END"
        BY <1>1, <1>2, <2>2 DEF Goes, in, out
      <4>2. chIn[i].fifo = <<>> \/ i \in between
        BY <4>1 DEF Inv, Told, Look
      <4> QED BY <1>1, <1>2, <4>1, <4>2 DEF Settled, Leaves
    <3> QED BY <3>1, <3>2, <3>3
  <2> QED BY <2>1, <2>2
<1>6. Told'
  BY <1>5 DEF Told
<1> QED BY <1>1, <1>3, <1>4, <1>6 DEF Inv

(* So it always holds.                                                     *)
LEMMA InvAlways == Spec => []Inv
<1>1. Inv /\ [Next]_vars => Inv'
  <2> SUFFICES ASSUME Inv, [Next]_vars PROVE Inv'
    OBVIOUS
  <2>1. CASE UNCHANGED vars
    BY <2>1 DEF vars, Inv, Typed, TypeOK, Closed, EndsIndividually, Told, Settled,
       Look
  <2>2. CASE Next
    BY <2>1, <2>2, ProducerStep, ConsumerStep, TfStep DEF Next, Ended
  <2> QED BY <2>1, <2>2
<1> QED BY InvInit, <1>1, PTL DEF Spec

-----------------------------------------------------------------------------
(* The theorems.                                                           *)

(* The firewalls of a timer keep their types, however many there are.      *)
THEOREM TypeCorrect == Spec => []TypeOK
<1>1. Inv => TypeOK
  BY DEF Inv, Typed
<1> QED BY InvAlways, <1>1, PTL

(* smx_tf_propagate_msgs passes on an end to the one consumer and the one  *)
(* producer it concerns.                                                   *)
THEOREM IndividualEnds == Spec => []EndsIndividually
<1>1. Inv => EndsIndividually
  BY DEF Inv
<1> QED BY InvAlways, <1>1, PTL

(* The unlocked looks of smx_tf_propagate_msgs lose messages in one window *)
(* only: a consumer that sees the end and has not all its producer wrote   *)
(* misses a message written between the look at the fill and the one at    *)
(* the state.                                                              *)
THEOREM LossWindow == Spec => []LossOnlyBetweenLooks
<1>1. Inv => LossOnlyBetweenLooks
  BY DEF Inv, Told, Settled, LossOnlyBetweenLooks, Drained
<1> QED BY InvAlways, <1>1, PTL

-----------------------------------------------------------------------------
(* The order of the messages.                                              *)

(* What a write puts in a ring that does not reorder.                      *)
LEMMA OrderedWrite ==
  ASSUME NEW c \in Channel, NEW m \in Message,
         DecoupledIn(c) => c.length = 1 /\ Len(c.fifo) <= 1
  PROVE  LET w == ChannelWrite(c, m)
         IN  /\ w.type = c.type /\ w.length = c.length /\ w.backup = c.backup
             /\ DecoupledIn(c) => w.fifo = <<m>>
             /\ ~DecoupledIn(c) => w.fifo = c.fifo \/ w.fifo = Append(c.fifo, m)
<1> DEFINE w == ChannelWrite(c, m)
           r == Rearm(c)
<1>1. /\ r \in Channel /\ r.type = c.type /\ r.length = c.length
      /\ r.backup = c.backup /\ r.fifo = c.fifo /\ c.fifo \in Seq(Message)
      /\ DecoupledIn(r) <=> DecoupledIn(c)
  BY RearmType DEF Rearm, Channel, DecoupledIn
<1> HIDE DEF r
<1>2. /\ StoreMsg(r, m).type = r.type /\ StoreMsg(r, m).length = r.length
      /\ StoreMsg(r, m).backup = r.backup /\ StoreMsg(r, m) \in Channel
      /\ DecoupledIn(r) => StoreMsg(r, m).fifo = IF Full(r) THEN [r.fifo EXCEPT ![1] = m]
                                                            ELSE Append(r.fifo, m)
      /\ ~DecoupledIn(r) => StoreMsg(r, m).fifo = IF Full(r) THEN r.fifo
                                                             ELSE Append(r.fifo, m)
  <2>1. CASE DecoupledIn(r)
    <3>1. DFifoWrite(r, m) \in Channel
      BY <1>1, DFifoWriteType
    <3> QED BY <1>1, <2>1, <3>1 DEF StoreMsg, DFifoWrite, Channel
  <2>2. CASE ~DecoupledIn(r)
    <3>1. FifoWrite(r, m) \in Channel
      BY <1>1, FifoWriteType
    <3>2. CASE Full(r)
      BY <1>1, <2>2, <3>1, <3>2, WriteErrFrame DEF StoreMsg, FifoWrite, SetWriteErr, Channel
    <3>3. CASE ~Full(r)
      BY <1>1, <2>2, <3>1, <3>3 DEF StoreMsg, FifoWrite, ChangeWriteState, Channel
    <3> QED BY <3>2, <3>3
  <2> QED BY <2>1, <2>2
<1>3. /\ w.type = StoreMsg(r, m).type /\ w.length = StoreMsg(r, m).length
      /\ w.backup = StoreMsg(r, m).backup /\ w.fifo = StoreMsg(r, m).fifo
  BY <1>2 DEF ChannelWrite, r, ChangeReadState, Channel
<1>4. ASSUME DecoupledIn(c) PROVE w.fifo = <<m>>
  <2>1. c.length = 1 /\ Len(c.fifo) \in Nat /\ Len(c.fifo) <= 1
    BY <1>1, <1>4
  <2>2. CASE Full(r)
    <3>1. Len(c.fifo) = 1
      <4>1. Len(c.fifo) >= 1
        BY <1>1, <2>1, <2>2 DEF Full
      <4>2. Len(c.fifo) \in Nat /\ Len(c.fifo) <= 1
        BY <2>1
      <4>3. \A n \in Nat : n <= 1 /\ n >= 1 => n = 1
        OBVIOUS
      <4> QED BY <4>1, <4>2, <4>3
    <3>2. [c.fifo EXCEPT ![1] = m] \in Seq(Message)
          /\ Len([c.fifo EXCEPT ![1] = m]) = 1 /\ [c.fifo EXCEPT ![1] = m][1] = m
      BY <1>1, <3>1, ExceptSeq
    <3>3. [c.fifo EXCEPT ![1] = m] = <<m>>
      BY <3>2
    <3> QED BY <1>1, <1>2, <1>3, <1>4, <2>2, <3>3
  <2>3. CASE ~Full(r)
    <3>1. c.fifo = <<>>
      BY <1>1, <2>1, <2>3 DEF Full
    <3>2. Append(<<>>, m) = <<m>>
      OBVIOUS
    <3> QED BY <1>1, <1>2, <1>3, <1>4, <2>3, <3>1, <3>2
  <2> QED BY <2>2, <2>3
<1> QED BY <1>1, <1>2, <1>3, <1>4

(* What the two reads of a firewall return and leave.                      *)
LEMMA OrderedRead ==
  ASSUME NEW c \in Channel,
         \A k \in DOMAIN c.fifo : ~c.fifo[k].prevent_backup
  PROVE  /\ LET d == ChangeWriteState(FifoDRead(c), "READY")
            IN  /\ d.type = c.type /\ d.length = c.length
                /\ c.fifo = <<>> => d.fifo = <<>> /\ d.backup = c.backup
                /\ c.fifo # <<>> =>
                     /\ d.fifo = Tail(c.fifo)
                     /\ d.backup = IF Tail(c.fifo) = <<>> THEN Head(c.fifo) ELSE c.backup
         /\ LET d == ChangeWriteState(FifoDDRead(c), "READY")
            IN  /\ d.type = c.type /\ d.length = c.length /\ d.backup = c.backup
                /\ d.fifo = IF c.fifo = <<>> THEN <<>> ELSE Tail(c.fifo)
<1>1. c.fifo # <<>> => ~Head(c.fifo).prevent_backup
  <2>1. c.fifo \in Seq(Message)
    BY DEF Channel
  <2>2. c.fifo # <<>> => 1 \in DOMAIN c.fifo /\ Head(c.fifo) = c.fifo[1]
    BY <2>1
  <2> QED BY <2>2
<1>2. CASE c.fifo = <<>>
  BY <1>2 DEF ChangeWriteState, FifoDRead, FifoDDRead, SetReadErr, Channel, ChannelEnd
<1>3. CASE c.fifo # <<>>
  BY <1>1, <1>3 DEF ChangeWriteState, FifoDRead, FifoDDRead, Pop, Channel, ChannelEnd
<1> QED BY <1>2, <1>3

(* The order of a firewall whose messages stay where they are.             *)
LEMMA OrderFrame ==
  ASSUME NEW i \in Firewalls, Shaped(i), Ordered(i), Typed, Typed',
         copy' = copy, Sent(i) <= Sent(i)',
         prod'[i].pc = "write" => prod'[i].created > 0,
         tf'.msg # NoMsg => tf'.pc = "write",
         Held(i)' => Held(i) /\ tf'.msg = tf.msg,
         cons'[i].last = cons[i].last,
         chOut'[i].type = chOut[i].type, chOut'[i].length = chOut[i].length,
         chOut'[i].fifo = chOut[i].fifo,
         chIn'[i].type = chIn[i].type, chIn'[i].length = chIn[i].length,
         chIn'[i].fifo = chIn[i].fifo, chIn'[i].backup = chIn[i].backup
  PROVE  (Shaped(i) /\ Ordered(i))'
<1>1. Shaped(i)'
  BY DEF Shaped, DecoupledIn
<1>2. Passed(i)' \subseteq Passed(i)
  BY DEF Passed
<1>3. Sent(i) \in Int /\ Sent(i)' \in Int
  BY DEF Typed, TypeOK, Sent
<1>4. \A x : x \in 0 .. Sent(i) => x \in 0 .. Sent(i)'
  BY <1>3
<1>5. \A x : x \in 1 .. Sent(i) => x \in 1 .. Sent(i)'
  BY <1>3
<1>6. Ordered(i)'
  BY <1>2, <1>4, <1>5 DEF Ordered, Before
<1> QED BY <1>1, <1>6

(* A ring with a new message at its end, or with nothing else.             *)
LEMMA Latest ==
  ASSUME NEW f \in Seq(Message), NEW m \in Message, NEW g,
         g = <<m>> \/ g = Append(f, m)
  PROVE  /\ g # <<>>
         /\ \A k \in DOMAIN g : g[k] = m \/ (k \in DOMAIN f /\ g[k] = f[k])
         /\ \A k, n \in DOMAIN g : k < n => k \in DOMAIN f /\ g[k] = f[k]
<1>1. CASE g = <<m>>
  <2>1. DOMAIN g = 1 .. 1 /\ g[1] = m /\ g # <<>>
    BY <1>1
  <2> QED BY <2>1
<1>2. CASE g = Append(f, m)
  <2>1. /\ g # <<>> /\ Len(f) \in Nat
        /\ DOMAIN f = 1 .. Len(f) /\ DOMAIN g = 1 .. Len(f) + 1
        /\ \A k \in 1 .. Len(f) : g[k] = f[k]
        /\ g[Len(f) + 1] = m
    BY <1>2, AppendProperties
  <2> QED BY <2>1
<1> QED BY <1>1, <1>2

(* A producer's message is newer than all that went before it.             *)
LEMMA OrderProducer ==
  ASSUME Inv, NEW i \in Firewalls, Producer(i), Shaped(i), Ordered(i)
  PROVE  (Shaped(i) /\ Ordered(i))'
<1> DEFINE c == chIn[i]
           d == chIn'[i]
<1>1. /\ Typed' /\ Typed /\ UNCHANGED <<chOut, copy, tf, cons>>
      /\ chIn \in [Firewalls -> Channel] /\ c \in Channel /\ c.fifo \in Seq(Message)
      /\ prod \in [Firewalls -> [pc : ProdPc, created : Nat, left : Nat]]
      /\ prod[i].created \in Nat
  <2>1. UNCHANGED <<chOut, copy, tf, cons>> /\ Typed'
    BY ProducerMoves DEF Inv, Typed, TypeOK
  <2> QED BY <2>1 DEF Inv, Typed, TypeOK, Channel
<1>2. (tf'.msg # NoMsg => tf'.pc = "write") /\ (Held(i)' <=> Held(i))
  BY <1>1 DEF Held, Shaped
<1>3. ASSUME d.type = c.type, d.length = c.length, d.fifo = c.fifo,
             d.backup = c.backup, Sent(i) <= Sent(i)',
             prod'[i].pc = "write" => prod'[i].created > 0
      PROVE  (Shaped(i) /\ Ordered(i))'
  BY <1>1, <1>2, <1>3, OrderFrame
<1>4. CASE ProducerCall(i)
  <2>1. /\ prod[i].pc = "idle" /\ prod'[i].pc = "write" /\ chIn' = chIn
        /\ prod'[i].created = prod[i].created + 1
    BY <1>1, <1>4 DEF ProducerCall
  <2>2. /\ Sent(i) = prod[i].created /\ Sent(i)' = prod[i].created + 1 - 1
        /\ prod[i].created \in Nat
    BY <1>1, <2>1 DEF Sent
  <2>3. Sent(i) <= Sent(i)' /\ prod'[i].created > 0
    BY <2>1, <2>2
  <2> QED BY <1>1, <1>3, <2>1, <2>3
<1>5. CASE ProducerEnd(i)
  <2>1. /\ prod[i].pc = "idle" /\ prod'[i].pc = "ended" /\ d = TerminateSource(c)
        /\ prod'[i].created = prod[i].created
    BY <1>1, <1>5 DEF ProducerEnd
  <2>2. Sent(i)' = Sent(i) /\ Sent(i) \in Nat
    BY <1>1, <2>1 DEF Sent
  <2>3. d.type = c.type /\ d.length = c.length /\ d.fifo = c.fifo /\ d.backup = c.backup
    BY <1>1, <2>1 DEF TerminateSource, ChangeReadState, Channel
  <2> QED BY <1>3, <2>1, <2>2, <2>3
<1>6. CASE ProducerWrite(i)
  <2> DEFINE m == [seq |-> prod[i].created, prevent_backup |-> FALSE]
  <2>1. /\ prod[i].pc = "write" /\ prod'[i].pc = "idle"
        /\ prod'[i].created = prod[i].created /\ m \in Message
        /\ d = SetWriteErr(c, "NO_TARGET") \/ d = ChannelWrite(c, m)
    BY <1>1, <1>6 DEF ProducerWrite, Message
  <2>2. /\ Sent(i)' = Sent(i) + 1 /\ Sent(i) \in Nat /\ m.seq = Sent(i)'
        /\ ~m.prevent_backup
    BY <1>1, <2>1 DEF Sent, Shaped
  <2>3. CASE d = SetWriteErr(c, "NO_TARGET")
    <3>1. d.type = c.type /\ d.length = c.length /\ d.fifo = c.fifo /\ d.backup = c.backup
      BY <1>1, <2>3 DEF SetWriteErr, Channel
    <3> QED BY <1>3, <2>1, <2>2, <3>1
  <2>4. CASE d = ChannelWrite(c, m)
    <3> HIDE DEF m
    <3>1. /\ d.type = c.type /\ d.length = c.length /\ d.backup = c.backup
          /\ DecoupledIn(c) => d.fifo = <<m>>
          /\ ~DecoupledIn(c) => d.fifo = c.fifo \/ d.fifo = Append(c.fifo, m)
      <4>1. DecoupledIn(c) => c.length = 1 /\ Len(c.fifo) <= 1
        BY DEF Shaped
      <4>2. LET w == ChannelWrite(c, m)
            IN  /\ w.type = c.type /\ w.length = c.length /\ w.backup = c.backup
                /\ DecoupledIn(c) => w.fifo = <<m>>
                /\ ~DecoupledIn(c) => w.fifo = c.fifo \/ w.fifo = Append(c.fifo, m)
        <5> HIDE DEF c, d
        <5> QED BY <1>1, <2>1, <4>1, OrderedWrite
      <4> QED BY <2>4, <4>2
    <3>2. CASE d.fifo = c.fifo
      BY <1>3, <2>1, <2>2, <3>1, <3>2
    <3>3. CASE d.fifo = <<m>> \/ (~DecoupledIn(c) /\ d.fifo = Append(c.fifo, m))
      <4>1. Shaped(i)'
        <5>1. d.fifo = <<m>> => Len(d.fifo) <= 1
          OBVIOUS
        <5> QED BY <1>1, <2>1, <3>1, <3>3, <5>1 DEF Shaped, DecoupledIn
      <4>2. Passed(i)' = Passed(i) /\ \A s \in Passed(i) : s \in 0 .. Sent(i)
        BY <1>1, <1>2 DEF Passed, Ordered
      <4>3. /\ d.fifo # <<>>
            /\ \A k \in DOMAIN d.fifo :
                 d.fifo[k] = m \/ (k \in DOMAIN c.fifo /\ d.fifo[k] = c.fifo[k])
            /\ \A k, n \in DOMAIN d.fifo :
                 k < n => k \in DOMAIN c.fifo /\ d.fifo[k] = c.fifo[k]
        <5> HIDE DEF c, d
        <5> QED BY <1>1, <2>1, <3>3, Latest
      <4>4. /\ m.seq \in 1 .. Sent(i)' /\ \A s \in Passed(i) : s < m.seq
            /\ \A k \in DOMAIN c.fifo : /\ c.fifo[k].seq \in 1 .. Sent(i)'
                                        /\ c.fifo[k].seq < m.seq
        BY <2>2, <4>2 DEF Ordered
      <4>5. ASSUME NEW k \in DOMAIN d.fifo
            PROVE  /\ d.fifo[k].seq \in 1 .. Sent(i)' /\ ~d.fifo[k].prevent_backup
                   /\ \A s \in Passed(i) : Before(s, d.fifo[k].seq)
        <5>1. CASE d.fifo[k] = m
          BY <2>2, <4>4, <5>1 DEF Before
        <5>2. CASE k \in DOMAIN c.fifo /\ d.fifo[k] = c.fifo[k]
          BY <4>4, <5>2 DEF Ordered
        <5> QED BY <4>3, <5>1, <5>2
      <4>6. ASSUME NEW k \in DOMAIN d.fifo, NEW n \in DOMAIN d.fifo, k < n
            PROVE  d.fifo[k].seq < d.fifo[n].seq
        <5>1. k \in DOMAIN c.fifo /\ d.fifo[k] = c.fifo[k]
          BY <4>3, <4>6
        <5>2. CASE d.fifo[n] = m
          BY <4>4, <5>1, <5>2
        <5>3. CASE n \in DOMAIN c.fifo /\ d.fifo[n] = c.fifo[n]
          BY <4>6, <5>1, <5>3 DEF Ordered
        <5> QED BY <4>3, <5>2, <5>3
      <4>8. d.backup # NoMsg => d.backup.seq \in 1 .. Sent(i)'
        BY <2>2, <3>1 DEF Ordered
      <4>9. \A s \in Passed(i)' : s \in 0 .. Sent(i)'
        BY <2>2, <4>2
      <4>10. Ordered(i)'
        BY <1>1, <1>2, <4>2, <4>3, <4>5, <4>6, <4>8, <4>9 DEF Ordered, Before
      <4> QED BY <4>1, <4>10
    <3> QED BY <3>1, <3>2, <3>3
  <2> QED BY <2>1, <2>3, <2>4
<1> QED BY <1>4, <1>5, <1>6 DEF Producer

(* Where nothing is in hand before or after, and nothing moves in the      *)
(* channels, the order is kept.                                            *)
LEMMA OrderTfFrame ==
  ASSUME NEW i \in Firewalls, Shaped(i), Ordered(i), Typed, Typed',
         UNCHANGED <<copy, prod, cons>>, tf'.msg = NoMsg,
         chOut'[i].type = chOut[i].type, chOut'[i].length = chOut[i].length,
         chOut'[i].fifo = chOut[i].fifo,
         chIn'[i].type = chIn[i].type, chIn'[i].length = chIn[i].length,
         chIn'[i].fifo = chIn[i].fifo, chIn'[i].backup = chIn[i].backup
  PROVE  (Shaped(i) /\ Ordered(i))'
<1>1. Sent(i)' = Sent(i) /\ Sent(i) \in Int
  BY DEF Sent, Typed, TypeOK
<1>2. ~Held(i)'
  BY DEF Held
<1>3. prod'[i].pc = "write" => prod'[i].created > 0
  BY DEF Shaped
<1> QED BY <1>1, <1>2, <1>3, OrderFrame

(* tf takes the oldest message of an input, or its backup when it is empty,*)
(* which is as new as anything that went before.                           *)
LEMMA OrderRead ==
  ASSUME Inv, TfRead, NEW i \in Firewalls, Shaped(i), Ordered(i)
  PROVE  (Shaped(i) /\ Ordered(i))'
<1> DEFINE c == chIn[i]
           d == chIn'[i]
<1>1. /\ Typed' /\ Typed /\ UNCHANGED <<chOut, copy, prod, cons>>
      /\ chIn \in [Firewalls -> Channel] /\ c \in Channel /\ c.fifo \in Seq(Message)
      /\ tf \in [pc : TfPc, idx : 0 .. N, msg : Message \union {NoMsg}]
      /\ copy \in BOOLEAN
  <2>1. Typed' /\ UNCHANGED <<copy, prod, cons>>
    BY TfMoves DEF Tf
  <2> QED BY <2>1 DEF Inv, Typed, TypeOK, Channel, TfRead
<1>2. tf.pc = "read" /\ tf.msg = NoMsg /\ ~Held(i)
  BY <1>1 DEF TfRead, At, Shaped, Held
<1>3. NextFirewall => tf'.msg = NoMsg
  BY DEF NextFirewall
<1>4. ASSUME NEW m, tf' = [tf EXCEPT !.pc = "write", !.msg = m]
      PROVE  tf'.msg = m /\ tf'.pc = "write" /\ tf'.idx = tf.idx
  BY <1>1, <1>4
<1>5. CASE i # tf.idx
  <2>1. d = c /\ ~Held(i)' /\ (tf'.msg # NoMsg => tf'.pc = "write")
    <3>1. d = c
      BY <1>1, <1>5 DEF TfRead
    <3>2. tf'.msg = NoMsg \/ (tf'.pc = "write" /\ tf'.idx = tf.idx)
      BY <1>3, <1>4 DEF TfRead
    <3> QED BY <1>5, <3>1, <3>2 DEF Held
  <2>2. Sent(i)' = Sent(i) /\ Sent(i) \in Int
    BY <1>1 DEF Sent, Typed, TypeOK
  <2> QED BY <1>1, <2>1, <2>2, OrderFrame DEF Shaped
<1>6. CASE i = tf.idx
  <2> DEFINE msg == IF copy THEN FifoDReadMsg(c) ELSE FifoReadMsg(c)
  <2>1. /\ d = ChangeWriteState(IF copy THEN FifoDRead(c) ELSE FifoDDRead(c), "READY")
        /\ msg = NoMsg => tf'.msg = NoMsg
        /\ msg # NoMsg => tf'.msg = msg /\ tf'.pc = "write" /\ tf'.idx = i
    <3>1. in = c
      BY <1>6 DEF in
    <3>2. chIn' = [chIn EXCEPT ![i] =
                     ChangeWriteState(IF copy THEN FifoDRead(c) ELSE FifoDDRead(c), "READY")]
      BY <1>6, <3>1 DEF TfRead
    <3>3. IF msg = NoMsg THEN NextFirewall
                         ELSE tf' = [tf EXCEPT !.pc = "write", !.msg = msg]
      BY <3>1 DEF TfRead
    <3>4. /\ msg = NoMsg => tf'.msg = NoMsg
          /\ msg # NoMsg => tf'.msg = msg /\ tf'.pc = "write" /\ tf'.idx = i
      <4> HIDE DEF msg
      <4> QED BY <1>3, <1>4, <1>6, <3>3
    <3> QED BY <1>1, <3>2, <3>4
  <2>2. \A k \in DOMAIN c.fifo : ~c.fifo[k].prevent_backup
    BY DEF Ordered
  <2>3. /\ d.type = c.type /\ d.length = c.length
        /\ c.fifo = <<>> => d.fifo = <<>> /\ d.backup = c.backup
        /\ c.fifo # <<>> =>
             /\ d.fifo = Tail(c.fifo)
             /\ \/ d.backup = c.backup /\ (copy => Tail(c.fifo) # <<>>)
                \/ d.backup = Head(c.fifo)
        /\ msg = IF c.fifo # <<>> THEN Head(c.fifo) ELSE IF copy THEN c.backup ELSE NoMsg
    <3>1. msg = IF c.fifo # <<>> THEN Head(c.fifo) ELSE IF copy THEN c.backup ELSE NoMsg
      BY DEF FifoDReadMsg, FifoReadMsg
    <3>2. CASE copy
      <4>1. LET e == ChangeWriteState(FifoDRead(c), "READY")
            IN  /\ e.type = c.type /\ e.length = c.length
                /\ c.fifo = <<>> => e.fifo = <<>> /\ e.backup = c.backup
                /\ c.fifo # <<>> =>
                     /\ e.fifo = Tail(c.fifo)
                     /\ e.backup = IF Tail(c.fifo) = <<>> THEN Head(c.fifo)
                                                          ELSE c.backup
        <5> HIDE DEF c, d, msg
        <5> QED BY <1>1, <2>2, OrderedRead
      <4>2. d = ChangeWriteState(FifoDRead(c), "READY")
        BY <2>1, <3>2
      <4> HIDE DEF c, d, msg
      <4> QED BY <3>1, <4>1, <4>2
    <3>3. CASE ~copy
      <4>1. LET e == ChangeWriteState(FifoDDRead(c), "READY")
            IN  /\ e.type = c.type /\ e.length = c.length /\ e.backup = c.backup
                /\ e.fifo = IF c.fifo = <<>> THEN <<>> ELSE Tail(c.fifo)
        <5> HIDE DEF c, d, msg
        <5> QED BY <1>1, <2>2, OrderedRead
      <4>2. d = ChangeWriteState(FifoDDRead(c), "READY")
        BY <2>1, <3>3
      <4> HIDE DEF c, d, msg
      <4> QED BY <3>1, <3>3, <4>1, <4>2
    <3> QED BY <3>2, <3>3
  <2>4. CASE msg = NoMsg
    <3>1. c.fifo = <<>>
      <4>1. c.fifo # <<>> => Head(c.fifo) \in Message
        BY <1>1
      <4> QED BY <2>3, <2>4, <4>1, NoMsgAssumption
    <3> QED BY <1>1, <2>1, <2>3, <2>4, <3>1, OrderTfFrame
  <2>5. CASE msg # NoMsg
    <3> HIDE DEF msg
    <3>1. tf'.msg = msg /\ tf'.pc = "write" /\ tf'.idx = i /\ Held(i)'
      BY <2>1, <2>5 DEF Held
    <3>2. /\ Sent(i)' = Sent(i) /\ Passed(i)' = Passed(i) \union {msg.seq}
          /\ Sent(i) \in Int
      BY <1>1, <1>2, <3>1 DEF Sent, Passed, Typed, TypeOK
    <3>3. /\ \A s \in Passed(i) : Before(s, msg.seq) /\ s \in Int
          /\ msg.seq \in 1 .. Sent(i)
          /\ \A k \in DOMAIN d.fifo :
               /\ k + 1 \in DOMAIN c.fifo /\ d.fifo[k] = c.fifo[k + 1] /\ k \in Int
               /\ msg.seq < d.fifo[k].seq
          /\ d.backup # NoMsg => d.backup.seq \in 1 .. Sent(i)
          /\ d.backup # NoMsg /\ copy /\ d.fifo = <<>> => d.backup.seq = msg.seq
      <4>1. CASE c.fifo = <<>>
        <5>1. copy /\ msg = c.backup /\ c.backup # NoMsg /\ d.fifo = <<>> /\ d.backup = c.backup
          BY <2>3, <2>5, <4>1
        <5>2. /\ c.backup.seq \in 1 .. Sent(i)
              /\ \A s \in Passed(i) : s <= c.backup.seq /\ s \in Int
          BY <3>2, <4>1, <5>1 DEF Ordered
        <5> QED BY <3>2, <5>1, <5>2 DEF Before
      <4>2. CASE c.fifo # <<>>
        <5>1. /\ msg = c.fifo[1] /\ 1 \in DOMAIN c.fifo
              /\ \A k \in DOMAIN d.fifo :
                   k + 1 \in DOMAIN c.fifo /\ d.fifo[k] = c.fifo[k + 1]
                   /\ k \in Int /\ 1 < k + 1
              /\ Tail(c.fifo) # <<>> => d.fifo # <<>>
          <6> HIDE DEF c, d
          <6>1. /\ Len(c.fifo) \in Nat \ {0} /\ DOMAIN c.fifo = 1 .. Len(c.fifo)
                /\ d.fifo = Tail(c.fifo) /\ msg = Head(c.fifo)
            BY <1>1, <2>3, <4>2
          <6>2. /\ DOMAIN d.fifo = 1 .. Len(c.fifo) - 1
                /\ \A k \in 1 .. Len(c.fifo) - 1 : d.fifo[k] = c.fifo[k + 1]
            BY <1>1, <4>2, <6>1
          <6> QED BY <1>1, <4>2, <6>1, <6>2
        <5>2. /\ msg.seq \in 1 .. Sent(i)
              /\ \A s \in Passed(i) : Before(s, msg.seq) /\ s \in Int
              /\ \A n \in DOMAIN c.fifo : 1 < n => msg.seq < c.fifo[n].seq
          BY <3>2, <5>1 DEF Ordered
        <5>3. \/ d.backup = c.backup /\ (copy => Tail(c.fifo) # <<>>)
              \/ d.backup = msg
          BY <2>3, <4>2
        <5>4. c.backup # NoMsg => c.backup.seq \in 1 .. Sent(i)
          BY DEF Ordered
        <5> HIDE DEF c, d
        <5> QED BY <5>1, <5>2, <5>3, <5>4
      <4> QED BY <4>1, <4>2
    <3>4. Shaped(i)'
      <4>1. Len(d.fifo) <= 1 \/ ~DecoupledIn(c)
        <5>1. DecoupledIn(c) => Len(c.fifo) <= 1
          BY DEF Shaped
        <5> HIDE DEF c, d
        <5>2. c.fifo # <<>> => Len(Tail(c.fifo)) = Len(c.fifo) - 1
          BY <1>1
        <5>3. Len(<<>>) = 0 /\ Len(c.fifo) \in Nat
          BY <1>1
        <5>4. d.fifo = <<>> \/ (c.fifo # <<>> /\ d.fifo = Tail(c.fifo))
          BY <2>3
        <5>5. CASE d.fifo = <<>>
          <6>1. Len(d.fifo) = 0
            BY <5>5
          <6> QED BY <6>1
        <5>6. CASE c.fifo # <<>> /\ d.fifo = Tail(c.fifo)
          <6>1. Len(d.fifo) = Len(c.fifo) - 1
            BY <5>2, <5>6
          <6> QED BY <5>1, <5>3, <6>1
        <5> QED BY <5>4, <5>5, <5>6
      <4> QED BY <1>1, <2>3, <3>1, <4>1 DEF Shaped, DecoupledIn
    <3>5. \A s \in Passed(i)' : s \in 0 .. Sent(i)'
      BY <3>2, <3>3 DEF Ordered
    <3>6. ASSUME NEW k \in DOMAIN d.fifo
          PROVE  /\ d.fifo[k].seq \in 1 .. Sent(i)' /\ ~d.fifo[k].prevent_backup
                 /\ \A s \in Passed(i)' : Before(s, d.fifo[k].seq)
                 /\ \A n \in DOMAIN d.fifo : k < n => d.fifo[k].seq < d.fifo[n].seq
      <4>1. /\ k + 1 \in DOMAIN c.fifo /\ d.fifo[k] = c.fifo[k + 1] /\ k \in Int
            /\ msg.seq < d.fifo[k].seq
        BY <3>3
      <4>2. /\ c.fifo[k + 1].seq \in 1 .. Sent(i) /\ ~c.fifo[k + 1].prevent_backup
            /\ \A s \in Passed(i) : Before(s, c.fifo[k + 1].seq)
            /\ \A n \in DOMAIN c.fifo : k + 1 < n => c.fifo[k + 1].seq < c.fifo[n].seq
        BY <4>1 DEF Ordered
      <4>3. ASSUME NEW n \in DOMAIN d.fifo, k < n PROVE d.fifo[k].seq < d.fifo[n].seq
        <5>1. n + 1 \in DOMAIN c.fifo /\ d.fifo[n] = c.fifo[n + 1] /\ k + 1 < n + 1
          BY <3>3, <4>1, <4>3
        <5> QED BY <4>1, <4>2, <5>1
      <4>4. \A s \in Passed(i)' : Before(s, d.fifo[k].seq)
        BY <3>2, <4>1, <4>2 DEF Before
      <4> QED BY <3>2, <4>1, <4>2, <4>3, <4>4
    <3>7. /\ \A k \in DOMAIN chOut[i].fifo : /\ chOut[i].fifo[k].seq \in Passed(i)
                                             /\ chOut[i].fifo[k].seq > 0
                                             /\ Before(cons[i].last, chOut[i].fifo[k].seq)
          /\ cons[i].last \in Passed(i)
      BY DEF Passed, Ordered
    <3>8. d.backup # NoMsg => /\ d.backup.seq \in 1 .. Sent(i)'
                              /\ copy /\ d.fifo = <<>> =>
                                   \A s \in Passed(i)' : s <= d.backup.seq
      BY <3>2, <3>3 DEF Before
    <3>9. msg.seq > 0
      BY <3>2, <3>3
    <3>10. Ordered(i)'
      BY <1>1, <3>1, <3>3, <3>5, <3>6, <3>7, <3>8, <3>9 DEF Ordered, Before
    <3> QED BY <3>4, <3>10
  <2> QED BY <2>4, <2>5
<1> QED BY <1>5, <1>6

(* The message in tf's hands replaces what is in the output, or is lost    *)
(* with it when the consumer has gone.                                     *)
LEMMA OrderTfWrite ==
  ASSUME Inv, TfWrite, NEW i \in Firewalls, Shaped(i), Ordered(i)
  PROVE  (Shaped(i) /\ Ordered(i))'
<1> DEFINE m == tf.msg
           c == chOut[i]
           d == chOut'[i]
<1>1. /\ Typed' /\ Typed /\ UNCHANGED <<copy, prod, cons, chIn>>
      /\ chOut \in [Firewalls -> Channel] /\ c \in Channel
      /\ m \in Message /\ m # NoMsg /\ tf'.msg = NoMsg
  <2>1. Typed' /\ UNCHANGED <<copy, prod, cons>>
    BY TfMoves DEF Tf
  <2>2. tf'.msg = NoMsg
    BY DEF TfWrite, NextFirewall
  <2> QED BY <2>1, <2>2, NoMsgAssumption DEF Inv, Typed, TypeOK, TfWrite, At
<1>2. CASE i # tf.idx
  <2>1. d = c
    BY <1>1, <1>2 DEF TfWrite
  <2> QED BY <1>1, <2>1, OrderTfFrame
<1>3. CASE i = tf.idx
  <2>1. d = SetWriteErr(c, "NO_TARGET") \/ d = ChannelWrite(c, m)
    <3>1. chOut' = [chOut EXCEPT ![i] = IF c.sink.state = "END"
                                        THEN SetWriteErr(c, "NO_TARGET")
                                        ELSE ChannelWrite(c, m)]
      BY <1>3 DEF TfWrite
    <3> QED BY <1>1, <3>1
  <2>2. CASE d = SetWriteErr(c, "NO_TARGET")
    <3>1. d.type = c.type /\ d.length = c.length /\ d.fifo = c.fifo
      BY <1>1, <2>2 DEF SetWriteErr, Channel
    <3> QED BY <1>1, <3>1, OrderTfFrame
  <2>3. CASE d = ChannelWrite(c, m)
    <3>1. d.type = c.type /\ d.length = c.length /\ d.fifo = <<m>>
      <4>1. DecoupledIn(c) /\ c.length = 1 /\ Len(c.fifo) <= 1
        BY DEF Shaped, DecoupledIn
      <4>2. LET w == ChannelWrite(c, m)
            IN  /\ w.type = c.type /\ w.length = c.length
                /\ DecoupledIn(c) => w.fifo = <<m>>
        <5> HIDE DEF c, d, m
        <5> QED BY <1>1, <4>1, OrderedWrite
      <4> QED BY <2>3, <4>1, <4>2
    <3>2. Held(i) /\ ~Held(i)'
      BY <1>1, <1>3 DEF Held
    <3>3. /\ DOMAIN d.fifo = {1} /\ d.fifo[1] = m /\ Len(d.fifo) <= 1
      BY <3>1
    <3>4. Passed(i)' = {cons[i].last, m.seq} /\ Passed(i)' \subseteq Passed(i)
      BY <1>1, <3>2, <3>3 DEF Passed
    <3>5. Sent(i)' = Sent(i)
      BY <1>1 DEF Sent
    <3>6. Shaped(i)'
      BY <1>1, <3>1, <3>3 DEF Shaped, DecoupledIn
    <3>7. m.seq > 0 /\ Before(cons[i].last, m.seq)
      BY <3>2 DEF Ordered
    <3>8. Ordered(i)'
      <4> HIDE DEF m
      <4> QED BY <1>1, <3>2, <3>3, <3>4, <3>5, <3>7 DEF Ordered, Before
    <3> QED BY <3>6, <3>8
  <2> QED BY <2>1, <2>2, <2>3
<1> QED BY <1>2, <1>3

(* Every other step of tf only closes ends.                                *)
LEMMA OrderTf ==
  ASSUME Inv, Tf, NEW i \in Firewalls, Shaped(i), Ordered(i)
  PROVE  (Shaped(i) /\ Ordered(i))'
<1>1. /\ Typed' /\ Typed /\ UNCHANGED <<copy, prod, cons>>
      /\ chOut \in [Firewalls -> Channel] /\ chIn \in [Firewalls -> Channel]
      /\ tf \in [pc : TfPc, idx : 0 .. N, msg : Message \union {NoMsg}]
      /\ tf.pc # "write" => tf.msg = NoMsg
  <2>1. Typed' /\ UNCHANGED <<copy, prod, cons>>
    BY TfMoves
  <2> QED BY <2>1 DEF Inv, Typed, TypeOK, Shaped
<1>2. \A pc : TfGoTo(pc) => tf'.msg = tf.msg
  BY <1>1 DEF TfGoTo
<1>3. NextFirewall => tf'.msg = NoMsg
  BY DEF NextFirewall
<1>4. ASSUME NEW j, NEW c \in Channel, c = chOut[j]
      PROVE  LET d == ChangeReadState(c, "END")
             IN  d.type = c.type /\ d.length = c.length /\ d.fifo = c.fifo
  BY <1>4 DEF ChangeReadState, Channel
<1>5. ASSUME NEW c \in Channel
      PROVE  LET d == ChangeWriteState(c, "END")
             IN  /\ d.type = c.type /\ d.length = c.length /\ d.fifo = c.fifo
                 /\ d.backup = c.backup
  BY DEF ChangeWriteState, Channel
<1>6. ASSUME tf'.msg = NoMsg,
             \/ chIn' = chIn
             \/ chIn' = [chIn EXCEPT ![tf.idx] = ChangeWriteState(@, "END")],
             \/ chOut' = chOut
             \/ chOut' = [chOut EXCEPT ![tf.idx] = ChangeReadState(@, "END")]
      PROVE  (Shaped(i) /\ Ordered(i))'
  <2>1. /\ chIn'[i].type = chIn[i].type /\ chIn'[i].length = chIn[i].length
        /\ chIn'[i].fifo = chIn[i].fifo /\ chIn'[i].backup = chIn[i].backup
    BY <1>1, <1>5, <1>6
  <2>2. /\ chOut'[i].type = chOut[i].type /\ chOut'[i].length = chOut[i].length
        /\ chOut'[i].fifo = chOut[i].fifo
    BY <1>1, <1>4, <1>6
  <2> QED BY <1>1, <1>6, <2>1, <2>2, OrderTfFrame
<1>7. CASE TfLookUninitialised
  BY <1>1, <1>2, <1>3, <1>6, <1>7 DEF TfLookUninitialised, At
<1>8. CASE TfLookCount
  BY <1>1, <1>2, <1>3, <1>6, <1>8 DEF TfLookCount, At
<1>9. CASE TfLookState
  BY <1>1, <1>2, <1>3, <1>6, <1>9 DEF TfLookState, At
<1>10. CASE TfLookOut
  BY <1>1, <1>2, <1>3, <1>6, <1>10 DEF TfLookOut, At
<1>11. CASE TfTellConsumer
  BY <1>1, <1>2, <1>3, <1>6, <1>11 DEF TfTellConsumer, At
<1>12. CASE TfTellProducer
  BY <1>1, <1>2, <1>3, <1>6, <1>12 DEF TfTellProducer, At
<1>13. CASE TfUpdateState
  <2>1. tf'.msg = NoMsg
    BY <1>1, <1>13 DEF TfUpdateState, At
  <2> QED BY <1>6, <1>13, <2>1 DEF TfUpdateState
<1>14. ASSUME NEW pc, NEW next, pc # "write", TfTerminate(pc, next)
       PROVE  tf'.msg = NoMsg
  BY <1>1, <1>14 DEF TfTerminate, At
<1>15. CASE TfTerminateIn
  BY <1>6, <1>14, <1>15 DEF TfTerminateIn, TerminateSink
<1>16. CASE TfTerminateOut
  BY <1>6, <1>14, <1>16 DEF TfTerminateOut, TerminateSource
<1> QED BY <1>7, <1>8, <1>9, <1>10, <1>11, <1>12, <1>13, <1>15, <1>16,
           OrderRead, OrderTfWrite DEF Tf

(* A consumer takes the one message of its output, or none.                *)
LEMMA OrderConsumer ==
  ASSUME Inv, NEW i \in Firewalls, Consumer(i), Shaped(i), Ordered(i)
  PROVE  (Shaped(i) /\ Ordered(i))'
<1> DEFINE c == chOut[i]
           d == chOut'[i]
<1>1. /\ Typed' /\ Typed /\ UNCHANGED <<chIn, copy, prod, tf>>
      /\ c \in Channel /\ d \in Channel /\ c.fifo \in Seq(Message)
      /\ chOut \in [Firewalls -> Channel]
      /\ cons \in [Firewalls -> [pc : ConsPc, last : Nat]]
      /\ cons' \in [Firewalls -> [pc : ConsPc, last : Nat]]
  <2>1. Typed' /\ UNCHANGED <<chIn, copy, prod, tf>>
    BY ConsumerMoves DEF Inv, Typed, TypeOK
  <2> QED BY <2>1, ConsumerMoves DEF Inv, Typed, TypeOK, Channel
<1>2. /\ Sent(i)' = Sent(i) /\ Sent(i) \in Int /\ (Held(i)' <=> Held(i))
      /\ prod'[i].pc = "write" => prod'[i].created > 0
      /\ tf'.msg # NoMsg => tf'.pc = "write"
  BY <1>1 DEF Sent, Held, Shaped, Typed, TypeOK
<1>3. ASSUME cons'[i].last = cons[i].last, d.type = c.type, d.length = c.length,
             d.fifo = c.fifo
      PROVE  (Shaped(i) /\ Ordered(i))'
  BY <1>1, <1>2, <1>3, OrderFrame
<1>4. CASE ConsumerGoesOn(i)
  BY <1>1, <1>3, <1>4 DEF ConsumerGoesOn
<1>5. CASE ConsumerEnd(i)
  <2>1. d = ChangeWriteState(c, "END") /\ cons'[i].last = cons[i].last
    BY <1>1, <1>5 DEF ConsumerEnd, TerminateSink
  <2>2. d.type = c.type /\ d.length = c.length /\ d.fifo = c.fifo
    BY <1>1, <2>1 DEF ChangeWriteState, Channel
  <2> QED BY <1>3, <2>1, <2>2
<1>6. CASE ConsumerRead(i)
  <2> DEFINE msg == FifoReadMsg(c)
  <2>1. /\ d = ChannelRead(c) /\ ~DecoupledOut(c)
        /\ cons'[i].last = IF msg = NoMsg THEN cons[i].last ELSE msg.seq
    <3>1. ~DecoupledOut(c) /\ ChannelReadMsg(c) = msg
      BY DEF Shaped, DecoupledOut, ChannelReadMsg
    <3> QED BY <1>1, <1>6, <3>1 DEF ConsumerRead
  <2>2. d.type = c.type /\ d.length = c.length
    BY <1>1, <2>1, ReadFrame
  <2>3. d = ChangeWriteState(FifoRead(c), "READY")
    BY <2>1 DEF ChannelRead
  <2>4. CASE c.fifo = <<>>
    <3>1. d.fifo = c.fifo
      BY <1>1, <2>3, <2>4 DEF ChangeWriteState, FifoRead, SetReadErr, Channel
    <3>2. msg = NoMsg
      BY <2>4 DEF FifoReadMsg
    <3> QED BY <1>3, <2>1, <2>2, <3>1, <3>2
  <2>5. CASE c.fifo # <<>>
    <3>1. /\ Len(c.fifo) = 1 /\ DOMAIN c.fifo = {1} /\ c.fifo[1] = Head(c.fifo)
          /\ c.fifo[1] \in Message /\ Tail(c.fifo) = <<>>
      <4>1. Len(c.fifo) <= 1
        BY DEF Shaped
      <4> HIDE DEF c
      <4>2. Len(c.fifo) \in Nat /\ Len(c.fifo) # 0 /\ DOMAIN c.fifo = 1 .. Len(c.fifo)
        BY <1>1, <2>5
      <4>3. \A n \in Nat : n <= 1 /\ n # 0 => n = 1
        OBVIOUS
      <4>4. Len(c.fifo) = 1
        BY <4>1, <4>2, <4>3
      <4>5. c.fifo[1] = Head(c.fifo) /\ c.fifo[1] \in Message
        BY <1>1, <4>4
      <4>6. Tail(c.fifo) \in Seq(Message) /\ Len(Tail(c.fifo)) = 0
        BY <1>1, <2>5, <4>4, HeadTailProperties
      <4>7. Tail(c.fifo) = <<>>
        BY <4>6, EmptySeq
      <4> QED BY <4>2, <4>4, <4>5, <4>7
    <3>2. d.fifo = <<>>
      BY <1>1, <2>3, <2>5, <3>1
         DEF ChangeWriteState, FifoRead, Pop, ChangeReadState, Channel
    <3>3. msg = c.fifo[1] /\ cons'[i].last = c.fifo[1].seq
      BY <2>1, <2>5, <3>1, NoMsgAssumption DEF FifoReadMsg
    <3>4. DOMAIN d.fifo = {} /\ Len(d.fifo) = 0
      BY <3>2
    <3>5. Shaped(i)'
      BY <1>1, <1>2, <2>2, <3>4 DEF Shaped, DecoupledIn
    <3>6. /\ Passed(i)' = {c.fifo[1].seq} \union (IF Held(i) THEN {tf.msg.seq} ELSE {})
          /\ Passed(i)' \subseteq Passed(i)
      BY <1>1, <1>2, <3>1, <3>3, <3>4 DEF Passed
    <3>7. Held(i) => Before(c.fifo[1].seq, tf.msg.seq)
      BY <3>1 DEF Ordered
    <3>8. Ordered(i)'
      <4> QED BY <1>1, <1>2, <3>3, <3>4, <3>6, <3>7 DEF Ordered, Before
    <3> QED BY <3>5, <3>8
  <2> QED BY <2>4, <2>5
<1> QED BY <1>4, <1>5, <1>6 DEF Consumer

(* The order holds at the start, where nothing has been written ...        *)
LEMMA OrderInit == Orderly /\ Init => OrderInv
<1> SUFFICES ASSUME Orderly, Init, NEW i \in Firewalls
             PROVE  Shaped(i) /\ Ordered(i)
  BY DEF OrderInv
<1>1. PICK kind \in Timers :
        /\ chIn = [j \in Firewalls |-> ChannelCreate(kind[j].inType,
                     kind[j].inLength, "none", FALSE, FALSE)]
        /\ chOut = [j \in Firewalls |-> ChannelCreate("D_FIFO",
                      kind[j].outLength, "none", FALSE, FALSE)]
        /\ prod = [j \in Firewalls |-> [pc |-> "idle", created |-> 0,
                                        left |-> kind[j].writes]]
  BY DEF Init
<1>2. /\ chIn[i].type = kind[i].inType /\ chIn[i].length = kind[i].inLength
      /\ chIn[i].fifo = <<>> /\ chIn[i].backup = NoMsg
      /\ chOut[i].type = "D_FIFO" /\ chOut[i].length = kind[i].outLength
      /\ chOut[i].fifo = <<>>
      /\ prod[i].pc = "idle" /\ prod[i].created = 0
  BY <1>1 DEF ChannelCreate
<1>3. tf.msg = NoMsg /\ cons[i].last = 0
  BY DEF Init
<1>4. kind[i].inType \in {"FIFO_D", "D_FIFO_D"} /\ kind[i].outLength = 1
      /\ (kind[i].inType = "D_FIFO_D" => kind[i].inLength = 1)
  BY FirewallAssumption DEF Kind, Orderly
<1>5. Len(chIn[i].fifo) = 0 /\ Len(chOut[i].fifo) = 0
      /\ DOMAIN chIn[i].fifo = {} /\ DOMAIN chOut[i].fifo = {}
  BY <1>2
<1>6. Shaped(i)
  BY <1>2, <1>3, <1>4, <1>5 DEF Shaped, DecoupledIn
<1>7. Passed(i) = {0} /\ Sent(i) = 0
  BY <1>2, <1>3, <1>5 DEF Passed, Sent, Held
<1>8. Ordered(i)
  BY <1>2, <1>3, <1>5, <1>7 DEF Ordered, Held
<1> QED BY <1>6, <1>8

(* ... and every step keeps it.                                            *)
LEMMA OrderStep ==
  ASSUME Inv, OrderInv, [Next]_vars
  PROVE  OrderInv'
<1> SUFFICES ASSUME NEW i \in Firewalls PROVE (Shaped(i) /\ Ordered(i))'
  BY DEF OrderInv
<1>1. Shaped(i) /\ Ordered(i) /\ Typed
  BY DEF OrderInv, Inv
<1>2. Sent(i) \in Int
  BY <1>1 DEF Sent, Typed, TypeOK
<1>3. ASSUME NEW j \in Firewalls \ {i}, Producer(j)
      PROVE  (Shaped(i) /\ Ordered(i))'
  <2>1. /\ UNCHANGED <<chOut, copy, tf, cons>>
        /\ chIn'[i] = chIn[i] /\ prod'[i] = prod[i] /\ Typed'
    BY <1>3, ProducerMoves, ProducerStep DEF Inv
  <2>2. Sent(i)' = Sent(i) /\ (Held(i)' => Held(i))
    BY <2>1 DEF Sent, Held
  <2> QED BY <1>1, <1>2, <2>1, <2>2, OrderFrame DEF Shaped
<1>4. ASSUME NEW j \in Firewalls \ {i}, Consumer(j)
      PROVE  (Shaped(i) /\ Ordered(i))'
  <2>1. /\ UNCHANGED <<chIn, copy, prod, tf>>
        /\ chOut'[i] = chOut[i] /\ cons'[i] = cons[i] /\ Typed'
    BY <1>4, ConsumerMoves, ConsumerStep DEF Inv
  <2>2. Sent(i)' = Sent(i) /\ (Held(i)' => Held(i))
    BY <2>1 DEF Sent, Held
  <2> QED BY <1>1, <1>2, <2>1, <2>2, OrderFrame DEF Shaped
<1>5. CASE UNCHANGED vars
  <2>1. /\ UNCHANGED <<chIn, chOut, copy, prod, tf, cons>> /\ Typed'
    BY <1>1, <1>5 DEF vars, Typed, TypeOK
  <2>2. Sent(i)' = Sent(i) /\ (Held(i)' => Held(i))
    BY <2>1 DEF Sent, Held
  <2> QED BY <1>1, <1>2, <2>1, <2>2, OrderFrame DEF Shaped
<1>6. CASE Producer(i)
  BY <1>1, <1>6, OrderProducer
<1>7. CASE Consumer(i)
  BY <1>1, <1>7, OrderConsumer
<1>8. CASE Tf
  BY <1>1, <1>8, OrderTf
<1> QED BY <1>3, <1>4, <1>5, <1>6, <1>7, <1>8 DEF Next, Ended

(* Where Orderly holds, so does the order, always.                         *)
LEMMA OrderAlways == ASSUME Orderly PROVE Spec => []OrderInv
<1>1. Init => OrderInv
  BY OrderInit
<1>2. Inv /\ OrderInv /\ [Next]_vars => OrderInv'
  BY OrderStep
<1> QED BY InvAlways, <1>1, <1>2, PTL DEF Spec

(* Positions that only rise, or stay where messages are duplicated.        *)
Rising(s) == \A a, b \in DOMAIN s : a < b => Before(s[a], s[b])

(* The positions of a sequence of messages.                                *)
LEMMA SeqsOf ==
  ASSUME NEW f \in Seq(Message)
  PROVE  LET s == [k \in DOMAIN f |-> f[k].seq]
         IN  s \in Seq(Nat) /\ DOMAIN s = DOMAIN f
<1>1. Len(f) \in Nat /\ DOMAIN f = 1 .. Len(f)
  OBVIOUS
<1>2. \A k \in 1 .. Len(f) : f[k] \in Message
  BY <1>1
<1>3. \A m \in Message : m.seq \in Nat
  BY DEF Message
<1> QED BY <1>1, <1>2, <1>3, IsASeq

(* Two rising sequences, one before the other, make a rising one.          *)
LEMMA RisingConcat ==
  ASSUME NEW S, NEW T, NEW s \in Seq(Nat), NEW t \in Seq(Nat),
         Rising(s), Rising(t),
         \A k \in DOMAIN s : s[k] \in S, \A k \in DOMAIN t : t[k] \in T,
         \A x \in S, y \in T : Before(x, y)
  PROVE  /\ s \o t \in Seq(Nat) /\ Rising(s \o t)
         /\ \A k \in DOMAIN (s \o t) : (s \o t)[k] \in S \union T
<1> DEFINE u == s \o t
<1>1. /\ Len(s) \in Nat /\ Len(t) \in Nat
      /\ DOMAIN s = 1 .. Len(s) /\ DOMAIN t = 1 .. Len(t)
  OBVIOUS
<1>2. /\ u \in Seq(Nat) /\ DOMAIN u = 1 .. Len(s) + Len(t)
      /\ \A k \in 1 .. Len(s) + Len(t) :
           u[k] = IF k <= Len(s) THEN s[k] ELSE t[k - Len(s)]
  BY <1>1, ConcatProperties
<1> HIDE DEF u
<1>3. \A k \in DOMAIN u : \/ k \in DOMAIN s /\ u[k] = s[k]
                          \/ k - Len(s) \in DOMAIN t /\ u[k] = t[k - Len(s)] /\ k > Len(s)
  BY <1>1, <1>2
<1>4. \A k \in DOMAIN u : u[k] \in S \union T
  BY <1>3
<1>5. ASSUME NEW a \in DOMAIN u, NEW b \in DOMAIN u, a < b
      PROVE  Before(u[a], u[b])
  <2>1. CASE a \in DOMAIN s /\ u[a] = s[a] /\ b \in DOMAIN s /\ u[b] = s[b]
    BY <1>5, <2>1 DEF Rising
  <2>2. CASE a \in DOMAIN s /\ u[a] = s[a]
             /\ b - Len(s) \in DOMAIN t /\ u[b] = t[b - Len(s)]
    BY <2>2
  <2>3. CASE /\ a - Len(s) \in DOMAIN t /\ u[a] = t[a - Len(s)] /\ a > Len(s)
             /\ b - Len(s) \in DOMAIN t /\ u[b] = t[b - Len(s)]
    <3>1. a - Len(s) < b - Len(s)
      BY <1>1, <1>2, <1>5
    <3> QED BY <2>3, <3>1 DEF Rising
  <2>4. ~(a > Len(s) /\ b \in DOMAIN s)
    BY <1>1, <1>2, <1>5
  <2> QED BY <1>3, <2>1, <2>2, <2>3, <2>4
<1> QED BY <1>2, <1>4, <1>5 DEF Rising, u

(* The order of a firewall is that of its pipeline.                        *)
LEMMA OrderHolds == Inv /\ OrderInv => NeverOlder
<1> SUFFICES ASSUME Inv, OrderInv, NEW i \in Firewalls
             PROVE  LET p == Pipeline(i)
                    IN  \A k \in 1 .. Len(p) - 1 :
                          p[k] < p[k + 1] \/ (copy /\ p[k] = p[k + 1])
  BY DEF NeverOlder
<1> DEFINE last == cons[i].last
           outs == {chOut[i].fifo[k].seq : k \in DOMAIN chOut[i].fifo}
           held == IF Held(i) THEN {tf.msg.seq} ELSE {}
           ins == {chIn[i].fifo[k].seq : k \in DOMAIN chIn[i].fifo}
           s1 == IF last = 0 THEN <<>> ELSE <<last>>
           s2 == [k \in DOMAIN chOut[i].fifo |-> chOut[i].fifo[k].seq]
           s3 == IF tf.msg # NoMsg /\ tf.idx = i THEN <<tf.msg.seq>> ELSE <<>>
           s4 == [k \in DOMAIN chIn[i].fifo |-> chIn[i].fifo[k].seq]
<1>1. /\ last \in Nat /\ chOut[i].fifo \in Seq(Message) /\ chIn[i].fifo \in Seq(Message)
      /\ Held(i) => tf.msg.seq \in Nat
      /\ Shaped(i) /\ Ordered(i)
  BY DEF Inv, Typed, TypeOK, Channel, Message, Held, OrderInv
<1>2. s1 \in Seq(Nat) /\ Rising(s1) /\ \A k \in DOMAIN s1 : s1[k] \in {last}
  <2> HIDE DEF last
  <2>1. DOMAIN <<last>> = {1} /\ <<last>>[1] = last /\ DOMAIN <<>> = {}
    OBVIOUS
  <2> QED BY <1>1, <2>1 DEF Rising
<1>3. s2 \in Seq(Nat) /\ Rising(s2) /\ \A k \in DOMAIN s2 : s2[k] \in outs
  <2>1. s2 \in Seq(Nat) /\ DOMAIN s2 = DOMAIN chOut[i].fifo
    BY <1>1, SeqsOf
  <2>2. DOMAIN chOut[i].fifo \subseteq 1 .. 1
    BY <1>1 DEF Shaped
  <2> QED BY <2>1, <2>2 DEF Rising
<1>4. s3 \in Seq(Nat) /\ Rising(s3) /\ \A k \in DOMAIN s3 : s3[k] \in held
  <2> DEFINE m == tf.msg.seq
  <2> HIDE DEF m
  <2>1. DOMAIN <<m>> = {1} /\ <<m>>[1] = m /\ DOMAIN <<>> = {}
    OBVIOUS
  <2>2. CASE Held(i)
    <3>1. s3 = <<m>> /\ held = {m} /\ m \in Nat
      BY <1>1, <2>2 DEF Held, m
    <3> QED BY <2>1, <3>1 DEF Rising
  <2>3. CASE ~Held(i)
    <3>1. s3 = <<>>
      BY <2>3 DEF Held
    <3> QED BY <2>1, <3>1 DEF Rising
  <2> QED BY <2>2, <2>3
<1>5. s4 \in Seq(Nat) /\ Rising(s4) /\ \A k \in DOMAIN s4 : s4[k] \in ins
  <2>1. s4 \in Seq(Nat) /\ DOMAIN s4 = DOMAIN chIn[i].fifo
    BY <1>1, SeqsOf
  <2> QED BY <1>1, <2>1 DEF Rising, Ordered, Before
<1>6. /\ \A x \in {last}, y \in outs : Before(x, y)
      /\ \A x \in {last} \union outs, y \in held : Before(x, y)
      /\ \A x \in {last} \union outs \union held, y \in ins : Before(x, y)
  BY <1>1 DEF Ordered, Passed, Held
<1> HIDE DEF s1, s2, s3, s4, last, outs, held, ins
<1>7. /\ s1 \o s2 \in Seq(Nat) /\ Rising(s1 \o s2)
      /\ \A k \in DOMAIN (s1 \o s2) : (s1 \o s2)[k] \in {last} \union outs
  BY <1>2, <1>3, <1>6, RisingConcat
<1>8. /\ s1 \o s2 \o s3 \in Seq(Nat) /\ Rising(s1 \o s2 \o s3)
      /\ \A k \in DOMAIN (s1 \o s2 \o s3) :
           (s1 \o s2 \o s3)[k] \in {last} \union outs \union held
  BY <1>4, <1>6, <1>7, RisingConcat
<1>9. s1 \o s2 \o s3 \o s4 \in Seq(Nat) /\ Rising(s1 \o s2 \o s3 \o s4)
  <2> DEFINE r == s1 \o s2 \o s3
             before == {last} \union outs \union held
  <2>1. /\ r \in Seq(Nat) /\ Rising(r) /\ \A k \in DOMAIN r : r[k] \in before
        /\ \A x \in before, y \in ins : Before(x, y)
    BY <1>6, <1>8
  <2> HIDE DEF r, before
  <2>2. r \o s4 \in Seq(Nat) /\ Rising(r \o s4)
    BY <1>5, <2>1, RisingConcat
  <2> QED BY <2>2 DEF r
<1>10. Pipeline(i) = s1 \o s2 \o s3 \o s4
  BY DEF Pipeline, s1, s2, s3, s4, last
<1>11. ASSUME NEW p \in Seq(Nat), Rising(p), NEW k \in 1 .. Len(p) - 1
       PROVE  p[k] < p[k + 1] \/ (copy /\ p[k] = p[k + 1])
  <2>1. k \in DOMAIN p /\ k + 1 \in DOMAIN p /\ k < k + 1
    BY <1>11
  <2> QED BY <1>11, <2>1 DEF Rising, Before
<1> QED BY <1>9, <1>10, <1>11

(* Through any number of firewalls whose channels do not reorder, that is, *)
(* whose overwriting rings hold one message, no consumer reads a message   *)
(* older than one it has read, and none twice unless tf duplicates:        *)
(* smx_tf_propagate_msgs takes a message out of one ring before the other  *)
(* has it, and FifoDRead's backup is never older than what went before.    *)
THEOREM OrderSafety == ASSUME Orderly PROVE Spec => []NeverOlder
<1>1. Inv /\ OrderInv => NeverOlder
  BY OrderHolds
<1> QED BY InvAlways, OrderAlways, <1>1, PTL
=============================================================================
