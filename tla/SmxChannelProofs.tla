-------------------------- MODULE SmxChannelProofs --------------------------
(***************************************************************************)
(* Safety of SmxChannel for every set of shapes and every bound: its type  *)
(* correctness, then the agreement of the ends' states with the fill of    *)
(* the ring together with the discipline of the waits, then what a read    *)
(* and a write may report.  Each layer is an inductive invariant that      *)
(* rests on the one before.  Last, SmxChannel implements BoundedChannel:   *)
(* a store that is let through is the acceptance or the replacement of a   *)
(* message, a read is a delivery or tells the end of the stream, the       *)
(* termination of an end closes or abandons the queue, and every other     *)
(* step changes nothing the queue knows of.                                *)
(*                                                                         *)
(* The second half is about the messages of a channel of any shape: their  *)
(* order, what gets lost, who owns them, and what a decoupled read repeats.*)
(***************************************************************************)
EXTENDS SmxChannel, SmxFifoProofs, FiniteSetTheorems

(* The type invariant, with what a write in progress holds.                *)

Typed == TypeOK /\ WriterHoldsMessage

(* The initial states are typed.                                           *)
LEMMA TypedInit == Init => Typed
<1> SUFFICES ASSUME Init PROVE Typed
  OBVIOUS
<1>1. PICK s \in Shapes :
        ch = ChannelCreate(s.type, s.length,
                           IF s.guarded THEN "armed" ELSE "none",
                           s.readTimeout, s.writeTimeout)
  BY DEF Init
<1>2. s \in Shape
  BY ShapesAssumption
<1>3. ch \in Channel
  BY <1>1, <1>2 DEF Shape, ChannelCreate, NewEnd, Channel, ChannelEnd, EndState,
                    EndErr, GuardState
<1>4. QED
  BY <1>3 DEF Init, Typed, TypeOK, WriterHoldsMessage, WriterPc, ReaderPc,
             Writer, Reader, DroppedMessage

(* A write that returns leaves the producer idle and without a message.    *)
LEMMA ReturnType ==
  ASSUME writer \in Writer, NEW ret \in {0, -1}, WriteReturns(ret)
  PROVE  /\ writer' \in Writer
         /\ writer'.pc = "idle" /\ writer'.msg = NoMsg
         /\ writer'.created = writer.created
BY DEF WriteReturns, Writer, WriterPc

(* A freed message is recorded with a type of its own.                     *)
LEMMA DropType ==
  ASSUME dropped \subseteq DroppedMessage,
         NEW n \in Nat, NEW ret \in {0, -1},
         Drop(n, ret) \/ Free(n, ret, TRUE)
  PROVE  dropped' \subseteq DroppedMessage
<1>1. \A f \in BOOLEAN : [seq |-> n, ret |-> ret, filtered |-> f] \in DroppedMessage
  BY DEF DroppedMessage
<1>2. CASE Drop(n, ret)
  BY <1>1, <1>2 DEF Drop, Free
<1>3. CASE Free(n, ret, TRUE)
  BY <1>1, <1>3 DEF Free
<1> QED BY <1>2, <1>3

(* An idle producer without a message keeps WriterHoldsMessage.            *)
LEMMA ReturnHolds ==
  ASSUME writer'.pc = "idle", writer'.msg = NoMsg
  PROVE  WriterHoldsMessage'
BY DEF WriterHoldsMessage

(* A producer inside a write has a message.                                *)
LEMMA WritingMessage ==
  ASSUME Typed, writer.pc \in {"lock", "wait", "guard"}
  PROVE  writer.msg \in Message /\ writer.msg.seq \in Nat
BY DEF Typed, TypeOK, Writer, WriterHoldsMessage, Message

(* The producer's actions keep the types, one by one.                      *)
LEMMA TypedWriter ==
  ASSUME Typed, WriterRuns \/ WriteSpurious
  PROVE  Typed'
<1> USE DEF Typed, TypeOK
<1>1. CASE WriteCall
  <2>1. PICK pb \in Prevent :
          writer' = [writer EXCEPT !.pc = "lock", !.created = @ + 1,
                       !.msg = [seq |-> writer.created + 1,
                                prevent_backup |-> pb]]
    BY <1>1 DEF WriteCall
  <2>2. [seq |-> writer.created + 1, prevent_backup |-> pb] \in Message
    BY BoundsAssumption DEF Message, Writer
  <2>3. writer' \in Writer /\ writer'.pc = "lock" /\ writer'.msg \in Message
    <3>1. writer.created + 1 \in Nat
      BY DEF Writer
    <3> QED BY <2>1, <2>2, <3>1 DEF Writer, WriterPc
  <2>4. WriterHoldsMessage'
    BY <2>3, NoMsgAssumption DEF WriterHoldsMessage
  <2> QED BY <1>1, <2>3, <2>4 DEF WriteCall
<1>2. CASE WriteFiltered
  <2>1. PICK ret \in {0, -1} :
          /\ writer' = [writer EXCEPT !.ret = ret, !.created = @ + 1]
          /\ Free(writer.created + 1, ret, TRUE)
          /\ ch' = IF ret = -1 THEN SetWriteErr(ch, "FILTER") ELSE ch
    BY <1>2 DEF WriteFiltered
  <2>2. ch' \in Channel
    BY <2>1, SetWriteErrType DEF EndErr
  <2>3. writer' \in Writer /\ writer'.pc = writer.pc /\ writer'.msg = writer.msg
    <3>1. writer.created + 1 \in Nat
      BY DEF Writer
    <3> QED BY <2>1, <3>1 DEF Writer
  <2>4. dropped' \subseteq DroppedMessage
    <3>1. writer.created + 1 \in Nat
      BY DEF Writer
    <3> QED BY <2>1, <3>1, DropType
  <2>5. WriterHoldsMessage'
    BY <1>2, <2>3 DEF WriteFiltered, WriterHoldsMessage
  <2> QED BY <1>2, <2>2, <2>3, <2>4, <2>5 DEF WriteFiltered
<1>3. CASE WriteNull
  <2>1. ch' \in Channel
    BY <1>3, SetWriteErrType DEF WriteNull, EndErr
  <2>2. writer' \in Writer /\ writer'.pc = writer.pc /\ writer'.msg = writer.msg
    BY <1>3 DEF WriteNull, Writer
  <2>3. WriterHoldsMessage'
    BY <1>3, <2>2 DEF WriteNull, WriterHoldsMessage
  <2> QED BY <1>3, <2>1, <2>2, <2>3 DEF WriteNull
<1>4. CASE WriteWait
  <2>1. ch' \in Channel
    BY <1>4 DEF WriteWait, Channel, ChannelEnd
  <2>2. writer' \in Writer /\ writer'.pc = "wait" /\ writer'.msg = writer.msg
    BY <1>4 DEF WriteWait, Writer, WriterPc
  <2>3. WriterHoldsMessage'
    BY <1>4, <2>2 DEF WriteWait, WriterTests, WriterHoldsMessage
  <2> QED BY <1>4, <2>1, <2>2, <2>3 DEF WriteWait
<1>5. CASE WriteCvError
  <2>1. ch' \in Channel
    BY <1>5, SetReadErrType DEF WriteCvError, EndErr
  <2>2. writer' \in Writer /\ WriterHoldsMessage'
    BY <1>5, ReturnType, ReturnHolds DEF WriteCvError
  <2>3. dropped' \subseteq DroppedMessage
    BY <1>5, WritingMessage, DropType DEF WriteCvError, WriterTests
  <2> QED BY <1>5, <2>1, <2>2, <2>3 DEF WriteCvError
<1>6. CASE WriteTimeout
  <2>1. SetWriteErr(ch, "TIMEOUT") \in Channel
    BY SetWriteErrType DEF EndErr
  <2>2. ch' \in Channel
    BY <1>6, <2>1 DEF WriteTimeout, Channel, ChannelEnd
  <2>3. writer' \in Writer /\ WriterHoldsMessage'
    BY <1>6, ReturnType, ReturnHolds DEF WriteTimeout
  <2>4. dropped' \subseteq DroppedMessage
    BY <1>6, WritingMessage, DropType DEF WriteTimeout
  <2> QED BY <1>6, <2>2, <2>3, <2>4 DEF WriteTimeout
<1>7. CASE WriteAbort
  <2>1. ch' \in Channel
    BY <1>7, SetWriteErrType DEF WriteAbort, EndErr
  <2>2. writer' \in Writer /\ WriterHoldsMessage'
    BY <1>7, ReturnType, ReturnHolds DEF WriteAbort
  <2>3. dropped' \subseteq DroppedMessage
    BY <1>7, WritingMessage, DropType DEF WriteAbort, WriterTests
  <2> QED BY <1>7, <2>1, <2>2, <2>3 DEF WriteAbort
<1>8. CASE WriteGuardBlock
  <2>1. writer' \in Writer /\ writer'.pc = "guard" /\ writer'.msg = writer.msg
    BY <1>8 DEF WriteGuardBlock, Writer, WriterPc
  <2>2. WriterHoldsMessage'
    BY <1>8, <2>1 DEF WriteGuardBlock, WriterMayStore, WriterTests,
                            WriterHoldsMessage
  <2> QED BY <1>8, <2>1, <2>2 DEF WriteGuardBlock
<1>9. CASE WriteGuardDrop
  <2>1. writer' \in Writer /\ WriterHoldsMessage'
    BY <1>9, ReturnType, ReturnHolds DEF WriteGuardDrop
  <2>2. dropped' \subseteq DroppedMessage
    BY <1>9, WritingMessage, DropType
       DEF WriteGuardDrop, WriterMayStore, WriterTests
  <2> QED BY <1>9, <2>1, <2>2 DEF WriteGuardDrop
<1>10. CASE WriteStore
  <2>1. writer.msg \in Message
    BY <1>10, WritingMessage DEF WriteStore, WriterMayStore, WriterTests
  <2>2. ch' \in Channel
    BY <1>10, <2>1, ChannelWriteType DEF WriteStore
  <2>3. WriteVictim(ch, writer.msg) \in Message \union {NoMsg}
    <3>1. Full(ch) => Head(ch.fifo) \in Message
      BY DEF Full, Channel
    <3> QED BY <3>1, <2>1 DEF WriteVictim
  <2>4. dropped' \subseteq DroppedMessage
    <3>1. CASE WriteVictim(ch, writer.msg) = NoMsg
      BY <1>10, <3>1 DEF WriteStore
    <3>2. CASE WriteVictim(ch, writer.msg) # NoMsg
      BY <1>10, <2>3, <3>2, DropType DEF WriteStore, Message
    <3> QED BY <3>1, <3>2
  <2>5. writer' \in Writer /\ WriterHoldsMessage'
    BY <1>10, ReturnType, ReturnHolds DEF WriteStore
  <2> QED BY <1>10, <2>2, <2>4, <2>5 DEF WriteStore
<1>11. CASE WriterEnd
  <2>1. ch' \in Channel
    BY <1>11, ChangeReadStateType DEF WriterEnd, TerminateSource, EndState
  <2>2. writer' \in Writer /\ writer'.pc = "ended" /\ writer'.msg = writer.msg
    BY <1>11 DEF WriterEnd, Writer, WriterPc
  <2>3. WriterHoldsMessage'
    BY <1>11, <2>2 DEF WriterEnd, WriterHoldsMessage
  <2> QED BY <1>11, <2>1, <2>2, <2>3 DEF WriterEnd
<1>12. CASE WriteSpurious
  <2>1. /\ ch' \in Channel /\ ch'.sink.state = ch.sink.state
        /\ ch'.type = ch.type
    BY <1>12 DEF WriteSpurious, Channel, ChannelEnd
  <2> QED BY <1>12, <2>1 DEF WriteSpurious, WriterHoldsMessage, DecoupledIn
<1> QED
  BY <1>1, <1>2, <1>3, <1>4, <1>5, <1>6, <1>7, <1>8, <1>9, <1>10, <1>11, <1>12
     DEF WriterRuns

(* A read that returns leaves the consumer idle with what it returns.      *)
LEMMA ReadReturnType ==
  ASSUME reader \in Reader, NEW m \in Message \union {NoMsg},
         NEW copy \in BOOLEAN, ReadReturns(m, copy)
  PROVE  reader' \in Reader /\ reader'.pc = "idle" /\ reader'.msg = m
BY DEF ReadReturns, Reader, ReaderPc

(* The consumer's actions and the timer.  A step that leaves the writer    *)
(* and the sink's state alone keeps what a write in progress holds.        *)
LEMMA TypedReader ==
  ASSUME Typed, ReaderRuns \/ ReadSpurious \/ GuardExpires
  PROVE  Typed'
<1> USE DEF Typed, TypeOK
<1>0. ASSUME writer' = writer, ch'.type = ch.type, ch'.sink.state = ch.sink.state
      PROVE  WriterHoldsMessage'
  BY <1>0 DEF WriterHoldsMessage, DecoupledIn
<1>1. CASE ReadCall
  <2>1. reader' \in Reader
    <3>1. reader.calls + 1 \in Nat
      BY DEF Reader
    <3> QED BY <1>1, <3>1 DEF ReadCall, Reader, ReaderPc
  <2> QED BY <1>1, <2>1, <1>0 DEF ReadCall
<1>2. CASE ReadWait
  <2>1. /\ ch' \in Channel /\ ch'.type = ch.type
        /\ ch'.sink.state = ch.sink.state
    BY <1>2 DEF ReadWait, Channel, ChannelEnd
  <2>2. reader' \in Reader
    BY <1>2 DEF ReadWait, Reader, ReaderPc
  <2> QED BY <1>2, <2>1, <2>2, <1>0 DEF ReadWait
<1>3. CASE ReadCvError
  <2>1. /\ ch' \in Channel /\ ch'.type = ch.type
        /\ ch'.sink.state = ch.sink.state
    BY <1>3, SetReadErrType, ReadErrFrame DEF ReadCvError, EndErr
  <2>2. reader' \in Reader
    BY <1>3, ReadReturnType DEF ReadCvError
  <2> QED BY <1>3, <2>1, <2>2, <1>0 DEF ReadCvError
<1>4. CASE ReadTimeout
  <2>1. /\ SetReadErr(ch, "TIMEOUT") \in Channel
        /\ SetReadErr(ch, "TIMEOUT").type = ch.type
        /\ SetReadErr(ch, "TIMEOUT").sink = ch.sink
    BY SetReadErrType, ReadErrFrame DEF EndErr
  <2>2. /\ ch' \in Channel /\ ch'.type = ch.type
        /\ ch'.sink.state = ch.sink.state
    BY <1>4, <2>1 DEF ReadTimeout, Channel, ChannelEnd
  <2>3. reader' \in Reader
    BY <1>4, ReadReturnType DEF ReadTimeout
  <2> QED BY <1>4, <2>2, <2>3, <1>0 DEF ReadTimeout
<1>5. CASE ReadFetch
  <2>1. ch' \in Channel /\ ch'.type = ch.type
    BY <1>5, ChannelReadType, ReadFrame DEF ReadFetch
  <2>2. ch.fifo # <<>> => Head(ch.fifo) \in Message
    BY DEF Channel
  <2>3. ChannelReadMsg(ch) \in Message \union {NoMsg}
    BY <2>2 DEF ChannelReadMsg, FifoReadMsg, FifoDReadMsg, Channel
  <2>4. reader' \in Reader
    BY <1>5, <2>3, ReadReturnType DEF ReadFetch
  <2>5. got' \in Seq(Message)
    BY <1>5, <2>2 DEF ReadFetch
  <2>6. WriterHoldsMessage'
    BY <1>5 DEF ReadFetch, ReaderTests, Locked, WriterHoldsMessage
  <2> QED BY <1>5, <2>1, <2>4, <2>5, <2>6 DEF ReadFetch
<1>6. CASE ReaderSetsBackup
  <2>1. [seq |-> 0, prevent_backup |-> FALSE] \in Message
    BY DEF Message
  <2>2. /\ ch' \in Channel /\ ch'.type = ch.type
        /\ ch'.sink.state = ch.sink.state
    BY <1>6, <2>1 DEF ReaderSetsBackup, SetBackup, Channel
  <2> QED BY <1>6, <2>2, <1>0 DEF ReaderSetsBackup
<1>7. CASE ReaderEnd
  <2>1. ch' \in Channel
    BY <1>7, ChangeWriteStateType DEF ReaderEnd, TerminateSink, EndState
  <2>2. reader' \in Reader
    BY <1>7 DEF ReaderEnd, Reader, ReaderPc
  <2>3. WriterHoldsMessage'
    BY <1>7 DEF ReaderEnd, Locked, WriterHoldsMessage
  <2> QED BY <1>7, <2>1, <2>2, <2>3 DEF ReaderEnd
<1>8. CASE ReadSpurious
  <2>1. /\ ch' \in Channel /\ ch'.type = ch.type
        /\ ch'.sink.state = ch.sink.state
    BY <1>8 DEF ReadSpurious, Channel, ChannelEnd
  <2> QED BY <1>8, <2>1, <1>0 DEF ReadSpurious
<1>9. CASE GuardExpires
  <2>1. /\ ch' \in Channel /\ ch'.type = ch.type
        /\ ch'.sink.state = ch.sink.state
    BY <1>9 DEF GuardExpires, Channel, GuardState
  <2> QED BY <1>9, <2>1, <1>0 DEF GuardExpires
<1> QED
  BY <1>1, <1>2, <1>3, <1>4, <1>5, <1>6, <1>7, <1>8, <1>9 DEF ReaderRuns

(* A stuttering step keeps the types.                                      *)
LEMMA TypedStutter ==
  ASSUME Typed, UNCHANGED vars
  PROVE  Typed'
BY DEF Typed, TypeOK, WriterHoldsMessage, vars

(* Every step keeps the types.                                             *)
LEMMA TypedStep == Typed /\ [Next]_vars => Typed'
BY TypedWriter, TypedReader, TypedStutter DEF Next, Ended

(* In every reachable state of the channel every component has its type,   *)
(* and a producer in smx_channel_write has the message it writes: whatever *)
(* the channel's type, length, guard and timeouts.                         *)
THEOREM Typing == Spec => []Typed
BY TypedInit, TypedStep, PTL DEF Spec

(* The type invariant of SmxChannel.                                       *)
THEOREM TypeCorrect == Spec => []TypeOK
<1>1. Typed => TypeOK
  BY DEF Typed
<1> QED BY Typing, <1>1, PTL

-----------------------------------------------------------------------------
(* The state of an end and the fill of the ring, function by function.     *)

(* FillAgrees looks at type, length, ring and the two states only.         *)
LEMMA FillFrame ==
  ASSUME NEW c, NEW d, FillAgrees(c),
         d.type = c.type, d.length = c.length, d.fifo = c.fifo,
         d.source.state = c.source.state, d.sink.state = c.sink.state
  PROVE  FillAgrees(d)
BY DEF FillAgrees, DecoupledIn, DecoupledOut, Full

(* Terminating an end keeps the states in agreement with the fill.         *)
LEMMA FillTerminate ==
  ASSUME NEW c \in Channel, FillAgrees(c)
  PROVE  FillAgrees(TerminateSource(c)) /\ FillAgrees(TerminateSink(c))
BY DEF FillAgrees, DecoupledIn, DecoupledOut, Full, TerminateSource, TerminateSink,
       ChangeReadState, ChangeWriteState, SetState, Channel, ChannelEnd

(* So does a read of an end that is not PENDING ...                        *)
LEMMA FillRead ==
  ASSUME NEW c \in Channel, FillAgrees(c), c.source.state # "PENDING"
  PROVE  FillAgrees(ChannelRead(c))
<1> DEFINE r == ChannelRead(c)
<1>1. /\ r.type = c.type /\ r.length = c.length
      /\ r.sink.state = IF c.sink.state = "END" THEN "END" ELSE "READY"
      /\ r.fifo = IF c.fifo = <<>> THEN <<>> ELSE Tail(c.fifo)
  BY ReadFrame
<1>2. r.source.state =
        IF ~DecoupledOut(c) /\ c.fifo # <<>> /\ Tail(c.fifo) = <<>>
           /\ c.source.state # "END"
        THEN "PENDING" ELSE c.source.state
  BY DEF ChannelRead, ChangeWriteState, FifoRead, FifoDRead, SetReadErr, Pop,
         ChangeReadState, SetState, Channel, ChannelEnd
<1>3. /\ c.fifo \in Seq(Message) /\ c.length \in Nat \ {0}
      /\ c.source.state \in EndState
  BY DEF Channel, ChannelEnd
<1>4. r.source.state = "PENDING" => r.fifo = <<>> /\ ~DecoupledOut(r)
  BY <1>1, <1>2 DEF DecoupledOut
<1>5. r.source.state = "READY" /\ ~DecoupledOut(r) => r.fifo # <<>>
  BY <1>1, <1>2 DEF DecoupledOut, FillAgrees
<1>6. ~DecoupledIn(c) /\ c.sink.state # "END" => ~Full(r)
  <2>1. Len(r.fifo) < c.length
    <3>1. CASE c.fifo = <<>>
      BY <1>1, <1>3, <3>1
    <3>2. CASE c.fifo # <<>>
      BY <1>1, <1>3, <3>2 DEF FillAgrees
    <3> QED BY <3>1, <3>2
  <2> QED BY <1>1, <1>3, <2>1 DEF Full
<1>7. Len(r.fifo) <= r.length
  BY <1>1, <1>3 DEF FillAgrees
<1> QED
  BY <1>1, <1>2, <1>4, <1>5, <1>6, <1>7 DEF FillAgrees, DecoupledIn, DecoupledOut

(* ... and a write to an end that is READY, which then has space unless the*)
(* channel overwrites.                                                     *)
LEMMA FillWrite ==
  ASSUME NEW c \in Channel, NEW m \in Message, FillAgrees(c),
         c.sink.state \notin {"PENDING", "END"}
  PROVE  FillAgrees(ChannelWrite(c, m)) /\ (~DecoupledIn(c) => ~Full(c))
<1> DEFINE w == ChannelWrite(c, m)
<1>1. /\ w.type = c.type /\ w.length = c.length
      /\ w.source.state = IF c.source.state = "END" THEN "END" ELSE "READY"
      /\ ~Full(c) => w.fifo = Append(c.fifo, m)
  BY WriteFrame
<1>2. /\ c.fifo \in Seq(Message) /\ c.length \in Nat \ {0}
      /\ c.sink.state \in EndState
  BY DEF Channel, ChannelEnd
<1>3. c.sink.state = "READY" /\ (~DecoupledIn(c) => ~Full(c))
  BY <1>2 DEF EndState, FillAgrees
<1>4. w.sink.state =
        IF ~DecoupledIn(c) /\ Len(Append(c.fifo, m)) >= c.length
        THEN "PENDING" ELSE "READY"
  <2>1. CASE DecoupledIn(c)
    BY <1>3, <2>1 DEF ChannelWrite, StoreMsg, DFifoWrite, Rearm, DecoupledIn,
       ChangeReadState, SetState, Channel, ChannelEnd
  <2>2. CASE ~DecoupledIn(c)
    BY <1>3, <2>2 DEF ChannelWrite, StoreMsg, ChangeWriteState, FifoWrite, Rearm,
       Full, DecoupledIn, ChangeReadState, SetState, Channel, ChannelEnd
  <2> QED BY <2>1, <2>2
<1>5. Len(w.fifo) <= w.length /\ w.fifo # <<>>
  <2>1. CASE ~Full(c)
    BY <1>1, <1>2, <2>1 DEF Full
  <2>2. CASE Full(c)
    <3>1. w.fifo = [c.fifo EXCEPT ![1] = m]
      BY <1>3, <2>2 DEF ChannelWrite, StoreMsg, DFifoWrite, Rearm, ChangeReadState, SetState,
             Channel, ChannelEnd, Full, DecoupledIn
    <3>2. Len(c.fifo) = c.length
      BY <1>2, <2>2 DEF FillAgrees, Full
    <3>3. Len(w.fifo) = Len(c.fifo)
      BY <1>2, <3>1, <3>2, ExceptSeq
    <3> QED BY <1>1, <1>2, <3>2, <3>3
  <2> QED BY <2>1, <2>2
<1>6. w.sink.state = "PENDING" => Full(w) /\ ~DecoupledIn(w)
  BY <1>1, <1>3, <1>4 DEF Full, DecoupledIn
<1>7. w.sink.state = "READY" /\ ~DecoupledIn(w) => ~Full(w)
  BY <1>1, <1>3, <1>4 DEF Full, DecoupledIn
<1> QED
  BY <1>1, <1>3, <1>4, <1>5, <1>6, <1>7 DEF FillAgrees, DecoupledIn, DecoupledOut

-----------------------------------------------------------------------------
(* The inductive invariant of the waits: an end is PENDING exactly as long *)
(* as its thread has to wait, and a thread sleeps only on such an end.     *)

Waits == /\ ch.source.waiting => reader.pc = "wait" /\ ch.source.state = "PENDING"
         /\ ch.sink.waiting => writer.pc = "wait" /\ ch.sink.state = "PENDING"

Inv == Typed /\ StateAgreesWithFill /\ Waits

(* The states of a new channel agree with its empty ring, nobody sleeps.   *)
LEMMA InvInit == Init => StateAgreesWithFill /\ Waits
<1> SUFFICES ASSUME Init PROVE StateAgreesWithFill /\ Waits
  OBVIOUS
<1>1. PICK s \in Shapes :
        ch = ChannelCreate(s.type, s.length,
                           IF s.guarded THEN "armed" ELSE "none",
                           s.readTimeout, s.writeTimeout)
  BY DEF Init
<1>2. s.length \in Nat \ {0}
  BY ShapesAssumption DEF Shape
<1> QED
  BY <1>1, <1>2 DEF StateAgreesWithFill, Waits, FillAgrees, ChannelCreate, NewEnd,
                    DecoupledIn, DecoupledOut, Full

SameFill(c, d) ==
  /\ d.type = c.type /\ d.length = c.length /\ d.fifo = c.fifo
  /\ d.source.state = c.source.state /\ d.sink.state = c.sink.state

(* Steps that touch errors, the guard, the backup or the sleepers only.    *)
Quiet ==
  \/ WriteCall \/ WriteFiltered \/ WriteNull \/ WriteWait \/ WriteCvError
  \/ WriteTimeout \/ WriteSpurious \/ WriteAbort \/ WriteGuardBlock
  \/ WriteGuardDrop
  \/ ReadCall \/ ReadWait \/ ReadCvError \/ ReadTimeout \/ ReadSpurious
  \/ ReaderSetsBackup \/ GuardExpires

(* A quiet step keeps states and fill as they are, and the waits.          *)
LEMMA QuietStep ==
  ASSUME Inv, Quiet
  PROVE  SameFill(ch, ch') /\ Waits'
<1> USE DEF Inv, Typed, TypeOK
<1>1. CASE WriteCall
  BY <1>1 DEF WriteCall, Writer, WriterPc, SameFill, Waits, Channel, ChannelEnd
<1>2. CASE WriteFiltered
  BY <1>2 DEF WriteFiltered, Writer, SetWriteErr, SameFill, Waits, Channel, ChannelEnd
<1>3. CASE WriteNull
  BY <1>3 DEF WriteNull, Writer, SetWriteErr, SameFill, Waits, Channel, ChannelEnd
<1>4. CASE WriteWait
  BY <1>4 DEF WriteWait, Writer, WriterTests, SameFill, Waits, Channel, ChannelEnd
<1>5. CASE WriteCvError
  BY <1>5 DEF WriteCvError, WriterTests, SetReadErr, WriteReturns, Writer, SameFill, Waits, Channel, ChannelEnd
<1>6. CASE WriteTimeout
  BY <1>6 DEF WriteTimeout, SetWriteErr, SameFill, Waits, Channel, ChannelEnd
<1>7. CASE WriteSpurious
  BY <1>7 DEF WriteSpurious, Writer, SameFill, Waits, Channel, ChannelEnd
<1>8. CASE WriteAbort
  BY <1>8 DEF WriteAbort, WriterTests, SetWriteErr, SameFill, Waits, Channel, ChannelEnd
<1>9. CASE WriteGuardBlock
  BY <1>9 DEF WriteGuardBlock, WriterTests, WriterMayStore, SameFill, Waits, Channel, ChannelEnd
<1>10. CASE WriteGuardDrop
  BY <1>10 DEF WriteGuardDrop, WriterTests, WriterMayStore, SameFill, Waits, Channel, ChannelEnd
<1>11. CASE ReadCall
  BY <1>11 DEF ReadCall, Reader, SameFill, Waits, Channel, ChannelEnd
<1>12. CASE ReadWait
  BY <1>12 DEF ReadWait, ReaderTests, Reader, SameFill, Waits, Channel, ChannelEnd
<1>13. CASE ReadCvError
  BY <1>13 DEF ReadCvError, ReaderTests, SetReadErr, SameFill, Waits, Channel, ChannelEnd
<1>14. CASE ReadTimeout
  BY <1>14 DEF ReadTimeout, SetReadErr, SameFill, Waits, Channel, ChannelEnd
<1>15. CASE ReadSpurious
  BY <1>15 DEF ReadSpurious, Reader, SameFill, Waits, Channel, ChannelEnd
<1>16. CASE ReaderSetsBackup
  BY <1>16 DEF ReaderSetsBackup, SetBackup, SameFill, Waits, Channel, ChannelEnd
<1>17. CASE GuardExpires
  BY <1>17 DEF GuardExpires, Reader, SameFill, Waits, Channel, ChannelEnd
<1> QED
  BY <1>1, <1>2, <1>3, <1>4, <1>5, <1>6, <1>7, <1>8, <1>9, <1>10, <1>11, <1>12, <1>13, <1>14, <1>15, <1>16, <1>17
     DEF Quiet

(* A store keeps the agreement and the waits, and happens only at an end   *)
(* that is READY.                                                          *)
LEMMA StoreStep ==
  ASSUME Inv, WriteStore
  PROVE  /\ StateAgreesWithFill' /\ Waits'
         /\ writer.msg \in Message
         /\ ch.sink.state \notin {"PENDING", "END"}
<1> USE DEF Inv, Typed, TypeOK
<1>1. /\ writer.pc \in {"lock", "wait", "guard"} /\ ~ch.sink.waiting
      /\ ch.sink.state \notin {"PENDING", "END"}
  BY DEF WriteStore, WriterMayStore, WriterTests, WriterHoldsMessage, Waits
<1>2. writer.msg \in Message
  BY <1>1, WritingMessage
<1>3. ch' = ChannelWrite(ch, writer.msg) /\ reader' = reader
  BY DEF WriteStore
<1>4. StateAgreesWithFill'
  BY <1>1, <1>2, <1>3, FillWrite DEF StateAgreesWithFill
<1>5. /\ ch'.source.waiting => ch.source.waiting
                               /\ ch'.source.state = ch.source.state
      /\ ch'.sink.waiting => ch.sink.waiting
  BY <1>2, <1>3, WriteFrame
<1>6. Waits'
  BY <1>1, <1>3, <1>5 DEF Waits
<1> QED BY <1>1, <1>2, <1>4, <1>6

(* A fetch keeps the agreement and the waits.                              *)
LEMMA FetchStep ==
  ASSUME Inv, ReadFetch
  PROVE  StateAgreesWithFill' /\ Waits'
<1> USE DEF Inv, Typed, TypeOK
<1>1. /\ ch' = ChannelRead(ch) /\ writer' = writer
      /\ ch.source.state # "PENDING" /\ ~ch.source.waiting
  BY DEF ReadFetch, Waits
<1>2. StateAgreesWithFill'
  BY <1>1, FillRead DEF StateAgreesWithFill
<1>3. /\ ch'.source.waiting => ch.source.waiting
      /\ ch'.sink.waiting => ch.sink.waiting /\ ch'.sink.state = ch.sink.state
  BY <1>1, ReadFrame
<1> QED BY <1>1, <1>2, <1>3 DEF Waits

(* Termination wakes the thread at the end that is terminated.             *)
LEMMA EndStep ==
  ASSUME Inv, WriterEnd \/ ReaderEnd
  PROVE  StateAgreesWithFill' /\ Waits'
<1> USE DEF Inv, Typed, TypeOK
<1>1. StateAgreesWithFill'
  BY FillTerminate DEF WriterEnd, ReaderEnd, StateAgreesWithFill
<1>2. CASE WriterEnd
  BY <1>1, <1>2 DEF WriterEnd, TerminateSource, ChangeReadState, SetState, Waits,
                    Channel, ChannelEnd
<1>3. CASE ReaderEnd
  BY <1>1, <1>3 DEF ReaderEnd, TerminateSink, ChangeWriteState, SetState, Waits,
                    Channel, ChannelEnd
<1> QED BY <1>1, <1>2, <1>3

(* Inv is inductive.                                                       *)
LEMMA InvStep == Inv /\ [Next]_vars => Inv'
<1> SUFFICES ASSUME Inv, [Next]_vars PROVE Inv'
  OBVIOUS
<1>1. Typed'
  BY TypedStep DEF Inv
<1>2. CASE Quiet
  <2>1. StateAgreesWithFill'
    BY <1>2, QuietStep, FillFrame DEF Inv, StateAgreesWithFill, SameFill
  <2> QED BY <1>1, <1>2, <2>1, QuietStep DEF Inv
<1>3. CASE WriteStore
  BY <1>1, <1>3, StoreStep DEF Inv
<1>4. CASE ReadFetch
  BY <1>1, <1>4, FetchStep DEF Inv
<1>5. CASE WriterEnd \/ ReaderEnd
  BY <1>1, <1>5, EndStep DEF Inv
<1>6. CASE UNCHANGED vars
  BY <1>1, <1>6 DEF Inv, StateAgreesWithFill, Waits, vars
<1> QED
  BY <1>2, <1>3, <1>4, <1>5, <1>6 DEF Next, WriterRuns, ReaderRuns, Ended, Quiet

(* Inv holds in every reachable state.                                     *)
LEMMA InvAlways == Spec => []Inv
<1>1. Init => Inv
  BY TypedInit, InvInit DEF Inv
<1> QED BY <1>1, InvStep, PTL DEF Spec

(* smxch.c keeps the state of each end in step with the fill of the ring.  *)
THEOREM FillSafety == Spec => []StateAgreesWithFill
<1>1. Inv => StateAgreesWithFill
  BY DEF Inv
<1> QED BY InvAlways, <1>1, PTL

(* No wake-up is lost: whoever sleeps still has to wait.  And the two ends *)
(* never sleep at once, since the ring has space for at least one message. *)
THEOREM WakeupSafety == Spec => []NoLostWakeup
<1>1. Inv => NoLostWakeup
  <2> SUFFICES ASSUME Inv PROVE NoLostWakeup
    OBVIOUS
  <2>1. ch.source.waiting /\ ch.sink.waiting => ch.fifo = <<>> /\ Full(ch)
    BY DEF Inv, Waits, StateAgreesWithFill, FillAgrees
  <2>2. ch.length \in Nat \ {0}
    BY DEF Inv, Typed, TypeOK, Channel
  <2> QED BY <2>1, <2>2 DEF Inv, Waits, NoLostWakeup, Full
<1> QED BY InvAlways, <1>1, PTL

-----------------------------------------------------------------------------
(* The errors and the end of the stream.                                   *)

(* A read that is let through finds a message or the end of the stream.    *)
LEMMA ReadErr ==
  ASSUME NEW c \in Channel, FillAgrees(c), c.source.state # "PENDING"
  PROVE  /\ ChannelRead(c).source.err # "NO_DATA"
         /\ ChannelRead(c).source.err = "NO_TARGET" =>
              c.source.state = "END" /\ c.fifo = <<>> /\ ~DecoupledOut(c)
<1>1. c.source.state \in EndState
  BY DEF Channel, ChannelEnd
<1> QED
  BY <1>1 DEF ChannelRead, ChangeWriteState, FifoRead, FifoDRead, SetReadErr, Pop,
     ChangeReadState, SetState, Channel, ChannelEnd, EndState, FillAgrees

(* A write that is let through reports no error.                           *)
LEMMA WriteErr ==
  ASSUME NEW c \in Channel, NEW m \in Message, FillAgrees(c),
         c.sink.state \notin {"PENDING", "END"}
  PROVE  ChannelWrite(c, m).sink.err = c.sink.err
<1>1. ~DecoupledIn(c) => ~Full(c)
  BY FillWrite
<1> QED
  BY <1>1 DEF ChannelWrite, StoreMsg, ChangeWriteState, FifoWrite, DFifoWrite, Rearm, Full,
     ChangeReadState, SetState, Channel, ChannelEnd, DecoupledIn

EndInv == /\ NeverUnexpected
          /\ EndOfStreamIsTrue
          /\ ch.source.state = "END" <=> writer.pc = "ended"

(* A new channel has reported nothing and no end is terminated.            *)
LEMMA EndInvInit == Init => EndInv
BY DEF Init, EndInv, NeverUnexpected, EndOfStreamIsTrue, ChannelCreate, NewEnd

(* A quiet step keeps EndInv: a failed wait reports other errors.          *)
LEMMA EndInvQuiet ==
  ASSUME Inv, EndInv, Quiet
  PROVE  EndInv'
<1> USE DEF Inv, Typed, TypeOK, NeverUnexpected, EndOfStreamIsTrue
<1>1. CASE WriteCall
  BY <1>1 DEF WriteCall, Writer, WriterPc, EndInv, Channel, ChannelEnd
<1>2. CASE WriteFiltered
  BY <1>2 DEF WriteFiltered, Writer, SetWriteErr, EndInv, Channel, ChannelEnd
<1>3. CASE WriteNull
  BY <1>3 DEF WriteNull, Writer, SetWriteErr, EndInv, Channel, ChannelEnd
<1>4. CASE WriteWait
  BY <1>4 DEF WriteWait, Writer, WriterTests, EndInv, Channel, ChannelEnd
<1>5. CASE WriteCvError
  BY <1>5 DEF WriteCvError, WriterTests, SetReadErr, WriteReturns, Writer, EndInv, Channel, ChannelEnd
<1>6. CASE WriteTimeout
  BY <1>6 DEF WriteTimeout, SetWriteErr, WriteReturns, Writer, EndInv, Channel, ChannelEnd
<1>7. CASE WriteSpurious
  BY <1>7 DEF WriteSpurious, Writer, EndInv, Channel, ChannelEnd
<1>8. CASE WriteAbort
  BY <1>8 DEF WriteAbort, WriterTests, SetWriteErr, WriteReturns, Writer, EndInv, Channel, ChannelEnd
<1>9. CASE WriteGuardBlock
  BY <1>9 DEF WriteGuardBlock, WriterTests, WriterMayStore, Writer, EndInv, Channel, ChannelEnd
<1>10. CASE WriteGuardDrop
  BY <1>10 DEF WriteGuardDrop, WriterTests, WriterMayStore, WriteReturns, Writer, EndInv, Channel, ChannelEnd
<1>11. CASE ReadCall
  BY <1>11 DEF ReadCall, Reader, EndInv, Channel, ChannelEnd
<1>12. CASE ReadWait
  BY <1>12 DEF ReadWait, ReaderTests, Reader, EndInv, Channel, ChannelEnd
<1>13. CASE ReadCvError
  BY <1>13 DEF ReadCvError, ReaderTests, SetReadErr, ReadReturns, Reader, EndInv, Channel, ChannelEnd
<1>14. CASE ReadTimeout
  BY <1>14 DEF ReadTimeout, SetReadErr, ReadReturns, Reader, EndInv, Channel, ChannelEnd
<1>15. CASE ReadSpurious
  BY <1>15 DEF ReadSpurious, Reader, EndInv, Channel, ChannelEnd
<1>16. CASE ReaderSetsBackup
  BY <1>16 DEF ReaderSetsBackup, SetBackup, EndInv, Channel, ChannelEnd
<1>17. CASE GuardExpires
  BY <1>17 DEF GuardExpires, Reader, EndInv, Channel, ChannelEnd
<1> QED
  BY <1>1, <1>2, <1>3, <1>4, <1>5, <1>6, <1>7, <1>8, <1>9, <1>10, <1>11, <1>12, <1>13, <1>14, <1>15, <1>16, <1>17
     DEF Quiet

(* EndInv is inductive relative to Inv.                                    *)
LEMMA EndInvStep == Inv /\ EndInv /\ [Next]_vars => EndInv'
<1> SUFFICES ASSUME Inv, EndInv, [Next]_vars PROVE EndInv'
  OBVIOUS
<1> USE DEF Inv, Typed, TypeOK, NeverUnexpected, EndOfStreamIsTrue
<1>1. CASE WriteStore
  <2>1. /\ ch' = ChannelWrite(ch, writer.msg) /\ reader' = reader
        /\ writer.pc # "ended" /\ writer'.pc # "ended"
    BY <1>1 DEF WriteStore, WriterMayStore, WriterTests, WriteReturns, Writer
  <2>2. /\ ch'.sink.err = ch.sink.err /\ ch'.source.err = ch.source.err
        /\ ch'.source.state = "END" <=> ch.source.state = "END"
    BY <1>1, <2>1, StoreStep, WriteErr, WriteFrame DEF StateAgreesWithFill
  <2> QED BY <2>1, <2>2 DEF EndInv
<1>2. CASE ReadFetch
  <2>1. /\ ch' = ChannelRead(ch) /\ writer' = writer
        /\ ch.source.state # "PENDING" /\ reader'.msg = ChannelReadMsg(ch)
    BY <1>2 DEF ReadFetch, ReadReturns, Reader
  <2>2. /\ ch'.source.err # "NO_DATA" /\ ch'.sink.err = ch.sink.err
        /\ ch'.source.state = "END" <=> ch.source.state = "END"
    BY <2>1, ReadErr, ReadFrame DEF StateAgreesWithFill
  <2>3. ch'.source.err = "NO_TARGET" =>
          writer.pc = "ended" /\ ch'.fifo = <<>> /\ reader'.msg = NoMsg
    BY <2>1, ReadErr, ReadFrame
       DEF StateAgreesWithFill, ChannelReadMsg, FifoReadMsg, EndInv
  <2> QED BY <2>1, <2>2, <2>3 DEF EndInv
<1>3. CASE WriterEnd
  BY <1>3 DEF WriterEnd, TerminateSource, ChangeReadState, SetState, EndInv, Writer,
              Channel, ChannelEnd
<1>4. CASE ReaderEnd
  BY <1>4 DEF ReaderEnd, TerminateSink, ChangeWriteState, SetState, EndInv, Reader,
              Channel, ChannelEnd
<1>5. CASE UNCHANGED vars
  BY <1>5 DEF EndInv, vars
<1> QED
  BY <1>1, <1>2, <1>3, <1>4, <1>5, EndInvQuiet
     DEF Next, WriterRuns, ReaderRuns, Ended, Quiet

(* EndInv holds in every reachable state.                                  *)
LEMMA EndInvAlways == Spec => []EndInv
BY InvAlways, EndInvInit, EndInvStep, PTL DEF Spec

(* The errors smxtypes.h calls unexpected do not occur.                    *)
THEOREM NoUnexpectedError == Spec => []NeverUnexpected
<1>1. EndInv => NeverUnexpected
  BY DEF EndInv
<1> QED BY EndInvAlways, <1>1, PTL

(* NO_TARGET is reported for a terminated producer and a drained channel.  *)
THEOREM EndOfStreamSafety == Spec => []EndOfStreamIsTrue
<1>1. EndInv => EndOfStreamIsTrue
  BY DEF EndInv
<1> QED BY EndInvAlways, <1>1, PTL
-----------------------------------------------------------------------------
(* The ends.                                                               *)

(* No step opens an end again, and none adds to a ring without consumer: a *)
(* step either leaves states and fill alone, stores at a READY end, takes  *)
(* a message, or terminates an end.                                        *)
LEMMA FinalStep ==
  ASSUME Inv, [Next]_vars
  PROVE  /\ ch.source.state = "END" => ch'.source.state = "END"
         /\ ch.sink.state = "END" => ch'.sink.state = "END"
         /\ ch.sink.state = "END" => Len(ch'.fifo) <= Len(ch.fifo)
<1>1. ch \in Channel
  BY DEF Inv, Typed, TypeOK
<1>2. Len(ch.fifo) \in Nat
  BY <1>1 DEF Channel
<1>3. CASE Quiet
  BY <1>2, <1>3, QuietStep DEF SameFill
<1>4. CASE WriteStore
  <2>1. /\ ch' = ChannelWrite(ch, writer.msg)
        /\ writer.msg \in Message /\ ch.sink.state # "END"
    BY <1>4, StoreStep DEF WriteStore
  <2> QED BY <1>1, <2>1, WriteFrame
<1>5. CASE ReadFetch
  <2>1. ch' = ChannelRead(ch)
    BY <1>5 DEF ReadFetch
  <2>2. ch'.fifo = IF ch.fifo = <<>> THEN <<>> ELSE Tail(ch.fifo)
    BY <1>1, <2>1, ReadFrame
  <2>3. Len(ch'.fifo) <= Len(ch.fifo)
    BY <1>1, <1>2, <2>2 DEF Channel
  <2> QED BY <1>1, <2>1, <2>3, ReadFrame
<1>6. CASE WriterEnd
  BY <1>1, <1>2, <1>6 DEF WriterEnd, TerminateSource, ChangeReadState, SetState,
                          Channel, ChannelEnd
<1>7. CASE ReaderEnd
  BY <1>1, <1>2, <1>7 DEF ReaderEnd, TerminateSink, ChangeWriteState, SetState,
                          Channel, ChannelEnd
<1>8. CASE UNCHANGED vars
  BY <1>2, <1>8 DEF vars
<1> QED
  BY <1>3, <1>4, <1>5, <1>6, <1>7, <1>8
     DEF Next, WriterRuns, ReaderRuns, Ended, Quiet

(* A terminated end stays terminated, and a channel whose consumer has     *)
(* gone takes no message any more.                                         *)
THEOREM EndFinality == Spec => EndIsFinal
<1>1. Inv /\ [Next]_vars
        => [/\ ch.source.state = "END" => ch'.source.state = "END"
            /\ ch.sink.state = "END" => ch'.sink.state = "END"
            /\ ch.sink.state = "END" => Len(ch'.fifo) <= Len(ch.fifo)]_vars
  BY FinalStep
<1> QED BY InvAlways, <1>1, PTL DEF Spec, EndIsFinal

-----------------------------------------------------------------------------
(* SmxChannel implements BoundedChannel.                                   *)

(* Messages are numbered in the order of their writes: what is in the ring *)
(* or has been read is older than the message being written.               *)
Below(s, n) == \A i \in DOMAIN s : s[i].seq \in 1..n

Written == IF writer.msg = NoMsg THEN writer.created ELSE writer.created - 1

Numbered ==
  /\ writer.created <= MaxWrites
  /\ writer.msg # NoMsg => writer.msg.seq = writer.created
                           /\ writer.created \in 1..MaxWrites
  /\ Below(ch.fifo, Written)
  /\ Below(got, Written)

(* The sink's end is the consumer's, and a consumer that has been told the *)
(* end never sleeps again.                                                 *)
Ends ==
  /\ ch.sink.state = "END" <=> reader.pc = "ended"
  /\ ch.source.err = "NO_TARGET" => reader.pc # "wait" /\ ~DecoupledOut(ch)

RefInv == Inv /\ EndInv /\ Numbered /\ Ends

-----------------------------------------------------------------------------
(* A channel starts with nothing written and nobody told.                  *)
LEMMA RefInvInit == Init => Numbered /\ Ends
<1> SUFFICES ASSUME Init PROVE Numbered /\ Ends
  OBVIOUS
<1>1. /\ ch.fifo = <<>> /\ got = <<>>
      /\ ch.sink.state = "READY" /\ ch.source.err = "NONE"
      /\ writer.msg = NoMsg /\ writer.created = 0 /\ reader.pc = "idle"
  BY DEF Init, ChannelCreate, NewEnd
<1> QED BY <1>1, BoundsAssumption DEF Numbered, Ends, Below, Written

(* What a store does to the ring.                                          *)
LEMMA StoreRing ==
  ASSUME NEW c \in Channel, NEW m \in Message, FillAgrees(c),
         c.sink.state \notin {"PENDING", "END"}
  PROVE  LET w == ChannelWrite(c, m)
         IN  \/ ~Full(c) /\ w.fifo = Append(c.fifo, m)
             \/ Full(c) /\ DecoupledIn(c) /\ w.fifo = [c.fifo EXCEPT ![1] = m]
<1>1. ~DecoupledIn(c) => ~Full(c)
  BY FillWrite
<1>2. CASE ~Full(c)
  BY <1>2, WriteFrame
<1>3. CASE Full(c)
  BY <1>1, <1>3
     DEF ChannelWrite, StoreMsg, DFifoWrite, Rearm, Full, DecoupledIn,
         ChangeReadState, Channel
<1> QED BY <1>2, <1>3

(* A quiet step delivers nothing, tells no end and takes none back.        *)
LEMMA QuietTells ==
  ASSUME RefInv, Quiet
  PROVE  /\ got' = got
         /\ ch'.source.err = "NO_TARGET" <=> ch.source.err = "NO_TARGET"
<1>1. /\ ch \in Channel /\ writer \in Writer /\ reader \in Reader
  BY DEF RefInv, Inv, Typed, TypeOK
<1>2. ch.source.err = "NO_TARGET" =>
        writer.pc = "ended" /\ reader.pc # "wait" /\ ch.source.state = "END"
  BY DEF RefInv, EndInv, EndOfStreamIsTrue, Ends
<1>3. CASE WriteCvError
  BY <1>1, <1>2, <1>3 DEF WriteCvError, WriterTests, SetReadErr, Channel, ChannelEnd
<1>4. CASE ReadCvError
  BY <1>1, <1>2, <1>4 DEF ReadCvError, SetReadErr, Channel, ChannelEnd
<1>5. CASE ReadTimeout
  BY <1>1, <1>2, <1>5 DEF ReadTimeout, SetReadErr, Channel, ChannelEnd
<1>6. CASE \/ WriteCall \/ WriteFiltered \/ WriteNull \/ WriteWait \/ WriteTimeout
           \/ WriteSpurious \/ WriteAbort \/ WriteGuardBlock \/ WriteGuardDrop
  BY <1>1, <1>6
     DEF WriteCall, WriteFiltered, WriteNull, WriteWait, WriteTimeout,
         WriteSpurious, WriteAbort, WriteGuardBlock, WriteGuardDrop,
         SetWriteErr, Channel, ChannelEnd
<1>7. CASE ReadCall \/ ReadWait \/ ReadSpurious \/ ReaderSetsBackup \/ GuardExpires
  BY <1>1, <1>7
     DEF ReadCall, ReadWait, ReadSpurious, ReaderSetsBackup, GuardExpires,
         SetBackup, Channel, ChannelEnd
<1> QED BY <1>3, <1>4, <1>5, <1>6, <1>7 DEF Quiet

(* A quiet step lets the consumer sleep only while the producer runs.      *)
LEMMA QuietEnds ==
  ASSUME RefInv, Quiet
  PROVE  Ends'
<1>1. /\ ch \in Channel /\ reader \in Reader
      /\ SameFill(ch, ch')
      /\ ch'.source.err = "NO_TARGET" <=> ch.source.err = "NO_TARGET"
  BY QuietStep, QuietTells DEF RefInv, Inv, Typed, TypeOK
<1>2. ch.source.err = "NO_TARGET" => ch.source.state = "END"
  BY DEF RefInv, EndInv, EndOfStreamIsTrue
<1>3. CASE reader' = reader
  BY <1>1, <1>3 DEF RefInv, Ends, SameFill, DecoupledOut
<1>4. CASE ReadWait
  BY <1>1, <1>2, <1>4
     DEF ReadWait, ReaderTests, Reader, RefInv, Ends, SameFill, DecoupledOut
<1>5. CASE ReadCall \/ ReadCvError \/ ReadTimeout
  BY <1>1, <1>5
     DEF ReadCall, ReadCvError, ReadTimeout, ReaderTests, ReadReturns, Reader,
         RefInv, Ends, SameFill, DecoupledOut
<1> QED
  BY <1>3, <1>4, <1>5
     DEF Quiet, WriteCall, WriteFiltered, WriteNull, WriteWait, WriteCvError,
         WriteTimeout, WriteSpurious, WriteAbort, WriteGuardBlock,
         WriteGuardDrop, ReadSpurious, ReaderSetsBackup, GuardExpires

-----------------------------------------------------------------------------
(* The numbers of the messages.                                            *)

(* A bound on the numbers may grow.                                        *)
LEMMA BelowGrows ==
  ASSUME NEW s, NEW k \in Int, NEW n \in Int, k <= n, Below(s, k)
  PROVE  Below(s, n)
BY DEF Below

(* It survives the three things that happen to a ring.                     *)
LEMMA BelowRing ==
  ASSUME NEW s \in Seq(Message), NEW m \in Message, NEW n \in Nat,
         Below(s, n), m.seq \in 1..n
  PROVE  /\ Below(Append(s, m), n)
         /\ Below([s EXCEPT ![1] = m], n)
         /\ s # <<>> => Below(Tail(s), n) /\ Head(s).seq \in 1..n
<1>1. Below(Append(s, m), n)
  BY DEF Below
<1>2. Below([s EXCEPT ![1] = m], n)
  BY DEF Below
<1>3. ASSUME s # <<>> PROVE Below(Tail(s), n) /\ Head(s).seq \in 1..n
  <2>1. /\ Len(s) \in Nat \ {0} /\ Head(s) = s[1] /\ 1 \in DOMAIN s
        /\ \A i \in DOMAIN Tail(s) : i + 1 \in DOMAIN s /\ Tail(s)[i] = s[i + 1]
    BY <1>3
  <2> QED BY <2>1 DEF Below
<1> QED BY <1>1, <1>2, <1>3

(* The producer numbers its messages one by one.                           *)
LEMMA NumberedWriter ==
  ASSUME RefInv, [Next]_vars
  PROVE  /\ Written \in Nat /\ Written' \in Nat /\ Written <= Written'
         /\ writer'.created <= MaxWrites
         /\ writer'.msg # NoMsg => writer'.msg.seq = writer'.created
                                   /\ writer'.created \in 1..MaxWrites
<1>1. /\ writer \in Writer /\ writer.created \in Nat
      /\ writer.pc = "idle" => writer.msg = NoMsg
  BY DEF RefInv, Inv, Typed, TypeOK, Writer, WriterHoldsMessage
<1>2. /\ writer.created <= MaxWrites /\ MaxWrites \in Nat
      /\ writer.msg # NoMsg => writer.msg.seq = writer.created
                               /\ writer.created \in 1..MaxWrites
  BY BoundsAssumption DEF RefInv, Numbered
<1>3. Written \in Nat
  BY <1>1, <1>2 DEF Written
<1>4. CASE WriteCall
  <2>1. PICK prevent \in Prevent :
          writer' = [writer EXCEPT !.pc = "lock", !.created = @ + 1,
                       !.msg = [seq |-> writer.created + 1,
                                prevent_backup |-> prevent]]
    BY <1>4 DEF WriteCall
  <2>2. /\ writer'.created = writer.created + 1
        /\ writer'.msg = [seq |-> writer.created + 1, prevent_backup |-> prevent]
        /\ writer.msg = NoMsg /\ writer.created < MaxWrites
    BY <1>1, <1>4, <2>1 DEF WriteCall, Writer
  <2>3. writer'.msg \in Message
    BY <1>1, <2>2, BoundsAssumption DEF Message
  <2> QED BY <1>1, <1>2, <1>3, <2>2, <2>3, NoMsgAssumption DEF Written
<1>5. CASE WriteFiltered
  <2>1. /\ writer'.created = writer.created + 1 /\ writer'.msg = writer.msg
        /\ writer.msg = NoMsg /\ writer.created < MaxWrites
    BY <1>1, <1>5 DEF WriteFiltered, Writer
  <2> QED BY <1>1, <1>2, <1>3, <2>1 DEF Written
<1>6. CASE WriteCvError \/ WriteTimeout \/ WriteAbort \/ WriteGuardDrop \/ WriteStore
  <2>1. writer'.created = writer.created /\ writer'.msg = NoMsg
    BY <1>1, <1>6, ReturnType
       DEF WriteCvError, WriteTimeout, WriteAbort, WriteGuardDrop, WriteStore
  <2> QED BY <1>1, <1>2, <1>3, <2>1 DEF Written
<1>7. CASE WriteNull \/ WriteWait \/ WriteGuardBlock \/ WriterEnd \/ WriteSpurious
  <2>1. writer'.created = writer.created /\ writer'.msg = writer.msg
    BY <1>1, <1>7
       DEF WriteNull, WriteWait, WriteGuardBlock, WriterEnd, WriteSpurious, Writer
  <2> QED BY <1>1, <1>2, <1>3, <2>1 DEF Written
<1>8. CASE ReaderRuns \/ ReadSpurious \/ GuardExpires \/ UNCHANGED vars
  <2>1. writer' = writer
    BY <1>8 DEF ReaderRuns, ReadCall, ReadWait, ReadCvError, ReadTimeout,
                ReadFetch, ReaderSetsBackup, ReaderEnd, ReadSpurious,
                GuardExpires, vars
  <2> QED BY <1>1, <1>2, <1>3, <2>1 DEF Written
<1> QED
  BY <1>4, <1>5, <1>6, <1>7, <1>8 DEF Next, WriterRuns, Ended

(* A store brings the newest message of all.                               *)
LEMMA StoredIsNewest ==
  ASSUME RefInv, WriteStore
  PROVE  /\ writer.msg \in Message
         /\ writer.msg.seq = Written + 1 /\ writer.msg.seq \in 1..MaxWrites
         /\ Written' = Written + 1
<1>1. writer \in Writer /\ writer.msg \in Message
  BY StoreStep DEF RefInv, Inv, Typed, TypeOK
<1>2. writer.msg # NoMsg
  BY <1>1, NoMsgAssumption
<1>3. writer'.created = writer.created /\ writer'.msg = NoMsg
  BY <1>1, ReturnType DEF WriteStore
<1>4. writer.created \in Nat
  BY <1>1 DEF Writer
<1> QED BY <1>1, <1>2, <1>3, <1>4 DEF RefInv, Numbered, Written

(* What is in the ring or has been read is older than the next message.    *)
LEMMA NumberedStep ==
  ASSUME RefInv, [Next]_vars
  PROVE  Numbered'
<1>1. /\ ch \in Channel /\ ch.fifo \in Seq(Message) /\ got \in Seq(Message)
      /\ Below(ch.fifo, Written) /\ Below(got, Written)
  BY DEF RefInv, Inv, Typed, TypeOK, Channel, Numbered
<1>2. /\ Written \in Nat /\ Written' \in Nat /\ Written <= Written'
      /\ Below(ch.fifo, Written') /\ Below(got, Written')
  BY <1>1, NumberedWriter, BelowGrows
<1>3. SUFFICES Below(ch'.fifo, Written') /\ Below(got', Written')
  BY NumberedWriter DEF Numbered, Below
<1>4. CASE ch'.fifo = ch.fifo /\ got' = got
  BY <1>2, <1>4
<1>5. CASE Quiet
  BY <1>4, <1>5, QuietStep, QuietTells DEF RefInv, SameFill
<1>6. CASE WriteStore
  <2>1. /\ writer.msg \in Message /\ writer.msg.seq \in 1..Written'
    BY <1>2, <1>6, StoredIsNewest
  <2>2. \/ ch'.fifo = Append(ch.fifo, writer.msg)
        \/ ch'.fifo = [ch.fifo EXCEPT ![1] = writer.msg]
    BY <1>1, <1>6, StoreStep, StoreRing
       DEF RefInv, Inv, StateAgreesWithFill, WriteStore
  <2>3. /\ Below(Append(ch.fifo, writer.msg), Written')
        /\ Below([ch.fifo EXCEPT ![1] = writer.msg], Written')
    BY <1>1, <1>2, <2>1, BelowRing
  <2>4. Below(ch'.fifo, Written')
    BY <2>2, <2>3
  <2> QED BY <1>2, <1>6, <2>4 DEF WriteStore
<1>7. CASE ReadFetch
  <2>1. /\ ch'.fifo = IF ch.fifo = <<>> THEN <<>> ELSE Tail(ch.fifo)
        /\ got' = IF ch.fifo = <<>> THEN got ELSE Append(got, Head(ch.fifo))
    BY <1>1, <1>7, ReadFrame DEF ReadFetch
  <2>2. CASE ch.fifo = <<>>
    BY <1>2, <2>1, <2>2
  <2>3. CASE ch.fifo # <<>>
    <3>1. /\ Head(ch.fifo) \in Message
          /\ Head(ch.fifo) = ch.fifo[1] /\ 1 \in DOMAIN ch.fifo
      BY <1>1, <2>3
    <3>2. Head(ch.fifo).seq \in 1..Written'
      BY <1>2, <3>1 DEF Below
    <3>3. Below(Tail(ch.fifo), Written')
      BY <1>1, <1>2, <2>3, <3>1, <3>2, BelowRing
    <3>4. Below(Append(got, Head(ch.fifo)), Written')
      BY <1>1, <1>2, <3>1, <3>2, BelowRing
    <3> QED BY <2>1, <2>3, <3>3, <3>4
  <2> QED BY <2>2, <2>3
<1>8. CASE WriterEnd \/ ReaderEnd
  <2>1. ch'.fifo = ch.fifo /\ got' = got
    BY <1>1, <1>8 DEF WriterEnd, ReaderEnd, TerminateSource, TerminateSink,
                      ChangeReadState, ChangeWriteState, Channel
  <2> QED BY <1>4, <2>1
<1>9. CASE UNCHANGED vars
  BY <1>4, <1>9 DEF vars
<1> QED
  BY <1>5, <1>6, <1>7, <1>8, <1>9 DEF Next, WriterRuns, ReaderRuns, Ended, Quiet

(* The sink ends with the consumer.                                        *)
LEMMA EndsStep ==
  ASSUME RefInv, [Next]_vars
  PROVE  Ends'
<1>1. ch \in Channel /\ writer \in Writer /\ reader \in Reader
  BY DEF RefInv, Inv, Typed, TypeOK
<1>2. CASE Quiet
  BY <1>2, QuietEnds
<1>3. CASE WriteStore
  <2>1. /\ ch'.type = ch.type /\ reader' = reader
        /\ ch'.source.err = ch.source.err
        /\ ch'.sink.state = "END" <=> ch.sink.state = "END"
    BY <1>1, <1>3, StoreStep, WriteFrame DEF RefInv, WriteStore
  <2> QED BY <2>1 DEF RefInv, Ends, DecoupledOut
<1>4. CASE ReadFetch
  <2>1. /\ ch' = ChannelRead(ch) /\ reader'.pc = "idle"
        /\ reader.pc # "ended" /\ ch.source.state # "PENDING"
    BY <1>1, <1>4 DEF ReadFetch, ReadReturns, ReaderTests, Reader
  <2>2. /\ ch'.type = ch.type
        /\ ch'.sink.state = "END" <=> ch.sink.state = "END"
        /\ ch'.source.err = "NO_TARGET" => ~DecoupledOut(ch)
    BY <1>1, <2>1, ReadFrame, ReadErr DEF RefInv, Inv, StateAgreesWithFill
  <2> QED BY <2>1, <2>2 DEF RefInv, Ends, DecoupledOut
<1>5. CASE WriterEnd
  <2>1. /\ ch'.type = ch.type /\ reader' = reader
        /\ ch'.source.err = ch.source.err /\ ch'.sink = ch.sink
    BY <1>1, <1>5 DEF WriterEnd, TerminateSource, ChangeReadState, SetState,
                      Channel, ChannelEnd
  <2> QED BY <2>1 DEF RefInv, Ends, DecoupledOut
<1>6. CASE ReaderEnd
  <2>1. /\ ch'.type = ch.type /\ reader'.pc = "ended"
        /\ ch'.source = ch.source /\ ch'.sink.state = "END"
    BY <1>1, <1>6 DEF ReaderEnd, TerminateSink, ChangeWriteState, SetState,
                      Channel, ChannelEnd, Reader
  <2> QED BY <2>1 DEF RefInv, Ends, DecoupledOut
<1>7. CASE UNCHANGED vars
  BY <1>7 DEF RefInv, Ends, DecoupledOut, vars
<1> QED
  BY <1>2, <1>3, <1>4, <1>5, <1>6, <1>7
     DEF Next, WriterRuns, ReaderRuns, Ended, Quiet

(* RefInv holds in every reachable state.                                  *)
LEMMA RefInvAlways == Spec => []RefInv
<1>1. RefInv /\ [Next]_vars => Numbered' /\ Ends'
  BY NumberedStep, EndsStep
<1> QED BY InvAlways, EndInvAlways, RefInvInit, <1>1, PTL DEF Spec, RefInv

-----------------------------------------------------------------------------
(* The refinement.                                                         *)

(* A new channel is an empty, open queue.                                  *)
LEMMA PromiseInit == Init => Promise!Init
<1> SUFFICES ASSUME Init PROVE Promise!Init
  OBVIOUS
<1>1. /\ ch.fifo = <<>> /\ got = <<>> /\ ch.source.err = "NONE"
      /\ ch.source.state # "END" /\ ch.sink.state # "END"
  BY DEF Init, ChannelCreate, NewEnd
<1>2. ch.length \in Nat \ {0}
  BY TypedInit DEF Typed, TypeOK, Channel
<1>3. DecoupledIn(ch) \in BOOLEAN /\ DecoupledOut(ch) \in BOOLEAN
  BY DEF DecoupledIn, DecoupledOut
<1> QED BY <1>1, <1>2, <1>3 DEF Promise!Init

(* A store accepts a message, or replaces one in a lossy channel.          *)
LEMMA StorePromise ==
  ASSUME RefInv, WriteStore
  PROVE  Promise!Next
<1> DEFINE m == writer.msg
<1>1. /\ ch \in Channel /\ ch.fifo \in Seq(Message) /\ ch.length \in Nat
      /\ FillAgrees(ch)
  BY DEF RefInv, Inv, Typed, TypeOK, Channel, StateAgreesWithFill
<1>2. /\ m \in Message /\ m.seq = Written + 1 /\ m.seq \in 1..MaxWrites
      /\ Written \in Nat
  BY StoredIsNewest, NumberedWriter DEF Next, WriterRuns
<1>3. m \in [seq : 1..MaxWrites, prevent_backup : BOOLEAN]
  BY <1>2 DEF Message
<1>4. Promise!New(m)
  BY <1>2 DEF Promise!New, RefInv, Numbered, Below
<1>5. /\ ch.sink.state \notin {"PENDING", "END"}
      /\ ch' = ChannelWrite(ch, m) /\ got' = got
      /\ writer.pc # "ended"
  BY StoreStep DEF RefInv, WriteStore, WriterMayStore, WriterTests
<1>6. ch.source.state # "END"
  BY <1>5 DEF RefInv, EndInv
<1>7. /\ ch'.type = ch.type /\ ch'.length = ch.length
      /\ ch'.source.err = ch.source.err
      /\ ch'.source.state # "END" /\ ch'.sink.state # "END"
  BY <1>1, <1>2, <1>5, <1>6, WriteFrame
<1>8. \/ ~Full(ch) /\ ch'.fifo = Append(ch.fifo, m)
      \/ Full(ch) /\ DecoupledIn(ch) /\ ch'.fifo = [ch.fifo EXCEPT ![1] = m]
  BY <1>1, <1>2, <1>5, StoreRing
<1>9. CASE ~Full(ch) /\ ch'.fifo = Append(ch.fifo, m)
  <2>1. Len(ch.fifo) < ch.length
    BY <1>1, <1>9 DEF Full
  <2>2. Promise!Accept(m)
    BY <1>4, <1>5, <1>6, <1>7, <1>9, <2>1
       DEF Promise!Accept, Promise!Open, DecoupledIn, DecoupledOut
  <2> QED BY <1>3, <2>2 DEF Promise!Next
<1>10. CASE Full(ch) /\ DecoupledIn(ch) /\ ch'.fifo = [ch.fifo EXCEPT ![1] = m]
  <2>1. Len(ch.fifo) = ch.length
    BY <1>1, <1>10 DEF Full, FillAgrees
  <2>2. Promise!Replace(m)
    BY <1>4, <1>5, <1>6, <1>7, <1>10, <2>1
       DEF Promise!Replace, Promise!Open, DecoupledIn, DecoupledOut
  <2> QED BY <1>3, <2>2 DEF Promise!Next
<1> QED BY <1>8, <1>9, <1>10

(* A read delivers the oldest message, tells the end or gives a copy.      *)
LEMMA FetchPromise ==
  ASSUME RefInv, ReadFetch
  PROVE  [Promise!Next]_(Promise!vars)
<1>1. /\ ch \in Channel /\ reader \in Reader /\ FillAgrees(ch)
      /\ ch' = ChannelRead(ch) /\ ch.source.state # "PENDING"
      /\ reader.pc # "ended"
      /\ got' = IF ch.fifo = <<>> THEN got ELSE Append(got, Head(ch.fifo))
  BY DEF RefInv, Inv, Typed, TypeOK, StateAgreesWithFill, ReadFetch, ReaderTests
<1>2. ch.sink.state # "END"
  BY <1>1 DEF RefInv, Ends
<1>3. /\ ch'.type = ch.type /\ ch'.length = ch.length
      /\ ch'.sink.state # "END"
      /\ ch'.source.state = "END" <=> ch.source.state = "END"
      /\ ch'.fifo = IF ch.fifo = <<>> THEN <<>> ELSE Tail(ch.fifo)
  BY <1>1, <1>2, ReadFrame
<1>4. ch'.source.err = "NO_TARGET" =>
        ch.source.state = "END" /\ ch.fifo = <<>> /\ ~DecoupledOut(ch)
  BY <1>1, ReadErr
<1>5. ch.source.err = "NO_TARGET" =>
        ch.source.state = "END" /\ ch.fifo = <<>> /\ ~DecoupledOut(ch)
  BY DEF RefInv, EndInv, EndOfStreamIsTrue, Ends
<1>6. ch.fifo = <<>> /\ ch.source.state = "END" /\ ~DecoupledOut(ch)
        => ch'.source.err = "NO_TARGET"
  BY <1>1 DEF ChannelRead, FifoRead, SetReadErr, ChangeWriteState, Channel, ChannelEnd
<1>7. CASE ch.fifo # <<>>
  <2>1. ch'.source.err # "NO_TARGET" /\ ch.source.err # "NO_TARGET"
    BY <1>4, <1>5, <1>7
  <2>2. Promise!Deliver
    BY <1>1, <1>2, <1>3, <1>7, <2>1
       DEF Promise!Deliver, DecoupledIn, DecoupledOut
  <2> QED BY <2>2 DEF Promise!Next
<1>8. CASE ch.fifo = <<>> /\ ch'.source.err = "NO_TARGET"
  <2>1. Promise!TellEnd
    BY <1>1, <1>2, <1>3, <1>4, <1>8
       DEF Promise!TellEnd, DecoupledIn, DecoupledOut
  <2> QED BY <2>1 DEF Promise!Next
<1>9. CASE ch.fifo = <<>> /\ ch'.source.err # "NO_TARGET"
  <2>1. ch.source.err # "NO_TARGET"
    BY <1>5, <1>6, <1>9
  <2> QED
    BY <1>1, <1>2, <1>3, <1>9, <2>1 DEF Promise!vars, DecoupledIn, DecoupledOut
<1> QED BY <1>7, <1>8, <1>9

(* A termination closes or abandons the queue, once.                       *)
LEMMA EndPromise ==
  ASSUME RefInv, WriterEnd \/ ReaderEnd
  PROVE  Promise!Next
<1>1. ch \in Channel /\ writer \in Writer /\ reader \in Reader
  BY DEF RefInv, Inv, Typed, TypeOK
<1>2. CASE WriterEnd
  <2>1. ch.source.state # "END"
    BY <1>2 DEF WriterEnd, RefInv, EndInv
  <2>2. /\ ch'.type = ch.type /\ ch'.length = ch.length /\ ch'.fifo = ch.fifo
        /\ ch'.source.state = "END" /\ ch'.source.err = ch.source.err
        /\ ch'.sink = ch.sink /\ got' = got
    BY <1>1, <1>2 DEF WriterEnd, TerminateSource, ChangeReadState, SetState,
                      Channel, ChannelEnd
  <2>3. Promise!Close
    BY <2>1, <2>2 DEF Promise!Close, DecoupledIn, DecoupledOut
  <2> QED BY <2>3 DEF Promise!Next
<1>3. CASE ReaderEnd
  <2>1. ch.sink.state # "END"
    BY <1>3 DEF ReaderEnd, RefInv, Ends
  <2>2. /\ ch'.type = ch.type /\ ch'.length = ch.length /\ ch'.fifo = ch.fifo
        /\ ch'.sink.state = "END" /\ ch'.source = ch.source /\ got' = got
    BY <1>1, <1>3 DEF ReaderEnd, TerminateSink, ChangeWriteState, SetState,
                      Channel, ChannelEnd
  <2>3. Promise!Abandon
    BY <2>1, <2>2 DEF Promise!Abandon, DecoupledIn, DecoupledOut
  <2> QED BY <2>3 DEF Promise!Next
<1> QED BY <1>2, <1>3

(* Every step of the channel is a step of the queue or changes nothing.    *)
LEMMA PromiseStep ==
  ASSUME RefInv, [Next]_vars
  PROVE  [Promise!Next]_(Promise!vars)
<1>1. CASE Quiet
  <2>1. SameFill(ch, ch') /\ got' = got
        /\ (ch'.source.err = "NO_TARGET" <=> ch.source.err = "NO_TARGET")
    BY <1>1, QuietStep, QuietTells DEF RefInv
  <2> QED BY <2>1 DEF Promise!vars, SameFill, DecoupledIn, DecoupledOut
<1>2. CASE WriteStore
  BY <1>2, StorePromise
<1>3. CASE ReadFetch
  BY <1>3, FetchPromise
<1>4. CASE WriterEnd \/ ReaderEnd
  BY <1>4, EndPromise
<1>5. CASE UNCHANGED vars
  BY <1>5 DEF vars, Promise!vars, DecoupledIn, DecoupledOut
<1> QED
  BY <1>1, <1>2, <1>3, <1>4, <1>5
     DEF Next, WriterRuns, ReaderRuns, Ended, Quiet

(* Whatever its shape, the channel of smxch.c with its mutex, waits,       *)
(* timeouts and errors implements the bounded queue.                       *)
THEOREM Refinement == Spec => ImplementsQueue
BY RefInvAlways, PromiseInit, PromiseStep, PTL
   DEF Spec, ImplementsQueue, Promise!Spec

-----------------------------------------------------------------------------
(* The ring and the messages read, each by increasing numbers, the ring    *)
(* behind what was read.                                                   *)
Rising(s) == \A i, j \in DOMAIN s : i < j => s[i].seq < s[j].seq
Behind(s, t) == \A i \in DOMAIN s, j \in DOMAIN t : s[i].seq < t[j].seq

Ordered == ~DecoupledIn(ch) \/ ch.length = 1 =>
             Rising(got) /\ Rising(ch.fifo) /\ Behind(got, ch.fifo)

(* The freed messages were written, and none of them is in the ring, where *)
(* each message is once.                                                   *)
Apart ==
  /\ IsFiniteSet(dropped)
  /\ \A d \in dropped : d.seq \in 1..Written
  /\ \A d \in dropped, i \in DOMAIN ch.fifo : d.seq # ch.fifo[i].seq
  /\ \A i, j \in DOMAIN ch.fifo : ch.fifo[i].seq = ch.fifo[j].seq => i = j

(* The backup of a decoupled output when the ring is empty.                *)
Latest ==
  DecoupledOut(ch) =>
    /\ ch.backup # NoMsg => ~ch.backup.prevent_backup
    /\ ch.fifo = <<>> =>
         IF got = <<>> THEN ch.backup = NoMsg \/ ch.backup.seq = 0
         ELSE ch.backup = got[Len(got)] \/ got[Len(got)].prevent_backup

Copied == /\ reader.copy => DecoupledOut(ch)
          /\ CopyIsLatest

StreamInv == /\ Ordered /\ Apart /\ OneOwner
             /\ NoSilentLoss /\ Latest /\ Copied

-----------------------------------------------------------------------------
(* What the steps do to the messages.                                      *)

(* Where messages are stays as it is.                                      *)
Rests == /\ writer'.created = writer.created /\ writer'.msg = writer.msg
         /\ ch'.type = ch.type /\ ch'.length = ch.length
         /\ ch'.fifo = ch.fifo /\ got' = got /\ dropped' = dropped

(* The producer makes a message, to write it or for a filter to take it.   *)
Makes == /\ writer.msg = NoMsg /\ writer'.created = writer.created + 1
         /\ writer'.msg \in Message /\ writer'.msg.seq = writer.created + 1
         /\ SameFill(ch, ch') /\ got' = got /\ dropped' = dropped

Filtered == /\ writer.msg = NoMsg /\ writer'.created = writer.created + 1
            /\ writer'.msg = NoMsg /\ SameFill(ch, ch') /\ got' = got
            /\ \E ret \in {0, -1} : Free(writer.created + 1, ret, TRUE)

(* Its message is given up.                                                *)
GivesUp == /\ writer.msg \in Message
           /\ writer'.created = writer.created /\ writer'.msg = NoMsg
           /\ SameFill(ch, ch') /\ got' = got
           /\ \E ret \in {0, -1} : /\ Drop(writer.msg.seq, ret)
                                   /\ ret = 0 => DecoupledIn(ch)

(* It comes into the ring, behind the others or instead of the first.      *)
Comes == /\ writer.msg \in Message
         /\ writer'.created = writer.created /\ writer'.msg = NoMsg
         /\ ch'.type = ch.type /\ ch'.length = ch.length /\ got' = got
         /\ \/ /\ ch'.fifo = Append(ch.fifo, writer.msg)
               /\ dropped' = dropped
            \/ /\ DecoupledIn(ch) /\ Len(ch.fifo) = ch.length
               /\ ch'.fifo = [ch.fifo EXCEPT ![1] = writer.msg]
               /\ Drop(ch.fifo[1].seq, 0)

(* The consumer reads one.                                                 *)
Leaves == /\ writer' = writer /\ dropped' = dropped
          /\ ch'.type = ch.type /\ ch'.length = ch.length
          /\ ch.fifo # <<>> /\ ch'.fifo = Tail(ch.fifo)
          /\ got' = Append(got, Head(ch.fifo))

(* Every step is one of these moves.                                       *)
LEMMA MessagesMove ==
  ASSUME RefInv, [Next]_vars
  PROVE  Rests \/ Makes \/ Filtered \/ GivesUp \/ Comes \/ Leaves
<1>1. /\ ch \in Channel /\ writer \in Writer /\ ch.fifo \in Seq(Message)
      /\ writer.pc = "idle" => writer.msg = NoMsg
      /\ writer.msg \in Message \union {NoMsg} /\ writer.created \in Nat
      /\ FillAgrees(ch) /\ Waits
  BY DEF RefInv, Inv, Typed, TypeOK, WriterHoldsMessage, Writer, Channel,
         StateAgreesWithFill
<1>2. CASE WriteCall
  <2>1. PICK prevent \in Prevent :
          writer' = [writer EXCEPT !.pc = "lock", !.created = @ + 1,
                       !.msg = [seq |-> writer.created + 1,
                                prevent_backup |-> prevent]]
    BY <1>2 DEF WriteCall
  <2>2. prevent \in BOOLEAN
    BY BoundsAssumption
  <2>3. /\ writer'.created = writer.created + 1
        /\ writer'.msg = [seq |-> writer.created + 1, prevent_backup |-> prevent]
    BY <1>1, <2>1 DEF Writer
  <2>4. writer'.msg \in Message /\ writer'.msg.seq = writer.created + 1
    BY <1>1, <2>2, <2>3 DEF Message
  <2> QED BY <1>1, <1>2, <2>3, <2>4 DEF WriteCall, Makes, SameFill
<1>3. CASE WriteFiltered
  <2>1. /\ writer'.created = writer.created + 1 /\ writer'.msg = writer.msg
        /\ \E ret \in {0, -1} : Free(writer.created + 1, ret, TRUE)
        /\ got' = got
    BY <1>1, <1>3 DEF WriteFiltered, Writer
  <2>2. SameFill(ch, ch')
    BY <1>3, QuietStep DEF RefInv, Quiet
  <2>3. writer.msg = NoMsg
    BY <1>1, <1>3 DEF WriteFiltered
  <2> QED BY <2>1, <2>2, <2>3 DEF Filtered
<1>4. CASE WriteCvError \/ WriteTimeout \/ WriteAbort \/ WriteGuardDrop
  <2>1. writer.pc \in {"lock", "wait", "guard"}
    BY <1>4 DEF WriteCvError, WriteTimeout, WriteAbort, WriteGuardDrop,
                WriterTests, WriterMayStore
  <2>2. writer.msg \in Message
    BY <1>1, <2>1, WritingMessage DEF RefInv, Inv
  <2>3. writer'.created = writer.created /\ writer'.msg = NoMsg
    BY <1>1, <1>4, ReturnType DEF WriteCvError, WriteTimeout, WriteAbort,
       WriteGuardDrop
  <2>4. SameFill(ch, ch')
    BY <1>4, QuietStep DEF RefInv, Quiet
  <2>5. /\ got' = got
        /\ \E ret \in {0, -1} : /\ Drop(writer.msg.seq, ret)
                                /\ ret = 0 => DecoupledIn(ch)
    BY <1>4 DEF WriteCvError, WriteTimeout, WriteAbort, WriteGuardDrop
  <2> QED BY <2>2, <2>3, <2>4, <2>5 DEF GivesUp
<1>5. CASE WriteStore
  <2> DEFINE m == writer.msg
  <2>1. /\ m \in Message /\ ch.sink.state \notin {"PENDING", "END"}
        /\ ch' = ChannelWrite(ch, m)
    BY <1>5, StoreStep DEF RefInv, WriteStore
  <2>2. writer'.created = writer.created /\ writer'.msg = NoMsg
    BY <1>1, <1>5, ReturnType DEF WriteStore
  <2>3. ch'.type = ch.type /\ ch'.length = ch.length
    BY <1>1, <2>1, WriteFrame
  <2>4. \/ ~Full(ch) /\ ch'.fifo = Append(ch.fifo, m)
        \/ Full(ch) /\ DecoupledIn(ch) /\ ch'.fifo = [ch.fifo EXCEPT ![1] = m]
    BY <1>1, <2>1, StoreRing
  <2>5. CASE ~Full(ch)
    <3>1. dropped' = dropped /\ got' = got
      BY <1>5, <2>5 DEF WriteStore, WriteVictim
    <3> QED BY <2>1, <2>2, <2>3, <2>4, <2>5, <3>1 DEF Comes
  <2>6. CASE Full(ch) /\ DecoupledIn(ch) /\ ch'.fifo = [ch.fifo EXCEPT ![1] = m]
    <3>1. Len(ch.fifo) = ch.length /\ ch.length \in Nat \ {0}
      BY <1>1, <2>6 DEF Full, FillAgrees, Channel
    <3>2. Head(ch.fifo) = ch.fifo[1] /\ ch.fifo[1] \in Message
      BY <1>1, <3>1
    <3>3. Drop(ch.fifo[1].seq, 0) /\ got' = got
      BY <1>5, <2>6, <3>2, NoMsgAssumption DEF WriteStore, WriteVictim
    <3> QED BY <2>1, <2>2, <2>3, <2>6, <3>1, <3>3 DEF Comes
  <2> QED BY <2>4, <2>5, <2>6
<1>6. CASE ReadFetch
  <2>1. /\ ch'.type = ch.type /\ ch'.length = ch.length
        /\ ch'.fifo = IF ch.fifo = <<>> THEN <<>> ELSE Tail(ch.fifo)
        /\ got' = IF ch.fifo = <<>> THEN got ELSE Append(got, Head(ch.fifo))
        /\ writer' = writer /\ dropped' = dropped
    BY <1>1, <1>6, ReadFrame DEF ReadFetch
  <2> QED BY <2>1 DEF Leaves, Rests
<1>7. CASE WriterEnd \/ ReaderEnd
  <2>1. writer'.created = writer.created /\ writer'.msg = writer.msg
    BY <1>1, <1>7 DEF WriterEnd, ReaderEnd, Writer
  <2>2. /\ ch'.type = ch.type /\ ch'.length = ch.length /\ ch'.fifo = ch.fifo
        /\ got' = got /\ dropped' = dropped
    BY <1>1, <1>7 DEF WriterEnd, ReaderEnd, TerminateSource, TerminateSink,
                      ChangeReadState, ChangeWriteState, Channel
  <2> QED BY <2>1, <2>2 DEF Rests
<1>8. CASE \/ WriteNull \/ WriteWait \/ WriteSpurious \/ WriteGuardBlock
           \/ ReadCall \/ ReadWait \/ ReadCvError \/ ReadTimeout
           \/ ReadSpurious \/ ReaderSetsBackup \/ GuardExpires
  <2>1. SameFill(ch, ch')
    BY <1>8, QuietStep DEF RefInv, Quiet
  <2>2. got' = got /\ dropped' = dropped
    BY <1>8 DEF WriteNull, WriteWait, WriteSpurious, WriteGuardBlock, ReadCall,
       ReadWait, ReadCvError, ReadTimeout, ReadSpurious, ReaderSetsBackup,
       GuardExpires
  <2>3. writer'.created = writer.created /\ writer'.msg = writer.msg
    BY <1>1, <1>8 DEF WriteNull, WriteWait, WriteSpurious, WriteGuardBlock,
       ReadCall, ReadWait, ReadCvError, ReadTimeout, ReadSpurious,
       ReaderSetsBackup, GuardExpires, Writer
  <2> QED BY <2>1, <2>2, <2>3 DEF Rests, SameFill
<1>9. CASE UNCHANGED vars
  BY <1>9 DEF vars, Rests
<1> QED
  BY <1>2, <1>3, <1>4, <1>5, <1>6, <1>7, <1>8, <1>9
     DEF Next, WriterRuns, ReaderRuns, Ended

(* The types and numbers the lemmas below need.                            *)
LEMMA Numbers ==
  ASSUME RefInv
  PROVE  /\ ch.fifo \in Seq(Message) /\ got \in Seq(Message)
         /\ ch.length \in Nat \ {0} /\ writer.created \in Nat
         /\ \A i \in DOMAIN ch.fifo :
              ch.fifo[i] \in Message /\ ch.fifo[i].seq \in 1..Written
         /\ \A i \in DOMAIN got :
              got[i] \in Message /\ got[i].seq \in 1..Written
         /\ Written \in Nat
         /\ writer.msg = NoMsg => Written = writer.created
         /\ writer.msg # NoMsg => /\ writer.msg.seq = Written + 1
                                  /\ writer.created = Written + 1
<1>1. /\ ch.fifo \in Seq(Message) /\ got \in Seq(Message)
      /\ ch.length \in Nat \ {0} /\ writer.created \in Nat
  BY DEF RefInv, Inv, Typed, TypeOK, Channel, Writer
<1>2. Below(ch.fifo, Written) /\ Below(got, Written)
  BY DEF RefInv, Numbered
<1>3. /\ Written \in Nat
      /\ writer.msg = NoMsg => Written = writer.created
      /\ writer.msg # NoMsg => /\ writer.msg.seq = Written + 1
                               /\ writer.created = Written + 1
  BY <1>1 DEF RefInv, Numbered, Written
<1>4. ASSUME NEW s \in Seq(Message), Below(s, Written), NEW i \in DOMAIN s
      PROVE  s[i] \in Message /\ s[i].seq \in 1..Written
  BY <1>4 DEF Below
<1> QED BY <1>1, <1>2, <1>3, <1>4

-----------------------------------------------------------------------------
(* Order.                                                                  *)

(* A newer message than all comes last, whatever it comes behind.          *)
LEMMA RisingAppend ==
  ASSUME NEW s \in Seq(Message), NEW m \in Message,
         \A i \in DOMAIN s : s[i].seq < m.seq
  PROVE  /\ Rising(s) => Rising(Append(s, m))
         /\ \A t \in Seq(Message) :
              Behind(t, s) /\ (\A i \in DOMAIN t : t[i].seq < m.seq)
                => Behind(t, Append(s, m))
<1>1. /\ DOMAIN Append(s, m) = 1 .. Len(s) + 1 /\ DOMAIN s = 1 .. Len(s)
      /\ Len(s) \in Nat
      /\ \A i \in DOMAIN s : Append(s, m)[i] = s[i]
      /\ Append(s, m)[Len(s) + 1] = m
  OBVIOUS
<1>2. Rising(s) => Rising(Append(s, m))
  BY <1>1 DEF Rising
<1>3. ASSUME NEW t \in Seq(Message), Behind(t, s),
             \A i \in DOMAIN t : t[i].seq < m.seq
      PROVE  Behind(t, Append(s, m))
  BY <1>1, <1>3 DEF Behind
<1> QED BY <1>2, <1>3

(* The first message of the rest goes over to the messages before.         *)
LEMMA RisingMove ==
  ASSUME NEW s \in Seq(Message), NEW t \in Seq(Message), t # <<>>,
         Rising(s), Rising(t), Behind(s, t)
  PROVE  /\ Rising(Append(s, Head(t))) /\ Rising(Tail(t))
         /\ Behind(Append(s, Head(t)), Tail(t))
<1>1. /\ Head(t) = t[1] /\ 1 \in DOMAIN t /\ t[1] \in Message
      /\ \A i \in DOMAIN Tail(t) : /\ i + 1 \in DOMAIN t /\ i \in Nat \ {0}
                                   /\ Tail(t)[i] = t[i + 1]
  OBVIOUS
<1>2. Rising(Append(s, Head(t)))
  BY <1>1, RisingAppend DEF Behind
<1>3. Rising(Tail(t))
  BY <1>1 DEF Rising
<1>4. Behind(Append(s, Head(t)), Tail(t))
  <2>1. /\ DOMAIN Append(s, Head(t)) = 1 .. Len(s) + 1 /\ DOMAIN s = 1 .. Len(s)
        /\ Len(s) \in Nat
        /\ \A i \in DOMAIN s : Append(s, Head(t))[i] = s[i]
        /\ Append(s, Head(t))[Len(s) + 1] = t[1]
    BY <1>1
  <2>2. \A j \in DOMAIN Tail(t) : t[1].seq < Tail(t)[j].seq
    BY <1>1 DEF Rising
  <2>3. \A i \in DOMAIN s, j \in DOMAIN Tail(t) : s[i].seq < Tail(t)[j].seq
    BY <1>1 DEF Behind
  <2> QED BY <2>1, <2>2, <2>3 DEF Behind
<1> QED BY <1>2, <1>3, <1>4

(* Every step keeps the order of the messages.                             *)
LEMMA OrderedStep ==
  ASSUME RefInv, Ordered, [Next]_vars
  PROVE  Ordered'
<1>1. Rests \/ Makes \/ Filtered \/ GivesUp \/ Comes \/ Leaves
  BY MessagesMove
<1>2. CASE Rests \/ Makes \/ Filtered \/ GivesUp
  BY <1>2 DEF Ordered, Rests, Makes, Filtered, GivesUp, SameFill, DecoupledIn
<1>3. CASE Comes
  <2> SUFFICES ASSUME ~DecoupledIn(ch) \/ ch.length = 1
               PROVE  Rising(got) /\ Rising(ch'.fifo) /\ Behind(got, ch'.fifo)
    BY <1>3 DEF Comes, Ordered, DecoupledIn
  <2>1. Rising(got) /\ Rising(ch.fifo) /\ Behind(got, ch.fifo)
    BY DEF Ordered
  <2>2. /\ \A i \in DOMAIN ch.fifo : ch.fifo[i].seq < writer.msg.seq
        /\ \A i \in DOMAIN got : got[i].seq < writer.msg.seq
        /\ writer.msg \in Message
        /\ ch.fifo \in Seq(Message) /\ got \in Seq(Message)
    BY <1>3, Numbers, NoMsgAssumption DEF Comes
  <2>3. CASE ch'.fifo = Append(ch.fifo, writer.msg)
    BY <2>1, <2>2, <2>3, RisingAppend
  <2>4. CASE Len(ch.fifo) = 1 /\ ch'.fifo = [ch.fifo EXCEPT ![1] = writer.msg]
    <3>1. DOMAIN ch'.fifo = {1} /\ ch'.fifo[1] = writer.msg
      BY <2>2, <2>4
    <3> QED BY <2>1, <2>2, <3>1 DEF Rising, Behind
  <2> QED BY <1>3, <2>3, <2>4 DEF Comes
<1>4. CASE Leaves
  <2>1. ch.fifo \in Seq(Message) /\ got \in Seq(Message)
    BY Numbers
  <2> QED BY <1>4, <2>1, RisingMove DEF Ordered, Leaves, DecoupledIn
<1> QED BY <1>1, <1>2, <1>3, <1>4

(* The stream is ordered when its three parts are.                         *)
LEMMA OrderedStream ==
  ASSUME RefInv, Ordered
  PROVE  OrderedDelivery
<1> SUFFICES ASSUME ~DecoupledIn(ch) \/ ch.length = 1 PROVE FifoOrder
  BY DEF OrderedDelivery
<1> DEFINE s == got \o ch.fifo
<1>1. /\ got \in Seq(Message) /\ ch.fifo \in Seq(Message)
      /\ Rising(got) /\ Rising(ch.fifo) /\ Behind(got, ch.fifo)
  BY Numbers DEF Ordered
<1>2. /\ s \in Seq(Message) /\ Len(s) = Len(got) + Len(ch.fifo)
      /\ DOMAIN s = 1 .. Len(got) + Len(ch.fifo)
      /\ \A i \in 1 .. Len(got) : s[i] = got[i]
      /\ \A i \in Len(got) + 1 .. Len(got) + Len(ch.fifo) :
           s[i] = ch.fifo[i - Len(got)]
  BY <1>1
<1> HIDE DEF s
<1>3. Rising(s)
  <2> SUFFICES ASSUME NEW i \in DOMAIN s, NEW j \in DOMAIN s, i < j
               PROVE  s[i].seq < s[j].seq
    BY DEF Rising
  <2>1. Len(got) \in Nat /\ Len(ch.fifo) \in Nat /\ i \in Nat /\ j \in Nat
        /\ DOMAIN got = 1 .. Len(got) /\ DOMAIN ch.fifo = 1 .. Len(ch.fifo)
    BY <1>1, <1>2
  <2>2. CASE j <= Len(got)
    <3>1. i \in DOMAIN got /\ j \in DOMAIN got
      BY <1>2, <2>1, <2>2
    <3> QED BY <1>1, <1>2, <2>1, <3>1 DEF Rising
  <2>3. CASE i <= Len(got) /\ Len(got) < j
    <3>1. i \in DOMAIN got /\ j - Len(got) \in DOMAIN ch.fifo
          /\ j \in Len(got) + 1 .. Len(got) + Len(ch.fifo)
      BY <1>2, <2>1, <2>3
    <3> QED BY <1>1, <1>2, <2>1, <3>1 DEF Behind
  <2>4. CASE Len(got) < i
    <3>1. i - Len(got) \in DOMAIN ch.fifo /\ j - Len(got) \in DOMAIN ch.fifo
          /\ i \in Len(got) + 1 .. Len(got) + Len(ch.fifo)
          /\ j \in Len(got) + 1 .. Len(got) + Len(ch.fifo)
          /\ i - Len(got) < j - Len(got)
      BY <1>2, <2>1, <2>4
    <3> QED BY <1>1, <1>2, <3>1 DEF Rising
  <2> QED BY <2>1, <2>2, <2>3, <2>4
<1>4. CASE writer.msg = NoMsg
  <2>1. Stream = s
    BY <1>2, <1>4 DEF Stream, s
  <2> QED BY <1>3, <2>1 DEF FifoOrder, Rising
<1>5. CASE writer.msg # NoMsg
  <2>1. writer.msg \in Message
    BY <1>5 DEF RefInv, Inv, Typed, TypeOK, Writer
  <2>2. Stream = Append(s, writer.msg)
    BY <1>1, <1>5, <2>1 DEF Stream, s
  <2>3. \A i \in DOMAIN s : s[i].seq < writer.msg.seq
    <3> SUFFICES ASSUME NEW i \in DOMAIN s PROVE s[i].seq < writer.msg.seq
      OBVIOUS
    <3>1. \/ i \in DOMAIN got /\ s[i] = got[i]
          \/ i - Len(got) \in DOMAIN ch.fifo /\ s[i] = ch.fifo[i - Len(got)]
      BY <1>1, <1>2
    <3> QED BY <1>5, <3>1, Numbers
  <2>4. Rising(Stream)
    BY <1>2, <1>3, <2>1, <2>2, <2>3, RisingAppend
  <2> QED BY <2>4 DEF FifoOrder, Rising
<1> QED BY <1>4, <1>5

-----------------------------------------------------------------------------
(* Loss and ownership.                                                     *)

(* One more is freed.                                                      *)
LEMMA FreeOne ==
  ASSUME IsFiniteSet(dropped), NEW n, NEW ret, NEW filtered,
         Free(n, ret, filtered)
  PROVE  /\ IsFiniteSet(dropped') /\ Freed' = Freed \union {n}
         /\ n \notin Freed =>
              Cardinality(dropped') = Cardinality(dropped) + 1
         /\ Cardinality(dropped) \in Nat
         /\ \A d \in dropped' : d \in dropped \/ d.seq = n
<1> DEFINE d == [seq |-> n, ret |-> ret, filtered |-> filtered]
<1>1. dropped' = dropped \union {d} /\ d.seq = n
  BY DEF Free
<1> HIDE DEF d
<1>2. n \notin Freed => d \notin dropped
  BY <1>1 DEF Freed
<1>3. /\ IsFiniteSet(dropped') /\ Cardinality(dropped) \in Nat
      /\ d \notin dropped => Cardinality(dropped') = Cardinality(dropped) + 1
  BY <1>1, FS_AddElement, FS_CardinalityType
<1>4. Freed' = Freed \union {n}
  BY <1>1 DEF Freed
<1> QED BY <1>1, <1>2, <1>3, <1>4

(* Every step keeps the fates of the messages apart.                       *)
LEMMA ApartStep ==
  ASSUME RefInv, Apart, [Next]_vars
  PROVE  Apart'
<1>1. Rests \/ Makes \/ Filtered \/ GivesUp \/ Comes \/ Leaves
  BY MessagesMove
<1>2. /\ Written \in Nat /\ Written' \in Nat /\ Written <= Written'
      /\ \A d \in dropped : d.seq \in 1..Written'
  BY NumberedWriter DEF Apart
<1>3. CASE Rests \/ Makes
  BY <1>2, <1>3 DEF Rests, Makes, SameFill, Apart
<1>4. ASSUME NEW n \in Nat, NEW ret, NEW filtered, Free(n, ret, filtered),
             n = Written + 1, Written' = n, ch'.fifo = ch.fifo
      PROVE  Apart'
  <2>1. IsFiniteSet(dropped') /\ \A d \in dropped' : d \in dropped \/ d.seq = n
    BY <1>4, FreeOne DEF Apart
  <2>2. \A i \in DOMAIN ch.fifo : ch.fifo[i].seq # n
    BY <1>4, Numbers
  <2> QED BY <1>2, <1>4, <2>1, <2>2 DEF Apart
<1>5. CASE Filtered
  <2>1. Written = writer.created /\ Written' = writer.created + 1
        /\ writer.created + 1 \in Nat
    BY <1>5, Numbers DEF Filtered, Written
  <2> QED BY <1>4, <1>5, <2>1 DEF Filtered, SameFill
<1>6. CASE GivesUp
  <2>1. writer.msg.seq = Written + 1 /\ Written' = Written + 1
        /\ Written + 1 \in Nat
    BY <1>6, Numbers, NoMsgAssumption DEF GivesUp, Written
  <2> QED BY <1>4, <1>6, <2>1 DEF GivesUp, SameFill, Drop
<1>7. CASE Comes
  <2> DEFINE m == writer.msg
  <2>1. /\ m \in Message /\ m.seq = Written + 1 /\ Written' = Written + 1
        /\ ch.fifo \in Seq(Message) /\ ch.length \in Nat \ {0}
        /\ \A i \in DOMAIN ch.fifo : ch.fifo[i].seq \in 1..Written
    BY <1>7, Numbers, NoMsgAssumption DEF Comes, Written
  <2> HIDE DEF m
  <2>2. CASE ch'.fifo = Append(ch.fifo, m) /\ dropped' = dropped
    <3>1. /\ DOMAIN ch'.fifo = 1 .. Len(ch.fifo) + 1 /\ Len(ch.fifo) \in Nat
          /\ DOMAIN ch.fifo = 1 .. Len(ch.fifo)
          /\ \A i \in DOMAIN ch.fifo : ch'.fifo[i] = ch.fifo[i]
          /\ ch'.fifo[Len(ch.fifo) + 1] = m
      BY <2>1, <2>2
    <3>2. \A i \in DOMAIN ch'.fifo :
            \/ i \in DOMAIN ch.fifo /\ ch'.fifo[i] = ch.fifo[i]
            \/ i = Len(ch.fifo) + 1 /\ ch'.fifo[i] = m
      BY <3>1
    <3>3. \A i, j \in DOMAIN ch'.fifo : ch'.fifo[i].seq = ch'.fifo[j].seq => i = j
      BY <1>2, <2>1, <3>2 DEF Apart
    <3>4. \A d \in dropped, i \in DOMAIN ch'.fifo : d.seq # ch'.fifo[i].seq
      BY <1>2, <2>1, <3>2 DEF Apart
    <3> QED BY <1>2, <2>2, <3>3, <3>4 DEF Apart
  <2>3. CASE /\ ch'.fifo = [ch.fifo EXCEPT ![1] = m] /\ Len(ch.fifo) = ch.length
             /\ Drop(ch.fifo[1].seq, 0)
    <3>1. /\ DOMAIN ch'.fifo = DOMAIN ch.fifo /\ 1 \in DOMAIN ch.fifo
          /\ ch'.fifo[1] = m
          /\ \A i \in DOMAIN ch.fifo \ {1} : ch'.fifo[i] = ch.fifo[i]
      BY <2>1, <2>3
    <3>2. /\ IsFiniteSet(dropped')
          /\ \A d \in dropped' : d \in dropped \/ d.seq = ch.fifo[1].seq
      BY <2>3, FreeOne DEF Apart, Drop
    <3>3. \A i, j \in DOMAIN ch'.fifo : ch'.fifo[i].seq = ch'.fifo[j].seq => i = j
      BY <1>2, <2>1, <3>1 DEF Apart
    <3>4. \A d \in dropped', i \in DOMAIN ch'.fifo : d.seq # ch'.fifo[i].seq
      BY <1>2, <2>1, <3>1, <3>2 DEF Apart
    <3>5. \A d \in dropped' : d.seq \in 1..Written'
      BY <1>2, <2>1, <3>1, <3>2
    <3> QED BY <3>2, <3>3, <3>4, <3>5 DEF Apart
  <2> QED BY <1>7, <2>2, <2>3 DEF Comes, m
<1>8. CASE Leaves
  <2>1. ch.fifo \in Seq(Message) /\ ch.fifo # <<>>
    BY <1>8, Numbers DEF Leaves
  <2>2. \A i \in DOMAIN Tail(ch.fifo) :
          i + 1 \in DOMAIN ch.fifo /\ i \in Nat /\ Tail(ch.fifo)[i] = ch.fifo[i + 1]
    BY <2>1
  <2>3. ch'.fifo = Tail(ch.fifo) /\ dropped' = dropped
    BY <1>8 DEF Leaves
  <2>4. \A i, j \in DOMAIN ch'.fifo : ch'.fifo[i].seq = ch'.fifo[j].seq => i = j
    BY <2>2, <2>3 DEF Apart
  <2> QED BY <1>2, <2>2, <2>3, <2>4 DEF Apart
<1> QED BY <1>1, <1>3, <1>5, <1>6, <1>7, <1>8

(* The messages of each owner add up when one changes its owner.           *)
LEMMA Sum ==
  ASSUME NEW w \in Int, NEW f \in Int, NEW r \in Int, NEW d \in Int,
         NEW n \in Int, w + f + r + d = n
  PROVE  /\ w = 0 => 0 + f + r + (d + 1) = n + 1
         /\ w = 1 => 0 + f + r + (d + 1) = n
         /\ w + (f - 1) + (r + 1) + d = n
OBVIOUS

(* A message changes its owner, a new one gets one.                        *)
LEMMA OwnerStep ==
  ASSUME RefInv, Apart, OneOwner, [Next]_vars
  PROVE  OneOwner'
<1>1. Rests \/ Makes \/ Filtered \/ GivesUp \/ Comes \/ Leaves
  BY MessagesMove
<1>2. /\ ch.fifo \in Seq(Message) /\ got \in Seq(Message)
      /\ ch.length \in Nat \ {0} /\ writer.created \in Nat
      /\ Written \in Nat /\ IsFiniteSet(dropped)
      /\ Cardinality(dropped) \in Nat
      /\ Len(ch.fifo) \in Nat /\ Len(got) \in Nat
      /\ \A d \in dropped : d.seq \in 1..Written
      /\ writer.msg = NoMsg => Written = writer.created
      /\ writer.msg # NoMsg => writer.msg.seq = Written + 1
  BY Numbers, FS_CardinalityType DEF Apart
<1>3. /\ writer.msg = NoMsg => InWriter = {} /\ Cardinality(InWriter) = 0
      /\ writer.msg # NoMsg =>
           InWriter = {writer.msg.seq} /\ Cardinality(InWriter) = 1
      /\ writer'.msg = NoMsg => InWriter' = {} /\ Cardinality(InWriter') = 0
      /\ writer'.msg # NoMsg =>
           InWriter' = {writer'.msg.seq} /\ Cardinality(InWriter') = 1
  BY FS_EmptySet, FS_Singleton DEF InWriter
<1>10. InWriter \union InFifo \union InReader \union Freed = 1..writer.created
  BY DEF OneOwner
<1>11. Cardinality(InWriter) + Len(ch.fifo) + Len(got) + Cardinality(dropped)
         = writer.created
  BY DEF OneOwner
<1>12. /\ Cardinality(InWriter) \in Int /\ Cardinality(dropped) \in Int
       /\ Len(ch.fifo) \in Int /\ Len(got) \in Int /\ writer.created \in Int
  BY <1>2, <1>3
<1>4. CASE Rests
  <2>1. InWriter' = InWriter
    BY <1>4 DEF Rests, InWriter
  <2> QED BY <1>4, <2>1 DEF Rests, OneOwner, InFifo, InReader, Freed
<1>5. CASE Makes
  <2>1. /\ InFifo' = InFifo /\ InReader' = InReader /\ Freed' = Freed
        /\ InWriter = {} /\ InWriter' = {writer.created + 1}
        /\ Cardinality(InWriter) = 0 /\ Cardinality(InWriter') = 1
    BY <1>3, <1>5, NoMsgAssumption DEF Makes, SameFill, InFifo, InReader, Freed
  <2>2. 1..writer.created + 1 = 1..writer.created \union {writer.created + 1}
    BY <1>2
  <2> QED BY <1>2, <1>5, <2>1, <2>2 DEF Makes, SameFill, OneOwner
<1>6. CASE Filtered
  <2> DEFINE n == writer.created + 1
  <2>1. /\ InFifo' = InFifo /\ InReader' = InReader
        /\ InWriter = {} /\ InWriter' = {}
        /\ Cardinality(InWriter) = 0 /\ Cardinality(InWriter') = 0
    BY <1>3, <1>6 DEF Filtered, SameFill, InFifo, InReader
  <2>2. n \notin Freed
    BY <1>2, <1>6 DEF Freed, Filtered
  <2>3. Freed' = Freed \union {n} /\ Cardinality(dropped') = Cardinality(dropped) + 1
    BY <1>2, <1>6, <2>2, FreeOne DEF Filtered
  <2>4. 1..writer.created + 1 = 1..writer.created \union {n}
    BY <1>2
  <2>5. /\ Len(ch'.fifo) = Len(ch.fifo) /\ Len(got') = Len(got)
        /\ writer'.created = writer.created + 1
    BY <1>6 DEF Filtered, SameFill
  <2>6. InWriter' \union InFifo' \union InReader' \union Freed'
          = 1..writer'.created
    BY <1>10, <2>1, <2>3, <2>4, <2>5
  <2>7. Cardinality(InWriter') + Len(ch'.fifo) + Len(got') + Cardinality(dropped')
          = writer'.created
    <3>1. /\ Cardinality(InWriter) = 0 /\ Cardinality(InWriter') = 0
          /\ Cardinality(dropped') = Cardinality(dropped) + 1
      BY <2>1, <2>3
    <3>2. 0 + Len(ch.fifo) + Len(got) + (Cardinality(dropped) + 1)
            = writer.created + 1
      BY <1>12, <1>11, <3>1, Sum
    <3> QED BY <2>5, <3>1, <3>2
  <2> QED BY <2>6, <2>7 DEF OneOwner
<1>7. CASE GivesUp
  <2> DEFINE n == writer.msg.seq
  <2>1. /\ InFifo' = InFifo /\ InReader' = InReader
        /\ InWriter = {n} /\ InWriter' = {}
        /\ Cardinality(InWriter) = 1 /\ Cardinality(InWriter') = 0
    BY <1>3, <1>7, NoMsgAssumption DEF GivesUp, SameFill, InFifo, InReader
  <2>2. n \notin Freed
    BY <1>2, <1>7, NoMsgAssumption DEF Freed, GivesUp
  <2>3. Freed' = Freed \union {n} /\ Cardinality(dropped') = Cardinality(dropped) + 1
    BY <1>2, <1>7, <2>2, FreeOne DEF GivesUp, Drop
  <2>4. /\ Len(ch'.fifo) = Len(ch.fifo) /\ Len(got') = Len(got)
        /\ writer'.created = writer.created
    BY <1>7 DEF GivesUp, SameFill
  <2>5. InWriter' \union InFifo' \union InReader' \union Freed'
          = 1..writer'.created
    BY <1>10, <2>1, <2>3, <2>4
  <2>6. Cardinality(InWriter') + Len(ch'.fifo) + Len(got') + Cardinality(dropped')
          = writer'.created
    BY <1>12, <1>11, <2>1, <2>3, <2>4, Sum
  <2> QED BY <2>5, <2>6 DEF OneOwner
<1>8. CASE Comes
  <2> DEFINE n == writer.msg.seq
  <2>1. /\ InReader' = InReader /\ InWriter = {n} /\ InWriter' = {}
        /\ Cardinality(InWriter) = 1 /\ Cardinality(InWriter') = 0
        /\ writer.msg \in Message /\ got' = got
        /\ writer'.created = writer.created
    BY <1>3, <1>8, NoMsgAssumption DEF Comes, InReader
  <2>2. CASE ch'.fifo = Append(ch.fifo, writer.msg) /\ dropped' = dropped
    <3>1. /\ DOMAIN ch'.fifo = DOMAIN ch.fifo \union {Len(ch.fifo) + 1}
          /\ \A i \in DOMAIN ch.fifo : ch'.fifo[i] = ch.fifo[i]
          /\ ch'.fifo[Len(ch.fifo) + 1] = writer.msg
          /\ Len(ch'.fifo) = Len(ch.fifo) + 1
      BY <1>2, <2>1, <2>2
    <3>2. InFifo' = InFifo \union {n} /\ Freed' = Freed
      BY <2>2, <3>1 DEF InFifo, Freed
    <3> QED BY <1>2, <2>1, <2>2, <3>1, <3>2 DEF OneOwner
  <2>3. CASE /\ ch'.fifo = [ch.fifo EXCEPT ![1] = writer.msg]
             /\ Len(ch.fifo) = ch.length /\ Drop(ch.fifo[1].seq, 0)
    <3>1. /\ DOMAIN ch'.fifo = DOMAIN ch.fifo /\ 1 \in DOMAIN ch.fifo
          /\ ch'.fifo[1] = writer.msg
          /\ \A i \in DOMAIN ch.fifo \ {1} : ch'.fifo[i] = ch.fifo[i]
          /\ Len(ch'.fifo) = Len(ch.fifo)
      BY <1>2, <2>1, <2>3
    <3>2. ch.fifo[1].seq \notin Freed
      BY <3>1 DEF Apart, Freed
    <3>3. /\ Freed' = Freed \union {ch.fifo[1].seq}
          /\ Cardinality(dropped') = Cardinality(dropped) + 1
      BY <1>2, <2>3, <3>2, FreeOne DEF Drop
    <3>4. InFifo' \union {ch.fifo[1].seq} = InFifo \union {n}
      BY <3>1 DEF InFifo
    <3>5. InWriter' \union InFifo' \union InReader' \union Freed'
            = InWriter \union InFifo \union InReader \union Freed
      BY <2>1, <3>3, <3>4
    <3>6. Cardinality(InWriter') + Len(ch'.fifo) + Len(got') + Cardinality(dropped')
            = writer'.created
      <4>1. /\ Cardinality(InWriter) = 1 /\ Cardinality(InWriter') = 0
            /\ Cardinality(dropped') = Cardinality(dropped) + 1
            /\ Len(ch'.fifo) = Len(ch.fifo) /\ Len(got') = Len(got)
            /\ writer'.created = writer.created
        BY <2>1, <3>1, <3>3
      <4>2. 0 + Len(ch.fifo) + Len(got) + (Cardinality(dropped) + 1)
              = writer.created
        BY <1>12, <1>11, <4>1, Sum
      <4> QED BY <4>1, <4>2
    <3> QED BY <1>10, <2>1, <3>5, <3>6 DEF OneOwner
  <2> QED BY <1>8, <2>2, <2>3 DEF Comes
<1>9. CASE Leaves
  <2> DEFINE h == Head(ch.fifo)
  <2>1. /\ writer' = writer /\ dropped' = dropped /\ ch.fifo # <<>>
        /\ ch'.fifo = Tail(ch.fifo) /\ got' = Append(got, h)
    BY <1>9 DEF Leaves
  <2>2. /\ h = ch.fifo[1] /\ h \in Message /\ 1 \in DOMAIN ch.fifo
        /\ Len(ch'.fifo) = Len(ch.fifo) - 1
        /\ \A i \in DOMAIN ch'.fifo :
             i + 1 \in DOMAIN ch.fifo /\ ch'.fifo[i] = ch.fifo[i + 1]
        /\ \A i \in DOMAIN ch.fifo \ {1} :
             i - 1 \in DOMAIN ch'.fifo /\ ch'.fifo[i - 1] = ch.fifo[i]
    BY <1>2, <2>1
  <2>3. /\ DOMAIN got' = DOMAIN got \union {Len(got) + 1}
        /\ \A i \in DOMAIN got : got'[i] = got[i]
        /\ got'[Len(got) + 1] = h /\ Len(got') = Len(got) + 1
    BY <1>2, <2>1, <2>2
  <2> HIDE DEF h
  <2>4. InFifo = InFifo' \union {h.seq}
    <3>1. InFifo' \subseteq InFifo /\ h.seq \in InFifo
      BY <2>2 DEF InFifo
    <3>2. ASSUME NEW i \in DOMAIN ch.fifo
          PROVE  ch.fifo[i].seq \in InFifo' \union {h.seq}
      BY <2>2 DEF InFifo
    <3> QED BY <3>1, <3>2 DEF InFifo
  <2>5. InReader' = InReader \union {h.seq}
    BY <2>3 DEF InReader
  <2>6. InWriter' = InWriter /\ Freed' = Freed
    BY <2>1 DEF InWriter, Freed
  <2>7. InWriter' \union InFifo' \union InReader' \union Freed'
          = InWriter \union InFifo \union InReader \union Freed
    BY <2>4, <2>5, <2>6
  <2>9. Cardinality(InWriter') + Len(ch'.fifo) + Len(got') + Cardinality(dropped')
          = writer'.created
    <3>1. /\ Cardinality(InWriter') = Cardinality(InWriter)
          /\ Cardinality(dropped') = Cardinality(dropped)
          /\ Len(ch'.fifo) = Len(ch.fifo) - 1 /\ Len(got') = Len(got) + 1
          /\ writer'.created = writer.created
      BY <2>1, <2>2, <2>3, <2>6
    <3>2. Cardinality(InWriter) + (Len(ch.fifo) - 1) + (Len(got) + 1)
            + Cardinality(dropped) = writer.created
      BY <1>12, <1>11, Sum
    <3> QED BY <3>1, <3>2
  <2> QED BY <1>10, <2>1, <2>7, <2>9 DEF OneOwner
<1> QED BY <1>1, <1>4, <1>5, <1>6, <1>7, <1>8, <1>9

(* Only a write that reports it, a filter or a decoupled input loses one.  *)
LEMMA LossStep ==
  ASSUME RefInv, NoSilentLoss, [Next]_vars
  PROVE  NoSilentLoss'
<1>1. Rests \/ Makes \/ Filtered \/ GivesUp \/ Comes \/ Leaves
  BY MessagesMove
<1> SUFFICES ASSUME ~DecoupledIn(ch)', NEW d \in dropped'
             PROVE  d.ret = -1 \/ d.filtered
  BY DEF NoSilentLoss
<1>2. ~DecoupledIn(ch)
  BY <1>1 DEF Rests, Makes, Filtered, GivesUp, Comes, Leaves, SameFill,
     DecoupledIn
<1>3. CASE d \in dropped
  BY <1>2, <1>3 DEF NoSilentLoss
<1>4. CASE d \notin dropped
  BY <1>1, <1>2, <1>4 DEF Rests, Makes, Filtered, GivesUp, Comes, Leaves,
     Free, Drop
<1> QED BY <1>3, <1>4

-----------------------------------------------------------------------------
(* Copies.                                                                 *)

(* What steps do to the backup and to what the consumer was given, by all  *)
(* but the two that give the channel a backup.                             *)
LEMMA BackupRests ==
  ASSUME RefInv, [Next]_vars, ~ReadFetch, ~ReaderSetsBackup
  PROVE  /\ ch'.backup = ch.backup /\ ch'.type = ch.type /\ got' = got
         /\ ch'.fifo = <<>> => ch.fifo = <<>>
         /\ reader'.copy => reader.copy /\ reader'.msg = reader.msg
<1>1. /\ ch \in Channel /\ reader \in Reader /\ ch.fifo \in Seq(Message)
  BY DEF RefInv, Inv, Typed, TypeOK, Channel
<1>2. CASE WriteStore
  <2>1. writer.msg \in Message /\ ch' = ChannelWrite(ch, writer.msg)
    BY <1>2, StoreStep DEF RefInv, WriteStore
  <2>2. ch'.backup = ch.backup /\ ch'.type = ch.type
    BY <1>1, <2>1 DEF ChannelWrite, StoreMsg, FifoWrite, DFifoWrite, Rearm,
       SetWriteErr, ChangeReadState, ChangeWriteState, Channel
  <2>3. \/ ch'.fifo = Append(ch.fifo, writer.msg)
        \/ ch'.fifo = [ch.fifo EXCEPT ![1] = writer.msg]
    BY <1>1, <1>2, <2>1, StoreStep, StoreRing
       DEF RefInv, Inv, StateAgreesWithFill
  <2>4. ch'.fifo = <<>> => ch.fifo = <<>>
    BY <1>1, <2>1, <2>3
  <2> QED BY <1>2, <2>2, <2>4 DEF WriteStore
<1>3. CASE WriterEnd \/ ReaderEnd
  BY <1>1, <1>3 DEF WriterEnd, ReaderEnd, TerminateSource, TerminateSink,
     ChangeReadState, ChangeWriteState, Channel, Reader
<1>4. CASE \/ WriteCall \/ WriteFiltered \/ WriteNull \/ WriteWait
           \/ WriteCvError \/ WriteTimeout \/ WriteSpurious \/ WriteAbort
           \/ WriteGuardBlock \/ WriteGuardDrop
  BY <1>1, <1>4
     DEF WriteCall, WriteFiltered, WriteNull, WriteWait, WriteCvError,
         WriteTimeout, WriteSpurious, WriteAbort, WriteGuardBlock,
         WriteGuardDrop, SetWriteErr, SetReadErr, Channel
<1>5. CASE \/ ReadCall \/ ReadWait \/ ReadCvError \/ ReadTimeout
           \/ ReadSpurious \/ GuardExpires
  BY <1>1, <1>5
     DEF ReadCall, ReadWait, ReadCvError, ReadTimeout, ReadSpurious,
         GuardExpires, ReadReturns, SetReadErr, Channel, Reader
<1>6. CASE UNCHANGED vars
  BY <1>6 DEF vars
<1> QED
  BY <1>2, <1>3, <1>4, <1>5, <1>6 DEF Next, WriterRuns, ReaderRuns, Ended

(* What a read of a decoupled output leaves as backup.                     *)
LEMMA ReadBackup ==
  ASSUME NEW c \in Channel, DecoupledOut(c)
  PROVE  LET r == ChannelRead(c)
             h == Head(c.fifo)
         IN  /\ c.fifo = <<>> => r.backup = c.backup
                                 /\ ChannelReadMsg(c) = c.backup
             /\ c.fifo # <<>> =>
                  r.backup = IF Tail(c.fifo) = <<>> /\ ~h.prevent_backup
                             THEN h ELSE c.backup
BY DEF ChannelRead, ChannelReadMsg, FifoDReadMsg, FifoDRead, Pop, SetReadErr,
       ChangeWriteState, Channel

(* Every step keeps what is known of the copies.                           *)
LEMMA CopyStep ==
  ASSUME RefInv, Latest, Copied, [Next]_vars
  PROVE  Latest' /\ Copied'
<1>1. /\ ch \in Channel /\ reader \in Reader /\ ch.fifo \in Seq(Message)
      /\ got \in Seq(Message) /\ ch.backup \in Message \union {NoMsg}
  BY DEF RefInv, Inv, Typed, TypeOK, Channel
<1>2. CASE ~ReadFetch /\ ~ReaderSetsBackup
  <2>1. Latest'
    BY <1>2, BackupRests DEF Latest, DecoupledOut
  <2>2. Copied'
    BY <1>2, BackupRests DEF Copied, CopyIsLatest, DecoupledOut
  <2> QED BY <2>1, <2>2
<1>3. CASE ReaderSetsBackup
  <2>1. /\ ch'.backup = [seq |-> 0, prevent_backup |-> FALSE]
        /\ ch'.type = ch.type /\ ch'.fifo = ch.fifo /\ ch.backup = NoMsg
        /\ reader' = reader /\ got' = got
    BY <1>1, <1>3 DEF ReaderSetsBackup, SetBackup, Channel
  <2>2. Copied'
    BY <2>1 DEF Copied, CopyIsLatest, DecoupledOut
  <2>3. got # <<>> => got[Len(got)] # NoMsg
    BY <1>1, NoMsgAssumption
  <2>4. Latest'
    BY <2>1, <2>3 DEF Latest, DecoupledOut
  <2> QED BY <2>2, <2>4
<1>4. CASE ReadFetch
  <2>1. /\ ch' = ChannelRead(ch) /\ ch'.type = ch.type
        /\ ch'.fifo = IF ch.fifo = <<>> THEN <<>> ELSE Tail(ch.fifo)
        /\ got' = IF ch.fifo = <<>> THEN got ELSE Append(got, Head(ch.fifo))
        /\ reader'.msg = ChannelReadMsg(ch)
        /\ reader'.copy <=> /\ ch.fifo = <<>> /\ DecoupledOut(ch)
                            /\ ch.backup # NoMsg
    BY <1>1, <1>4, ReadFrame DEF ReadFetch, ReadReturns, Reader
  <2>2. CASE ~DecoupledOut(ch)
    BY <2>1, <2>2 DEF Latest, Copied, CopyIsLatest, DecoupledOut
  <2>3. CASE DecoupledOut(ch) /\ ch.fifo = <<>>
    <3>1. ch'.backup = ch.backup /\ reader'.msg = ch.backup /\ got' = got
      BY <1>1, <2>1, <2>3, ReadBackup
    <3>2. Latest'
      BY <2>1, <2>3, <3>1 DEF Latest, DecoupledOut
    <3>3. Copied'
      BY <2>1, <2>3, <3>1 DEF Latest, Copied, CopyIsLatest, DecoupledOut
    <3> QED BY <3>2, <3>3
  <2>4. CASE DecoupledOut(ch) /\ ch.fifo # <<>>
    <3> DEFINE h == Head(ch.fifo)
    <3>1. /\ ch'.backup = IF Tail(ch.fifo) = <<>> /\ ~h.prevent_backup
                          THEN h ELSE ch.backup
          /\ ~reader'.copy /\ h \in Message
      BY <1>1, <2>1, <2>4, ReadBackup
    <3>2. got' # <<>> /\ got'[Len(got')] = h /\ ch'.fifo = Tail(ch.fifo)
      BY <1>1, <2>1, <2>4, <3>1
    <3> HIDE DEF h
    <3>3. Latest'
      BY <2>1, <2>4, <3>1, <3>2 DEF Latest, DecoupledOut
    <3>4. Copied'
      BY <3>1 DEF Copied, CopyIsLatest
    <3> QED BY <3>3, <3>4
  <2> QED BY <2>2, <2>3, <2>4
<1> QED BY <1>2, <1>3, <1>4

-----------------------------------------------------------------------------
(* The invariant and the theorems.                                         *)

(* The stream invariant holds at the start ...                             *)
LEMMA StreamInit == Init => StreamInv
<1> SUFFICES ASSUME Init PROVE StreamInv
  OBVIOUS
<1>1. /\ ch.fifo = <<>> /\ got = <<>> /\ dropped = {} /\ ch.backup = NoMsg
      /\ writer.msg = NoMsg /\ writer.created = 0 /\ reader.copy = FALSE
  BY DEF Init, ChannelCreate
<1>2. IsFiniteSet(dropped) /\ Cardinality(dropped) = 0
  BY <1>1, FS_EmptySet
<1>3. Ordered /\ Apart /\ NoSilentLoss
  BY <1>1, <1>2 DEF Ordered, Rising, Behind, Apart, NoSilentLoss
<1>4. Latest /\ Copied
  BY <1>1 DEF Latest, Copied, CopyIsLatest
<1>5. OneOwner
  <2>1. InWriter = {} /\ InFifo = {} /\ InReader = {} /\ Freed = {}
    BY <1>1 DEF InWriter, InFifo, InReader, Freed
  <2>2. Cardinality(InWriter) = 0
    BY <2>1, FS_EmptySet
  <2> QED BY <1>1, <1>2, <2>1, <2>2 DEF OneOwner
<1> QED BY <1>3, <1>4, <1>5 DEF StreamInv

(* ... and always.                                                         *)
LEMMA StreamAlways == Spec => []StreamInv
<1>1. RefInv /\ StreamInv /\ [Next]_vars => StreamInv'
  BY OrderedStep, ApartStep, OwnerStep, LossStep, CopyStep DEF StreamInv
<1> QED BY RefInvAlways, StreamInit, <1>1, PTL DEF Spec

(* smxch.c delivers in the order of the writes, if the channel does not    *)
(* overwrite or has space for one message only.                            *)
THEOREM OrderSafety == Spec => []OrderedDelivery
<1>1. RefInv /\ StreamInv => OrderedDelivery
  BY OrderedStream DEF StreamInv
<1> QED BY RefInvAlways, StreamAlways, <1>1, PTL

(* Each message has one owner and is freed at most once.                   *)
THEOREM Ownership == Spec => []OneOwner
<1>1. StreamInv => OneOwner
  BY DEF StreamInv
<1> QED BY StreamAlways, <1>1, PTL

(* A blocking input loses nothing that its write does not report, but what *)
(* the content filter takes.                                               *)
THEOREM LossReported == Spec => []NoSilentLoss
<1>1. StreamInv => NoSilentLoss
  BY DEF StreamInv
<1> QED BY StreamAlways, <1>1, PTL

(* A decoupled read repeats the last message, if that one may be repeated. *)
THEOREM CopySafety == Spec => []CopyIsLatest
<1>1. StreamInv => CopyIsLatest
  BY DEF StreamInv, Copied
<1> QED BY StreamAlways, <1>1, PTL
=============================================================================
