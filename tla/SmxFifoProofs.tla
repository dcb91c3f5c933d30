----------------------------- MODULE SmxFifoProofs -----------------------------
(***************************************************************************)
(* What the functions of SmxFifo preserve and what they leave alone, for   *)
(* every channel: the lemmas the proofs about its users rest on.           *)
(***************************************************************************)
EXTENDS SmxFifo, SequenceTheorems, TLAPS

(* A state change leaves an end an end.                                    *)
LEMMA SetStateType ==
  ASSUME NEW end \in ChannelEnd, NEW state \in EndState
  PROVE  /\ SetState(end, state) \in ChannelEnd
         /\ SetState(end, state).err = end.err
         /\ SetState(end, state).timeout = end.timeout
         /\ SetState(end, state).state =
              IF end.state = "END" THEN "END" ELSE state
         /\ SetState(end, state).waiting =>
              end.waiting /\ SetState(end, state).state = end.state
BY DEF SetState, ChannelEnd

(* A state change at either end leaves a channel a channel.                *)
LEMMA ChangeReadStateType ==
  ASSUME NEW c \in Channel, NEW state \in EndState
  PROVE  ChangeReadState(c, state) \in Channel
BY SetStateType DEF ChangeReadState, Channel

(* The same for the producer's end.                                        *)
LEMMA ChangeWriteStateType ==
  ASSUME NEW c \in Channel, NEW state \in EndState
  PROVE  ChangeWriteState(c, state) \in Channel
BY SetStateType DEF ChangeWriteState, Channel

(* So does an error reported to the consumer.                              *)
LEMMA SetReadErrType ==
  ASSUME NEW c \in Channel, NEW err \in EndErr
  PROVE  SetReadErr(c, err) \in Channel
BY DEF SetReadErr, Channel, ChannelEnd

(* And one reported to the producer.                                       *)
LEMMA SetWriteErrType ==
  ASSUME NEW c \in Channel, NEW err \in EndErr
  PROVE  SetWriteErr(c, err) \in Channel
BY DEF SetWriteErr, Channel, ChannelEnd

(* Taking the oldest message leaves a channel a channel.                   *)
LEMMA PopType ==
  ASSUME NEW c \in Channel, c.fifo # <<>>
  PROVE  Pop(c) \in Channel
<1>1. Tail(c.fifo) \in Seq(Message)
  BY DEF Channel
<1>2. [c.source EXCEPT !.err = "NONE"] \in ChannelEnd
  BY DEF Channel, ChannelEnd, EndErr
<1> QED BY <1>1, <1>2 DEF Pop, Channel

(* smx_fifo_write leaves a channel a channel, full or not.                 *)
LEMMA FifoWriteType ==
  ASSUME NEW c \in Channel, NEW m \in Message
  PROVE  FifoWrite(c, m) \in Channel
<1> DEFINE stored == [c EXCEPT !.fifo = Append(@, m)]
<1>1. Append(c.fifo, m) \in Seq(Message)
  BY DEF Channel
<1>2. stored \in Channel
  BY <1>1 DEF Channel
<1>3. ChangeWriteState(stored, "PENDING") \in Channel
  BY <1>2, ChangeWriteStateType DEF EndState
<1>4. SetWriteErr(c, "NO_SPACE") \in Channel
  BY SetWriteErrType DEF EndErr
<1> QED BY <1>2, <1>3, <1>4 DEF FifoWrite

(* smx_d_fifo_write does, whether it appends or overwrites.                *)
LEMMA DFifoWriteType ==
  ASSUME NEW c \in Channel, NEW m \in Message
  PROVE  DFifoWrite(c, m) \in Channel
<1>1. CASE Full(c)
  <2>1. c.fifo \in Seq(Message) /\ Len(c.fifo) >= 1
    BY <1>1 DEF Full, Channel
  <2>2. [c.fifo EXCEPT ![1] = m] \in Seq(Message)
    BY <2>1, ExceptSeq
  <2>3. \A f \in Seq(Message) :
           [c EXCEPT !.fifo = f, !.overwritten = TRUE] \in Channel
    BY DEF Channel
  <2> QED BY <1>1, <2>2, <2>3 DEF DFifoWrite
<1>2. CASE ~Full(c)
  <2>1. Append(c.fifo, m) \in Seq(Message)
    BY DEF Channel
  <2>2. \A f \in Seq(Message) :
           [c EXCEPT !.fifo = f, !.overwritten = FALSE] \in Channel
    BY DEF Channel
  <2> QED BY <1>2, <2>1, <2>2 DEF DFifoWrite
<1> QED BY <1>1, <1>2

(* Passing the guard changes nothing but the guard.                        *)
LEMMA RearmType ==
  ASSUME NEW c \in Channel
  PROVE  /\ Rearm(c) \in Channel
         /\ Rearm(c) = [c EXCEPT !.guard = Rearm(c).guard]
BY DEF Rearm, Channel, GuardState

(* smx_fifo_read leaves a channel a channel.                               *)
LEMMA FifoReadType ==
  ASSUME NEW c \in Channel
  PROVE  FifoRead(c) \in Channel
<1>1. CASE c.fifo = <<>>
  BY <1>1, SetReadErrType DEF FifoRead, EndErr
<1>2. CASE c.fifo # <<>>
  BY <1>2, PopType, ChangeReadStateType DEF FifoRead, EndState
<1> QED BY <1>1, <1>2

(* smx_fifo_d_read does, whether it takes a message, makes a copy or fails.*)
LEMMA FifoDReadType ==
  ASSUME NEW c \in Channel
  PROVE  FifoDRead(c) \in Channel
<1>1. CASE c.fifo # <<>>
  <2>1. Head(c.fifo) \in Message
    BY <1>1 DEF Channel
  <2>2. Pop(c) \in Channel
    BY <1>1, PopType
  <2>3. \A b \in Message \union {NoMsg} :
           [Pop(c) EXCEPT !.backup = b, !.copied = FALSE] \in Channel
    BY <2>2 DEF Channel
  <2>4. Pop(c).backup \in Message \union {NoMsg}
    BY <2>2 DEF Channel
  <2> QED BY <1>1, <2>1, <2>3, <2>4 DEF FifoDRead
<1>2. CASE c.fifo = <<>>
  <2>1. /\ SetReadErr(c, "NONE") \in Channel
        /\ SetReadErr(c, "NO_DEFAULT") \in Channel
    BY SetReadErrType DEF EndErr
  <2>2. [SetReadErr(c, "NONE") EXCEPT !.copied = TRUE] \in Channel
    BY <2>1 DEF Channel
  <2> QED BY <1>2, <2>1, <2>2 DEF FifoDRead
<1> QED BY <1>1, <1>2

(* The locked part of smx_channel_read leaves a channel a channel.         *)
LEMMA ChannelReadType ==
  ASSUME NEW c \in Channel
  PROVE  ChannelRead(c) \in Channel
BY FifoReadType, FifoDReadType, ChangeWriteStateType DEF ChannelRead, EndState

(* The locked part of smx_channel_write leaves a channel a channel.        *)
LEMMA ChannelWriteType ==
  ASSUME NEW c \in Channel, NEW m \in Message
  PROVE  ChannelWrite(c, m) \in Channel
BY RearmType, FifoWriteType, DFifoWriteType, ChangeReadStateType
   DEF ChannelWrite, StoreMsg, EndState

-----------------------------------------------------------------------------
(* What the functions leave alone.                                         *)

(* A read wakes the producer, never ends or reopens an end, and takes at   *)
(* most the oldest message.                                                *)
LEMMA ReadFrame ==
  ASSUME NEW c \in Channel
  PROVE  LET r == ChannelRead(c)
         IN  /\ r.type = c.type /\ r.length = c.length
             /\ r.sink.state = IF c.sink.state = "END" THEN "END" ELSE "READY"
             /\ r.sink.err = c.sink.err
             /\ r.sink.waiting => c.sink.waiting /\ r.sink.state = c.sink.state
             /\ r.source.waiting => c.source.waiting
                                     /\ r.source.state = c.source.state
             /\ r.source.state = "END" <=> c.source.state = "END"
             /\ r.fifo = IF c.fifo = <<>> THEN <<>> ELSE Tail(c.fifo)
BY DEF ChannelRead, ChangeWriteState, FifoRead, FifoDRead, SetReadErr, Pop,
       ChangeReadState, SetState, Channel, ChannelEnd

(* A write wakes the consumer, never ends or reopens an end, and appends   *)
(* its message unless the ring is full.                                    *)
LEMMA WriteFrame ==
  ASSUME NEW c \in Channel, NEW m \in Message
  PROVE  LET w == ChannelWrite(c, m)
         IN  /\ w.type = c.type /\ w.length = c.length
             /\ w.source.state = IF c.source.state = "END" THEN "END" ELSE "READY"
             /\ w.source.err = c.source.err
             /\ w.source.waiting => c.source.waiting
                                     /\ w.source.state = c.source.state
             /\ w.sink.waiting => c.sink.waiting /\ w.sink.state = c.sink.state
             /\ w.sink.state = "END" <=> c.sink.state = "END"
             /\ ~Full(c) => w.fifo = Append(c.fifo, m)
BY DEF ChannelWrite, StoreMsg, ChangeWriteState, FifoWrite, DFifoWrite, SetWriteErr, Rearm,
       ChangeReadState, SetState, Channel, ChannelEnd, Full

(* An error reported to the producer changes nothing else.                 *)
LEMMA WriteErrFrame ==
  ASSUME NEW c \in Channel, NEW err
  PROVE  /\ SetWriteErr(c, err).type = c.type
         /\ SetWriteErr(c, err).length = c.length
         /\ SetWriteErr(c, err).fifo = c.fifo
         /\ SetWriteErr(c, err).guard = c.guard
         /\ SetWriteErr(c, err).source = c.source
         /\ SetWriteErr(c, err).sink.state = c.sink.state
         /\ SetWriteErr(c, err).sink.waiting = c.sink.waiting
         /\ SetWriteErr(c, err).sink.err = err
BY DEF SetWriteErr, Channel, ChannelEnd

(* An error reported to the consumer changes nothing else.                 *)
LEMMA ReadErrFrame ==
  ASSUME NEW c \in Channel, NEW err
  PROVE  /\ SetReadErr(c, err).type = c.type
         /\ SetReadErr(c, err).length = c.length
         /\ SetReadErr(c, err).fifo = c.fifo
         /\ SetReadErr(c, err).guard = c.guard
         /\ SetReadErr(c, err).sink = c.sink
         /\ SetReadErr(c, err).source.state = c.source.state
         /\ SetReadErr(c, err).source.waiting = c.source.waiting
         /\ SetReadErr(c, err).source.err = err
BY DEF SetReadErr, Channel, ChannelEnd
=============================================================================
