------------------------------- MODULE SmxFifo -------------------------------
(***************************************************************************)
(* A Streamix channel as a value: the record smx_channel_t with its FIFO,  *)
(* guard and two ends, and the functions of smxch.c that read or change it *)
(* with the channel mutex held.  The operators are pure: each takes the    *)
(* channel as it was when the function was entered and gives the channel   *)
(* as the function leaves it.  SmxChannel, SmxRoutingNode and              *)
(* SmxTempFirewall build their critical sections from them.                *)
(*                                                                         *)
(* The end a consumer reads from is the channel's "source", the end a      *)
(* producer writes to is its "sink", as in the code.                       *)
(***************************************************************************)
EXTENDS Integers, Sequences

CONSTANT NoMsg  \* the NULL message pointer

(* A message is the position of its payload in the stream its producer     *)
(* wrote, and the flag that keeps it out of backups.  A copy has the       *)
(* payload and the flag of the message it was made from.                   *)
Message == [seq : Nat, prevent_backup : BOOLEAN]

ASSUME NoMsgAssumption == NoMsg \notin Message

ChannelType == {"FIFO", "FIFO_D", "D_FIFO", "D_FIFO_D"}
EndState == {"UNINITIALISED", "PENDING", "READY", "END"}
EndErr == {"NONE", "NO_DEFAULT", "NO_TARGET", "DL_MISS", "NO_DATA", "NO_SPACE",
           "FILTER", "TIMEOUT", "CV"}

(* One end: its state, its error, whether a thread sleeps on its condition *)
(* variable, and whether a timeout is set on it.                           *)
ChannelEnd == [state : EndState, err : EndErr, waiting : BOOLEAN,
               timeout : BOOLEAN]

(* The guard's timer: no guard, armed (time is left), or expired.          *)
GuardState == {"none", "armed", "expired"}

(* The ring of the FIFO is the sequence of its messages, oldest first.  Of *)
(* the counters overwrite and copy the code uses only whether they are 0.  *)
Channel == [type : ChannelType, length : Nat \ {0}, fifo : Seq(Message),
            backup : Message \union {NoMsg}, overwritten : BOOLEAN,
            copied : BOOLEAN, guard : GuardState,
            source : ChannelEnd, sink : ChannelEnd]

-----------------------------------------------------------------------------
(* The two kinds of decoupling.                                            *)

DecoupledIn(ch) == ch.type \in {"D_FIFO", "D_FIFO_D"}   \* writes never block
DecoupledOut(ch) == ch.type \in {"FIFO_D", "D_FIFO_D"}  \* reads never block

NewEnd(state, timeout) ==
  [state |-> state, err |-> "NONE", waiting |-> FALSE, timeout |-> timeout]

ChannelCreate(type, length, guard, readTimeout, writeTimeout) ==
  [type |-> type, length |-> length, fifo |-> <<>>, backup |-> NoMsg,
   overwritten |-> FALSE, copied |-> FALSE, guard |-> guard,
   source |-> NewEnd(IF type \in {"FIFO_D", "D_FIFO_D"}
                     THEN "UNINITIALISED" ELSE "PENDING", readTimeout),
   sink |-> NewEnd("READY", writeTimeout)]

-----------------------------------------------------------------------------
(* State changes.  Only a change signals, and a terminated end is final.   *)

(* Mutants: a terminated end is opened again; nobody is signalled.         *)
SetStateReopens(end, state) ==
  IF end.state = state THEN end
  ELSE [end EXCEPT !.state = state, !.waiting = FALSE]

SetStateSilently(end, state) ==
  IF end.state \in {state, "END"} THEN end ELSE [end EXCEPT !.state = state]

SetState(end, state) ==
  IF end.state \in {state, "END"} THEN end
  ELSE [end EXCEPT !.state = state, !.waiting = FALSE]

ChangeReadState(ch, state) == [ch EXCEPT !.source = SetState(@, state)]
ChangeWriteState(ch, state) == [ch EXCEPT !.sink = SetState(@, state)]

SetReadErr(ch, err) == [ch EXCEPT !.source.err = err]
SetWriteErr(ch, err) == [ch EXCEPT !.sink.err = err]

TerminateSink(ch) == ChangeWriteState(ch, "END")
TerminateSource(ch) == ChangeReadState(ch, "END")

-----------------------------------------------------------------------------
(* Reading.  XMsg is the message function X returns, X the channel after.  *)

Pop(ch) == [ch EXCEPT !.fifo = Tail(@), !.source.err = "NONE"]

FifoReadMsg(ch) == IF ch.fifo = <<>> THEN NoMsg ELSE Head(ch.fifo)

(* Mutants: the last message leaves the end READY; the end of the producer *)
(* is looked at before the ring.                                           *)
FifoReadStaysReady(ch) ==
  IF ch.fifo = <<>>
  THEN SetReadErr(ch, IF ch.source.state = "END" THEN "NO_TARGET"
                                                 ELSE "NO_DATA")
  ELSE Pop(ch)

FifoReadEndFirst(ch) ==
  IF ch.source.state = "END" THEN SetReadErr(ch, "NO_TARGET")
  ELSE IF ch.fifo = <<>> THEN SetReadErr(ch, "NO_DATA")
  ELSE IF Tail(ch.fifo) = <<>> THEN ChangeReadState(Pop(ch), "PENDING")
                               ELSE Pop(ch)

FifoRead(ch) ==
  IF ch.fifo = <<>>
  THEN SetReadErr(ch, IF ch.source.state = "END" THEN "NO_TARGET"
                                                 ELSE "NO_DATA")
  ELSE IF Tail(ch.fifo) = <<>> THEN ChangeReadState(Pop(ch), "PENDING")
                               ELSE Pop(ch)

FifoDReadMsg(ch) == IF ch.fifo = <<>> THEN ch.backup ELSE Head(ch.fifo)

(* Mutant: prevent_backup is ignored.                                      *)
FifoDReadBacksUpAll(ch) ==
  IF ch.fifo # <<>>
  THEN [Pop(ch) EXCEPT !.copied = FALSE,
          !.backup = IF Tail(ch.fifo) = <<>> THEN Head(ch.fifo) ELSE @]
  ELSE IF ch.backup # NoMsg
       THEN [SetReadErr(ch, "NONE") EXCEPT !.copied = TRUE]
       ELSE SetReadErr(ch, "NO_DEFAULT")

FifoDRead(ch) ==
  IF ch.fifo # <<>>
  THEN LET last == Tail(ch.fifo) = <<>> /\ ~Head(ch.fifo).prevent_backup
       IN  [Pop(ch) EXCEPT !.backup = IF last THEN Head(ch.fifo) ELSE @,
                           !.copied = FALSE]
  ELSE IF ch.backup # NoMsg
       THEN [SetReadErr(ch, "NONE") EXCEPT !.copied = TRUE]
       ELSE SetReadErr(ch, "NO_DEFAULT")

(* How a temporal firewall without duplication reads.                      *)
FifoDDRead(ch) ==
  IF ch.fifo # <<>> THEN Pop(ch)
  ELSE SetReadErr(ch, IF ch.source.state = "END" THEN "NO_TARGET"
                                                 ELSE "DL_MISS")

(* The switch of smx_channel_read on the channel type, and the wake-up of  *)
(* the producer that follows it.                                           *)
ChannelReadMsg(ch) == IF DecoupledOut(ch) THEN FifoDReadMsg(ch)
                                          ELSE FifoReadMsg(ch)

(* Mutant: the producer is not told that there is space.                   *)
ChannelReadAlone(ch) == IF DecoupledOut(ch) THEN FifoDRead(ch) ELSE FifoRead(ch)

ChannelRead(ch) ==
  ChangeWriteState(IF DecoupledOut(ch) THEN FifoDRead(ch) ELSE FifoRead(ch),
                   "READY")

-----------------------------------------------------------------------------
(* Writing.                                                                *)

Full(ch) == Len(ch.fifo) >= ch.length

(* Mutant: a ring that has become full leaves the end READY.               *)
FifoWriteStaysReady(ch, msg) ==
  IF Full(ch) THEN SetWriteErr(ch, "NO_SPACE")
              ELSE [ch EXCEPT !.fifo = Append(@, msg)]

FifoWrite(ch, msg) ==
  IF Full(ch)
  THEN SetWriteErr(ch, "NO_SPACE")
  ELSE LET stored == [ch EXCEPT !.fifo = Append(@, msg)]
       IN  IF Full(stored) THEN ChangeWriteState(stored, "PENDING")
                           ELSE stored

(* A full ring has its tail where its head is: the message overwritten is  *)
(* the one that would have been read next.                                 *)
DFifoWrite(ch, msg) ==
  IF Full(ch)
  THEN [ch EXCEPT !.fifo = [@ EXCEPT ![1] = msg], !.overwritten = TRUE]
  ELSE [ch EXCEPT !.fifo = Append(@, msg), !.overwritten = FALSE]

(* The message a write frees: the overwritten one, the message itself when *)
(* a FIFO that should have space has none, or nothing.                     *)
WriteVictim(ch, msg) == IF ~Full(ch) THEN NoMsg
                        ELSE IF DecoupledIn(ch) THEN Head(ch.fifo) ELSE msg

(* A passed guard is armed again for the next inter-arrival time.          *)
Rearm(ch) == [ch EXCEPT !.guard = IF @ = "none" THEN @ ELSE "armed"]

(* Mutant: the two cases of the switch are swapped.                        *)
StoreMsgSwapped(ch, msg) == IF DecoupledIn(ch) THEN FifoWrite(ch, msg)
                                               ELSE DFifoWrite(ch, msg)

(* The switch of smx_channel_write on the channel type, once the guard let *)
(* the message pass, and the wake-up of the consumer that ends the write.  *)
StoreMsg(ch, msg) == IF DecoupledIn(ch) THEN DFifoWrite(ch, msg)
                                        ELSE FifoWrite(ch, msg)

ChannelWrite(ch, msg) == ChangeReadState(StoreMsg(Rearm(ch), msg), "READY")

SetBackup(ch, msg) == [ch EXCEPT !.backup = msg]
=============================================================================
