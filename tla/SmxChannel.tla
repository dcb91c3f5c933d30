------------------------------ MODULE SmxChannel ------------------------------
(***************************************************************************)
(* One Streamix channel between its producer and its consumer, the threads *)
(* of two nets: smx_channel_write and smx_channel_read with their waits,   *)
(* timeouts, filters, guard and backups, and the termination of each end.  *)
(*                                                                         *)
(* Both functions hold ch_mutex from their first look at the channel to    *)
(* their return, except while they sleep on a condition variable, so that  *)
(* each such stretch is one action.  Only smx_guard_write sleeps with the  *)
(* mutex held: the mutex is taken exactly while the writer is at "guard".  *)
(***************************************************************************)
EXTENDS SmxFifo, FiniteSets

CONSTANTS
  Shapes,     \* the channels considered: [type, length, guarded, and whether
              \*   a read and a write timeout are set]
  MaxWrites,  \* bound: messages the producer creates
  MaxReads,   \* bound: reads the consumer starts
  Prevent,    \* the values of prevent_backup the producer uses
  Filters     \* whether the sink has filters a message may fail

Shape == [type : ChannelType, length : Nat \ {0}, guarded : BOOLEAN,
          readTimeout : BOOLEAN, writeTimeout : BOOLEAN]

ASSUME ShapesAssumption == Shapes \subseteq Shape
ASSUME BoundsAssumption == /\ MaxWrites \in Nat
                           /\ MaxReads \in Nat
                           /\ Prevent \subseteq BOOLEAN
                           /\ Filters \in BOOLEAN

VARIABLES
  ch,       \* the channel
  writer,   \* the producer: pc, the message it is writing, what its last
            \*   write returned and how many messages it has created
  reader,   \* the consumer: pc, what its last read returned and whether that
            \*   is a copy of the backup, and how many reads it has started
  got,      \* history: the messages handed to the consumer, no copies
  dropped   \* history: the messages the channel freed, what the write that
            \*   brought each of them returned and whether a filter took it

vars == <<ch, writer, reader, got, dropped>>

WriterPc == {"idle", "lock", "wait", "guard", "ended"}
ReaderPc == {"idle", "lock", "wait", "ended"}

Writer == [pc : WriterPc, msg : Message \union {NoMsg}, ret : {0, -1},
           created : Nat]
Reader == [pc : ReaderPc, msg : Message \union {NoMsg}, copy : BOOLEAN,
           calls : Nat]
DroppedMessage == [seq : Nat, ret : {0, -1}, filtered : BOOLEAN]

TypeOK == /\ ch \in Channel
          /\ writer \in Writer
          /\ reader \in Reader
          /\ got \in Seq(Message)
          /\ dropped \subseteq DroppedMessage

Init ==
  /\ \E s \in Shapes :
       ch = ChannelCreate(s.type, s.length,
                          IF s.guarded THEN "armed" ELSE "none",
                          s.readTimeout, s.writeTimeout)
  /\ writer = [pc |-> "idle", msg |-> NoMsg, ret |-> 0, created |-> 0]
  /\ reader = [pc |-> "idle", msg |-> NoMsg, copy |-> FALSE, calls |-> 0]
  /\ got = <<>>
  /\ dropped = {}

-----------------------------------------------------------------------------
(* The producer.                                                           *)

Locked == writer.pc = "guard"

WriteReturns(ret) == writer' = [writer EXCEPT !.pc = "idle", !.msg = NoMsg,
                                              !.ret = ret]

Free(seq, ret, filtered) ==
  dropped' = dropped \union {[seq |-> seq, ret |-> ret, filtered |-> filtered]}

Drop(seq, ret) == Free(seq, ret, FALSE)

(* The net creates a message and writes it; no filter rejects it.          *)
WriteCall ==
  /\ writer.pc = "idle" /\ writer.created < MaxWrites
  /\ \E prevent \in Prevent :
       writer' = [writer EXCEPT !.pc = "lock", !.created = @ + 1,
                    !.msg = [seq |-> writer.created + 1,
                             prevent_backup |-> prevent]]
  /\ UNCHANGED <<ch, reader, got, dropped>>

(* The net creates a message a filter of the sink rejects: the type filter *)
(* fails the write, the content filter only discards the message.          *)
WriteFiltered ==
  /\ Filters
  /\ writer.pc = "idle" /\ writer.created < MaxWrites
  /\ \E ret \in {0, -1} :
       /\ writer' = [writer EXCEPT !.ret = ret, !.created = @ + 1]
       /\ Free(writer.created + 1, ret, TRUE)
       /\ ch' = IF ret = -1 THEN SetWriteErr(ch, "FILTER") ELSE ch
  /\ UNCHANGED <<reader, got>>

(* The net writes NULL.                                                    *)
WriteNull ==
  /\ writer.pc = "idle"
  /\ writer' = [writer EXCEPT !.ret = -1]
  /\ ch' = SetWriteErr(ch, "NO_DATA")
  /\ UNCHANGED <<reader, got, dropped>>

(* The producer has the mutex and is about to evaluate the loop condition. *)
WriterTests == \/ writer.pc = "lock"
               \/ writer.pc = "wait" /\ ~ch.sink.waiting

WriteWait ==
  /\ WriterTests /\ ch.sink.state = "PENDING"
  /\ writer' = [writer EXCEPT !.pc = "wait"]
  /\ ch' = [ch EXCEPT !.sink.waiting = TRUE]
  /\ UNCHANGED <<reader, got, dropped>>

(* pthread_cond_timedwait refuses the deadline (its nanoseconds may be     *)
(* 10^9); the error goes to the other end.                                 *)
WriteCvError ==
  /\ WriterTests /\ ch.sink.state = "PENDING" /\ ch.sink.timeout
  /\ ch' = SetReadErr(ch, "CV")
  /\ Drop(writer.msg.seq, -1)
  /\ WriteReturns(-1)
  /\ UNCHANGED <<reader, got>>

(* Mutant: the message is not freed.                                       *)
WriteTimeoutLeaks ==
  /\ writer.pc = "wait" /\ ch.sink.timeout
  /\ ch' = [SetWriteErr(ch, "TIMEOUT") EXCEPT !.sink.waiting = FALSE]
  /\ WriteReturns(-1)
  /\ UNCHANGED <<reader, got, dropped>>

(* The deadline passes.  A signal that comes before the mutex is taken     *)
(* again does not help: the call returns ETIMEDOUT all the same.           *)
WriteTimeout ==
  /\ writer.pc = "wait" /\ ch.sink.timeout
  /\ ch' = [SetWriteErr(ch, "TIMEOUT") EXCEPT !.sink.waiting = FALSE]
  /\ Drop(writer.msg.seq, -1)
  /\ WriteReturns(-1)
  /\ UNCHANGED <<reader, got>>

WriteSpurious ==
  /\ writer.pc = "wait" /\ ch.sink.waiting
  /\ ch' = [ch EXCEPT !.sink.waiting = FALSE]
  /\ UNCHANGED <<writer, reader, got, dropped>>

WriteAbort ==
  /\ WriterTests /\ ch.sink.state = "END"
  /\ ch' = SetWriteErr(ch, "NO_TARGET")
  /\ Drop(writer.msg.seq, -1)
  /\ WriteReturns(-1)
  /\ UNCHANGED <<reader, got>>

(* Mutants: the wait is not a loop; a terminated consumer is overlooked.   *)
WriterMayStoreFull == WriterTests /\ ch.sink.state # "END"
WriterMayStoreEnded == WriterTests /\ ch.sink.state # "PENDING"

WriterMayStore == WriterTests /\ ch.sink.state \notin {"PENDING", "END"}

(* A guarded blocking channel makes the producer sleep until its timer has *)
(* expired, a guarded lossy one discards the message instead.              *)
WriteGuardBlock ==
  /\ WriterMayStore /\ ch.guard # "none" /\ ~DecoupledIn(ch)
  /\ writer' = [writer EXCEPT !.pc = "guard"]
  /\ UNCHANGED <<ch, reader, got, dropped>>

(* Mutant: the write returns the guard's result.                           *)
WriteGuardDropOne ==
  /\ WriterMayStore /\ ch.guard = "armed" /\ DecoupledIn(ch)
  /\ Drop(writer.msg.seq, 0)
  /\ WriteReturns(1)
  /\ UNCHANGED <<ch, reader, got>>

WriteGuardDrop ==
  /\ WriterMayStore /\ ch.guard = "armed" /\ DecoupledIn(ch)
  /\ Drop(writer.msg.seq, 0)
  /\ WriteReturns(0)
  /\ UNCHANGED <<ch, reader, got>>

WriteStore ==
  /\ \/ WriterMayStore /\ ch.guard = "none"
     \/ WriterMayStore /\ ch.guard = "expired" /\ DecoupledIn(ch)
     \/ writer.pc = "guard" /\ ch.guard = "expired"
  /\ ch' = ChannelWrite(ch, writer.msg)
  /\ LET victim == WriteVictim(ch, writer.msg)
     IN  IF victim = NoMsg THEN UNCHANGED dropped ELSE Drop(victim.seq, 0)
  /\ WriteReturns(0)
  /\ UNCHANGED <<reader, got>>

(* Mutant: the consumer is not told.                                       *)
WriterEndSilently ==
  /\ writer.pc = "idle"
  /\ writer' = [writer EXCEPT !.pc = "ended"]
  /\ UNCHANGED <<ch, reader, got, dropped>>

(* The producer's net ends: smx_net_terminate on its output.               *)
WriterEnd ==
  /\ writer.pc = "idle"
  /\ writer' = [writer EXCEPT !.pc = "ended"]
  /\ ch' = TerminateSource(ch)
  /\ UNCHANGED <<reader, got, dropped>>

WriterRuns == \/ WriteCall \/ WriteFiltered \/ WriteNull \/ WriteWait
              \/ WriteCvError \/ WriteTimeout \/ WriteAbort
              \/ WriteGuardBlock \/ WriteGuardDrop \/ WriteStore
              \/ WriterEnd

-----------------------------------------------------------------------------
(* The consumer.                                                           *)

ReadReturns(msg, copy) == reader' = [reader EXCEPT !.pc = "idle", !.msg = msg,
                                                   !.copy = copy]

ReadCall ==
  /\ reader.pc = "idle" /\ reader.calls < MaxReads
  /\ reader' = [reader EXCEPT !.pc = "lock", !.msg = NoMsg, !.copy = FALSE,
                              !.calls = @ + 1]
  /\ UNCHANGED <<ch, writer, got, dropped>>

ReaderTests == /\ ~Locked
               /\ \/ reader.pc = "lock"
                  \/ reader.pc = "wait" /\ ~ch.source.waiting

ReadWait ==
  /\ ReaderTests /\ ch.source.state = "PENDING"
  /\ reader' = [reader EXCEPT !.pc = "wait"]
  /\ ch' = [ch EXCEPT !.source.waiting = TRUE]
  /\ UNCHANGED <<writer, got, dropped>>

ReadCvError ==
  /\ ReaderTests /\ ch.source.state = "PENDING" /\ ch.source.timeout
  /\ ch' = SetReadErr(ch, "CV")
  /\ ReadReturns(NoMsg, FALSE)
  /\ UNCHANGED <<writer, got, dropped>>

ReadTimeout ==
  /\ reader.pc = "wait" /\ ch.source.timeout /\ ~Locked
  /\ ch' = [SetReadErr(ch, "TIMEOUT") EXCEPT !.source.waiting = FALSE]
  /\ ReadReturns(NoMsg, FALSE)
  /\ UNCHANGED <<writer, got, dropped>>

ReadSpurious ==
  /\ reader.pc = "wait" /\ ch.source.waiting
  /\ ch' = [ch EXCEPT !.source.waiting = FALSE]
  /\ UNCHANGED <<writer, reader, got, dropped>>

(* Mutant: a decoupled read repeats its backup while messages wait.        *)
ReadFetchRepeats ==
  /\ ReaderTests /\ ch.source.state # "PENDING"
  /\ LET repeats == DecoupledOut(ch) /\ ch.backup # NoMsg
     IN  /\ ch' = IF repeats THEN [ch EXCEPT !.copied = TRUE] ELSE ChannelRead(ch)
         /\ ReadReturns(IF repeats THEN ch.backup ELSE ChannelReadMsg(ch), repeats)
         /\ got' = IF repeats \/ ch.fifo = <<>> THEN got
                   ELSE Append(got, Head(ch.fifo))
  /\ UNCHANGED <<writer, dropped>>

ReadFetch ==
  /\ ReaderTests /\ ch.source.state # "PENDING"
  /\ ch' = ChannelRead(ch)
  /\ ReadReturns(ChannelReadMsg(ch), ch.fifo = <<>> /\ DecoupledOut(ch)
                                     /\ ch.backup # NoMsg)
  /\ got' = IF ch.fifo = <<>> THEN got ELSE Append(got, Head(ch.fifo))
  /\ UNCHANGED <<writer, dropped>>

(* The consumer's net gives the channel a default message.  The code looks *)
(* for a backup before it locks, but only this thread ever stores one.     *)
ReaderSetsBackup ==
  /\ reader.pc = "idle" /\ ch.backup = NoMsg /\ ~Locked
  /\ ch' = SetBackup(ch, [seq |-> 0, prevent_backup |-> FALSE])
  /\ UNCHANGED <<writer, reader, got, dropped>>

(* Mutant: the producer is not told.                                       *)
ReaderEndSilently ==
  /\ reader.pc = "idle" /\ ~Locked
  /\ reader' = [reader EXCEPT !.pc = "ended"]
  /\ UNCHANGED <<ch, writer, got, dropped>>

(* The consumer's net ends: smx_net_terminate on its input.                *)
ReaderEnd ==
  /\ reader.pc = "idle" /\ ~Locked
  /\ reader' = [reader EXCEPT !.pc = "ended"]
  /\ ch' = TerminateSink(ch)
  /\ UNCHANGED <<writer, got, dropped>>

ReaderRuns == \/ ReadCall \/ ReadWait \/ ReadCvError \/ ReadTimeout
              \/ ReadFetch \/ ReaderSetsBackup \/ ReaderEnd

-----------------------------------------------------------------------------
(* The timer of the guard runs out.                                        *)
GuardExpires ==
  /\ ch.guard = "armed"
  /\ ch' = [ch EXCEPT !.guard = "expired"]
  /\ UNCHANGED <<writer, reader, got, dropped>>

Ended == /\ writer.pc = "ended" /\ reader.pc = "ended"
         /\ UNCHANGED vars

Next == \/ WriterRuns \/ WriteSpurious
        \/ ReaderRuns \/ ReadSpurious
        \/ GuardExpires \/ Ended

(* The threads run and the timer runs out; nothing makes a wake-up         *)
(* spurious.  A net that is not in the channel goes on to write, read or   *)
(* end: a box implementation that never returns promises nothing.          *)
Fairness == WF_vars(WriterRuns) /\ WF_vars(ReaderRuns) /\ WF_vars(GuardExpires)

Spec == Init /\ [][Next]_vars
FairSpec == Spec /\ Fairness
-----------------------------------------------------------------------------
(* Safety.                                                                 *)

(* The state of an end tells the fill of the ring: a consumer blocks only  *)
(* on an empty channel and a producer only on a full one, and neither is   *)
(* let through when there is nothing to read or no space.                  *)
FillAgrees(c) ==
  /\ Len(c.fifo) <= c.length
  /\ c.source.state = "UNINITIALISED" => DecoupledOut(c)
  /\ c.source.state = "PENDING" => c.fifo = <<>> /\ ~DecoupledOut(c)
  /\ c.source.state = "READY" /\ ~DecoupledOut(c) => c.fifo # <<>>
  /\ c.sink.state # "UNINITIALISED"
  /\ c.sink.state = "PENDING" => Full(c) /\ ~DecoupledIn(c)
  /\ c.sink.state = "READY" /\ ~DecoupledIn(c) => ~Full(c)

StateAgreesWithFill == FillAgrees(ch)

(* smxtypes.h calls the errors NO_DATA and NO_SPACE unexpected: no read    *)
(* and no write of a message ever meets them.                              *)
NeverUnexpected ==
  /\ ch.source.err # "NO_DATA"
  /\ ch.sink.err # "NO_SPACE"

(* A thread sleeps on a condition variable only while what it waits for    *)
(* has not happened, so no signal is ever missed; and producer and         *)
(* consumer never sleep at the same time.                                  *)
NoLostWakeup ==
  /\ ch.source.waiting => reader.pc = "wait" /\ ch.source.state = "PENDING"
  /\ ch.sink.waiting => writer.pc = "wait" /\ ch.sink.state = "PENDING"
  /\ ~(ch.source.waiting /\ ch.sink.waiting)

InWriter == IF writer.msg = NoMsg THEN {} ELSE {writer.msg.seq}
InFifo == {ch.fifo[i].seq : i \in DOMAIN ch.fifo}
InReader == {got[i].seq : i \in DOMAIN got}
Freed == {d.seq : d \in dropped}

(* Every message has exactly one owner: the writing producer, the ring,    *)
(* the consumer, or nobody because it was freed, once.  No message leaks,  *)
(* none is freed twice, none is delivered after it was freed.              *)
OneOwner ==
  /\ InWriter \union InFifo \union InReader \union Freed = 1..writer.created
  /\ Cardinality(InWriter) + Len(ch.fifo) + Len(got) + Cardinality(dropped)
       = writer.created

(* A producer in a write has the message it writes, and one that sleeps in *)
(* the guard, with the mutex, has space for it.                            *)
WriterHoldsMessage ==
  /\ writer.pc \in {"lock", "wait", "guard"} <=> writer.msg # NoMsg
  /\ writer.pc = "guard" => /\ ch.sink.state \notin {"PENDING", "END"}
                            /\ ~DecoupledIn(ch)

(* The stream as the consumer sees it, then the ring, then the message     *)
(* being written.                                                          *)
Stream == got \o ch.fifo \o (IF writer.msg = NoMsg THEN <<>>
                                                  ELSE <<writer.msg>>)

(* Messages are read in the order they were written.                       *)
FifoOrder == \A i, j \in DOMAIN Stream : i < j => Stream[i].seq < Stream[j].seq

(* That is so whatever timeouts, filters and guards drop on the way, if    *)
(* the channel does not overwrite or has space for one message only.       *)
OrderedDelivery == ~DecoupledIn(ch) \/ ch.length = 1 => FifoOrder

(* Of a channel with a blocking input no message gets lost behind the      *)
(* producer's back: when a write returns 0 the message reaches the ring,   *)
(* unless the content filter took it.                                      *)
NoSilentLoss ==
  ~DecoupledIn(ch) => \A d \in dropped : d.ret = -1 \/ d.filtered

(* A consumer is told that the producer has terminated only when it has,   *)
(* and when all that was written has been read.                            *)
EndOfStreamIsTrue ==
  ch.source.err = "NO_TARGET" => /\ writer.pc = "ended"
                                 /\ ch.fifo = <<>>
                                 /\ reader.msg = NoMsg

(* A decoupled read repeats the last message that was read, unless that    *)
(* one prevents backups, and it never repeats one that does.               *)
CopyIsLatest ==
  reader.copy =>
    /\ ~reader.msg.prevent_backup
    /\ IF got = <<>> THEN reader.msg.seq = 0
       ELSE got[Len(got)] = reader.msg \/ got[Len(got)].prevent_backup

(* A message is only ever read at the consumer's head of the ring, none    *)
(* enters it once the consumer has ended, and an end that was terminated   *)
(* stays so.                                                               *)
EndIsFinal ==
  [][/\ ch.source.state = "END" => ch'.source.state = "END"
     /\ ch.sink.state = "END" => ch'.sink.state = "END"
     /\ ch.sink.state = "END" => Len(ch'.fifo) <= Len(ch.fifo)]_vars

-----------------------------------------------------------------------------
(* Liveness.                                                               *)

(* A read returns: there is a message, the producer ends or the time is up.*)
EveryReadReturns == reader.pc \in {"lock", "wait"} ~> reader.pc = "idle"

(* A write returns, guarded or not.                                        *)
EveryWriteReturns ==
  writer.pc \in {"lock", "wait", "guard"} ~> writer.pc = "idle"

(* A consumer that goes on reading gets every message, each in its turn:   *)
(* one that is the i-th in the ring when c - i reads have returned is read *)
(* unless the consumer ends before its c-th read or, in a lossy channel, a *)
(* newer message takes its place.  No read that repeats the backup, tells  *)
(* the end or returns nothing may come before it.                          *)
ReadsDone == IF reader.pc \in {"lock", "wait"} THEN reader.calls - 1
                                               ELSE reader.calls
DueAt(n, c) == \E i \in DOMAIN ch.fifo : /\ ch.fifo[i].seq = n
                                         /\ ReadsDone + i = c

EveryMessageIsRead ==
  \A n \in 1..MaxWrites, c \in 1..MaxReads :
    DueAt(n, c) ~> \/ n \in InReader
                   \/ reader.pc = "ended" /\ reader.calls < c
                   \/ DecoupledIn(ch) /\ n \in Freed

-----------------------------------------------------------------------------
(* The abstract channel this one implements.                               *)

Promise == INSTANCE BoundedChannel WITH
  Message <- [seq : 1..MaxWrites, prevent_backup : BOOLEAN],
  kind <- [capacity |-> ch.length, lossy |-> DecoupledIn(ch),
           repeats |-> DecoupledOut(ch)],
  queue <- ch.fifo,
  delivered <- got,
  closed <- ch.source.state = "END",
  abandoned <- ch.sink.state = "END",
  ended <- ch.source.err = "NO_TARGET"

(* The channel with its mutex, waits and errors behaves like the bounded   *)
(* queue: it delivers what was accepted, in the queue's order and once,    *)
(* loses messages only in a lossy channel, and reports the end of the      *)
(* stream after the last message.                                          *)
ImplementsQueue == Promise!Spec

(* And it keeps the queue's liveness: both ends close in the end.          *)
ImplementsFairQueue == Promise!FairSpec

-----------------------------------------------------------------------------
(* What the documentation says and the code does not do: FifoOrder in a    *)
(* lossy channel, which smxtypes.h calls "a FIFO with decoupled input" and *)
(* of which smxch.h says that its tail is overwritten, and the following.  *)

(* smxch.h says of a write that returns -1 that SMX_GET_WRITE_ERROR gives  *)
(* the cause.                                                              *)
FailedWriteHasCause == writer.ret = -1 => ch.sink.err # "NONE"
=============================================================================
