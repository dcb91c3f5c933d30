---------------------------- MODULE SmxChannelRing ----------------------------
(***************************************************************************)
(* The memory beneath a channel: smx_fifo_create makes a ring of slots,    *)
(* linked both ways, in which head is the slot to be read and tail the     *)
(* slot to be written next, both of them moving along prev.  The ring runs *)
(* beside SmxChannel, which has the messages as a sequence: each write and *)
(* each read changes both, and the ring decides by its own counter.        *)
(***************************************************************************)
EXTENDS SmxChannel

VARIABLE ring  \* the slots' messages and links, head, tail, count, how many
               \*   slots smx_fifo_destroy has freed, and history: which, and
               \*   the messages it found in them

rvars == <<vars, ring>>

Slots(length) == 0 .. length - 1

(* smx_fifo_create: the slots are chained as they are allocated, and the   *)
(* last one is linked to the first.                                        *)
RingCreate(length) ==
  [msg |-> [s \in Slots(length) |-> NoMsg],
   prev |-> [s \in Slots(length) |-> IF s = 0 THEN length - 1 ELSE s - 1],
   next |-> [s \in Slots(length) |-> IF s = length - 1 THEN 0 ELSE s + 1],
   head |-> length - 1, tail |-> length - 1, count |-> 0,
   gone |-> 0, slots |-> {}, freed |-> {}]

(* smx_fifo_read, smx_fifo_d_read and smx_fifo_dd_read: their common part. *)
RingRead(r) ==
  IF r.count > 0
  THEN [r EXCEPT !.msg[r.head] = NoMsg, !.head = r.prev[r.head],
                 !.count = @ - 1]
  ELSE r

(* Mutant: an overwritten message makes the tail go on.                    *)
RingWriteMovesOn(r, length, lossy, msg) ==
  IF r.count < length
  THEN [r EXCEPT !.msg[r.tail] = msg, !.tail = r.prev[r.tail], !.count = @ + 1]
  ELSE IF lossy THEN [r EXCEPT !.msg[r.tail] = msg, !.tail = r.prev[r.tail]]
                ELSE r

(* smx_fifo_write and smx_d_fifo_write.                                    *)
RingWrite(r, length, lossy, msg) ==
  IF r.count < length
  THEN [r EXCEPT !.msg[r.tail] = msg, !.tail = r.prev[r.tail], !.count = @ + 1]
  ELSE IF lossy THEN [r EXCEPT !.msg[r.tail] = msg]
                ELSE r

RInit == Init /\ ring = RingCreate(ch.length)

ChannelStep ==
  /\ ring.gone = 0
  /\ \/ /\ WriteStore
        /\ ring' = RingWrite(ring, ch.length, DecoupledIn(ch), writer.msg)
     \/ ReadFetch /\ ring' = RingRead(ring)
     \/ Next /\ ~WriteStore /\ ~ReadFetch /\ ring' = ring

(* smx_channel_destroy, when both nets have terminated and been joined:    *)
(* smx_fifo_destroy frees a slot with its message and goes on along next,  *)
(* as often as there are slots.                                            *)
DestroySlot ==
  /\ writer.pc = "ended" /\ reader.pc = "ended" /\ ring.gone < ch.length
  /\ ring' = [ring EXCEPT !.tail = ring.head, !.head = ring.next[ring.head],
                !.gone = @ + 1, !.slots = @ \union {ring.head},
                !.freed = @ \union ({ring.msg[ring.head]} \ {NoMsg})]
  /\ UNCHANGED vars

Destroyed == ring.gone = ch.length /\ UNCHANGED rvars

RNext == ChannelStep \/ DestroySlot \/ Destroyed

RSpec == RInit /\ [][RNext]_rvars
RFairSpec == RSpec /\ Fairness

-----------------------------------------------------------------------------
(* The slot k steps along prev from slot s.                                *)
Back(s, k, length) == IF s >= k THEN s - k ELSE s - k + length

(* From the slot first on, along prev, the slots hold the messages in the  *)
(* order in which they are read, and every other slot is empty.            *)
Holds(r, first, fifo, length) ==
  \A k \in 0 .. length - 1 :
    r.msg[Back(first, k, length)] = IF k < Len(fifo) THEN fifo[k + 1] ELSE NoMsg

(* The ring and the sequence of messages never part, after any number of   *)
(* rounds and overwritten messages: the ring holds them from head on, tail *)
(* comes after the last of them, and the counter is right.  Destroying it  *)
(* frees every slot, none twice, and just the messages not read.           *)
RingHoldsFifo ==
  /\ ring.count = Len(ch.fifo)
  /\ ring.gone = 0 =>
       /\ ring.tail = Back(ring.head, IF ring.count = ch.length THEN 0
                                                   ELSE ring.count, ch.length)
       /\ Holds(ring, ring.head, ch.fifo, ch.length)
  /\ ring.gone = ch.length =>
       /\ ring.slots = Slots(ch.length)
       /\ ring.freed = {ch.fifo[i] : i \in DOMAIN ch.fifo}
=============================================================================
