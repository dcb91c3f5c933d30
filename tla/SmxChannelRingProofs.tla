-------------------------- MODULE SmxChannelRingProofs --------------------------
(***************************************************************************)
(* The ring of slots holds what the sequence of SmxChannel says, for every *)
(* length and any number of rounds, and its destruction frees every slot.  *)
(***************************************************************************)
EXTENDS SmxChannelRing, SmxChannelProofs

Ring(length) ==
  [msg : [Slots(length) -> Message \union {NoMsg}],
   prev : [Slots(length) -> Slots(length)],
   next : [Slots(length) -> Slots(length)],
   head : Slots(length), tail : Slots(length), count : Nat,
   gone : 0 .. length, slots : SUBSET Slots(length), freed : SUBSET Message]

(* next leads back to where prev came from: on along next is all the way   *)
(* round along prev but one.                                               *)
Linked(r, length) ==
  \A s \in Slots(length) : /\ r.prev[s] = Back(s, 1, length)
                           /\ r.next[s] = Back(s, length - 1, length)

(* A ring that nobody has begun to destroy holds these messages.           *)
Agrees(r, fifo, length) ==
  /\ r.count = Len(fifo)
  /\ r.tail = Back(r.head, IF r.count = length THEN 0 ELSE r.count, length)
  /\ Holds(r, r.head, fifo, length)

(* The slot that was head when the destruction began.                      *)
First(r, length) == Back(r.head, r.gone, length)

(* In a ring that is being destroyed the slots behind head are freed.      *)
Freeing(r, fifo, length) ==
  /\ r.count = Len(fifo)
  /\ Holds(r, First(r, length), fifo, length)
  /\ r.slots = {Back(r.head, k, length) : k \in 1 .. r.gone}
  /\ r.freed = {r.msg[s] : s \in r.slots} \ {NoMsg}

RingInv ==
  /\ ring \in Ring(ch.length)
  /\ Linked(ring, ch.length)
  /\ ring.gone = 0 => Agrees(ring, ch.fifo, ch.length)
  /\ Freeing(ring, ch.fifo, ch.length)

-----------------------------------------------------------------------------
(* Steps along prev.                                                       *)

(* They stay on the ring, add up, and all the way round is back where one  *)
(* was; no two of less than that lead to the same slot.                    *)
LEMMA BackSteps ==
  ASSUME NEW length \in Nat \ {0}, NEW s \in Slots(length)
  PROVE  /\ \A k \in 0 .. length : Back(s, k, length) \in Slots(length)
         /\ Back(s, 0, length) = s /\ Back(s, length, length) = s
         /\ \A j, k \in 0 .. length : j + k <= length =>
              Back(Back(s, j, length), k, length) = Back(s, j + k, length)
         /\ \A j, k \in 0 .. length - 1 :
              Back(s, j, length) = Back(s, k, length) => j = k
BY DEF Back, Slots

(* Every slot is reached.                                                  *)
LEMMA BackReaches ==
  ASSUME NEW length \in Nat \ {0}, NEW s \in Slots(length),
         NEW t \in Slots(length)
  PROVE  /\ \E k \in 0 .. length - 1 : Back(s, k, length) = t
         /\ \E k \in 1 .. length : Back(s, k, length) = t
<1> DEFINE k == IF t <= s THEN s - t ELSE s - t + length
           j == IF t < s THEN s - t ELSE s - t + length
<1>1. k \in 0 .. length - 1 /\ Back(s, k, length) = t
  BY DEF Back, Slots
<1>2. j \in 1 .. length /\ Back(s, j, length) = t
  BY DEF Back, Slots
<1> QED BY <1>1, <1>2

(* A step along next is undone by one along prev.                          *)
LEMMA BackNext ==
  ASSUME NEW length \in Nat \ {0}, NEW s \in Slots(length)
  PROVE  LET n == Back(s, length - 1, length)
         IN  /\ n \in Slots(length)
             /\ \A k \in 0 .. length - 1 :
                  Back(n, k + 1, length) = Back(s, k, length)
BY DEF Back, Slots

-----------------------------------------------------------------------------
(* The operations.                                                         *)

(* A new ring is empty, and nothing of it is freed.                        *)
LEMMA CreateHolds ==
  ASSUME NEW length \in Nat \ {0}
  PROVE  LET r == RingCreate(length)
         IN  /\ r \in Ring(length) /\ Linked(r, length) /\ r.gone = 0
             /\ Agrees(r, <<>>, length) /\ Freeing(r, <<>>, length)
<1> DEFINE r == RingCreate(length)
<1>1. /\ r \in Ring(length) /\ r.gone = 0
      /\ r.slots = {} /\ r.freed = {} /\ r.count = 0 /\ r.tail = r.head
      /\ r.head \in Slots(length)
      /\ \A s \in Slots(length) : r.msg[s] = NoMsg
  BY DEF RingCreate, Ring, Slots
<1>2. Linked(r, length)
  BY DEF RingCreate, Linked, Back, Slots
<1> HIDE DEF r
<1>3. Holds(r, r.head, <<>>, length)
  BY <1>1, BackSteps DEF Holds
<1>4. Agrees(r, <<>>, length)
  BY <1>1, <1>3, BackSteps DEF Agrees
<1>5. Freeing(r, <<>>, length)
  BY <1>1, <1>3, BackSteps DEF Freeing, First
<1> QED BY <1>1, <1>2, <1>4, <1>5 DEF r

(* A read takes the message at head and moves head along prev.             *)
LEMMA ReadHolds ==
  ASSUME NEW length \in Nat \ {0}, NEW r \in Ring(length), Linked(r, length),
         NEW f \in Seq(Message), Len(f) <= length, f # <<>>, Agrees(r, f, length)
  PROVE  /\ RingRead(r) \in Ring(length)
         /\ Agrees(RingRead(r), Tail(f), length)
<1> DEFINE h == Back(r.head, 1, length)
           q == RingRead(r)
<1>1. /\ r.count = Len(f) /\ Len(f) \in 1 .. length
      /\ r.head \in Slots(length) /\ r.prev[r.head] = h
      /\ r.msg \in [Slots(length) -> Message \union {NoMsg}]
      /\ h \in Slots(length)
      /\ Holds(r, r.head, f, length)
  <2>1. Len(f) \in 1 .. length
    OBVIOUS
  <2>2. r.head \in Slots(length)
        /\ r.msg \in [Slots(length) -> Message \union {NoMsg}]
    BY DEF Ring
  <2>3. h \in Slots(length)
    BY <2>2, BackSteps
  <2> QED BY <2>1, <2>2, <2>3 DEF Agrees, Linked
<1>2. /\ q.msg = [r.msg EXCEPT ![r.head] = NoMsg] /\ q.head = h
      /\ q.count = r.count - 1 /\ q.tail = r.tail /\ q \in Ring(length)
  <2> DEFINE M == [r.msg EXCEPT ![r.head] = NoMsg]
  <2>1. M \in [Slots(length) -> Message \union {NoMsg}]
    BY <1>1
  <2>2. q = [r EXCEPT !.msg = M, !.head = h, !.count = r.count - 1]
    BY <1>1 DEF RingRead, Ring
  <2> HIDE DEF q, M, h
  <2>3. r.count - 1 \in Nat
    BY <1>1
  <2>4. q.msg = M /\ q.head = h /\ q.count = r.count - 1 /\ q.tail = r.tail
        /\ q \in Ring(length)
    BY <1>1, <2>1, <2>2, <2>3 DEF Ring
  <2> QED BY <2>4 DEF M
<1>3. q \in Ring(length)
  BY <1>2
<1>4. \A k \in 0 .. length - 1 : Back(h, k, length) = Back(r.head, k + 1, length)
  BY <1>1, BackSteps
<1> HIDE DEF h, q
<1>5. /\ Len(Tail(f)) = Len(f) - 1
      /\ \A i \in 1 .. Len(f) - 1 : Tail(f)[i] = f[i + 1]
  OBVIOUS
<1>6. q.tail = Back(h, Len(f) - 1, length)
  <2>1. CASE Len(f) = length
    BY <1>1, <1>2, <1>4, <2>1, BackSteps DEF Agrees
  <2>2. CASE Len(f) # length
    BY <1>1, <1>2, <1>4, <2>2 DEF Agrees
  <2> QED BY <2>1, <2>2
<1>7. ASSUME NEW k \in 0 .. length - 1
      PROVE  q.msg[Back(h, k, length)] =
               IF k < Len(Tail(f)) THEN Tail(f)[k + 1] ELSE NoMsg
  <2>1. CASE k = length - 1
    <3>1. Back(h, k, length) = r.head
      BY <1>1, <1>4, <2>1, BackSteps
    <3> QED BY <1>1, <1>2, <1>5, <2>1, <3>1
  <2>2. CASE k < length - 1
    <3>1. /\ Back(h, k, length) = Back(r.head, k + 1, length)
          /\ Back(r.head, k + 1, length) \in Slots(length)
          /\ Back(r.head, k + 1, length) # r.head
      <4>1. k + 1 \in 0 .. length - 1 /\ 0 \in 0 .. length - 1 /\ k + 1 # 0
        BY <2>2
      <4> QED BY <1>1, <1>4, <4>1, BackSteps
    <3>2. q.msg[Back(h, k, length)] = r.msg[Back(r.head, k + 1, length)]
      <4> DEFINE t == Back(r.head, k + 1, length)
      <4>1. t \in Slots(length) /\ t # r.head /\ Back(h, k, length) = t
        BY <3>1
      <4> HIDE DEF t
      <4> QED BY <1>1, <1>2, <4>1 DEF t
    <3>3. r.msg[Back(r.head, k + 1, length)] =
            IF k + 1 < Len(f) THEN f[k + 1 + 1] ELSE NoMsg
      <4>1. k + 1 \in 0 .. length - 1
        BY <2>2
      <4> QED BY <1>1, <4>1, Zenon DEF Holds
    <3> QED BY <1>1, <1>5, <3>2, <3>3
  <2> QED BY <2>1, <2>2
<1>8. Agrees(q, Tail(f), length)
  <2>1. Holds(q, q.head, Tail(f), length)
    BY <1>2, <1>7 DEF Holds
  <2>2. /\ q.count = Len(Tail(f)) /\ q.count # length
        /\ q.tail = Back(q.head, q.count, length)
    <3>1. q.count = Len(f) - 1
      BY <1>1, <1>2
    <3>2. Len(f) - 1 # length
      BY <1>1
    <3> QED BY <1>2, <1>5, <1>6, <3>1, <3>2
  <2> QED BY <2>1, <2>2 DEF Agrees
<1> QED BY <1>3, <1>8 DEF q

(* A write puts its message where tail is: behind the others, or, if the   *)
(* ring is full and loses messages, in the place of the first of them.     *)
LEMMA WriteHolds ==
  ASSUME NEW length \in Nat \ {0}, NEW r \in Ring(length), Linked(r, length),
         NEW f \in Seq(Message), Len(f) <= length, Agrees(r, f, length),
         NEW m \in Message, NEW lossy \in BOOLEAN
  PROVE  /\ RingWrite(r, length, lossy, m) \in Ring(length)
         /\ Len(f) < length =>
              Agrees(RingWrite(r, length, lossy, m), Append(f, m), length)
         /\ Len(f) >= length /\ lossy =>
              Agrees(RingWrite(r, length, lossy, m), [f EXCEPT ![1] = m], length)
<1> DEFINE q == RingWrite(r, length, lossy, m)
           M == [r.msg EXCEPT ![r.tail] = m]
<1>1. /\ Len(f) \in 0 .. length /\ r.count = Len(f)
      /\ r.head \in Slots(length) /\ r.tail \in Slots(length)
      /\ r.msg \in [Slots(length) -> Message \union {NoMsg}]
      /\ M \in [Slots(length) -> Message \union {NoMsg}]
      /\ Holds(r, r.head, f, length)
  <2>1. Len(f) \in 0 .. length
    OBVIOUS
  <2>2. /\ r.head \in Slots(length) /\ r.tail \in Slots(length)
        /\ r.msg \in [Slots(length) -> Message \union {NoMsg}]
    BY DEF Ring
  <2> QED BY <2>1, <2>2 DEF Agrees
<1>2. M[r.tail] = m /\ \A s \in Slots(length) : s # r.tail => M[s] = r.msg[s]
  BY <1>1
<1>3. CASE Len(f) < length
  <2> DEFINE t == Back(r.tail, 1, length)
  <2>1. r.prev[r.tail] = t /\ t \in Slots(length)
    BY <1>1, BackSteps DEF Linked
  <2>2. q = [r EXCEPT !.msg = M, !.tail = t, !.count = r.count + 1]
    BY <1>1, <1>3, <2>1 DEF RingWrite, Ring
  <2>3. r.tail = Back(r.head, Len(f), length)
    BY <1>1, <1>3 DEF Agrees
  <2>4. t = Back(r.head, Len(f) + 1, length)
    <3>1. Len(f) \in 0 .. length /\ 1 \in 0 .. length /\ Len(f) + 1 <= length
      BY <1>1, <1>3
    <3> QED BY <1>1, <2>3, <3>1, BackSteps
  <2> HIDE DEF q, M, t
  <2>5. r.count + 1 \in Nat
    BY <1>1
  <2>6. /\ q.msg = M /\ q.head = r.head /\ q.count = Len(f) + 1
        /\ q.tail = t /\ q \in Ring(length)
    BY <1>1, <2>1, <2>2, <2>5 DEF Ring
  <2>7. /\ Len(Append(f, m)) = Len(f) + 1
        /\ \A i \in 1 .. Len(f) : Append(f, m)[i] = f[i]
        /\ Append(f, m)[Len(f) + 1] = m
    OBVIOUS
  <2>8. ASSUME NEW k \in 0 .. length - 1
        PROVE  q.msg[Back(q.head, k, length)] =
                 IF k < Len(Append(f, m)) THEN Append(f, m)[k + 1] ELSE NoMsg
    <3>1. CASE k = Len(f)
      BY <1>2, <2>3, <2>6, <2>7, <3>1
    <3>2. CASE k # Len(f)
      <4>1. Len(f) \in 0 .. length - 1 /\ k \in 0 .. length
        BY <1>1, <1>3
      <4>2. Back(r.head, k, length) # r.tail
            /\ Back(r.head, k, length) \in Slots(length)
        BY <1>1, <2>3, <3>2, <4>1, BackSteps
      <4>3. q.msg[Back(q.head, k, length)] = r.msg[Back(r.head, k, length)]
        BY <1>2, <2>6, <4>2
      <4>4. r.msg[Back(r.head, k, length)] =
              IF k < Len(f) THEN f[k + 1] ELSE NoMsg
        BY <1>1, Zenon DEF Holds
      <4> QED BY <1>1, <2>7, <3>2, <4>3, <4>4
    <3> QED BY <3>1, <3>2
  <2>9. q.tail = Back(q.head, IF q.count = length THEN 0 ELSE q.count, length)
    BY <1>1, <2>4, <2>6, BackSteps
  <2>10. Agrees(q, Append(f, m), length)
    BY <2>6, <2>7, <2>8, <2>9 DEF Agrees, Holds
  <2> QED BY <1>1, <1>3, <2>6, <2>10 DEF q
<1>4. CASE Len(f) >= length /\ lossy
  <2>1. q = [r EXCEPT !.msg = M]
    BY <1>1, <1>4 DEF RingWrite, Ring
  <2>2. r.tail = r.head /\ Len(f) = length
    BY <1>1, <1>4, BackSteps DEF Agrees
  <2> HIDE DEF q, M
  <2>3. /\ q.msg = M /\ q.head = r.head /\ q.count = r.count
        /\ q.tail = r.tail /\ q \in Ring(length)
    BY <1>1, <2>1 DEF Ring
  <2>4. /\ Len([f EXCEPT ![1] = m]) = Len(f) /\ [f EXCEPT ![1] = m][1] = m
        /\ \A i \in 2 .. Len(f) : [f EXCEPT ![1] = m][i] = f[i]
    BY <2>2
  <2>5. ASSUME NEW k \in 0 .. length - 1
        PROVE  q.msg[Back(q.head, k, length)] =
                 IF k < Len([f EXCEPT ![1] = m]) THEN [f EXCEPT ![1] = m][k + 1]
                                                 ELSE NoMsg
    <3>1. CASE k = 0
      BY <1>1, <1>2, <2>2, <2>3, <2>4, <3>1, BackSteps
    <3>2. CASE k # 0
      <4>1. Back(r.head, k, length) # r.tail
            /\ Back(r.head, k, length) \in Slots(length)
        <5>1. 0 \in 0 .. length - 1 /\ k \in 0 .. length
          OBVIOUS
        <5> QED BY <1>1, <2>2, <3>2, <5>1, BackSteps
      <4>2. q.msg[Back(q.head, k, length)] = r.msg[Back(r.head, k, length)]
        BY <1>2, <2>3, <4>1
      <4>3. r.msg[Back(r.head, k, length)] =
              IF k < Len(f) THEN f[k + 1] ELSE NoMsg
        BY <1>1, Zenon DEF Holds
      <4> QED BY <2>2, <2>4, <3>2, <4>2, <4>3
    <3> QED BY <3>1, <3>2
  <2>6. q.tail = Back(q.head, IF q.count = length THEN 0 ELSE q.count, length)
    BY <2>3 DEF Agrees
  <2>7. Agrees(q, [f EXCEPT ![1] = m], length)
    BY <1>1, <2>3, <2>4, <2>5, <2>6 DEF Agrees, Holds
  <2>8. ~(Len(f) < length)
    BY <2>2
  <2> QED BY <2>3, <2>7, <2>8, Zenon DEF q
<1>5. CASE Len(f) >= length /\ ~lossy
  BY <1>1, <1>5 DEF RingWrite
<1> QED BY <1>1, <1>3, <1>4, <1>5

(* Links are for ever.                                                     *)
LEMMA LinksStay ==
  ASSUME NEW length \in Nat \ {0}, NEW r \in Ring(length), Linked(r, length),
         NEW m, NEW lossy
  PROVE  /\ Linked(RingRead(r), length)
         /\ Linked(RingWrite(r, length, lossy, m), length)
         /\ RingRead(r).gone = r.gone /\ RingRead(r).slots = r.slots
         /\ RingRead(r).freed = r.freed
         /\ RingWrite(r, length, lossy, m).gone = r.gone
         /\ RingWrite(r, length, lossy, m).slots = r.slots
         /\ RingWrite(r, length, lossy, m).freed = r.freed
<1>1. /\ RingRead(r).prev = r.prev /\ RingRead(r).next = r.next
      /\ RingWrite(r, length, lossy, m).prev = r.prev
      /\ RingWrite(r, length, lossy, m).next = r.next
  BY DEF RingRead, RingWrite, Ring
<1> QED BY <1>1 DEF Linked, RingRead, RingWrite, Ring

(* A ring whose destruction has not begun has nothing freed.               *)
LEMMA FreshFreeing ==
  ASSUME NEW length \in Nat \ {0}, NEW r \in Ring(length), NEW f,
         r.gone = 0, r.slots = {}, r.freed = {}, Agrees(r, f, length)
  PROVE  Freeing(r, f, length)
<1>1. First(r, length) = r.head
  BY BackSteps DEF First, Ring
<1> QED BY <1>1 DEF Freeing, Agrees

(* Destroying a slot moves head the other way, so that the slots behind it *)
(* are those freed and the ring still holds what it held.                  *)
LEMMA DestroyHolds ==
  ASSUME RingInv, ch.length \in Nat \ {0}, DestroySlot
  PROVE  RingInv'
<1> DEFINE length == ch.length
           h == ring.head
           n == Back(h, length - 1, length)
<1>1. /\ ch' = ch /\ length \in Nat \ {0} /\ ring \in Ring(length)
      /\ h \in Slots(length) /\ ring.gone \in 0 .. length - 1
      /\ ring.msg \in [Slots(length) -> Message \union {NoMsg}]
  BY DEF RingInv, DestroySlot, Ring, vars
<1>2. ring.next[h] = n
  BY <1>1 DEF RingInv, Linked
<1>3. /\ n \in Slots(length)
      /\ \A k \in 0 .. length - 1 : Back(n, k + 1, length) = Back(h, k, length)
  BY <1>1, BackNext
<1>4. /\ ring'.tail = h /\ ring'.head = n /\ ring'.gone = ring.gone + 1
      /\ ring'.slots = ring.slots \union {h}
      /\ ring'.freed = ring.freed \union ({ring.msg[h]} \ {NoMsg})
      /\ ring'.msg = ring.msg /\ ring'.prev = ring.prev
      /\ ring'.next = ring.next /\ ring'.count = ring.count
  BY <1>1, <1>2 DEF DestroySlot, Ring
<1>5. ring' \in Ring(length)
  <2> DEFINE F == ring.freed \union ({ring.msg[h]} \ {NoMsg})
             S == ring.slots \union {h}
  <2>1. F \subseteq Message /\ S \subseteq Slots(length)
    BY <1>1 DEF Ring
  <2>2. ring' = [ring EXCEPT !.tail = h, !.head = n, !.gone = @ + 1, !.slots = S,
                             !.freed = F]
    BY <1>2 DEF DestroySlot
  <2>3. ring.gone + 1 \in 0 .. length
    BY <1>1
  <2> HIDE DEF F, S, n, h, length
  <2> QED BY <1>1, <1>3, <2>1, <2>2, <2>3 DEF Ring
<1> HIDE DEF n, h
<1>6. First(ring', length) = First(ring, length)
  BY <1>1, <1>3, <1>4 DEF First, h
<1>7. ring'.slots = {Back(n, k, length) : k \in 1 .. ring.gone + 1}
  <2>1. ring.slots = {Back(h, k, length) : k \in 1 .. ring.gone}
    BY DEF RingInv, Freeing, h
  <2>2. Back(h, 0, length) = h
    BY <1>1, BackSteps
  <2>3. ring'.slots = {Back(h, k, length) : k \in 0 .. ring.gone}
    BY <1>1, <1>4, <2>1, <2>2
  <2>4. {Back(h, k, length) : k \in 0 .. ring.gone}
          = {Back(n, k, length) : k \in 1 .. ring.gone + 1}
    <3>1. ASSUME NEW k \in 0 .. ring.gone
          PROVE  \E j \in 1 .. ring.gone + 1 :
                   Back(h, k, length) = Back(n, j, length)
      <4>1. k + 1 \in 1 .. ring.gone + 1 /\ k \in 0 .. length - 1
        BY <1>1
      <4>2. Back(h, k, length) = Back(n, k + 1, length)
        BY <1>3, <4>1
      <4> QED BY <4>1, <4>2
    <3>2. ASSUME NEW j \in 1 .. ring.gone + 1
          PROVE  \E k \in 0 .. ring.gone :
                   Back(n, j, length) = Back(h, k, length)
      <4>1. j - 1 \in 0 .. ring.gone /\ j - 1 \in 0 .. length - 1
            /\ (j - 1) + 1 = j
        BY <1>1
      <4>2. Back(n, (j - 1) + 1, length) = Back(h, j - 1, length)
        BY <1>3, <4>1
      <4> QED BY <4>1, <4>2
    <3> QED BY <3>1, <3>2
  <2> QED BY <2>3, <2>4
<1>8. ring'.freed = {ring'.msg[s] : s \in ring'.slots} \ {NoMsg}
  <2>1. ring.freed = {ring.msg[s] : s \in ring.slots} \ {NoMsg}
    BY DEF RingInv, Freeing
  <2> QED BY <1>4, <2>1
<1>9. Freeing(ring', ch.fifo, length)
  <2>1. ring.count = Len(ch.fifo) /\ Holds(ring, First(ring, length), ch.fifo, length)
    BY DEF RingInv, Freeing
  <2>2. Holds(ring', First(ring', length), ch.fifo, length)
    BY <1>4, <1>6, <2>1 DEF Holds
  <2>3. ring'.slots = {Back(ring'.head, k, length) : k \in 1 .. ring'.gone}
    BY <1>4, <1>7
  <2> HIDE DEF length
  <2> QED BY <1>4, <1>8, <2>1, <2>2, <2>3 DEF Freeing
<1>10. Linked(ring', length)
  BY <1>1, <1>4 DEF RingInv, Linked
<1>11. ring'.gone # 0
  BY <1>1, <1>4
<1> QED BY <1>1, <1>5, <1>9, <1>10, <1>11 DEF RingInv

-----------------------------------------------------------------------------
(* The invariant.                                                          *)

(* A step that is neither a store nor a fetch leaves the messages alone.   *)
LEMMA OtherStep ==
  ASSUME RefInv, Next, ~WriteStore, ~ReadFetch
  PROVE  ch'.fifo = ch.fifo /\ ch'.length = ch.length
<1>1. ch \in Channel
  BY DEF RefInv, Inv, Typed, TypeOK
<1>2. CASE Quiet
  BY <1>2, QuietStep DEF RefInv, SameFill
<1>3. CASE WriterEnd \/ ReaderEnd
  BY <1>1, <1>3 DEF WriterEnd, ReaderEnd, TerminateSource, TerminateSink,
                    ChangeReadState, ChangeWriteState, Channel
<1>4. CASE Ended
  BY <1>4 DEF Ended, vars
<1> QED BY <1>2, <1>3, <1>4 DEF Next, WriterRuns, ReaderRuns, Quiet

(* A channel begins with a new ring.                                       *)
LEMMA RingInvInit == RInit => RingInv
<1> SUFFICES ASSUME RInit PROVE RingInv
  OBVIOUS
<1>1. ch.length \in Nat \ {0}
  BY TypedInit DEF RInit, Typed, TypeOK, Channel
<1>2. ch.fifo = <<>> /\ ring = RingCreate(ch.length)
  BY DEF RInit, Init, ChannelCreate
<1> QED BY <1>1, <1>2, CreateHolds DEF RingInv

(* RingInv is inductive, given what is known of the channel.               *)
LEMMA RingInvStep == RefInv /\ RingInv /\ [RNext]_rvars => RingInv'
<1> SUFFICES ASSUME RefInv, RingInv, [RNext]_rvars PROVE RingInv'
  OBVIOUS
<1>1. /\ Inv /\ ch \in Channel /\ ch.length \in Nat \ {0}
      /\ ch.fifo \in Seq(Message) /\ FillAgrees(ch) /\ Len(ch.fifo) <= ch.length
  BY DEF RefInv, Inv, Typed, TypeOK, Channel, StateAgreesWithFill, FillAgrees
<1>2. /\ ring \in Ring(ch.length) /\ Linked(ring, ch.length)
      /\ ring.gone = 0 => /\ Agrees(ring, ch.fifo, ch.length)
                          /\ ring.slots = {} /\ ring.freed = {}
  BY DEF RingInv, Freeing
<1>3. ASSUME ring.gone = 0, ch'.length = ch.length,
             ring' \in Ring(ch.length), Linked(ring', ch.length),
             ring'.gone = ring.gone, ring'.slots = ring.slots,
             ring'.freed = ring.freed, Agrees(ring', ch'.fifo, ch.length)
      PROVE  RingInv'
  BY <1>1, <1>2, <1>3, FreshFreeing DEF RingInv
<1>4. CASE /\ ring.gone = 0 /\ WriteStore
           /\ ring' = RingWrite(ring, ch.length, DecoupledIn(ch), writer.msg)
  <2>1. /\ writer.msg \in Message /\ ch' = ChannelWrite(ch, writer.msg)
        /\ ch.sink.state \notin {"PENDING", "END"}
        /\ DecoupledIn(ch) \in BOOLEAN
    BY <1>1, <1>4, StoreStep DEF WriteStore, DecoupledIn
  <2>2. ch'.length = ch.length
    BY <1>1, <2>1, WriteFrame
  <2>3. \/ Len(ch.fifo) < ch.length /\ ch'.fifo = Append(ch.fifo, writer.msg)
        \/ /\ Len(ch.fifo) >= ch.length /\ DecoupledIn(ch)
           /\ ch'.fifo = [ch.fifo EXCEPT ![1] = writer.msg]
    <3>1. \/ ~Full(ch) /\ ch'.fifo = Append(ch.fifo, writer.msg)
          \/ /\ Full(ch) /\ DecoupledIn(ch)
             /\ ch'.fifo = [ch.fifo EXCEPT ![1] = writer.msg]
      BY <1>1, <2>1, StoreRing
    <3> QED BY <1>1, <3>1 DEF Full
  <2>4. ring' \in Ring(ch.length) /\ Agrees(ring', ch'.fifo, ch.length)
    <3> DEFINE lossy == DecoupledIn(ch)
               r == RingWrite(ring, ch.length, lossy, writer.msg)
    <3> HIDE DEF lossy, r
    <3>1. lossy \in BOOLEAN
      BY <2>1 DEF lossy
    <3>2. /\ r \in Ring(ch.length)
          /\ Len(ch.fifo) < ch.length =>
               Agrees(r, Append(ch.fifo, writer.msg), ch.length)
          /\ Len(ch.fifo) >= ch.length /\ lossy =>
               Agrees(r, [ch.fifo EXCEPT ![1] = writer.msg], ch.length)
      BY <1>1, <1>2, <1>4, <2>1, <3>1, WriteHolds DEF r
    <3>3. ring' = r
      BY <1>4 DEF r, lossy
    <3> QED BY <2>3, <3>2, <3>3 DEF lossy
  <2>5. /\ Linked(ring', ch.length) /\ ring'.gone = ring.gone
        /\ ring'.slots = ring.slots /\ ring'.freed = ring.freed
    BY <1>1, <1>2, <1>4, LinksStay
  <2> QED BY <1>3, <1>4, <2>2, <2>4, <2>5
<1>5. CASE ring.gone = 0 /\ ReadFetch /\ ring' = RingRead(ring)
  <2>1. /\ ch'.length = ch.length
        /\ ch'.fifo = IF ch.fifo = <<>> THEN <<>> ELSE Tail(ch.fifo)
    BY <1>1, <1>5, ReadFrame DEF ReadFetch
  <2>2. ring' \in Ring(ch.length) /\ Agrees(ring', ch'.fifo, ch.length)
    <3>1. CASE ch.fifo = <<>>
      <4>1. RingRead(ring) = ring
        BY <1>2, <1>5, <3>1 DEF RingRead, Agrees
      <4> QED BY <1>2, <1>5, <2>1, <3>1, <4>1
    <3>2. CASE ch.fifo # <<>>
      BY <1>1, <1>2, <1>5, <2>1, <3>2, ReadHolds
    <3> QED BY <3>1, <3>2
  <2>3. /\ Linked(ring', ch.length) /\ ring'.gone = ring.gone
        /\ ring'.slots = ring.slots /\ ring'.freed = ring.freed
    BY <1>1, <1>2, <1>5, LinksStay
  <2> QED BY <1>3, <1>5, <2>1, <2>2, <2>3
<1>6. CASE ring.gone = 0 /\ Next /\ ~WriteStore /\ ~ReadFetch /\ ring' = ring
  BY <1>6, OtherStep DEF RingInv
<1>7. CASE DestroySlot
  BY <1>1, <1>7, DestroyHolds
<1>8. CASE UNCHANGED rvars
  BY <1>8 DEF rvars, vars, RingInv
<1> QED
  BY <1>4, <1>5, <1>6, <1>7, <1>8 DEF RNext, ChannelStep, Destroyed

(* What the invariant says of a ring in use and of one destroyed.          *)
LEMMA RingInvImplies ==
  ASSUME RefInv, RingInv
  PROVE  RingHoldsFifo
<1>1. /\ ch.length \in Nat \ {0} /\ ch.fifo \in Seq(Message)
      /\ Len(ch.fifo) <= ch.length
      /\ ring.head \in Slots(ch.length) /\ ring.slots \subseteq Slots(ch.length)
      /\ ring.gone \in 0 .. ch.length
  BY DEF RefInv, Inv, Typed, TypeOK, Channel, StateAgreesWithFill, FillAgrees,
         RingInv, Ring
<1>2. ring.gone = 0 => Agrees(ring, ch.fifo, ch.length)
  BY DEF RingInv
<1>3. ASSUME ring.gone = ch.length
      PROVE  /\ ring.slots = Slots(ch.length)
             /\ ring.freed = {ch.fifo[i] : i \in DOMAIN ch.fifo}
  <2> DEFINE first == First(ring, ch.length)
  <2>1. first = ring.head
    BY <1>1, <1>3, BackSteps DEF First
  <2>2. ring.slots = Slots(ch.length)
    <3>1. ring.slots = {Back(ring.head, k, ch.length) : k \in 1 .. ch.length}
      BY <1>3 DEF RingInv, Freeing
    <3>2. \A t \in Slots(ch.length) :
            \E k \in 1 .. ch.length : Back(ring.head, k, ch.length) = t
      BY <1>1, BackReaches
    <3> QED BY <1>1, <3>1, <3>2
  <2>3. \A k \in 0 .. ch.length - 1 :
          ring.msg[Back(ring.head, k, ch.length)] =
            IF k < Len(ch.fifo) THEN ch.fifo[k + 1] ELSE NoMsg
    BY <2>1 DEF RingInv, Freeing, Holds
  <2>4. ring.freed = {ring.msg[s] : s \in Slots(ch.length)} \ {NoMsg}
    BY <2>2 DEF RingInv, Freeing
  <2>5. ASSUME NEW s \in Slots(ch.length), ring.msg[s] # NoMsg
        PROVE  \E i \in DOMAIN ch.fifo : ring.msg[s] = ch.fifo[i]
    <3>1. PICK k \in 0 .. ch.length - 1 : Back(ring.head, k, ch.length) = s
      BY <1>1, BackReaches
    <3>2. k < Len(ch.fifo) /\ ring.msg[s] = ch.fifo[k + 1]
      BY <2>3, <2>5, <3>1
    <3>3. k + 1 \in DOMAIN ch.fifo
      BY <1>1, <3>2
    <3> QED BY <3>2, <3>3
  <2>6. ASSUME NEW i \in DOMAIN ch.fifo
        PROVE  /\ ch.fifo[i] # NoMsg
               /\ \E s \in Slots(ch.length) : ch.fifo[i] = ring.msg[s]
    <3>1. /\ i - 1 \in 0 .. ch.length - 1 /\ i - 1 < Len(ch.fifo)
          /\ (i - 1) + 1 = i /\ i - 1 \in 0 .. ch.length
      BY <1>1
    <3>2. ring.msg[Back(ring.head, i - 1, ch.length)] = ch.fifo[i]
      BY <2>3, <3>1
    <3>3. Back(ring.head, i - 1, ch.length) \in Slots(ch.length)
      BY <1>1, <3>1, BackSteps
    <3>4. ch.fifo[i] \in Message
      BY <1>1
    <3> QED BY <3>2, <3>3, <3>4, NoMsgAssumption
  <2> QED BY <2>2, <2>4, <2>5, <2>6
<1>4. ring.count = Len(ch.fifo)
  BY DEF RingInv, Freeing
<1> QED BY <1>2, <1>3, <1>4 DEF RingHoldsFifo, Agrees

-----------------------------------------------------------------------------
(* The theorems.                                                           *)

(* Beside its ring a channel behaves like SmxChannel, of which the ring    *)
(* takes nothing away but what comes after the destruction has begun.      *)
THEOREM RingImplementsChannel == RSpec => Spec
<1>1. RInit => Init
  BY DEF RInit
<1>2. [RNext]_rvars => [Next]_vars
  BY DEF RNext, ChannelStep, DestroySlot, Destroyed, rvars, Next, WriterRuns,
         ReaderRuns
<1> QED BY <1>1, <1>2, PTL DEF RSpec, Spec

(* In a channel of any length the ring holds what was written and not      *)
(* read, in order, and its destruction frees each slot once.               *)
THEOREM RingSafety == RSpec => []RingHoldsFifo
<1>1. RSpec => []RefInv
  BY RingImplementsChannel, RefInvAlways, PTL
<1>2. RefInv /\ RingInv => RingHoldsFifo
  BY RingInvImplies
<1> QED BY <1>1, <1>2, RingInvInit, RingInvStep, PTL DEF RSpec
=============================================================================
