--------------------------- MODULE SmxProgramProofs ---------------------------
(***************************************************************************)
(* Safety of SmxProgram for all programs, lists of maps, payloads and      *)
(* nets, and any number of rounds.  What is about documents comes first,   *)
(* then how a list becomes data maps, then what applying them gives: in    *)
(* the extended mode the walk over the target is shown to build what the   *)
(* expectation says, in the basic mode the loop over the maps is.  The     *)
(* actions come last.                                                      *)
(*                                                                         *)
(* A recursive function is handled in two steps.  A lemma whose name ends  *)
(* in Loop (for the walk, Exists) says that it is defined, and what its    *)
(* equation is; what it computes is then shown by an induction over the    *)
(* set of the numbers for which it holds (SetInduction).                   *)
(***************************************************************************)
EXTENDS SmxProgram, SequenceTheorems, FiniteSetTheorems, TLAPS

-------------------------------------------------------------------------------
(* Numbers, sequences and documents.                                       *)

(* Induction, in the form the provers can use: by a set.                   *)
LEMMA SetInduction ==
  ASSUME NEW S, 0 \in S, \A n \in Nat : n \in S => n + 1 \in S
  PROVE  Nat \subseteq S
<1> DEFINE R == OpToRel(<, Nat)
           T == Nat \ S
<1>1. \A x, y \in Nat : <<x, y>> \in R <=> x < y
  BY DEF OpToRel
<1>2. IsWellFoundedOn(R, Nat)
  BY NatLessThanWellFounded
<1> HIDE DEF R
<1>3. ASSUME T # {} PROVE FALSE
  <2>1. PICK x \in T : \A y \in T : ~(<<y, x>> \in R)
    <3>1. T \subseteq Nat
      OBVIOUS
    <3> HIDE DEF T
    <3> QED BY <1>2, <1>3, <3>1, WFMin
  <2>2. x \in Nat /\ x # 0
    OBVIOUS
  <2>3. x - 1 \in Nat /\ x - 1 < x /\ (x - 1) + 1 = x
    BY <2>2
  <2>4. x - 1 \in T
    BY <2>3
  <2> QED BY <1>1, <2>1, <2>2, <2>3, <2>4
<1> QED BY <1>3

(* Max and Min of a set of numbers with a bound.                           *)
LEMMA MaxOf ==
  ASSUME NEW n \in Nat, NEW S \in SUBSET (0 .. n), S # {}
  PROVE  Max(S) \in S /\ \A i \in S : i <= Max(S)
<1> DEFINE I == {m \in Nat :
                   \A T : (\A y \in T : y \in 0 .. m) /\ T # {} =>
                     \E x \in T : \A y \in T : x >= y}
<1>1. 0 \in I
  <2>1. ASSUME NEW T, \A y \in T : y \in 0 .. 0, T # {}
        PROVE  0 \in T /\ \A y \in T : y = 0
    BY <2>1
  <2> QED BY <2>1
<1>2. ASSUME NEW m \in Nat, m \in I PROVE m + 1 \in I
  <2> SUFFICES ASSUME NEW T, \A y \in T : y \in 0 .. m + 1, T # {}
               PROVE  \E x \in T : \A y \in T : x >= y
    OBVIOUS
  <2>1. CASE m + 1 \in T
    BY <2>1
  <2>2. CASE m + 1 \notin T
    <3>1. \A y \in T : y \in 0 .. m
      BY <2>2
    <3> QED BY <1>2, <3>1
  <2> QED BY <2>1, <2>2
<1>3. n \in I
  <2> HIDE DEF I
  <2> QED BY <1>1, <1>2, SetInduction
<1>4. \E x \in S : \A y \in S : x >= y
  BY <1>3
<1>5. Max(S) \in S /\ \A y \in S : Max(S) >= y
  BY <1>4 DEF Max
<1> QED BY <1>5

(* The least element of a non-empty set of numbers.                        *)
LEMMA MinOf ==
  ASSUME NEW n \in Nat, NEW S \in SUBSET (0 .. n), S # {}
  PROVE  Min(S) \in S /\ \A i \in S : Min(S) <= i
<1> DEFINE I == {m \in Nat :
                   \A T : (\A y \in T : y \in 0 .. m) /\ T # {} =>
                     \E x \in T : \A y \in T : x =< y}
<1>1. 0 \in I
  <2>1. ASSUME NEW T, \A y \in T : y \in 0 .. 0, T # {}
        PROVE  0 \in T /\ \A y \in T : y = 0
    BY <2>1
  <2> QED BY <2>1
<1>2. ASSUME NEW m \in Nat, m \in I PROVE m + 1 \in I
  <2> SUFFICES ASSUME NEW T, \A y \in T : y \in 0 .. m + 1, T # {}
               PROVE  \E x \in T : \A y \in T : x =< y
    OBVIOUS
  <2>1. CASE T \ {m + 1} # {}
    <3>0. \A y \in T \ {m + 1} : y \in 0 .. m
      OBVIOUS
    <3>1. PICK x \in T \ {m + 1} : \A y \in T \ {m + 1} : x =< y
      BY <1>2, <2>1, <3>0
    <3>2. x =< m + 1
      OBVIOUS
    <3> QED BY <3>1, <3>2
  <2>2. CASE T \ {m + 1} = {}
    BY <2>2
  <2> QED BY <2>1, <2>2
<1>3. n \in I
  <2> HIDE DEF I
  <2> QED BY <1>1, <1>2, SetInduction
<1>4. \E x \in S : \A y \in S : x =< y
  BY <1>3
<1>5. Min(S) \in S /\ \A y \in S : Min(S) =< y
  BY <1>4 DEF Min
<1> QED BY <1>5

(* A finite set of numbers has a bound.                                    *)
LEMMA FiniteBound ==
  ASSUME NEW S \in SUBSET Nat, IsFiniteSet(S)
  PROVE  \E b \in Nat : \A i \in S : i <= b
<1>1. PICK n \in Nat : ExistsSurjection(1 .. n, S)
  BY FS_NatSurjection
<1>2. PICK f \in [1 .. n -> S] : \A s \in S : \E i \in 1 .. n : f[i] = s
  BY <1>1 DEF ExistsSurjection, Surjection
<1> DEFINE I == {m \in Nat : m <= n => \E b \in Nat : \A i \in 1 .. m : f[i] <= b}
<1>3. 0 \in I
  OBVIOUS
<1>4. ASSUME NEW m \in Nat, m \in I PROVE m + 1 \in I
  <2> SUFFICES ASSUME m + 1 <= n
               PROVE  \E b \in Nat : \A i \in 1 .. m + 1 : f[i] <= b
    OBVIOUS
  <2>1. PICK b \in Nat : \A i \in 1 .. m : f[i] <= b
    BY <1>4
  <2>0. ASSUME NEW i \in 1 .. m + 1 PROVE f[i] \in Nat /\ (i \in 1 .. m \/ i = m + 1)
    <3>1. i \in 1 .. n /\ (i \in 1 .. m \/ i = m + 1)
      OBVIOUS
    <3>2. f[i] \in S
      BY <1>2, <3>1
    <3>3. f[i] \in Nat
      BY <3>2
    <3> QED BY <3>1, <3>3
  <2>2. f[m + 1] \in Nat
    BY <2>0
  <2>3. b + f[m + 1] \in Nat /\ \A i \in 1 .. m + 1 : f[i] <= b + f[m + 1]
    BY <2>0, <2>1, <2>2
  <2> QED BY <2>3
<1>5. n \in I
  <2> HIDE DEF I
  <2> QED BY <1>3, <1>4, SetInduction
<1>6. PICK b \in Nat : \A i \in 1 .. n : f[i] <= b
  BY <1>5
<1> QED BY <1>2, <1>6

(* The image of a finite set is finite.                                    *)
LEMMA FiniteImage ==
  ASSUME NEW S, IsFiniteSet(S), NEW f, DOMAIN f = S
  PROVE  IsFiniteSet({f[x] : x \in S})
<1> DEFINE T == {f[x] : x \in S}
           g == [x \in S |-> f[x]]
<1>1. g \in Surjection(S, T)
  BY DEF Surjection
<1> HIDE DEF T, g
<1>2. IsFiniteSet(T)
  BY <1>1, FS_Surjection
<1> QED BY <1>2 DEF T

(* Prefixes of sequences, by their elements.                               *)
LEMMA PrefixOf ==
  ASSUME NEW S, NEW s \in Seq(S), NEW t \in Seq(S)
  PROVE  /\ IsPrefix(s, t) <=>
              Len(s) <= Len(t) /\ \A i \in 1 .. Len(s) : s[i] = t[i]
         /\ IsStrictPrefix(s, t) <=>
              Len(s) < Len(t) /\ \A i \in 1 .. Len(s) : s[i] = t[i]
<1>1. Len(s) \in Nat /\ Len(t) \in Nat
  OBVIOUS
<1>2. SubSeq(s, 1, Len(s)) = s
  BY SubSeqFull
<1>3. ASSUME Len(s) <= Len(t)
      PROVE  /\ SubSeq(t, 1, Len(s)) \in Seq(S)
             /\ Len(SubSeq(t, 1, Len(s))) = Len(s)
             /\ \A i \in 1 .. Len(s) : SubSeq(t, 1, Len(s))[i] = t[i]
  <2>1. \A i \in 1 .. Len(s) : t[i] \in S
    BY <1>1, <1>3, ElementOfSeq
  <2> QED BY <1>1, <2>1, SubSeqProperties
<1>4. IsPrefix(s, t) <=> Len(s) <= Len(t) /\ \A i \in 1 .. Len(s) : s[i] = t[i]
  <2>1. ASSUME Len(s) <= Len(t), \A i \in 1 .. Len(s) : s[i] = t[i]
        PROVE  s = SubSeq(t, 1, Len(s))
    BY <1>3, <2>1, SeqEqual
  <2> QED BY <1>2, <1>3, <2>1 DEF IsPrefix
<1>5. ASSUME Len(s) = Len(t), \A i \in 1 .. Len(s) : s[i] = t[i] PROVE s = t
  BY <1>5, SeqEqual
<1> QED BY <1>1, <1>4, <1>5 DEF IsStrictPrefix

(* The front of a sequence and what is left of it behind a prefix.         *)
LEMMA FrontOf ==
  ASSUME NEW S, NEW s \in Seq(S), Len(s) >= 1
  PROVE  /\ Front(s) \in Seq(S) /\ Len(Front(s)) = Len(s) - 1
         /\ \A i \in 1 .. Len(s) - 1 : Front(s)[i] = s[i]
<1>1. \A i \in 1 .. Len(s) - 1 : s[i] \in S
  OBVIOUS
<1>2. Len(s) - 1 \in Int /\ Len(s) \in Nat
  OBVIOUS
<1>3. SubSeq(s, 1, Len(s) - 1) \in Seq(S)
  BY <1>1, <1>2, SubSeqProperties
<1>4. Len(SubSeq(s, 1, Len(s) - 1)) = IF 1 <= Len(s) - 1 THEN Len(s) - 1 - 1 + 1 ELSE 0
  BY <1>1, <1>2, SubSeqProperties
<1>5. \A i \in 1 .. Len(s) - 1 - 1 + 1 : SubSeq(s, 1, Len(s) - 1)[i] = s[1 + i - 1]
  BY <1>1, <1>2, SubSeqProperties
<1>6. Len(SubSeq(s, 1, Len(s) - 1)) = Len(s) - 1
  BY <1>2, <1>4
<1>7. ASSUME NEW i \in 1 .. Len(s) - 1 PROVE SubSeq(s, 1, Len(s) - 1)[i] = s[i]
  <2>1. i \in 1 .. Len(s) - 1 - 1 + 1 /\ 1 + i - 1 = i
    BY <1>2
  <2> QED BY <1>5, <2>1
<1> QED BY <1>3, <1>6, <1>7 DEF Front

(* What is left of a sequence behind its first l elements.                 *)
LEMMA RestOf ==
  ASSUME NEW S, NEW s \in Seq(S), NEW l \in 0 .. Len(s)
  PROVE  /\ SubSeq(s, l + 1, Len(s)) \in Seq(S)
         /\ Len(SubSeq(s, l + 1, Len(s))) = Len(s) - l
         /\ \A i \in 1 .. Len(s) - l : SubSeq(s, l + 1, Len(s))[i] = s[l + i]
<1>1. \A i \in l + 1 .. Len(s) : s[i] \in S
  OBVIOUS
<1>2. l + 1 \in Int /\ Len(s) \in Nat /\ l \in Nat
  OBVIOUS
<1> DEFINE r == SubSeq(s, l + 1, Len(s))
<1>3. r \in Seq(S)
  BY <1>1, <1>2, SubSeqProperties
<1>4. Len(r) = IF l + 1 <= Len(s) THEN Len(s) - (l + 1) + 1 ELSE 0
  BY <1>1, <1>2, SubSeqProperties
<1>5. \A i \in 1 .. Len(s) - (l + 1) + 1 : r[i] = s[(l + 1) + i - 1]
  BY <1>1, <1>2, SubSeqProperties
<1> HIDE DEF r
<1>6. Len(r) = Len(s) - l
  BY <1>2, <1>4
<1>7. ASSUME NEW i \in 1 .. Len(s) - l PROVE r[i] = s[l + i]
  <2>1. (l + 1) + i - 1 = l + i /\ i \in 1 .. Len(s) - (l + 1) + 1
    BY <1>2
  <2> QED BY <1>5, <2>1
<1> QED BY <1>3, <1>6, <1>7 DEF r

(* What a document is, and the node at a path of it.                       *)
LEMMA DocumentIs ==
  ASSUME NEW doc \in Document
  PROVE  /\ IsFiniteSet(doc)
         /\ \A n \in doc : n \in Node
         /\ \A n \in doc : /\ n.path \in Seq(STRING) /\ Len(n.path) \in Nat
                           /\ Len(n.path) >= 1 /\ n.path # Root
                           /\ n.type \in BsonType /\ n.val \in Int
         /\ \A m, n \in doc : m.path = n.path => m = n
         /\ \A n \in doc : Len(n.path) > 1 =>
              \E m \in doc : m.path = Front(n.path) /\ m.type \in Containers
<1>1. /\ IsFiniteSet(doc) /\ doc \subseteq Node
      /\ \A m, n \in doc : m.path = n.path => m = n
      /\ \A n \in doc : Len(n.path) > 1 =>
           \E m \in doc : m.path = Front(n.path) /\ m.type \in Containers
  BY DEF Document
<1>2. ASSUME NEW n \in doc
      PROVE  /\ n \in Node
             /\ n.path \in Seq(STRING) /\ Len(n.path) \in Nat
             /\ Len(n.path) >= 1 /\ n.path # Root
             /\ n.type \in BsonType /\ n.val \in Int
  <2>1. /\ n.path \in Seq(STRING) /\ n.path # <<>>
        /\ n.type \in BsonType /\ n.val \in Int
    BY <1>1 DEF Node, Path, Root
  <2>2. Len(n.path) \in Nat \ {0}
    BY <2>1, EmptySeq
  <2> QED BY <1>1, <2>1, <2>2 DEF Root
<1> QED BY <1>1, <1>2

(* How to show that a set of nodes is a document.                          *)
LEMMA IsDocument ==
  ASSUME NEW doc, IsFiniteSet(doc), \A n \in doc : n \in Node,
         \A m, n \in doc : m.path = n.path => m = n,
         \A n \in doc : Len(n.path) > 1 =>
           \E m \in doc : m.path = Front(n.path) /\ m.type \in Containers
  PROVE  doc \in Document
BY DEF Document

(* The node at a path is the one that has the path.                        *)
LEMMA AtNode ==
  ASSUME NEW doc \in Document, NEW path
  PROVE  /\ Has(doc, path) => At(doc, path) \in doc /\ At(doc, path).path = path
         /\ \A n \in doc : n.path = path => At(doc, path) = n
<1>1. \A m, n \in doc : m.path = n.path => m = n
  BY DocumentIs
<1>2. ASSUME Has(doc, path)
      PROVE  At(doc, path) \in doc /\ At(doc, path).path = path
  BY <1>2 DEF Has, At
<1> QED BY <1>1, <1>2 DEF Has

(* A node with another path or value is a node.                            *)
LEMMA NodeExcept ==
  ASSUME NEW n \in Node
  PROVE  /\ \A path \in Path \ {Root} :
              /\ [n EXCEPT !.path = path] \in Node
              /\ [n EXCEPT !.path = path].path = path
              /\ [n EXCEPT !.path = path].type = n.type
              /\ [n EXCEPT !.path = path].val = n.val
         /\ \A val \in Int :
              /\ [n EXCEPT !.val = val] \in Node
              /\ [n EXCEPT !.val = val].path = n.path
              /\ [n EXCEPT !.val = val].type = n.type
              /\ [n EXCEPT !.val = val].val = val
         /\ \A m \in Node : n.path = m.path /\ n.type = m.type /\ n.val = m.val
              => n = m
BY DEF Node

(* The document that a node holds is one.                                  *)
LEMMA BelowDocument ==
  ASSUME NEW doc \in Document, NEW path \in Path
  PROVE  Below(doc, path) \in Document
<1> DEFINE S == {m \in doc : IsStrictPrefix(path, m.path)}
           l == Len(path)
           Rest(p) == SubSeq(p, l + 1, Len(p))
           f == [n \in S |-> [n EXCEPT !.path = Rest(@)]]
           D == {f[n] : n \in S}
<1>1. D = Below(doc, path)
  BY DEF Below
<1>2. l \in Nat /\ path \in Seq(STRING)
  BY DEF Path
<1>3. ASSUME NEW n \in S
      PROVE  /\ n \in doc /\ n \in Node
             /\ n.path \in Seq(STRING) /\ Len(n.path) \in Nat /\ l < Len(n.path)
             /\ \A i \in 1 .. l : path[i] = n.path[i]
             /\ Rest(n.path) \in Path \ {Root}
             /\ Len(Rest(n.path)) = Len(n.path) - l
             /\ \A i \in 1 .. Len(n.path) - l : Rest(n.path)[i] = n.path[l + i]
             /\ f[n] \in Node
             /\ f[n].path = Rest(n.path) /\ f[n].type = n.type /\ f[n].val = n.val
  <2>1. n \in doc /\ n \in Node /\ n.path \in Seq(STRING) /\ Len(n.path) \in Nat
    BY DocumentIs
  <2>2. l < Len(n.path) /\ \A i \in 1 .. l : path[i] = n.path[i]
    BY <1>2, <2>1, PrefixOf
  <2>3. /\ Rest(n.path) \in Seq(STRING) /\ Len(Rest(n.path)) = Len(n.path) - l
        /\ \A i \in 1 .. Len(n.path) - l : Rest(n.path)[i] = n.path[l + i]
    <3>1. l \in 0 .. Len(n.path)
      BY <1>2, <2>1, <2>2
    <3> QED BY <2>1, <3>1, RestOf
  <2>4. Rest(n.path) \in Path \ {Root}
    <3>1. Len(Rest(n.path)) # 0
      BY <1>2, <2>1, <2>2, <2>3
    <3> QED BY <2>3, <3>1, EmptySeq DEF Path, Root
  <2>5. f[n] = [n EXCEPT !.path = Rest(n.path)]
    OBVIOUS
  <2> HIDE DEF f, S, Rest
  <2> QED BY <2>1, <2>2, <2>3, <2>4, <2>5, NodeExcept
<1>4. IsFiniteSet(D)
  <2>1. IsFiniteSet(S)
    BY DocumentIs, FS_Subset
  <2>2. DOMAIN f = S
    OBVIOUS
  <2> HIDE DEF f, S
  <2> QED BY <2>1, <2>2, FiniteImage
<1> HIDE DEF f, S, l, Rest
<1>5. \A n \in D : n \in Node
  BY <1>3
<1>6. ASSUME NEW m \in D, NEW n \in D, m.path = n.path PROVE m = n
  <2>1. PICK a \in S, b \in S : m = f[a] /\ n = f[b]
    OBVIOUS
  <2>2. Len(a.path) = Len(b.path)
    BY <1>2, <1>3, <1>6, <2>1
  <2>3. ASSUME NEW i \in 1 .. Len(a.path) PROVE a.path[i] = b.path[i]
    <3>1. CASE i <= l
      BY <1>2, <1>3, <2>2, <3>1
    <3>2. CASE i > l
      <4>1. i - l \in 1 .. Len(a.path) - l /\ l + (i - l) = i
        BY <1>2, <1>3, <3>2
      <4>2. Rest(a.path)[i - l] = a.path[l + (i - l)] /\ Rest(b.path)[i - l] = b.path[l + (i - l)]
        BY <1>3, <2>2, <4>1
      <4>3. Rest(a.path) = Rest(b.path)
        BY <1>3, <1>6, <2>1
      <4> QED BY <4>1, <4>2, <4>3
    <3> QED BY <1>2, <1>3, <3>1, <3>2
  <2>4. a.path = b.path
    BY <1>3, <2>2, <2>3, SeqEqual
  <2>5. a = b
    BY <1>3, <2>4, DocumentIs
  <2> QED BY <2>1, <2>5
<1>7. ASSUME NEW n \in D, Len(n.path) > 1
      PROVE  \E m \in D : m.path = Front(n.path) /\ m.type \in Containers
  <2>1. PICK a \in S : n = f[a]
    OBVIOUS
  <2>2. Len(a.path) > l + 1
    BY <1>2, <1>3, <1>7, <2>1
  <2>3. PICK k \in doc : k.path = Front(a.path) /\ k.type \in Containers
    <3>1. Len(a.path) > 1
      BY <1>2, <1>3, <2>2
    <3> QED BY <1>3, <3>1, DocumentIs
  <2>4. /\ k.path \in Seq(STRING) /\ Len(k.path) = Len(a.path) - 1
        /\ \A i \in 1 .. Len(a.path) - 1 : k.path[i] = a.path[i]
    BY <1>2, <1>3, <2>2, <2>3, FrontOf
  <2>5. k \in S
    <3>1. l < Len(k.path) /\ \A i \in 1 .. l : path[i] = k.path[i]
      BY <1>2, <1>3, <2>2, <2>4
    <3>2. IsStrictPrefix(path, k.path)
      BY <1>2, <2>4, <3>1, PrefixOf DEF l
    <3> QED BY <3>2 DEF S
  <2>6. f[k].path = Front(n.path)
    <3>1. /\ Rest(a.path) \in Seq(STRING) /\ Len(Rest(a.path)) >= 1
          /\ Rest(k.path) \in Seq(STRING)
      BY <1>3, <1>7, <2>1, <2>5 DEF Path
    <3>2. /\ Front(Rest(a.path)) \in Seq(STRING)
          /\ Len(Front(Rest(a.path))) = Len(Rest(a.path)) - 1
          /\ \A i \in 1 .. Len(Rest(a.path)) - 1 :
               Front(Rest(a.path))[i] = Rest(a.path)[i]
      BY <3>1, FrontOf
    <3>3. Len(Rest(k.path)) = Len(Rest(a.path)) - 1
      BY <1>2, <1>3, <2>4, <2>5
    <3>4. ASSUME NEW i \in 1 .. Len(Rest(k.path))
          PROVE  Rest(k.path)[i] = Front(Rest(a.path))[i]
      <4>0. /\ l \in Nat /\ Len(a.path) \in Nat /\ Len(k.path) = Len(a.path) - 1
            /\ Len(Rest(k.path)) = Len(k.path) - l
            /\ Len(Rest(a.path)) = Len(a.path) - l
        BY <1>2, <1>3, <2>4, <2>5
      <4>1. /\ i \in 1 .. Len(k.path) - l /\ i \in 1 .. Len(a.path) - l
            /\ l + i \in 1 .. Len(a.path) - 1 /\ i \in 1 .. Len(Rest(a.path)) - 1
        BY <4>0
      <4>2. Rest(k.path)[i] = k.path[l + i] /\ Rest(a.path)[i] = a.path[l + i]
        BY <1>3, <2>5, <4>1
      <4> QED BY <2>4, <3>2, <4>1, <4>2
    <3>5. Rest(k.path) = Front(Rest(a.path))
      BY <3>1, <3>2, <3>3, <3>4, SeqEqual
    <3> QED BY <1>3, <2>1, <2>5, <3>5
  <2> QED BY <1>3, <2>3, <2>5, <2>6
<1> QED BY <1>1, <1>4, <1>5, <1>6, <1>7, IsDocument

-------------------------------------------------------------------------------
(* From a list of maps to data maps.                                       *)

(* The options of a target one after the other, as the source's loop.      *)
OneByOne(s, start, data, tgt, garbage) ==
  /\ s[0] = start
  /\ \A k \in 1 .. Len(tgt) :
       s[k] = InitTgtOption(s[k - 1], data, tgt[k], garbage)
  /\ InitTgt(start, data, tgt, garbage) = s[Len(tgt)]

(* There are such states of the loop.                                      *)
LEMMA InitTgtLoop ==
  ASSUME NEW start, NEW data, NEW tgt, Len(tgt) \in Nat, NEW garbage
  PROVE  \E s : OneByOne(s, start, data, tgt, garbage)
<1> DEFINE Body(f, m) ==
             [k \in 0 .. m |->
                IF k = 0 THEN start
                ELSE InitTgtOption(f[k - 1], data, tgt[k], garbage)]
           I == {m \in Nat : \E f : f = Body(f, m)}
<1>1. 0 \in I
  <2>1. [k \in 0 .. 0 |-> start] = Body([k \in 0 .. 0 |-> start], 0)
    OBVIOUS
  <2> QED BY <2>1
<1>2. ASSUME NEW m \in Nat, m \in I PROVE m + 1 \in I
  <2>1. PICK f : f = Body(f, m)
    BY <1>2
  <2> DEFINE g == Body(f, m + 1)
  <2>2. ASSUME NEW k \in 1 .. m + 1 PROVE g[k - 1] = f[k - 1]
    <3>1. k - 1 \in 0 .. m /\ k - 1 \in 0 .. m + 1
      OBVIOUS
    <3>2. f[k - 1] = Body(f, m)[k - 1]
      BY <2>1
    <3> QED BY <3>1, <3>2
  <2>3. g = Body(g, m + 1)
    <3>1. ASSUME NEW k \in 0 .. m + 1 PROVE g[k] = Body(g, m + 1)[k]
      <4>1. CASE k = 0
        BY <4>1
      <4>2. CASE k # 0
        <5>1. k \in 1 .. m + 1
          BY <4>2
        <5> QED BY <2>2, <5>1
      <4> QED BY <4>1, <4>2
    <3>2. DOMAIN g = 0 .. m + 1 /\ DOMAIN Body(g, m + 1) = 0 .. m + 1
      OBVIOUS
    <3> QED BY <3>1, <3>2
  <2> HIDE DEF g, Body
  <2> QED BY <2>3
<1>3. Len(tgt) \in I
  <2> HIDE DEF I
  <2> QED BY <1>1, <1>2, SetInduction
<1> DEFINE s == CHOOSE f : f = Body(f, Len(tgt))
<1>4. InitTgt(start, data, tgt, garbage) = s[Len(tgt)]
  BY DEF InitTgt
<1>5. s = Body(s, Len(tgt))
  BY <1>3
<1> HIDE DEF s
<1>6. ASSUME NEW k \in 0 .. Len(tgt) PROVE s[k] = Body(s, Len(tgt))[k]
  BY <1>5
<1>7. s[0] = start
  BY <1>6
<1>8. ASSUME NEW k \in 1 .. Len(tgt)
      PROVE  s[k] = InitTgtOption(s[k - 1], data, tgt[k], garbage)
  BY <1>6
<1> QED BY <1>4, <1>7, <1>8 DEF OneByOne

Types == MapType \union {"undefined"} \union Garbage
Item ==
  [key : STRING \union {None}, src_path : Path \union {None}, src_prefix : Path,
   tgt_path : Path \union {None}, src_payload : Document \union {None},
   type : Types, fallback : Int, src_iter : Nat]
Result ==
  {"NO_ERROR", "MISSING_TGT_KEY", "BAD_TYPE_OPTION", "MISSING_SRC_DEF",
   "MISSING_TGT_DEF", "MAP_COUNT_EXCEEDED", "BAD_MAP_TYPE", "NO_MAP_ITEM",
   "BAD_ROOT_TYPE", "MISSING_SRC_KEY"}
Made == [item : Item, is_extended : BOOLEAN, rc : Result]

(* What an item and its result are when the first k options of its target  *)
(* have been read.                                                         *)
ReadUpTo(k, r, data, field, garbage) ==
  LET tgt == field.tgt
  IN /\ r \in Made
     /\ r.item.key = field.key /\ r.item.src_path = field.src
     /\ r.item.src_prefix = <<>> /\ r.item.src_payload = None
     /\ r.rc = "NO_ERROR" =>
          /\ (\A o \in 1 .. k : tgt[o].path = None) =>
               r.item.tgt_path = None /\ r.item.type \in MapType \union {"undefined"}
          /\ \A o \in 1 .. k : tgt[o].path # None =>
               r.item.tgt_path = tgt[o].path /\ Has(data, tgt[o].path)
          /\ r.is_extended <=>
               \E o \in 1 .. k :
                 \/ tgt[o].type # None
                 \/ At(data, tgt[o].path).type \notin BasicType
          /\ \A o \in 1 .. k : tgt[o].type # None =>
               r.item.type = tgt[o].type /\ tgt[o].type \in MapType
          /\ (\A o \in 1 .. k : tgt[o].type = None) =>
               r.item.type =
                 IF \A o \in 1 .. k : tgt[o].path = None THEN "undefined"
                 ELSE ItemType("undefined", At(data, r.item.tgt_path), garbage)
          /\ r.item.tgt_path # None
               /\ At(data, r.item.tgt_path).type \in BasicType =>
               r.item.fallback = At(data, r.item.tgt_path).val

(* One more option.                                                        *)
LEMMA OptionRead ==
  ASSUME NEW data \in Document, NEW field \in MapField, NEW garbage \in Garbage,
         NEW k \in 1 .. Len(field.tgt), NEW r,
         ReadUpTo(k - 1, r, data, field, garbage)
  PROVE  ReadUpTo(k, InitTgtOption(r, data, field.tgt[k], garbage),
                  data, field, garbage)
<1> DEFINE tgt == field.tgt
           o == tgt[k]
           q == InitTgtOption(r, data, o, garbage)
<1>0. k \in 1 .. Len(tgt)
  OBVIOUS
<1>1. /\ tgt \in Seq(Option) /\ o \in Option
      /\ Len(tgt) \in Nat /\ DOMAIN tgt = 1 .. Len(tgt)
      /\ \A i, j \in 1 .. Len(tgt) :
           /\ tgt[i].path # None /\ tgt[j].path # None => i = j
           /\ tgt[i].type # None /\ tgt[j].type # None => i = j
  <2>1. tgt \in Seq(Option) /\ Len(tgt) \in Nat /\ DOMAIN tgt = 1 .. Len(tgt)
    BY DEF MapField
  <2>2. \A i, j \in 1 .. Len(tgt) :
           /\ tgt[i].path # None /\ tgt[j].path # None => i = j
           /\ tgt[i].type # None /\ tgt[j].type # None => i = j
    BY <2>1 DEF MapField
  <2> QED BY <2>1, <2>2
<1>2. /\ o.path \in Path \union {None} /\ o.type \in STRING \union {None}
      /\ o.path = None <=> o.type # None
  BY <1>1 DEF Option
<1>3. \A i \in 1 .. k : i \in 1 .. k - 1 \/ i = k
  OBVIOUS
<1>4. \A i \in 1 .. k - 1 : i \in 1 .. k /\ i \in 1 .. Len(tgt) /\ i # k
  BY <1>1
<1>5. /\ r \in Made /\ r.item \in Item
      /\ r.item.key = field.key /\ r.item.src_path = field.src
      /\ r.item.src_prefix = <<>> /\ r.item.src_payload = None
  BY DEF ReadUpTo, Made
<1> HIDE DEF tgt, o, q
<1>6. CASE r.rc # "NO_ERROR"
  <2>1. q = r
    BY <1>6 DEF InitTgtOption, q
  <2> QED BY <1>5, <1>6, <2>1 DEF ReadUpTo, o, tgt, q
<1>7. CASE r.rc = "NO_ERROR" /\ o.path # None /\ ~Has(data, o.path)
  <2>1. q = [item |-> [r.item EXCEPT !.tgt_path = o.path],
             is_extended |-> r.is_extended, rc |-> "MISSING_TGT_KEY"]
    BY <1>7 DEF InitTgtOption, InitTgtPath, q
  <2>2. /\ q \in Made /\ q.rc # "NO_ERROR"
        /\ q.item.key = field.key /\ q.item.src_path = field.src
        /\ q.item.src_prefix = <<>> /\ q.item.src_payload = None
    BY <1>2, <1>5, <1>7, <2>1 DEF Made, Result, Item
  <2> QED BY <2>2 DEF ReadUpTo, o, tgt, q
<1>8. CASE r.rc = "NO_ERROR" /\ o.path # None /\ Has(data, o.path)
  <2> DEFINE n == At(data, o.path)
             t == ItemType(r.item.type, n, garbage)
             e == n.type \notin BasicType
             f == IF n.type \in BasicType THEN n.val ELSE r.item.fallback
  <2>1. n \in data /\ n.path = o.path /\ n.val \in Int
    BY <1>8, AtNode, DocumentIs
  <2>2. t \in Types /\ f \in Int
    BY <1>5, <2>1 DEF Item, Types, ItemType
  <2>3. q = [item |-> [r.item EXCEPT !.tgt_path = o.path, !.fallback = f,
                                     !.type = t],
             is_extended |-> r.is_extended \/ e, rc |-> "NO_ERROR"]
    BY <1>8 DEF InitTgtOption, InitTgtPath, q
  <2>0. e \in BOOLEAN
    OBVIOUS
  <2> HIDE DEF n, t, f, e
  <2>4. /\ q \in Made /\ q.rc = "NO_ERROR"
        /\ q.item.key = field.key /\ q.item.src_path = field.src
        /\ q.item.src_prefix = <<>> /\ q.item.src_payload = None
        /\ q.item.tgt_path = o.path /\ q.item.type = t /\ q.item.fallback = f
        /\ q.is_extended = (r.is_extended \/ e)
    <3>1. o.path \in Path
      BY <1>2, <1>8
    <3> QED BY <1>5, <1>8, <2>0, <2>2, <2>3, <3>1 DEF Made, Result, Item
  <2>5. o.type = None /\ \A i \in 1 .. k - 1 : tgt[i].path = None
    BY <1>0, <1>1, <1>2, <1>4, <1>8 DEF o
  <2>6. r.item.type \in MapType \union {"undefined"}
    BY <1>8, <2>5 DEF ReadUpTo, tgt
  <2>7. \A i \in 1 .. k : tgt[i].path # None =>
          q.item.tgt_path = tgt[i].path /\ Has(data, tgt[i].path)
    BY <1>3, <1>8, <2>4, <2>5 DEF o
  <2>8. q.is_extended <=>
          \E i \in 1 .. k : \/ tgt[i].type # None
                            \/ At(data, tgt[i].path).type \notin BasicType
    <3>1. r.is_extended <=>
            \E i \in 1 .. k - 1 : \/ tgt[i].type # None
                                  \/ At(data, tgt[i].path).type \notin BasicType
      BY <1>8 DEF ReadUpTo, tgt
    <3>2. \/ tgt[k].type # None \/ At(data, tgt[k].path).type \notin BasicType
          <=> e
      BY <2>5 DEF n, e, o
    <3>3. k \in 1 .. k
      OBVIOUS
    <3> QED BY <1>3, <1>4, <2>4, <3>1, <3>2, <3>3
  <2>9. \A i \in 1 .. k : tgt[i].type # None =>
          q.item.type = tgt[i].type /\ tgt[i].type \in MapType
    <3>1. ASSUME NEW i \in 1 .. k, tgt[i].type # None
          PROVE  q.item.type = tgt[i].type /\ tgt[i].type \in MapType
      <4>1. i \in 1 .. k - 1
        BY <1>3, <2>5, <3>1 DEF o
      <4>2. r.item.type = tgt[i].type /\ tgt[i].type \in MapType
        BY <1>8, <3>1, <4>1 DEF ReadUpTo, tgt
      <4>3. t = r.item.type
        BY <4>2 DEF t, ItemType, MapType
      <4> QED BY <2>4, <4>2, <4>3
    <3> QED BY <3>1
  <2>10. ASSUME \A i \in 1 .. k : tgt[i].type = None
         PROVE  q.item.type = ItemType("undefined", At(data, q.item.tgt_path), garbage)
    <3>1. r.item.type = "undefined"
      BY <1>4, <1>8, <2>5, <2>10 DEF ReadUpTo, tgt
    <3> QED BY <2>4, <3>1 DEF t, n
  <2>11. ~ \A i \in 1 .. k : tgt[i].path = None
    BY <1>8 DEF o
  <2>12. At(data, q.item.tgt_path).type \in BasicType =>
           q.item.fallback = At(data, q.item.tgt_path).val
    BY <2>4 DEF f, n
  <2> QED BY <2>4, <2>7, <2>8, <2>9, <2>10, <2>11, <2>12 DEF ReadUpTo, o, tgt, q
<1>9. CASE r.rc = "NO_ERROR" /\ o.path = None /\ o.type \in MapType
  <2>1. q = [item |-> [r.item EXCEPT !.type = o.type],
             is_extended |-> TRUE, rc |-> "NO_ERROR"]
    BY <1>9 DEF InitTgtOption, q
  <2>2. /\ q \in Made /\ q.rc = "NO_ERROR"
        /\ q.item.key = field.key /\ q.item.src_path = field.src
        /\ q.item.src_prefix = <<>> /\ q.item.src_payload = None
        /\ q.item.tgt_path = r.item.tgt_path /\ q.item.type = o.type
        /\ q.item.fallback = r.item.fallback /\ q.is_extended = TRUE
    <3>1. o.type \in Types
      BY <1>9 DEF Types
    <3> QED BY <1>5, <1>9, <2>1, <3>1 DEF Made, Result, Item
  <2>3. o.type # None /\ \A i \in 1 .. k - 1 : tgt[i].type = None
    BY <1>0, <1>1, <1>2, <1>4, <1>9 DEF o
  <2>4. (\A i \in 1 .. k : tgt[i].path = None) => q.item.tgt_path = None
    BY <1>4, <1>9, <2>2 DEF ReadUpTo, tgt
  <2>8. q.item.tgt_path # None /\ At(data, q.item.tgt_path).type \in BasicType =>
          q.item.fallback = At(data, q.item.tgt_path).val
    BY <1>9, <2>2 DEF ReadUpTo, tgt
  <2>5. \A i \in 1 .. k : tgt[i].path # None =>
          q.item.tgt_path = tgt[i].path /\ Has(data, tgt[i].path)
    <3>1. \A i \in 1 .. k - 1 : tgt[i].path # None =>
            r.item.tgt_path = tgt[i].path /\ Has(data, tgt[i].path)
      BY <1>9 DEF ReadUpTo, tgt
    <3> QED BY <1>3, <1>9, <2>2, <3>1 DEF o
  <2>6. \A i \in 1 .. k : tgt[i].type # None =>
          q.item.type = tgt[i].type /\ tgt[i].type \in MapType
    BY <1>3, <1>9, <2>2, <2>3 DEF o
  <2>7. k \in 1 .. k /\ tgt[k].type # None
    BY <2>3 DEF o
  <2> QED BY <1>9, <2>2, <2>4, <2>5, <2>6, <2>7, <2>8 DEF ReadUpTo, o, tgt, q
<1>10. CASE r.rc = "NO_ERROR" /\ o.path = None /\ o.type \notin MapType
  <2>1. q = [item |-> r.item, is_extended |-> TRUE, rc |-> "BAD_TYPE_OPTION"]
    BY <1>10 DEF InitTgtOption, q
  <2>3. q \in Made /\ q.rc = "BAD_TYPE_OPTION" /\ q.item = r.item
    BY <1>5, <2>1 DEF Made, Result
  <2> QED BY <1>5, <2>3 DEF ReadUpTo, o, tgt, q
<1> QED BY <1>6, <1>7, <1>8, <1>9, <1>10 DEF o, tgt, q

(* An item that has been made without error: its options have been read,   *)
(* and it has a source and a target.                                       *)
LEMMA ItemMade ==
  ASSUME NEW data \in Document, NEW field \in MapField, NEW garbage \in Garbage
  PROVE  LET i == InitItem(data, field, garbage)
         IN /\ ReadUpTo(Len(field.tgt), i, data, field, garbage)
            /\ i.rc = "NO_ERROR" =>
                 /\ i.item.src_path # None /\ i.item.tgt_path # None
                 /\ Has(data, i.item.tgt_path)
<1> DEFINE tgt == field.tgt
           start == [item |-> [NewItem EXCEPT !.src_path = field.src,
                                              !.key = field.key],
                     is_extended |-> FALSE, rc |-> "NO_ERROR"]
<1>1. /\ Len(tgt) \in Nat
      /\ field.src \in Path \union {None} /\ field.key \in STRING \union {None}
  BY DEF MapField
<1>2. PICK s : /\ s[0] = start
               /\ \A k \in 1 .. Len(tgt) :
                    s[k] = InitTgtOption(s[k - 1], data, tgt[k], garbage)
               /\ InitTgt(start, data, tgt, garbage) = s[Len(tgt)]
  <2>1. Len(tgt) \in Nat
    BY <1>1
  <2> HIDE DEF start, tgt
  <2>2. \E s : OneByOne(s, start, data, tgt, garbage)
    BY <2>1, InitTgtLoop
  <2> QED BY <2>2 DEF OneByOne
<1>3. /\ start.item \in Item
      /\ start.item.key = field.key /\ start.item.src_path = field.src
      /\ start.item.src_prefix = <<>> /\ start.item.src_payload = None
      /\ start.item.tgt_path = None /\ start.item.type = "undefined"
      /\ start.is_extended = FALSE
      /\ start \in Made
  <2>1. <<>> \in Path
    BY EmptySeq DEF Path
  <2>2. "undefined" \in Types
    BY DEF Types
  <2>3. NewItem \in Item
    BY <2>1, <2>2 DEF Item, NewItem
  <2>4. /\ start.item \in Item
        /\ start.item.key = field.key /\ start.item.src_path = field.src
        /\ start.item.src_prefix = NewItem.src_prefix
        /\ start.item.src_payload = NewItem.src_payload
        /\ start.item.tgt_path = NewItem.tgt_path
        /\ start.item.type = NewItem.type
    BY <1>1, <2>3 DEF Item
  <2>5. start \in Made
    <3>1. start.item \in Item
      BY <2>4
    <3> QED BY <3>1 DEF Made, Result
  <2> QED BY <2>4, <2>5 DEF NewItem
<1>4. ReadUpTo(0, start, data, field, garbage)
  <2> HIDE DEF start
  <2> QED BY <1>3 DEF ReadUpTo
<1> HIDE DEF start
<1> DEFINE I == {k \in Nat : k <= Len(tgt) => ReadUpTo(k, s[k], data, field, garbage)}
<1>5. 0 \in I
  BY <1>2, <1>4
<1>6. ASSUME NEW k \in Nat, k \in I PROVE k + 1 \in I
  <2> SUFFICES ASSUME k + 1 <= Len(tgt)
               PROVE  ReadUpTo(k + 1, s[k + 1], data, field, garbage)
    OBVIOUS
  <2>1. k + 1 \in 1 .. Len(field.tgt) /\ (k + 1) - 1 = k
    BY <1>1
  <2>2. ReadUpTo(k, s[k], data, field, garbage)
    BY <1>1, <1>6
  <2>3. s[k + 1] = InitTgtOption(s[k], data, tgt[k + 1], garbage)
    BY <1>2, <2>1
  <2> QED BY <2>1, <2>2, <2>3, OptionRead
<1>7. Len(tgt) \in I
  <2> HIDE DEF I
  <2> QED BY <1>1, <1>5, <1>6, SetInduction
<1> DEFINE r == InitTgt(start, data, tgt, garbage)
           i == InitItem(data, field, garbage)
<1>8. ReadUpTo(Len(tgt), r, data, field, garbage)
  BY <1>1, <1>2, <1>7
<1>9. r \in Made
  BY <1>8 DEF ReadUpTo
<1>10. i = IF r.rc # "NO_ERROR" THEN r
           ELSE IF r.item.src_path = None THEN [r EXCEPT !.rc = "MISSING_SRC_DEF"]
           ELSE IF r.item.tgt_path = None THEN [r EXCEPT !.rc = "MISSING_TGT_DEF"]
           ELSE r
  BY DEF InitItem, start
<1> HIDE DEF r, i
<1>11. CASE i = r /\ (r.rc = "NO_ERROR" => r.item.src_path # None /\ r.item.tgt_path # None)
  <2>1. ASSUME r.rc = "NO_ERROR" PROVE Has(data, r.item.tgt_path)
    <3>1. \E o \in 1 .. Len(tgt) : tgt[o].path # None
      BY <1>8, <1>11, <2>1 DEF ReadUpTo
    <3> QED BY <1>8, <2>1, <3>1 DEF ReadUpTo
  <2> QED BY <1>8, <1>11, <2>1 DEF i
<1>12. ASSUME NEW rc \in Result, rc # "NO_ERROR", i = [r EXCEPT !.rc = rc]
       PROVE  ReadUpTo(Len(tgt), i, data, field, garbage) /\ i.rc # "NO_ERROR"
  <2>1. i \in Made /\ i.item = r.item /\ i.rc = rc
    BY <1>9, <1>12 DEF Made
  <2> QED BY <1>8, <1>12, <2>1 DEF ReadUpTo
<1>13. "MISSING_SRC_DEF" \in Result /\ "MISSING_TGT_DEF" \in Result
  BY DEF Result
<1> QED BY <1>10, <1>11, <1>12, <1>13 DEF i

(* The data maps a list is made into.                                      *)
Maps == [items : Seq(Item), is_extended : BOOLEAN,
         tgt_payload : Document, mapped_payload : Document]

(* smx_config_data_maps_init after k entries of the list.                  *)
MapsUpTo(k, s, list, data, garbage) ==
  /\ s \in [maps : Maps, rc : Result]
  /\ s.maps.tgt_payload = data /\ s.maps.mapped_payload = data
  /\ s.rc = "NO_ERROR" =>
       /\ Len(s.maps.items) = k
       /\ \A i \in 1 .. k :
            /\ list[i] # NoDocument
            /\ InitItem(data, list[i], garbage).rc = "NO_ERROR"
            /\ s.maps.items[i] = InitItem(data, list[i], garbage).item
       /\ s.maps.is_extended <=>
            \E i \in 1 .. k : InitItem(data, list[i], garbage).is_extended

(* The entries of a list one after the other, as the source's loop.        *)
LEMMA InitMapsLoop ==
  ASSUME NEW list, NEW data, Len(list) \in Nat, NEW garbage
  PROVE  LET start == [maps |-> [items |-> <<>>, is_extended |-> FALSE,
                                 tgt_payload |-> data, mapped_payload |-> data],
                       rc |-> "NO_ERROR"]
         IN \E s : /\ s[0] = start
                   /\ \A k \in 1 .. Len(list) :
                        s[k] = InitMap(s[k - 1], list[k], garbage)
                   /\ InitMaps(list, data, garbage) =
                        IF s[Len(list)].rc = "NO_ERROR"
                             /\ s[Len(list)].maps.items = <<>>
                        THEN [s[Len(list)] EXCEPT !.rc = "NO_MAP_ITEM"]
                        ELSE s[Len(list)]
<1> DEFINE start == [maps |-> [items |-> <<>>, is_extended |-> FALSE,
                               tgt_payload |-> data, mapped_payload |-> data],
                     rc |-> "NO_ERROR"]
           Body(f, m) ==
             [k \in 0 .. m |->
                IF k = 0 THEN start ELSE InitMap(f[k - 1], list[k], garbage)]
           I == {m \in Nat : \E f : f = Body(f, m)}
           s == CHOOSE f : f = Body(f, Len(list))
<1>0. InitMaps(list, data, garbage) =
        IF s[Len(list)].rc = "NO_ERROR" /\ s[Len(list)].maps.items = <<>>
        THEN [s[Len(list)] EXCEPT !.rc = "NO_MAP_ITEM"]
        ELSE s[Len(list)]
  BY DEF InitMaps
<1> HIDE DEF start, s
<1>1. 0 \in I
  <2>1. [k \in 0 .. 0 |-> start] = Body([k \in 0 .. 0 |-> start], 0)
    OBVIOUS
  <2> QED BY <2>1
<1>2. ASSUME NEW m \in Nat, m \in I PROVE m + 1 \in I
  <2>1. PICK f : f = Body(f, m)
    BY <1>2
  <2> DEFINE g == Body(f, m + 1)
  <2>2. ASSUME NEW k \in 1 .. m + 1 PROVE g[k - 1] = f[k - 1]
    <3>1. k - 1 \in 0 .. m /\ k - 1 \in 0 .. m + 1
      OBVIOUS
    <3>2. f[k - 1] = Body(f, m)[k - 1]
      BY <2>1
    <3> QED BY <3>1, <3>2
  <2>3. g = Body(g, m + 1)
    <3>1. ASSUME NEW k \in 0 .. m + 1 PROVE g[k] = Body(g, m + 1)[k]
      <4>1. CASE k = 0
        BY <4>1
      <4>2. CASE k # 0
        <5>1. k \in 1 .. m + 1
          BY <4>2
        <5> QED BY <2>2, <5>1
      <4> QED BY <4>1, <4>2
    <3>2. DOMAIN g = 0 .. m + 1 /\ DOMAIN Body(g, m + 1) = 0 .. m + 1
      OBVIOUS
    <3> QED BY <3>1, <3>2
  <2> HIDE DEF g, Body
  <2> QED BY <2>3
<1>3. Len(list) \in I
  <2> HIDE DEF I
  <2> QED BY <1>1, <1>2, SetInduction
<1>5. s = Body(s, Len(list))
  BY <1>3 DEF s
<1>6. ASSUME NEW k \in 0 .. Len(list) PROVE s[k] = Body(s, Len(list))[k]
  BY <1>5
<1>7. s[0] = start
  BY <1>6
<1>8. ASSUME NEW k \in 1 .. Len(list)
      PROVE  s[k] = InitMap(s[k - 1], list[k], garbage)
  BY <1>6
<1> QED BY <1>0, <1>7, <1>8 DEF start

(* Data maps made without error are those of their list, item by item.     *)
LEMMA MapsMade ==
  ASSUME NEW data \in Document, NEW list \in MapList, NEW garbage \in Garbage,
         InitMaps(list, data, garbage).rc = "NO_ERROR"
  PROVE  MapsUpTo(Len(list), InitMaps(list, data, garbage),
                  list, data, garbage)
<1> DEFINE start == [maps |-> [items |-> <<>>, is_extended |-> FALSE,
                               tgt_payload |-> data, mapped_payload |-> data],
                     rc |-> "NO_ERROR"]
           n == Len(list)
<1>1. n \in Nat /\ \A k \in 1 .. n : list[k] \in MapField \union {NoDocument}
  BY DEF MapList
<1>2. PICK s : /\ s[0] = start
               /\ \A k \in 1 .. n : s[k] = InitMap(s[k - 1], list[k], garbage)
               /\ InitMaps(list, data, garbage) =
                    IF s[n].rc = "NO_ERROR" /\ s[n].maps.items = <<>>
                    THEN [s[n] EXCEPT !.rc = "NO_MAP_ITEM"] ELSE s[n]
  BY <1>1, InitMapsLoop
<1> DEFINE I == {k \in Nat : k <= n => MapsUpTo(k, s[k], list, data, garbage)}
<1>3. 0 \in I
  <2>1. <<>> \in Seq(Item) /\ Len(<<>>) = 0
    BY EmptySeq
  <2>2. start.maps \in Maps
    BY <2>1 DEF Maps
  <2>3. start \in [maps : Maps, rc : Result]
    BY <2>2 DEF Result
  <2>4. MapsUpTo(0, start, list, data, garbage)
    BY <2>1, <2>3 DEF MapsUpTo
  <2> HIDE DEF start
  <2>5. MapsUpTo(0, s[0], list, data, garbage)
    BY <1>2, <2>4
  <2> QED BY <2>5
<1> HIDE DEF start, n
<1>4. ASSUME NEW k \in Nat, k \in I PROVE k + 1 \in I
  <2> SUFFICES ASSUME k + 1 <= n
               PROVE  MapsUpTo(k + 1, s[k + 1], list, data, garbage)
    OBVIOUS
  <2> DEFINE r == s[k]
             q == s[k + 1]
             field == list[k + 1]
             i == InitItem(data, field, garbage)
  <2>1. MapsUpTo(k, r, list, data, garbage)
    BY <1>1, <1>4
  <2>2. q = InitMap(r, field, garbage)
    <3>1. k + 1 \in 1 .. n /\ (k + 1) - 1 = k
      BY <1>1
    <3> QED BY <1>2, <3>1
  <2>3. field \in MapField \union {NoDocument}
    <3>1. k + 1 \in 1 .. n
      BY <1>1
    <3> QED BY <1>1, <3>1
  <2>4. /\ r \in [maps : Maps, rc : Result]
        /\ r.maps \in Maps /\ r.rc \in Result
        /\ r.maps.tgt_payload = data /\ r.maps.mapped_payload = data
        /\ r.maps.items \in Seq(Item) /\ Len(r.maps.items) \in Nat
        /\ r.maps.is_extended \in BOOLEAN
    BY <2>1 DEF MapsUpTo, Maps
  <2> HIDE DEF r, q, field, i
  <2>5. CASE r.rc # "NO_ERROR"
    <3>1. q = r
      BY <2>2, <2>5 DEF InitMap
    <3> QED BY <2>4, <2>5, <3>1 DEF MapsUpTo, q
  <2>6. CASE r.rc = "NO_ERROR" /\ Len(r.maps.items) >= MaxMapItems
    <3>1. q = [r EXCEPT !.rc = "MAP_COUNT_EXCEEDED"]
      BY <2>2, <2>4, <2>6, ProgramAssumption DEF InitMap
    <3>2. /\ q \in [maps : Maps, rc : Result]
          /\ q.maps = r.maps /\ q.rc # "NO_ERROR"
      BY <2>4, <3>1 DEF Result
    <3> QED BY <2>4, <3>2 DEF MapsUpTo, q
  <2>7. CASE r.rc = "NO_ERROR" /\ Len(r.maps.items) < MaxMapItems /\ field = NoDocument
    <3>1. q = [r EXCEPT !.rc = "BAD_MAP_TYPE"]
      BY <2>2, <2>4, <2>7, ProgramAssumption DEF InitMap
    <3>2. /\ q \in [maps : Maps, rc : Result]
          /\ q.maps = r.maps /\ q.rc # "NO_ERROR"
      BY <2>4, <3>1 DEF Result
    <3> QED BY <2>4, <3>2 DEF MapsUpTo, q
  <2>8. CASE r.rc = "NO_ERROR" /\ Len(r.maps.items) < MaxMapItems /\ field # NoDocument
    <3>1. q = [maps |-> [r.maps EXCEPT
                           !.items = IF i.rc = "NO_ERROR"
                                     THEN Append(r.maps.items, i.item) ELSE r.maps.items,
                           !.is_extended = r.maps.is_extended \/ i.is_extended],
               rc |-> i.rc]
      BY <2>2, <2>4, <2>8, ProgramAssumption DEF InitMap, i
    <3>2. i \in Made /\ i.item \in Item /\ i.is_extended \in BOOLEAN /\ i.rc \in Result
      BY <2>3, <2>8, ItemMade DEF ReadUpTo, Made, i
    <3> DEFINE items == IF i.rc = "NO_ERROR"
                        THEN Append(r.maps.items, i.item) ELSE r.maps.items
               e == r.maps.is_extended \/ i.is_extended
    <3>3. items \in Seq(Item) /\ e \in BOOLEAN
      BY <2>4, <3>2
    <3>4. q = [maps |-> [r.maps EXCEPT !.items = items, !.is_extended = e], rc |-> i.rc]
      BY <3>1
    <3> HIDE DEF items, e
    <3>5. /\ q \in [maps : Maps, rc : Result]
          /\ q.maps.tgt_payload = data /\ q.maps.mapped_payload = data
          /\ q.maps.items = items /\ q.maps.is_extended = e /\ q.rc = i.rc
      <4>1. [r.maps EXCEPT !.items = items, !.is_extended = e] \in Maps
        BY <2>4, <3>3 DEF Maps
      <4> QED BY <2>4, <3>2, <3>4, <4>1 DEF Maps
    <3>6. CASE i.rc # "NO_ERROR"
      BY <3>5, <3>6 DEF MapsUpTo, q
    <3>7. CASE i.rc = "NO_ERROR"
      <4>1. /\ Len(r.maps.items) = k
            /\ \A j \in 1 .. k :
                 /\ list[j] # NoDocument
                 /\ InitItem(data, list[j], garbage).rc = "NO_ERROR"
                 /\ r.maps.items[j] = InitItem(data, list[j], garbage).item
            /\ r.maps.is_extended <=>
                 \E j \in 1 .. k : InitItem(data, list[j], garbage).is_extended
        BY <2>1, <2>8 DEF MapsUpTo, r
      <4>2. /\ Len(items) = k + 1 /\ items[k + 1] = i.item
            /\ \A j \in 1 .. k : items[j] = r.maps.items[j]
        BY <2>4, <3>2, <3>7, <4>1 DEF items
      <4>3. \A j \in 1 .. k + 1 : j \in 1 .. k \/ j = k + 1
        OBVIOUS
      <4>4. k + 1 \in 1 .. k + 1 /\ \A j \in 1 .. k : j \in 1 .. k + 1
        OBVIOUS
      <4>5. \A j \in 1 .. k + 1 :
                 /\ list[j] # NoDocument
                 /\ InitItem(data, list[j], garbage).rc = "NO_ERROR"
                 /\ items[j] = InitItem(data, list[j], garbage).item
        BY <2>8, <3>7, <4>1, <4>2, <4>3 DEF i, field
      <4>6. e <=> \E j \in 1 .. k + 1 : InitItem(data, list[j], garbage).is_extended
        BY <4>1, <4>3, <4>4 DEF e, i, field
      <4> QED BY <3>5, <4>2, <4>5, <4>6 DEF MapsUpTo, q
    <3> QED BY <3>6, <3>7
  <2> QED BY <2>4, <2>5, <2>6, <2>7, <2>8, ProgramAssumption
<1>5. n \in Nat /\ n \in I
  <2>1. n \in Nat
    BY <1>1
  <2> HIDE DEF I
  <2> QED BY <1>3, <1>4, <2>1, SetInduction
<1>6. MapsUpTo(n, s[n], list, data, garbage)
  BY <1>5
<1>7. InitMaps(list, data, garbage) = s[n]
  <2>1. s[n] \in [maps : Maps, rc : Result]
    BY <1>6 DEF MapsUpTo
  <2>2. ([s[n] EXCEPT !.rc = "NO_MAP_ITEM"]).rc = "NO_MAP_ITEM"
    BY <2>1
  <2> QED BY <1>2, <2>2
<1> QED BY <1>6, <1>7 DEF n

-------------------------------------------------------------------------------
(* What is appended stays at its path and below.                           *)

(* The first k elements of a sequence.                                     *)
LEMMA HeadOf ==
  ASSUME NEW S, NEW s \in Seq(S), NEW k \in 0 .. Len(s)
  PROVE  /\ SubSeq(s, 1, k) \in Seq(S) /\ Len(SubSeq(s, 1, k)) = k
         /\ \A i \in 1 .. k : SubSeq(s, 1, k)[i] = s[i]
<1>1. Len(s) \in Nat /\ k \in Nat /\ k <= Len(s)
  OBVIOUS
<1>2. \A i \in 1 .. k : s[i] \in S
  BY <1>1
<1>3. /\ SubSeq(s, 1, k) \in Seq(S)
      /\ Len(SubSeq(s, 1, k)) = IF 1 <= k THEN k - 1 + 1 ELSE 0
      /\ \A i \in 1 .. k - 1 + 1 : SubSeq(s, 1, k)[i] = s[1 + i - 1]
  BY <1>1, <1>2, SubSeqProperties
<1>4. \A i \in 1 .. k : i \in 1 .. k - 1 + 1 /\ 1 + i - 1 = i
  BY <1>1
<1> QED BY <1>1, <1>3, <1>4

(* Two sequences, one behind the other.                                    *)
LEMMA ConcatOf ==
  ASSUME NEW S, NEW s \in Seq(S), NEW t \in Seq(S)
  PROVE  /\ s \o t \in Seq(S) /\ Len(s \o t) = Len(s) + Len(t)
         /\ \A i \in 1 .. Len(s) : (s \o t)[i] = s[i]
         /\ \A i \in 1 .. Len(t) : (s \o t)[Len(s) + i] = t[i]
OBVIOUS

(* What leads to a node is in the document, as containers.                 *)
LEMMA Ancestor ==
  ASSUME NEW doc \in Document, NEW n \in doc, NEW k \in 1 .. Len(n.path) - 1
  PROVE  \E m \in doc : m.path = SubSeq(n.path, 1, k) /\ m.type \in Containers
<1> DEFINE I == {j \in Nat : \A a \in doc : Len(a.path) = k + 1 + j =>
                   \E m \in doc : m.path = SubSeq(a.path, 1, k) /\ m.type \in Containers}
<1>0. /\ k \in Nat /\ k >= 1
      /\ \A a \in doc : a.path \in Seq(STRING) /\ Len(a.path) \in Nat
  BY DocumentIs
<1>1. ASSUME NEW a \in doc, Len(a.path) > 1
      PROVE  \E m \in doc : m.path = SubSeq(a.path, 1, Len(a.path) - 1) /\ m.type \in Containers
  BY <1>1, DocumentIs DEF Front
<1>2. 0 \in I
  <2> SUFFICES ASSUME NEW a \in doc, Len(a.path) = k + 1
               PROVE  \E m \in doc : m.path = SubSeq(a.path, 1, k) /\ m.type \in Containers
    BY <1>0
  <2>1. Len(a.path) > 1 /\ Len(a.path) - 1 = k
    BY <1>0
  <2> QED BY <1>1, <2>1
<1>3. ASSUME NEW j \in Nat, j \in I PROVE j + 1 \in I
  <2> SUFFICES ASSUME NEW a \in doc, Len(a.path) = k + 1 + (j + 1)
               PROVE  \E m \in doc : m.path = SubSeq(a.path, 1, k) /\ m.type \in Containers
    OBVIOUS
  <2>1. PICK b \in doc : b.path = SubSeq(a.path, 1, Len(a.path) - 1)
    BY <1>0, <1>1
  <2>2. /\ Len(b.path) = k + 1 + j
        /\ \A i \in 1 .. k + 1 + j : b.path[i] = a.path[i]
    <3>1. Len(a.path) - 1 \in 0 .. Len(a.path) /\ Len(a.path) - 1 = k + 1 + j
      BY <1>0
    <3> QED BY <1>0, <2>1, <3>1, HeadOf
  <2>3. PICK m \in doc : m.path = SubSeq(b.path, 1, k) /\ m.type \in Containers
    BY <1>3, <2>2
  <2>4. SubSeq(b.path, 1, k) = SubSeq(a.path, 1, k)
    <3>1. k \in 0 .. Len(a.path) /\ k \in 0 .. Len(b.path)
      BY <1>0, <2>2
    <3>2. \A i \in 1 .. k : i \in 1 .. k + 1 + j
      BY <1>0
    <3>3. /\ SubSeq(a.path, 1, k) \in Seq(STRING) /\ Len(SubSeq(a.path, 1, k)) = k
          /\ \A i \in 1 .. k : SubSeq(a.path, 1, k)[i] = a.path[i]
      BY <1>0, <3>1, HeadOf
    <3>4. /\ SubSeq(b.path, 1, k) \in Seq(STRING) /\ Len(SubSeq(b.path, 1, k)) = k
          /\ \A i \in 1 .. k : SubSeq(b.path, 1, k)[i] = b.path[i]
      BY <1>0, <3>1, HeadOf
    <3> QED BY <2>2, <3>2, <3>3, <3>4, SeqEqual
  <2> QED BY <2>3, <2>4
<1>4. Len(n.path) - k - 1 \in I
  <2>1. Len(n.path) - k - 1 \in Nat
    BY <1>0
  <2> HIDE DEF I
  <2> QED BY <1>2, <1>3, <2>1, SetInduction
<1>5. Len(n.path) = k + 1 + (Len(n.path) - k - 1)
  <2> DEFINE x == Len(n.path)
  <2>1. x \in Nat
    BY <1>0
  <2>2. k \in Nat
    BY <1>0
  <2> HIDE DEF x
  <2>3. x = k + 1 + (x - k - 1)
    BY <2>1, <2>2
  <2> QED BY <2>3 DEF x
<1> QED BY <1>4, <1>5

(* A part of a document, below and with a path.                            *)
Graft(D, path) ==
  /\ IsFiniteSet(D)
  /\ \A m \in D : m \in Node /\ IsPrefix(path, m.path)
  /\ \A m, n \in D : m.path = n.path => m = n
  /\ \A m \in D : Len(m.path) > Len(path) =>
       \E n \in D : n.path = Front(m.path) /\ n.type \in Containers

(* What a node is.                                                         *)
LEMMA NodeIs ==
  ASSUME NEW n \in Node
  PROVE  /\ n.path \in Path /\ n.path # Root /\ n.path \in Seq(STRING)
         /\ Len(n.path) \in Nat /\ Len(n.path) >= 1
         /\ n.type \in BsonType /\ n.val \in Int
<1>1. /\ n.path \in Seq(STRING) /\ n.path # <<>>
      /\ n.type \in BsonType /\ n.val \in Int
  BY DEF Node, Path, Root
<1>2. Len(n.path) \in Nat \ {0}
  BY <1>1, EmptySeq
<1> QED BY <1>1, <1>2 DEF Root, Path

(* One node.                                                               *)
LEMMA KeyGraft ==
  ASSUME NEW path \in Path \ {Root}, NEW type \in BsonType, NEW val \in Int
  PROVE  /\ Key(path, type, val) \in Node
         /\ Graft({Key(path, type, val)}, path)
<1> DEFINE n == Key(path, type, val)
<1>1. n \in Node /\ n.path = path
  BY DEF Key, Node
<1> HIDE DEF n
<1>2. IsPrefix(path, path)
  BY PrefixOf DEF Path
<1>3. IsFiniteSet({n})
  BY FS_Singleton
<1>4. ~(Len(path) > Len(path))
  <2>1. Len(path) \in Nat
    BY DEF Path
  <2> QED BY <2>1
<1>5. Graft({n}, path)
  BY <1>1, <1>2, <1>3, <1>4 DEF Graft
<1> QED BY <1>1, <1>5 DEF n

(* A document under a new key.                                             *)
LEMMA AppendGraft ==
  ASSUME NEW path \in Path \ {Root}, NEW type \in BsonType, NEW val \in Int,
         NEW doc \in Document, doc # {} => type \in Containers
  PROVE  Graft(Append_(path, type, val, doc), path)
<1> DEFINE K == Key(path, type, val)
           Up(n) == [n EXCEPT !.path = path \o n.path]
           D == {K} \union {Up(n) : n \in doc}
           l == Len(path)
<1>0. Append_(path, type, val, doc) = D
  BY DEF Append_
<1>1. /\ K \in Node /\ K.path = path /\ K.type = type
      /\ path \in Seq(STRING) /\ l \in Nat /\ l >= 1
  <2>1. path \in Seq(STRING) /\ path # <<>>
    BY DEF Path, Root
  <2>2. l \in Nat \ {0}
    BY <2>1, EmptySeq
  <2>3. K \in Node
    BY KeyGraft
  <2>4. K.path = path /\ K.type = type
    BY DEF Key
  <2> QED BY <2>1, <2>2, <2>3, <2>4
<1>2. ASSUME NEW n \in doc
      PROVE  /\ n \in Node /\ n.path \in Seq(STRING) /\ Len(n.path) \in Nat
             /\ Len(n.path) >= 1
             /\ Up(n) \in Node /\ Up(n).path = path \o n.path
             /\ Up(n).type = n.type /\ Up(n).val = n.val
             /\ Up(n).path \in Seq(STRING) /\ Len(Up(n).path) = l + Len(n.path)
             /\ \A i \in 1 .. l : Up(n).path[i] = path[i]
             /\ \A i \in 1 .. Len(n.path) : Up(n).path[l + i] = n.path[i]
  <2>1. n \in Node /\ n.path \in Seq(STRING) /\ Len(n.path) \in Nat /\ Len(n.path) >= 1
    BY DocumentIs
  <2> DEFINE p == path \o n.path
  <2>2. /\ p \in Seq(STRING) /\ Len(p) = l + Len(n.path)
        /\ \A i \in 1 .. l : p[i] = path[i]
        /\ \A i \in 1 .. Len(n.path) : p[l + i] = n.path[i]
    BY <1>1, <2>1, ConcatOf
  <2> HIDE DEF p
  <2>3. p \in Path \ {Root}
    <3>1. p # <<>>
      BY <1>1, <2>1, <2>2, EmptySeq
    <3> QED BY <2>2, <3>1 DEF Path, Root
  <2>4. /\ [n EXCEPT !.path = p] \in Node /\ [n EXCEPT !.path = p].path = p
        /\ [n EXCEPT !.path = p].type = n.type /\ [n EXCEPT !.path = p].val = n.val
    BY <2>1, <2>3, NodeExcept
  <2> QED BY <2>1, <2>2, <2>4 DEF p
<1> HIDE DEF K, Up
<1>3. IsFiniteSet(D)
  <2>1. IsFiniteSet(doc)
    BY DocumentIs
  <2> DEFINE f == [n \in doc |-> Up(n)]
  <2>2. IsFiniteSet({f[n] : n \in doc})
    BY <2>1, FiniteImage
  <2>3. {f[n] : n \in doc} = {Up(n) : n \in doc}
    OBVIOUS
  <2>4. IsFiniteSet({K})
    BY FS_Singleton
  <2> HIDE DEF f
  <2> QED BY <2>2, <2>3, <2>4, FS_Union
<1>4. ASSUME NEW m \in D
      PROVE  /\ m \in Node /\ IsPrefix(path, m.path)
  <2>1. /\ m.path \in Seq(STRING) /\ Len(m.path) >= l
        /\ \A i \in 1 .. l : m.path[i] = path[i]
    BY <1>1, <1>2
  <2> QED BY <1>1, <1>2, <2>1, PrefixOf
<1>5. ASSUME NEW m \in D, NEW n \in D, m.path = n.path PROVE m = n
  <2>1. CASE m = K
    BY <1>1, <1>2, <1>5, <2>1
  <2>2. CASE n = K
    BY <1>1, <1>2, <1>5, <2>2
  <2>3. CASE m # K /\ n # K
    <3>1. PICK a \in doc, b \in doc : m = Up(a) /\ n = Up(b)
      BY <2>3
    <3>0. Up(a).path = Up(b).path
      BY <1>5, <3>1
    <3>2. Len(a.path) = Len(b.path)
      <4>1. Len(Up(a).path) = l + Len(a.path) /\ Len(Up(b).path) = l + Len(b.path)
        BY <1>2
      <4>2. Len(a.path) \in Nat /\ Len(b.path) \in Nat
        BY <1>2
      <4> QED BY <1>1, <3>0, <4>1, <4>2
    <3>3. ASSUME NEW i \in 1 .. Len(a.path) PROVE a.path[i] = b.path[i]
      <4>1. Up(a).path[l + i] = a.path[i] /\ Up(b).path[l + i] = b.path[i]
        BY <1>2, <3>2
      <4> QED BY <3>0, <4>1
    <3>4. a.path = b.path
      BY <1>2, <3>2, <3>3, SeqEqual
    <3> QED BY <3>1, <3>4, DocumentIs
  <2> QED BY <2>1, <2>2, <2>3
<1>6. ASSUME NEW m \in D, Len(m.path) > l
      PROVE  \E n \in D : n.path = Front(m.path) /\ n.type \in Containers
  <2>1. PICK a \in doc : m = Up(a)
    BY <1>1, <1>6
  <2>2. /\ Front(m.path) \in Seq(STRING) /\ Len(Front(m.path)) = l + Len(a.path) - 1
        /\ \A i \in 1 .. l + Len(a.path) - 1 : Front(m.path)[i] = m.path[i]
    <3>1. m.path \in Seq(STRING) /\ Len(m.path) >= 1 /\ Len(m.path) = l + Len(a.path)
      BY <1>1, <1>2, <2>1
    <3> QED BY <3>1, FrontOf
  <2>3. CASE Len(a.path) = 1
    <3>0. l + Len(a.path) - 1 = l
      BY <1>1, <2>3
    <3>1. Len(Front(m.path)) = l /\ \A i \in 1 .. l : Front(m.path)[i] = path[i]
      BY <1>2, <2>1, <2>2, <3>0
    <3>2. Front(m.path) = path
      BY <1>1, <2>2, <3>1, SeqEqual
    <3> QED BY <1>1, <3>2
  <2>4. CASE Len(a.path) > 1
    <3>1. PICK b \in doc : b.path = Front(a.path) /\ b.type \in Containers
      BY <2>4, DocumentIs
    <3>2. /\ Len(b.path) = Len(a.path) - 1
          /\ \A i \in 1 .. Len(a.path) - 1 : b.path[i] = a.path[i]
      BY <1>2, <3>1, FrontOf
    <3>3. ASSUME NEW i \in 1 .. l + Len(a.path) - 1 PROVE Up(b).path[i] = m.path[i]
      <4>1. CASE i <= l
        BY <1>1, <1>2, <2>1, <4>1
      <4>2. CASE i > l
        <5>1. i - l \in 1 .. Len(a.path) - 1 /\ i = l + (i - l)
          BY <1>1, <1>2, <4>2
        <5>2. i - l \in 1 .. Len(b.path) /\ i - l \in 1 .. Len(a.path)
          BY <1>2, <3>2, <5>1
        <5>3. Up(b).path[l + (i - l)] = b.path[i - l] /\ Up(a).path[l + (i - l)] = a.path[i - l]
          BY <1>2, <5>2
        <5> QED BY <2>1, <3>2, <5>1, <5>3
      <4> QED BY <1>1, <4>1, <4>2
    <3>4. Up(b).path \in Seq(STRING) /\ Len(Up(b).path) = l + Len(a.path) - 1
      BY <1>1, <1>2, <3>2
    <3>5. Up(b).path = Front(m.path)
      BY <2>2, <3>3, <3>4, SeqEqual
    <3>6. Up(b).type \in Containers
      BY <1>2, <3>1
    <3> QED BY <3>5, <3>6
  <2>5. Len(a.path) \in Nat /\ Len(a.path) >= 1
    BY <1>2
  <2>6. Len(a.path) = 1 \/ Len(a.path) > 1
    <3> DEFINE x == Len(a.path)
    <3>1. x \in Nat /\ x >= 1
      BY <2>5
    <3> HIDE DEF x
    <3>2. x = 1 \/ x > 1
      BY <3>1
    <3> QED BY <3>2 DEF x
  <2> QED BY <2>3, <2>4, <2>6
<1> QED BY <1>0, <1>3, <1>4, <1>5, <1>6 DEF Graft

(* The payload of a map that is applied is a document.                     *)
LEMMA PayloadTaken ==
  ASSUME NEW m \in Maps, NEW p \in Document \union {None},
         NEW i \in Applies(m, p)
  PROVE  /\ i \in 1 .. Len(m.items) /\ i \in DOMAIN m.items /\ m.items[i] \in Item
         /\ PayloadOf(m, i, p) \in Document
<1>1. /\ m.items \in Seq(Item) /\ Len(m.items) \in Nat
      /\ DOMAIN m.items = 1 .. Len(m.items)
  BY DEF Maps
<1>2. i \in DOMAIN m.items /\ PayloadOf(m, i, p) # None
  BY DEF Applies
<1>3. i \in 1 .. Len(m.items) /\ i \in Nat /\ m.items[i] \in Item
  BY <1>1, <1>2
<1> DEFINE own == {j \in 1 .. i : m.items[j].src_payload # None}
<1>0. PayloadOf(m, i, p) =
        IF own = {} THEN p ELSE m.items[Max(own)].src_payload
  BY DEF PayloadOf
<1>4. CASE own = {}
  BY <1>0, <1>2, <1>3, <1>4
<1>5. CASE own # {}
  <2>1. Max(own) \in own
    <3>1. own \in SUBSET (0 .. i)
      BY <1>3
    <3> HIDE DEF own
    <3> QED BY <1>3, <1>5, <3>1, MaxOf
  <2> DEFINE j == Max(own)
  <2>2. PayloadOf(m, i, p) = m.items[j].src_payload
    BY <1>0, <1>5
  <2>3. j \in 1 .. Len(m.items) /\ m.items[j].src_payload # None
    BY <1>1, <1>3, <2>1
  <2> HIDE DEF own, j
  <2>4. m.items[j] \in Item
    BY <1>1, <2>3
  <2>5. m.items[j].src_payload \in Document
    BY <2>3, <2>4 DEF Item
  <2> QED BY <1>2, <1>3, <2>2, <2>5
<1> QED BY <1>2, <1>3, <1>4, <1>5

(* The conversion of a value to the type of a map is a value.              *)
LEMMA ConvertedIs ==
  ASSUME NEW type, NEW src \in Node
  PROVE  Converted(type, src) \in Int
<1>1. src.val \in Int
  BY NodeIs
<1>2. /\ AsBool(src) \in Int /\ AsDouble(src) \in Int
  BY <1>1 DEF AsBool, AsDouble
<1>3. AsInt64(src) \in Int
  <2> DEFINE x == src.val
  <2>1. x \in Int
    BY <1>1
  <2>2. (x >= 0 => x \div 2 \in Int) /\ (~(x >= 0) => -((-x) \div 2) \in Int)
    <3> HIDE DEF x
    <3> QED BY <2>1
  <2> QED BY <2>1, <2>2 DEF AsInt64
<1>4. \/ Converted(type, src) = AsBool(src) \/ Converted(type, src) = AsDouble(src)
      \/ Converted(type, src) = AsInt64(src) \/ Converted(type, src) = src.val
  BY DEF Converted
<1> QED BY <1>1, <1>2, <1>3, <1>4

(* What a converted value of the payload is appended as stays below its    *)
(* path.                                                                   *)
LEMMA AppendedGraft ==
  ASSUME NEW type, NEW path \in Path \ {Root}, NEW doc \in Document,
         NEW src \in doc
  PROVE  Graft(Appended(type, path, src, doc), path)
<1> DEFINE whole == Append_(path, src.type, src.val, Below(doc, src.path))
<1>1. /\ src \in Node /\ src.path \in Path /\ src.path \in Seq(STRING)
      /\ Len(src.path) \in Nat /\ Len(src.path) >= 1
      /\ src.type \in BsonType /\ src.val \in Int
  BY DocumentIs, NodeIs
<1>2. ASSUME Below(doc, src.path) # {} PROVE src.type \in Containers
  <2>1. PICK m \in doc : IsStrictPrefix(src.path, m.path)
    BY <1>2 DEF Below
  <2>2. m.path \in Seq(STRING) /\ Len(m.path) \in Nat
    BY DocumentIs
  <2>3. Len(src.path) < Len(m.path) /\ \A i \in 1 .. Len(src.path) : src.path[i] = m.path[i]
    BY <1>1, <2>1, <2>2, PrefixOf
  <2> DEFINE k == Len(src.path)
  <2>4. k \in 1 .. Len(m.path) - 1 /\ k \in 0 .. Len(m.path)
    BY <1>1, <2>2, <2>3
  <2>5. SubSeq(m.path, 1, k) = src.path
    <3>1. /\ SubSeq(m.path, 1, k) \in Seq(STRING) /\ Len(SubSeq(m.path, 1, k)) = k
          /\ \A i \in 1 .. k : SubSeq(m.path, 1, k)[i] = m.path[i]
      BY <2>2, <2>4, HeadOf
    <3> QED BY <1>1, <2>3, <3>1, SeqEqual
  <2>6. PICK a \in doc : a.path = SubSeq(m.path, 1, k) /\ a.type \in Containers
    BY <2>4, Ancestor
  <2>7. a = src
    <3>1. \A x, y \in doc : x.path = y.path => x = y
      BY DocumentIs
    <3>2. a.path = src.path
      BY <2>5, <2>6
    <3> QED BY <3>1, <3>2
  <2> QED BY <2>6, <2>7
<1>3. Graft(whole, path)
  <2>1. Below(doc, src.path) \in Document
    BY <1>1, BelowDocument
  <2> QED BY <1>1, <1>2, <2>1, AppendGraft
<1>4. Graft({}, path)
  <2>1. IsFiniteSet({})
    BY FS_EmptySet
  <2> QED BY <2>1 DEF Graft
<1>5. ASSUME NEW val \in Int, type \in BasicType \union {"utf8", "oid"}
      PROVE  Graft({Key(path, type, val)}, path)
  <2>1. type \in BsonType
    BY <1>5 DEF BasicType, BsonType
  <2> QED BY <2>1, KeyGraft
<1>6. Converted(type, src) \in Int
  BY <1>1, ConvertedIs
<1>7. \/ Appended(type, path, src, doc) = whole
      \/ type \in BasicType
           /\ Appended(type, path, src, doc) = {Key(path, type, Converted(type, src))}
      \/ type \in {"utf8", "oid"}
           /\ Appended(type, path, src, doc) = {Key(path, type, src.val)}
      \/ Appended(type, path, src, doc) = {}
  <2> DEFINE fits ==
        CASE type = "utf8" -> src.type \in {"utf8", "oid"}
          [] type = "oid" -> src.type \in {"utf8", "oid"}
          [] type \in BasicType -> CanWrite(type, src)
          [] type \in Containers -> src.type = type
          [] OTHER -> FALSE
  <2>1. Appended(type, path, src, doc) =
          CASE type = "undefined" -> whole
            [] type \in Containers /\ fits -> whole
            [] type \in BasicType /\ fits -> {Key(path, type, Converted(type, src))}
            [] type \in {"utf8", "oid"} /\ fits -> {Key(path, type, src.val)}
            [] OTHER -> {}
    BY DEF Appended
  <2> HIDE DEF fits, whole
  <2> QED BY <2>1
<1> QED BY <1>1, <1>3, <1>4, <1>5, <1>6, <1>7

(* What a map appends to the mapped payload is a part of a document.       *)
LEMMA AppendValGraft ==
  ASSUME NEW m \in Maps, NEW p \in Document \union {None},
         NEW path \in Path \ {Root}
  PROVE  Graft(AppendVal(m, path, p).doc, path)
<1> DEFINE mine == {j \in Applies(m, p) : m.items[j].tgt_path = path}
           i == Min(mine)
           item == m.items[i]
           doc == PayloadOf(m, i, p)
           val == AppendVal(m, path, p)
<1>1. Graft({}, path)
  <2>1. IsFiniteSet({})
    BY FS_EmptySet
  <2> QED BY <2>1 DEF Graft
<1>2. \/ val.doc = {}
      \/ /\ mine # {} /\ val.doc = Append_(path, "document", 0, doc)
      \/ /\ mine # {} /\ Has(doc, SourcePath(item))
         /\ val.doc = Appended(item.type, path, At(doc, SourcePath(item)), doc)
  <2>1. CASE mine = {}
    BY <2>1 DEF AppendVal
  <2>2. CASE mine # {} /\ item.src_path = Root
    BY <2>2 DEF AppendVal
  <2>3. CASE mine # {} /\ item.src_path # Root /\ ~Has(doc, SourcePath(item))
    BY <2>3 DEF AppendVal
  <2>4. CASE mine # {} /\ item.src_path # Root /\ Has(doc, SourcePath(item))
    BY <2>4 DEF AppendVal
  <2> QED BY <2>1, <2>2, <2>3, <2>4
<1>3. ASSUME mine # {} PROVE doc \in Document
  <2>1. mine \in SUBSET (0 .. Len(m.items)) /\ Len(m.items) \in Nat
    <3>1. m.items \in Seq(Item)
      BY DEF Maps
    <3> QED BY <3>1, PayloadTaken
  <2>2. i \in mine
    <3> HIDE DEF mine
    <3> QED BY <1>3, <2>1, MinOf
  <2>3. i \in Applies(m, p)
    BY <2>2
  <2> QED BY <2>3, PayloadTaken
<1>4. CASE mine # {} /\ val.doc = Append_(path, "document", 0, doc)
  <2>1. "document" \in BsonType /\ "document" \in Containers
    BY DEF BsonType, Containers
  <2> HIDE DEF doc, val, mine
  <2>2. Graft(val.doc, path)
    BY <1>3, <1>4, <2>1, AppendGraft
  <2> QED BY <2>2 DEF val
<1>5. CASE /\ mine # {} /\ Has(doc, SourcePath(item))
           /\ val.doc = Appended(item.type, path, At(doc, SourcePath(item)), doc)
  <2>1. At(doc, SourcePath(item)) \in doc
    BY <1>3, <1>5, AtNode
  <2> HIDE DEF doc, val, item, mine
  <2>2. Graft(val.doc, path)
    BY <1>3, <1>5, <2>1, AppendedGraft
  <2> QED BY <2>2 DEF val
<1> QED BY <1>1, <1>2, <1>4, <1>5

-------------------------------------------------------------------------------
(* The extended mode: the walk over the target.                            *)

(* The parts of the mapped payload in the extended mode: what replaces a   *)
(* node of the target, and the nodes below a replaced one.                 *)
Taken(m, p, path) == AppendVal(m, path, p).rc = "NO_ERROR"
Hidden(m, p, path) ==
  \E k \in 1 .. Len(path) - 1 : Taken(m, p, SubSeq(path, 1, k))
Piece(m, p, n) ==
  IF Taken(m, p, n.path) THEN AppendVal(m, n.path, p).doc ELSE {n}

(* What the extended mode makes is made of pieces, one for each node of    *)
(* the target that no replaced node contains.                              *)
AppliedExt(m, p) ==
  UNION {Piece(m, p, n) : n \in {t \in m.tgt_payload : ~Hidden(m, p, t.path)}}

(* A piece is at the path of its node and below it.                        *)
LEMMA PieceGraft ==
  ASSUME NEW m \in Maps, NEW p \in Document \union {None}, NEW n \in m.tgt_payload
  PROVE  Graft(Piece(m, p, n), n.path)
<1>1. m.tgt_payload \in Document
  BY DEF Maps
<1>2. n \in Node
  BY <1>1, DocumentIs
<1>3. /\ n.path \in Path \ {Root} /\ n.path \in Seq(STRING) /\ Len(n.path) \in Nat
  BY <1>2, NodeIs
<1>4. Graft({n}, n.path)
  <2>1. IsFiniteSet({n})
    BY FS_Singleton
  <2>2. IsPrefix(n.path, n.path)
    BY <1>3, PrefixOf
  <2>3. ~(Len(n.path) > Len(n.path))
    BY <1>3
  <2> QED BY <1>2, <2>1, <2>2, <2>3 DEF Graft
<1>5. Graft(AppendVal(m, n.path, p).doc, n.path)
  BY <1>3, AppendValGraft
<1> QED BY <1>4, <1>5 DEF Piece

(* Two prefixes of a sequence.                                             *)
LEMMA PrefixesOf ==
  ASSUME NEW s \in Seq(STRING), NEW t \in Seq(STRING), NEW u \in Seq(STRING),
         IsPrefix(s, u), IsPrefix(t, u), Len(s) <= Len(t)
  PROVE  s = SubSeq(t, 1, Len(s)) /\ (Len(s) = Len(t) => s = t)
<1>1. /\ Len(s) \in Nat /\ Len(t) \in Nat
      /\ \A i \in 1 .. Len(s) : s[i] = u[i]
      /\ \A i \in 1 .. Len(t) : t[i] = u[i]
  BY PrefixOf
<1>2. \A i \in 1 .. Len(s) : s[i] = t[i]
  BY <1>1
<1>3. /\ SubSeq(t, 1, Len(s)) \in Seq(STRING) /\ Len(SubSeq(t, 1, Len(s))) = Len(s)
      /\ \A i \in 1 .. Len(s) : SubSeq(t, 1, Len(s))[i] = t[i]
  <2>1. Len(s) \in 0 .. Len(t)
    BY <1>1
  <2> QED BY <2>1, HeadOf
<1>4. s = SubSeq(t, 1, Len(s))
  BY <1>2, <1>3, SeqEqual
<1>5. Len(s) = Len(t) => s = t
  BY <1>2, SeqEqual
<1> QED BY <1>4, <1>5

(* The mapped payload of the extended mode is a document.                  *)
LEMMA AppliedDocument ==
  ASSUME NEW m \in Maps, NEW p \in Document \union {None}
  PROVE  AppliedExt(m, p) \in Document
<1> DEFINE T == m.tgt_payload
           S == {t \in T : ~Hidden(m, p, t.path)}
           D == UNION {Piece(m, p, n) : n \in S}
<1>1. T \in Document
  BY DEF Maps
<1>2. ASSUME NEW n \in S
      PROVE  /\ n \in T /\ n \in Node /\ n.path \in Seq(STRING)
             /\ Len(n.path) \in Nat /\ Len(n.path) >= 1
             /\ ~Hidden(m, p, n.path) /\ Graft(Piece(m, p, n), n.path)
  BY <1>1, DocumentIs, PieceGraft
<1> HIDE DEF T
<1>3. ASSUME NEW n \in S, NEW a \in Piece(m, p, n)
      PROVE  /\ a \in Node /\ a.path \in Seq(STRING) /\ Len(a.path) \in Nat
             /\ IsPrefix(n.path, a.path) /\ Len(n.path) <= Len(a.path)
  <2>1. a \in Node /\ IsPrefix(n.path, a.path)
    BY <1>2 DEF Graft
  <2>2. a.path \in Seq(STRING) /\ Len(a.path) \in Nat
    BY <2>1, NodeIs
  <2> QED BY <1>2, <2>1, <2>2, PrefixOf
<1>4. IsFiniteSet(D)
  <2>1. IsFiniteSet(S)
    <3>1. IsFiniteSet(T) /\ S \in SUBSET T
      BY <1>1, DocumentIs
    <3> QED BY <3>1, FS_Subset
  <2> DEFINE f == [n \in S |-> Piece(m, p, n)]
             F == {f[n] : n \in S}
  <2>2. IsFiniteSet(F)
    <3> HIDE DEF S
    <3> QED BY <2>1, FiniteImage
  <2>3. \A x \in F : IsFiniteSet(x)
    BY <1>2 DEF Graft
  <2>4. IsFiniteSet(UNION F)
    <3> HIDE DEF F
    <3> QED BY <2>2, <2>3, FS_UNION
  <2>5. UNION F = D
    OBVIOUS
  <2> QED BY <2>4, <2>5
<1>5. ASSUME NEW n \in S, NEW k \in S, NEW a \in Piece(m, p, n), NEW b \in Piece(m, p, k),
             a.path = b.path, Len(n.path) <= Len(k.path)
      PROVE  n = k
  <2>1. IsPrefix(n.path, a.path) /\ IsPrefix(k.path, a.path) /\ a.path \in Seq(STRING)
    BY <1>3, <1>5
  <2>2. /\ n.path = SubSeq(k.path, 1, Len(n.path))
        /\ Len(n.path) = Len(k.path) => n.path = k.path
    BY <1>2, <1>5, <2>1, PrefixesOf
  <2>3. CASE Len(n.path) = Len(k.path)
    <3>1. n \in T /\ k \in T /\ n.path = k.path
      BY <1>2, <2>2, <2>3
    <3> QED BY <1>1, <3>1, DocumentIs
  <2>4. CASE Len(n.path) < Len(k.path)
    <3>1. Len(n.path) \in 1 .. Len(k.path) - 1
      BY <1>2, <2>4
    <3>2. ~Taken(m, p, n.path)
      BY <1>2, <2>2, <3>1 DEF Hidden
    <3>3. a = n
      BY <3>2 DEF Piece
    <3>4. Len(k.path) <= Len(a.path)
      BY <1>3, <1>5
    <3> QED BY <1>2, <2>4, <3>3, <3>4
  <2> QED BY <1>2, <1>5, <2>3, <2>4
<1>6. ASSUME NEW a \in D, NEW b \in D, a.path = b.path PROVE a = b
  <2>1. PICK n \in S : a \in Piece(m, p, n)
    OBVIOUS
  <2>2. PICK k \in S : b \in Piece(m, p, k)
    OBVIOUS
  <2>3. n = k
    <3>1. Len(n.path) <= Len(k.path) \/ Len(k.path) <= Len(n.path)
      BY <1>2
    <3> QED BY <1>5, <1>6, <2>1, <2>2, <3>1
  <2>4. \A x, y \in Piece(m, p, n) : x.path = y.path => x = y
    BY <1>2 DEF Graft
  <2> QED BY <1>6, <2>1, <2>2, <2>3, <2>4
<1>7. ASSUME NEW a \in D, Len(a.path) > 1
      PROVE  \E b \in D : b.path = Front(a.path) /\ b.type \in Containers
  <2>1. PICK n \in S : a \in Piece(m, p, n)
    OBVIOUS
  <2>2. CASE Len(a.path) > Len(n.path)
    <3>1. PICK b \in Piece(m, p, n) : b.path = Front(a.path) /\ b.type \in Containers
      BY <1>2, <2>1, <2>2 DEF Graft
    <3> QED BY <2>1, <3>1
  <2>3. CASE Len(a.path) = Len(n.path)
    <3>0. a.path \in Seq(STRING) /\ IsPrefix(n.path, a.path) /\ IsPrefix(a.path, a.path)
      BY <1>3, <2>1, PrefixOf
    <3>1. a.path = n.path
      BY <1>2, <1>3, <2>1, <2>3, <3>0, PrefixesOf
    <3> DEFINE l == Len(n.path)
    <3>2. l \in Nat /\ l > 1
      BY <1>2, <1>7, <2>3
    <3>3. PICK c \in T : c.path = Front(n.path) /\ c.type \in Containers
      BY <1>1, <1>2, <3>2, DocumentIs
    <3>4. /\ c.path \in Seq(STRING) /\ Len(c.path) = l - 1
          /\ c.path = SubSeq(n.path, 1, l - 1)
          /\ \A i \in 1 .. l - 1 : c.path[i] = n.path[i]
      <4>1. c.path = SubSeq(n.path, 1, l - 1)
        BY <3>3 DEF Front
      <4>2. l - 1 \in 0 .. Len(n.path)
        BY <3>2
      <4> QED BY <1>2, <4>1, <4>2, HeadOf
    <3>5. ~Taken(m, p, c.path)
      <4>1. l - 1 \in 1 .. Len(n.path) - 1
        BY <3>2
      <4> QED BY <1>2, <3>4, <4>1 DEF Hidden
    <3>6. ~Hidden(m, p, c.path)
      <4> SUFFICES ASSUME NEW j \in 1 .. Len(c.path) - 1
                   PROVE  ~Taken(m, p, SubSeq(c.path, 1, j))
        BY DEF Hidden
      <4>1. j \in 1 .. Len(n.path) - 1 /\ j \in 0 .. Len(c.path) /\ j \in 0 .. Len(n.path)
            /\ \A i \in 1 .. j : i \in 1 .. l - 1
        BY <3>2, <3>4
      <4>2. /\ SubSeq(c.path, 1, j) \in Seq(STRING) /\ Len(SubSeq(c.path, 1, j)) = j
            /\ \A i \in 1 .. j : SubSeq(c.path, 1, j)[i] = c.path[i]
        BY <3>4, <4>1, HeadOf
      <4>3. /\ SubSeq(n.path, 1, j) \in Seq(STRING) /\ Len(SubSeq(n.path, 1, j)) = j
            /\ \A i \in 1 .. j : SubSeq(n.path, 1, j)[i] = n.path[i]
        BY <1>2, <4>1, HeadOf
      <4>4. \A i \in 1 .. j : SubSeq(c.path, 1, j)[i] = SubSeq(n.path, 1, j)[i]
        BY <3>4, <4>1, <4>2, <4>3
      <4>5. SubSeq(c.path, 1, j) = SubSeq(n.path, 1, j)
        BY <4>2, <4>3, <4>4, SeqEqual
      <4> QED BY <1>2, <4>1, <4>5 DEF Hidden
    <3>7. c \in Piece(m, p, c)
      BY <3>5 DEF Piece
    <3>8. c \in S
      BY <3>6
    <3>9. c \in D
      BY <3>7, <3>8
    <3> QED BY <3>1, <3>3, <3>9
  <2>4. Len(a.path) > Len(n.path) \/ Len(a.path) = Len(n.path)
    <3>1. Len(n.path) <= Len(a.path) /\ Len(n.path) \in Nat /\ Len(a.path) \in Nat
      BY <1>2, <1>3, <2>1
    <3> QED BY <3>1
  <2> QED BY <2>2, <2>3, <2>4
<1>8. \A a \in D : a \in Node
  BY <1>3
<1>9. D \in Document
  <2> HIDE DEF D
  <2> QED BY <1>4, <1>6, <1>7, <1>8, IsDocument
<1> QED BY <1>9 DEF T, AppliedExt

(* One step of the walk: what is built for a child, and for all children.  *)
Built(m, p, sub, n) ==
  LET val == AppendVal(m, n.path, p)
  IN CASE val.rc = "NO_ERROR" -> val
       [] val.rc # "NO_ERROR" /\ n.type \in Containers ->
            [val EXCEPT !.doc = {n} \union sub.doc, !.set = sub.set]
       [] OTHER -> [val EXCEPT !.doc = {n}]
Paths(m) == {Root} \union {n.path : n \in m.tgt_payload}
AllBuilt(m, p, f, path) ==
  {Built(m, p, f[n.path], n) : n \in Children(m.tgt_payload, path)}
Walked(m, p, f, path) ==
  [doc |-> UNION {b.doc : b \in AllBuilt(m, p, f, path)},
   set |-> UNION {b.set : b \in AllBuilt(m, p, f, path)}]

(* A child has a path that is longer by one key.                           *)
LEMMA ChildIs ==
  ASSUME NEW doc \in Document, NEW path \in Path, NEW n \in Children(doc, path)
  PROVE  /\ n \in doc /\ n.path \in Seq(STRING)
         /\ Len(path) \in Nat /\ Len(n.path) = Len(path) + 1
         /\ \A i \in 1 .. Len(path) : path[i] = n.path[i]
<1>1. n \in doc /\ IsStrictPrefix(path, n.path) /\ Len(n.path) = Len(path) + 1
  BY DEF Children
<1>2. n.path \in Seq(STRING)
  BY <1>1, DocumentIs
<1> QED BY <1>1, <1>2, PrefixOf DEF Path

(* The target document is of a finite depth.                               *)
LEMMA Depth ==
  ASSUME NEW m \in Maps
  PROVE  \E b \in Nat : \A path \in Paths(m) :
           path \in Path /\ Len(path) \in Nat /\ Len(path) <= b
<1> DEFINE T == m.tgt_payload
           f == [n \in T |-> Len(n.path)]
           L == {f[n] : n \in T}
<1>1. T \in Document
  BY DEF Maps
<1>2. /\ IsFiniteSet(T)
      /\ \A n \in T : n.path \in Seq(STRING) /\ Len(n.path) \in Nat
  BY <1>1, DocumentIs
<1> HIDE DEF T
<1>3. IsFiniteSet(L)
  BY <1>2, FiniteImage
<1>4. L \in SUBSET Nat
  BY <1>2
<1>5. PICK b \in Nat : \A i \in L : i <= b
  <2> HIDE DEF L
  <2> QED BY <1>3, <1>4, FiniteBound
<1>6. \A n \in T : Len(n.path) <= b
  BY <1>5
<1>7. Root \in Path /\ Len(Root) = 0
  BY EmptySeq DEF Root, Path
<1>8. ASSUME NEW path \in Paths(m)
      PROVE  path \in Path /\ Len(path) \in Nat /\ Len(path) <= b
  <2>1. CASE path = Root
    BY <1>7, <2>1
  <2>2. CASE path # Root
    <3>1. PICK n \in T : path = n.path
      BY <2>2 DEF Paths, T
    <3> QED BY <1>2, <1>6, <3>1 DEF Path
  <2> QED BY <2>1, <2>2
<1> QED BY <1>8

(* The recursion over the target document, as the source's calls.          *)
LEMMA WalkExists ==
  ASSUME NEW m \in Maps, NEW p
  PROVE  \E f : /\ \A path \in Paths(m) : f[path] = Walked(m, p, f, path)
                /\ ApplyExtIter(m, p) = f[Root]
<1> DEFINE P == Paths(m)
           Body(f) == [path \in P |-> Walked(m, p, f, path)]
           it == CHOOSE f : f = Body(f)
<1>1. ApplyExtIter(m, p) = it[Root]
  BY DEF ApplyExtIter, Walked, AllBuilt, Built, Paths
<1>2. PICK b \in Nat : \A path \in P : path \in Path /\ Len(path) \in Nat /\ Len(path) <= b
  BY Depth
<1>3. m.tgt_payload \in Document
  BY DEF Maps
<1> HIDE DEF P, it
<1> DEFINE I == {d \in Nat : \E f : /\ DOMAIN f = P
                                   /\ \A path \in P : Len(path) + d > b =>
                                        f[path] = Walked(m, p, f, path)}
<1>4. 0 \in I
  <2>1. DOMAIN [path \in P |-> 0] = P
    OBVIOUS
  <2>2. \A path \in P : ~(Len(path) + 0 > b)
    BY <1>2
  <2> QED BY <2>1, <2>2
<1>5. ASSUME NEW d \in Nat, d \in I PROVE d + 1 \in I
  <2>1. PICK f : /\ DOMAIN f = P
                 /\ \A path \in P : Len(path) + d > b => f[path] = Walked(m, p, f, path)
    BY <1>5
  <2> DEFINE g == Body(f)
  <2>2. DOMAIN g = P /\ \A path \in P : g[path] = Walked(m, p, f, path)
    OBVIOUS
  <2> HIDE DEF g
  <2>3. ASSUME NEW path \in P, Len(path) + (d + 1) > b
        PROVE  g[path] = Walked(m, p, g, path)
    <3>1. ASSUME NEW n \in Children(m.tgt_payload, path) PROVE f[n.path] = g[n.path]
      <4>1. path \in Path
        BY <1>2
      <4>2. n.path \in P /\ Len(n.path) + d > b
        <5>1. n \in m.tgt_payload /\ Len(n.path) = Len(path) + 1 /\ Len(path) \in Nat
          BY <1>3, <4>1, ChildIs
        <5>2. n.path \in P
          BY <5>1 DEF P, Paths
        <5> QED BY <1>2, <2>3, <5>1, <5>2
      <4> QED BY <2>1, <2>2, <4>2
    <3>2. AllBuilt(m, p, f, path) = AllBuilt(m, p, g, path)
      BY <3>1 DEF AllBuilt
    <3> QED BY <2>2, <3>2 DEF Walked
  <2>4. \E h : /\ DOMAIN h = P
               /\ \A path \in P : Len(path) + (d + 1) > b =>
                    h[path] = Walked(m, p, h, path)
    BY <2>2, <2>3
  <2> QED BY <2>4
<1>6. b + 1 \in I
  <2> HIDE DEF I
  <2> QED BY <1>4, <1>5, SetInduction
<1>7. PICK f : /\ DOMAIN f = P
               /\ \A path \in P : Len(path) + (b + 1) > b => f[path] = Walked(m, p, f, path)
  BY <1>6
<1>8. \A path \in P : f[path] = Walked(m, p, f, path)
  BY <1>2, <1>7
<1>9. Body(f) = Body(Body(f))
  <2> DEFINE g == Body(f)
  <2>1. DOMAIN g = P /\ \A path \in P : g[path] = f[path]
    BY <1>8
  <2> HIDE DEF g
  <2>2. ASSUME NEW path \in P PROVE Walked(m, p, g, path) = Walked(m, p, f, path)
    <3>1. ASSUME NEW n \in Children(m.tgt_payload, path) PROVE f[n.path] = g[n.path]
      <4>1. n \in m.tgt_payload
        BY DEF Children
      <4> QED BY <2>1, <4>1 DEF P, Paths
    <3>2. AllBuilt(m, p, f, path) = AllBuilt(m, p, g, path)
      BY <3>1 DEF AllBuilt
    <3> QED BY <3>2 DEF Walked
  <2>3. Body(f) = Body(g)
    BY <2>2
  <2> QED BY <2>3 DEF g
<1>10. it = Body(it)
  <2>1. \E g : g = Body(g)
    <3> DEFINE g == Body(f)
    <3>1. g = Body(g)
      BY <1>9
    <3> HIDE DEF g
    <3> QED BY <3>1
  <2> HIDE DEF Body
  <2> QED BY <2>1 DEF it
<1>11. \A path \in P : it[path] = Walked(m, p, it, path)
  <2>1. \A path \in P : Body(it)[path] = Walked(m, p, it, path)
    OBVIOUS
  <2> QED BY <1>10, <2>1
<1> QED BY <1>1, <1>11 DEF P

(* What is below a path and not below a replaced node.                     *)
Reached(m, p, path) ==
  {n \in m.tgt_payload :
     /\ IsStrictPrefix(path, n.path)
     /\ \A k \in Len(path) + 1 .. Len(n.path) - 1 :
          ~Taken(m, p, SubSeq(n.path, 1, k))}

(* The children of a path, and what is reached through them.               *)
LEMMA ReachedThrough ==
  ASSUME NEW m \in Maps, NEW p, NEW path \in Path, NEW n \in m.tgt_payload
  PROVE  n \in Reached(m, p, path) <=>
           \/ n \in Children(m.tgt_payload, path)
           \/ \E c \in Children(m.tgt_payload, path) :
                /\ c.type \in Containers /\ ~Taken(m, p, c.path)
                /\ n \in Reached(m, p, c.path)
<1> DEFINE T == m.tgt_payload
           l == Len(path)
           C == Children(T, path)
<1>1. T \in Document
  BY DEF Maps
<1>2. /\ n.path \in Seq(STRING) /\ Len(n.path) \in Nat /\ path \in Seq(STRING) /\ l \in Nat
  BY <1>1, DocumentIs DEF Path
<1> HIDE DEF T
<1>3. ASSUME n \in C PROVE n \in Reached(m, p, path)
  <2>1. IsStrictPrefix(path, n.path) /\ Len(n.path) = l + 1
    BY <1>3 DEF Children
  <2>2. \A k \in l + 1 .. Len(n.path) - 1 : FALSE
    BY <1>2, <2>1
  <2> QED BY <2>1, <2>2 DEF Reached
<1>4. ASSUME NEW c \in C, c.type \in Containers, ~Taken(m, p, c.path),
             n \in Reached(m, p, c.path)
      PROVE  n \in Reached(m, p, path)
  <2>1. /\ c.path \in Seq(STRING) /\ Len(c.path) = l + 1
        /\ \A i \in 1 .. l : path[i] = c.path[i]
    BY <1>1, ChildIs
  <2>2. /\ IsStrictPrefix(c.path, n.path)
        /\ \A k \in Len(c.path) + 1 .. Len(n.path) - 1 : ~Taken(m, p, SubSeq(n.path, 1, k))
    BY <1>4 DEF Reached
  <2>3. /\ l + 1 < Len(n.path) /\ \A i \in 1 .. l + 1 : c.path[i] = n.path[i]
    BY <1>2, <2>1, <2>2, PrefixOf
  <2>4. IsStrictPrefix(path, n.path)
    <3>1. l < Len(n.path) /\ \A i \in 1 .. l : path[i] = n.path[i]
      BY <1>2, <2>1, <2>3
    <3> QED BY <1>2, <3>1, PrefixOf
  <2>5. SubSeq(n.path, 1, l + 1) = c.path
    <3>1. l + 1 \in 0 .. Len(n.path)
      BY <1>2, <2>3
    <3>2. /\ SubSeq(n.path, 1, l + 1) \in Seq(STRING) /\ Len(SubSeq(n.path, 1, l + 1)) = l + 1
          /\ \A i \in 1 .. l + 1 : SubSeq(n.path, 1, l + 1)[i] = n.path[i]
      BY <1>2, <3>1, HeadOf
    <3> QED BY <2>1, <2>3, <3>2, SeqEqual
  <2>6. ASSUME NEW k \in l + 1 .. Len(n.path) - 1 PROVE ~Taken(m, p, SubSeq(n.path, 1, k))
    <3>1. k = l + 1 \/ k \in (l + 1) + 1 .. Len(n.path) - 1
      BY <1>2
    <3> QED BY <1>4, <2>1, <2>2, <2>5, <3>1
  <2> QED BY <2>4, <2>6 DEF Reached, T
<1>5. ASSUME n \in Reached(m, p, path), n \notin C
      PROVE  \E c \in C : /\ c.type \in Containers /\ ~Taken(m, p, c.path)
                          /\ n \in Reached(m, p, c.path)
  <2>1. /\ IsStrictPrefix(path, n.path)
        /\ \A k \in l + 1 .. Len(n.path) - 1 : ~Taken(m, p, SubSeq(n.path, 1, k))
    BY <1>5 DEF Reached
  <2>2. l < Len(n.path) /\ \A i \in 1 .. l : path[i] = n.path[i]
    BY <1>2, <2>1, PrefixOf
  <2>3. Len(n.path) # l + 1
    BY <1>5, <2>1 DEF Children, T
  <2>4. l + 1 \in 1 .. Len(n.path) - 1 /\ l + 1 \in 0 .. Len(n.path)
        /\ l + 1 \in l + 1 .. Len(n.path) - 1
    BY <1>2, <2>2, <2>3
  <2>5. PICK c \in T : c.path = SubSeq(n.path, 1, l + 1) /\ c.type \in Containers
    BY <1>1, <2>4, Ancestor DEF T
  <2>6. /\ c.path \in Seq(STRING) /\ Len(c.path) = l + 1
        /\ \A i \in 1 .. l + 1 : c.path[i] = n.path[i]
    BY <1>2, <2>4, <2>5, HeadOf
  <2>7. IsStrictPrefix(path, c.path)
    <3>1. l < l + 1 /\ \A i \in 1 .. l : i \in 1 .. l + 1
      BY <1>2
    <3>2. \A i \in 1 .. l : path[i] = c.path[i]
      BY <2>2, <2>6, <3>1
    <3> QED BY <1>2, <2>6, <3>1, <3>2, PrefixOf
  <2>8. c \in C
    BY <2>6, <2>7 DEF Children
  <2>9. ~Taken(m, p, c.path)
    BY <2>1, <2>4, <2>5
  <2>10. n \in Reached(m, p, c.path)
    <3>1. IsStrictPrefix(c.path, n.path)
      <4>1. l + 1 < Len(n.path)
        BY <1>2, <2>4
      <4> QED BY <1>2, <2>6, <4>1, PrefixOf
    <3>2. \A k \in Len(c.path) + 1 .. Len(n.path) - 1 : k \in l + 1 .. Len(n.path) - 1
      BY <1>2, <2>6
    <3> QED BY <2>1, <3>1, <3>2 DEF Reached
  <2> QED BY <2>5, <2>8, <2>9, <2>10
<1> QED BY <1>3, <1>4, <1>5 DEF T

(* The walk builds the pieces, whatever the depth.                         *)
LEMMA WalkBuilds ==
  ASSUME NEW m \in Maps, NEW p \in Document \union {None}
  PROVE  ApplyExtIter(m, p).doc = AppliedExt(m, p)
<1> DEFINE T == m.tgt_payload
           P == Paths(m)
<1>1. PICK f : /\ \A path \in P : f[path] = Walked(m, p, f, path)
               /\ ApplyExtIter(m, p) = f[Root]
  BY WalkExists
<1>2. PICK b \in Nat : \A path \in P : path \in Path /\ Len(path) \in Nat /\ Len(path) <= b
  BY Depth
<1>3. T \in Document
  BY DEF Maps
<1> HIDE DEF P, T
<1> DEFINE R(path) == UNION {Piece(m, p, n) : n \in Reached(m, p, path)}
           I == {d \in Nat : \A path \in P : Len(path) + d > b => f[path].doc = R(path)}
<1>4. 0 \in I
  BY <1>2
<1>5. ASSUME NEW d \in Nat, d \in I PROVE d + 1 \in I
  <2> SUFFICES ASSUME NEW path \in P, Len(path) + (d + 1) > b
               PROVE  f[path].doc = R(path)
    OBVIOUS
  <2> DEFINE C == Children(T, path)
             B(n) == Built(m, p, f[n.path], n)
  <2>0. path \in Path
    BY <1>2
  <2>1. ASSUME NEW n \in C PROVE n \in T /\ n.path \in P /\ f[n.path].doc = R(n.path)
    <3>1. n \in T /\ Len(n.path) = Len(path) + 1 /\ Len(path) \in Nat
      BY <1>3, <2>0, ChildIs
    <3>2. n.path \in P
      BY <3>1 DEF P, Paths, T
    <3>3. Len(n.path) + d > b
      BY <1>2, <3>1
    <3> QED BY <1>5, <3>1, <3>2, <3>3
  <2>2. ASSUME NEW n \in C
        PROVE  B(n).doc = IF Taken(m, p, n.path) THEN Piece(m, p, n)
                          ELSE IF n.type \in Containers THEN Piece(m, p, n) \union R(n.path)
                          ELSE Piece(m, p, n)
    <3> DEFINE val == AppendVal(m, n.path, p)
               sub == f[n.path]
    <3>1. val = [rc |-> val.rc, doc |-> val.doc, set |-> val.set]
      BY DEF AppendVal
    <3>2. CASE val.rc = "NO_ERROR"
      BY <3>2 DEF Built, Taken, Piece
    <3>3. CASE val.rc # "NO_ERROR" /\ n.type \in Containers
      <4>1. B(n) = [val EXCEPT !.doc = {n} \union sub.doc, !.set = sub.set]
        BY <3>3 DEF Built
      <4>2. B(n).doc = {n} \union sub.doc
        <5> HIDE DEF val, sub
        <5> QED BY <3>1, <4>1
      <4> QED BY <2>1, <3>3, <4>2 DEF Taken, Piece
    <3>4. CASE val.rc # "NO_ERROR" /\ n.type \notin Containers
      <4>1. B(n) = [val EXCEPT !.doc = {n}]
        BY <3>4 DEF Built
      <4>2. B(n).doc = {n}
        <5> HIDE DEF val
        <5> QED BY <3>1, <4>1
      <4> QED BY <3>4, <4>2 DEF Taken, Piece
    <3> QED BY <3>2, <3>3, <3>4
  <2>3. f[path].doc = UNION {B(n).doc : n \in C}
    <3>1. f[path].doc = UNION {x.doc : x \in {B(n) : n \in C}}
      <4>1. f[path] = Walked(m, p, f, path)
        BY <1>1
      <4>2. f[path].doc = UNION {x.doc : x \in AllBuilt(m, p, f, path)}
        BY <4>1 DEF Walked
      <4>3. AllBuilt(m, p, f, path) = {B(n) : n \in C}
        BY DEF AllBuilt, T
      <4> HIDE DEF B, C
      <4> QED BY <4>2, <4>3
    <3> HIDE DEF B, C
    <3> QED BY <3>1
  <2>4. \A n \in T : n \in Reached(m, p, path) <=>
           \/ n \in C
           \/ \E c \in C : /\ c.type \in Containers /\ ~Taken(m, p, c.path)
                           /\ n \in Reached(m, p, c.path)
    BY <2>0, ReachedThrough DEF T
  <2>5. \A q : \A n \in Reached(m, p, q) : n \in T
    BY DEF Reached, T
  <2> HIDE DEF C, B
  <2>6. ASSUME NEW a \in f[path].doc PROVE a \in R(path)
    <3>1. PICK c \in C : a \in B(c).doc
      BY <2>3
    <3>2. \/ a \in Piece(m, p, c)
          \/ ~Taken(m, p, c.path) /\ c.type \in Containers /\ a \in R(c.path)
      BY <2>2, <3>1
    <3>3. c \in Reached(m, p, path)
      BY <2>1, <2>4
    <3>4. CASE a \in Piece(m, p, c)
      BY <3>3, <3>4
    <3>5. CASE ~Taken(m, p, c.path) /\ c.type \in Containers /\ a \in R(c.path)
      <4>1. PICK n \in Reached(m, p, c.path) : a \in Piece(m, p, n)
        BY <3>5
      <4>2. n \in Reached(m, p, path)
        BY <2>4, <2>5, <3>5, <4>1
      <4> QED BY <4>1, <4>2
    <3> QED BY <3>2, <3>4, <3>5
  <2>7. ASSUME NEW a \in R(path) PROVE a \in f[path].doc
    <3>1. PICK n \in Reached(m, p, path) : a \in Piece(m, p, n)
      OBVIOUS
    <3>2. CASE n \in C
      <4>1. a \in B(n).doc
        BY <2>2, <3>1, <3>2
      <4> QED BY <2>3, <3>2, <4>1
    <3>3. CASE n \notin C
      <4>1. PICK c \in C : /\ c.type \in Containers /\ ~Taken(m, p, c.path)
                           /\ n \in Reached(m, p, c.path)
        BY <2>4, <2>5, <3>1, <3>3
      <4>2. a \in R(c.path)
        BY <3>1, <4>1
      <4> HIDE DEF R
      <4>3. a \in B(c).doc
        BY <2>2, <4>1, <4>2
      <4> QED BY <2>3, <4>3
    <3> QED BY <3>2, <3>3
  <2> HIDE DEF R
  <2> QED BY <2>6, <2>7
<1>6. b + 1 \in I
  <2> HIDE DEF I
  <2> QED BY <1>4, <1>5, SetInduction
<1>7. f[Root].doc = R(Root)
  <2>1. Root \in P
    BY DEF P, Paths
  <2>2. Len(Root) + (b + 1) > b
    BY <1>2, <2>1
  <2> QED BY <1>6, <2>1, <2>2
<1>8. Reached(m, p, Root) = {t \in T : ~Hidden(m, p, t.path)}
  <2>1. Len(Root) = 0 /\ Root \in Seq(STRING)
    BY EmptySeq DEF Root
  <2>2. \A n \in T : IsStrictPrefix(Root, n.path)
    <3>1. ASSUME NEW n \in T PROVE IsStrictPrefix(Root, n.path)
      <4>1. n.path \in Seq(STRING) /\ Len(n.path) \in Nat /\ Len(n.path) >= 1
        BY <1>3, DocumentIs
      <4>2. Len(Root) < Len(n.path) /\ \A i \in 1 .. Len(Root) : Root[i] = n.path[i]
        BY <2>1, <4>1
      <4> QED BY <2>1, <4>1, <4>2, PrefixOf
    <3> QED BY <3>1
  <2>3. 0 + 1 = 1
    OBVIOUS
  <2> QED BY <2>1, <2>2, <2>3 DEF Reached, Hidden, T
<1> QED BY <1>1, <1>7, <1>8 DEF T, AppliedExt

-------------------------------------------------------------------------------
(* The basic mode: one map after the other.                                *)

(* Data maps that differ in what applying them changes, at most.           *)
Alike(m, n) ==
  /\ Len(m.items) = Len(n.items)
  /\ \A i \in 1 .. Len(m.items) :
       /\ m.items[i].key = n.items[i].key
       /\ m.items[i].src_path = n.items[i].src_path
       /\ m.items[i].src_prefix = n.items[i].src_prefix
       /\ m.items[i].tgt_path = n.items[i].tgt_path
       /\ m.items[i].src_payload = n.items[i].src_payload
       /\ m.items[i].type = n.items[i].type
       /\ m.items[i].fallback = n.items[i].fallback
  /\ m.is_extended = n.is_extended /\ m.tgt_payload = n.tgt_payload

(* The items of data maps are a sequence of items.                         *)
LEMMA ItemsOf ==
  ASSUME NEW m \in Maps
  PROVE  /\ m.items \in Seq(Item) /\ Len(m.items) \in Nat
         /\ DOMAIN m.items = 1 .. Len(m.items)
         /\ \A i \in 1 .. Len(m.items) : m.items[i] \in Item
BY DEF Maps

(* Data maps that are alike take their values from the same payloads.      *)
LEMMA AlikePayloads ==
  ASSUME NEW m \in Maps, NEW n \in Maps, Alike(m, n), NEW p
  PROVE  /\ \A i \in 1 .. Len(m.items) : PayloadOf(m, i, p) = PayloadOf(n, i, p)
         /\ Applies(m, p) = Applies(n, p)
<1>1. /\ Len(m.items) \in Nat /\ DOMAIN m.items = 1 .. Len(m.items)
      /\ DOMAIN n.items = 1 .. Len(m.items)
  BY ItemsOf DEF Alike
<1>2. ASSUME NEW i \in 1 .. Len(m.items)
      PROVE  PayloadOf(m, i, p) = PayloadOf(n, i, p)
  <2> DEFINE own(x) == {j \in 1 .. i : x.items[j].src_payload # None}
  <2>1. \A j \in 1 .. i : j \in 1 .. Len(m.items)
    BY <1>1
  <2>2. own(m) = own(n)
    BY <2>1 DEF Alike
  <2>3. own(m) # {} => Max(own(m)) \in 1 .. Len(m.items)
    <3>1. own(m) \in SUBSET (0 .. i) /\ i \in Nat
      BY <1>1
    <3>2. \A j \in own(m) : j \in 1 .. Len(m.items)
      BY <2>1
    <3> HIDE DEF own
    <3> QED BY <3>1, <3>2, MaxOf
  <2>4. /\ PayloadOf(m, i, p) = IF own(m) = {} THEN p ELSE m.items[Max(own(m))].src_payload
        /\ PayloadOf(n, i, p) = IF own(n) = {} THEN p ELSE n.items[Max(own(n))].src_payload
    BY DEF PayloadOf
  <2> HIDE DEF own
  <2> QED BY <2>2, <2>3, <2>4 DEF Alike
<1> QED BY <1>1, <1>2 DEF Applies

(* Data maps that are alike replace a node of the target alike.            *)
LEMMA AlikeAppend ==
  ASSUME NEW m \in Maps, NEW n \in Maps, Alike(m, n), NEW p, NEW path
  PROVE  AppendVal(m, path, p) = AppendVal(n, path, p)
<1> DEFINE mine(x) == {j \in Applies(x, p) : x.items[j].tgt_path = path}
           i(x) == Min(mine(x))
<1>1. /\ Len(m.items) \in Nat /\ DOMAIN m.items = 1 .. Len(m.items)
      /\ Applies(m, p) = Applies(n, p)
      /\ \A j \in 1 .. Len(m.items) : PayloadOf(m, j, p) = PayloadOf(n, j, p)
  BY ItemsOf, AlikePayloads
<1>2. \A j \in Applies(m, p) : j \in 1 .. Len(m.items)
  BY <1>1 DEF Applies
<1>3. mine(m) = mine(n)
  BY <1>1, <1>2 DEF Alike
<1>4. CASE mine(m) = {}
  <2>1. mine(n) = {}
    BY <1>3, <1>4
  <2> QED BY <1>4, <2>1 DEF AppendVal
<1>5. CASE mine(m) # {}
  <2>1. i(m) \in 1 .. Len(m.items)
    <3>1. mine(m) \in SUBSET (0 .. Len(m.items)) /\ Len(m.items) \in Nat
      BY <1>1, <1>2
    <3>2. \A j \in mine(m) : j \in 1 .. Len(m.items)
      BY <1>2
    <3> HIDE DEF mine
    <3> QED BY <1>5, <3>1, <3>2, MinOf
  <2>2. i(m) = i(n) /\ mine(n) # {}
    BY <1>3, <1>5
  <2>3. AppendVal(m, path, p) =
          CASE m.items[i(m)].src_path = Root ->
                 [rc |-> "NO_ERROR",
                  doc |-> Append_(path, "document", 0, PayloadOf(m, i(m), p)), set |-> {}]
            [] m.items[i(m)].src_path # Root
                 /\ ~Has(PayloadOf(m, i(m), p), SourcePath(m.items[i(m)])) ->
                 [rc |-> "MISSING_SRC_KEY", doc |-> {}, set |-> {}]
            [] OTHER ->
                 [rc |-> "NO_ERROR",
                  doc |-> Appended(m.items[i(m)].type, path,
                            At(PayloadOf(m, i(m), p), SourcePath(m.items[i(m)])),
                            PayloadOf(m, i(m), p)),
                  set |-> {i(m)}]
    BY <1>5 DEF AppendVal
  <2>4. AppendVal(n, path, p) =
          CASE n.items[i(n)].src_path = Root ->
                 [rc |-> "NO_ERROR",
                  doc |-> Append_(path, "document", 0, PayloadOf(n, i(n), p)), set |-> {}]
            [] n.items[i(n)].src_path # Root
                 /\ ~Has(PayloadOf(n, i(n), p), SourcePath(n.items[i(n)])) ->
                 [rc |-> "MISSING_SRC_KEY", doc |-> {}, set |-> {}]
            [] OTHER ->
                 [rc |-> "NO_ERROR",
                  doc |-> Appended(n.items[i(n)].type, path,
                            At(PayloadOf(n, i(n), p), SourcePath(n.items[i(n)])),
                            PayloadOf(n, i(n), p)),
                  set |-> {i(n)}]
    BY <2>2 DEF AppendVal
  <2>5. /\ m.items[i(m)].src_path = n.items[i(n)].src_path
        /\ SourcePath(m.items[i(m)]) = SourcePath(n.items[i(n)])
        /\ m.items[i(m)].type = n.items[i(n)].type
        /\ PayloadOf(m, i(m), p) = PayloadOf(n, i(n), p)
    <3> HIDE DEF i
    <3> QED BY <1>1, <2>1, <2>2 DEF Alike, SourcePath
  <2> HIDE DEF i
  <2> QED BY <2>2, <2>3, <2>4, <2>5
<1> QED BY <1>4, <1>5

(* The value that map i gives to the node n.                               *)
ValueBy(m, i, p, n) ==
  LET srcs == {s \in PayloadOf(m, i, p) :
                 s.path = SourcePath(m.items[i]) /\ CanWrite(n.type, s)}
  IN IF srcs = {} THEN m.items[i].fallback
     ELSE Converted(n.type, CHOOSE s \in srcs : TRUE)

(* The maps up to k that write to a path, and what they make of a node.    *)
Writers(m, p, k, path) ==
  {i \in Applies(m, p) : i <= k /\ m.items[i].tgt_path = path
                           /\ m.items[i].src_path # Root}
Written(m, p, k, n) ==
  IF Writers(m, p, k, n.path) = {} THEN n
  ELSE [n EXCEPT !.val = ValueBy(m, Max(Writers(m, p, k, n.path)), p, n)]

(* What the basic mode makes, node by node, and what either mode makes.    *)
AppliedBase(m, p) == {Written(m, p, Len(m.items), n) : n \in m.mapped_payload}
AppliedTo(m, p) == IF m.is_extended THEN AppliedExt(m, p) ELSE AppliedBase(m, p)

(* Data maps that are alike make the same.                                 *)
LEMMA AlikeApplied ==
  ASSUME NEW m \in Maps, NEW n \in Maps, Alike(m, n),
         m.mapped_payload = n.mapped_payload, NEW p
  PROVE  AppliedTo(m, p) = AppliedTo(n, p)
<1>1. /\ Len(m.items) \in Nat /\ DOMAIN m.items = 1 .. Len(m.items)
      /\ Len(n.items) = Len(m.items)
      /\ Applies(m, p) = Applies(n, p)
      /\ \A j \in 1 .. Len(m.items) : PayloadOf(m, j, p) = PayloadOf(n, j, p)
  BY ItemsOf, AlikePayloads DEF Alike
<1>2. \A j \in Applies(m, p) : j \in 1 .. Len(m.items)
  BY <1>1 DEF Applies
<1>3. AppliedExt(m, p) = AppliedExt(n, p)
  <2>1. \A path : AppendVal(m, path, p) = AppendVal(n, path, p)
    BY AlikeAppend
  <2>2. m.tgt_payload = n.tgt_payload
    BY DEF Alike
  <2>3. \A path : Hidden(m, p, path) <=> Hidden(n, p, path)
    BY <2>1 DEF Hidden, Taken
  <2>4. \A x : Piece(m, p, x) = Piece(n, p, x)
    BY <2>1 DEF Piece, Taken
  <2> QED BY <2>2, <2>3, <2>4 DEF AppliedExt
<1>4. AppliedBase(m, p) = AppliedBase(n, p)
  <2> DEFINE l == Len(m.items)
  <2>1. ASSUME NEW x PROVE Written(m, p, l, x) = Written(n, p, l, x)
    <3> DEFINE W == Writers(m, p, l, x.path)
    <3>1. Writers(n, p, l, x.path) = W
      BY <1>1, <1>2 DEF Writers, Alike
    <3>2. CASE W = {}
      BY <3>1, <3>2 DEF Written
    <3>3. CASE W # {}
      <4> DEFINE i == Max(W)
      <4>1. W \in SUBSET (0 .. l) /\ \A j \in W : j \in 1 .. l
        BY <1>1, <1>2 DEF Writers
      <4>2. i \in 1 .. l
        <5> HIDE DEF W
        <5> QED BY <1>1, <3>3, <4>1, MaxOf
      <4> HIDE DEF i, l
      <4>3. ValueBy(m, i, p, x) = ValueBy(n, i, p, x)
        <5>1. /\ PayloadOf(m, i, p) = PayloadOf(n, i, p)
              /\ SourcePath(m.items[i]) = SourcePath(n.items[i])
              /\ m.items[i].fallback = n.items[i].fallback
          BY <1>1, <4>2 DEF Alike, SourcePath, l
        <5> QED BY <5>1 DEF ValueBy
      <4> HIDE DEF W
      <4> QED BY <3>1, <3>3, <4>3 DEF Written, i, W
    <3> QED BY <3>2, <3>3
  <2>2. AppliedBase(m, p) = {Written(m, p, l, x) : x \in m.mapped_payload}
    BY DEF AppliedBase
  <2>3. AppliedBase(n, p) = {Written(n, p, l, x) : x \in m.mapped_payload}
    <3>1. AppliedBase(n, p) = {Written(n, p, Len(n.items), x) : x \in n.mapped_payload}
      BY DEF AppliedBase
    <3>2. Len(n.items) = l
      BY <1>1
    <3> QED BY <3>1, <3>2
  <2> HIDE DEF l
  <2> QED BY <2>1, <2>2, <2>3
<1> QED BY <1>3, <1>4 DEF AppliedTo, Alike

(* A document with another value at a node: a document of the same shape.  *)
LEMMA ValueChanged ==
  ASSUME NEW doc \in Document, NEW n \in doc, NEW val \in Int
  PROVE  LET D == (doc \ {n}) \union {[n EXCEPT !.val = val]}
         IN D \in Document /\ Shape(D) = Shape(doc)
<1> DEFINE a == [n EXCEPT !.val = val]
           D == (doc \ {n}) \union {a}
<1>1. n \in Node
  BY DocumentIs
<1>2. a \in Node /\ a.path = n.path /\ a.type = n.type
  BY <1>1, NodeExcept
<1> HIDE DEF a
<1>3. IsFiniteSet(D)
  <2>1. IsFiniteSet(doc)
    BY DocumentIs
  <2>2. IsFiniteSet(doc \ {n})
    BY <2>1, FS_Subset
  <2>3. IsFiniteSet({a})
    BY FS_Singleton
  <2> QED BY <2>2, <2>3, FS_Union
<1>4. ASSUME NEW x \in D PROVE x \in Node
  BY <1>2, DocumentIs
<1>5. ASSUME NEW x \in D, NEW y \in D, x.path = y.path PROVE x = y
  <2>1. \A u, v \in doc : u.path = v.path => u = v
    BY DocumentIs
  <2> QED BY <1>2, <1>5, <2>1
<1>6. ASSUME NEW x \in D, Len(x.path) > 1
      PROVE  \E y \in D : y.path = Front(x.path) /\ y.type \in Containers
  <2>1. PICK u \in doc : u.path = x.path
    BY <1>2
  <2>2. PICK v \in doc : v.path = Front(x.path) /\ v.type \in Containers
    BY <1>6, <2>1, DocumentIs
  <2> QED BY <1>2, <2>2
<1>7. D \in Document
  <2> HIDE DEF D
  <2> QED BY <1>3, <1>4, <1>5, <1>6, IsDocument
<1>8. Shape(D) = Shape(doc)
  BY <1>2 DEF Shape
<1> QED BY <1>7, <1>8 DEF a

(* The maps that write to a path in the basic mode, fed or not.            *)
Mapped(m, path) == {i \in MapsTo(m, path) : m.items[i].src_path # Root}

(* Data maps as they are made and kept: every map has a source and a       *)
(* target.  In the basic mode this is of a basic type and its value is the *)
(* fallback; the mapped payload has the shape of the target document, and  *)
(* what no map writes to is as it is there.                                *)
Sound(m) ==
  /\ m \in Maps
  /\ \A i \in 1 .. Len(m.items) :
       /\ m.items[i].src_path \in Path
       /\ Has(m.tgt_payload, m.items[i].tgt_path)
       /\ ~m.is_extended =>
            /\ At(m.tgt_payload, m.items[i].tgt_path).type \in BasicType
            /\ m.items[i].fallback = At(m.tgt_payload, m.items[i].tgt_path).val
  /\ ~m.is_extended =>
       /\ Shape(m.mapped_payload) = Shape(m.tgt_payload)
       /\ \A n \in m.tgt_payload : Mapped(m, n.path) = {} => n \in m.mapped_payload

(* The source path of a map with its prefix is a path.                     *)
LEMMA SourcePathIs ==
  ASSUME NEW item \in Item, item.src_path \in Path
  PROVE  SourcePath(item) \in Path
<1>1. item.src_prefix \in Seq(STRING) /\ item.src_path \in Seq(STRING)
  BY DEF Item, Path
<1> QED BY <1>1, ConcatOf DEF SourcePath, Path

(* The value a map gives to a node is a value.                             *)
LEMMA ValueByIs ==
  ASSUME NEW m \in Maps, NEW p \in Document \union {None},
         NEW i \in Applies(m, p), NEW n
  PROVE  ValueBy(m, i, p, n) \in Int
<1> DEFINE srcs == {s \in PayloadOf(m, i, p) :
                      s.path = SourcePath(m.items[i]) /\ CanWrite(n.type, s)}
<1>1. m.items[i] \in Item /\ PayloadOf(m, i, p) \in Document
  BY PayloadTaken
<1>2. m.items[i].fallback \in Int
  BY <1>1 DEF Item
<1>3. \A s \in srcs : s \in Node
  BY <1>1, DocumentIs
<1>4. ValueBy(m, i, p, n) = IF srcs = {} THEN m.items[i].fallback
                            ELSE Converted(n.type, CHOOSE s \in srcs : TRUE)
  BY DEF ValueBy
<1> HIDE DEF srcs
<1>5. CASE srcs # {}
  <2> DEFINE s == CHOOSE x \in srcs : TRUE
  <2>1. s \in srcs
    BY <1>5
  <2> HIDE DEF s
  <2>2. Converted(n.type, s) \in Int
    BY <1>3, <2>1, ConvertedIs
  <2> QED BY <1>4, <1>5, <2>2 DEF s
<1> QED BY <1>2, <1>4, <1>5

(* The maps change the value of a node and nothing else.                   *)
LEMMA WrittenIs ==
  ASSUME NEW m \in Maps, NEW p \in Document \union {None},
         NEW k \in 0 .. Len(m.items), NEW n \in Node
  PROVE  /\ Written(m, p, k, n) \in Node
         /\ Written(m, p, k, n).path = n.path /\ Written(m, p, k, n).type = n.type
<1> DEFINE W == Writers(m, p, k, n.path)
<1>1. CASE W = {}
  BY <1>1 DEF Written
<1>2. CASE W # {}
  <2> DEFINE i == Max(W)
             v == ValueBy(m, i, p, n)
  <2>1. i \in Applies(m, p)
    <3>1. \A j \in W : j \in Applies(m, p)
      BY DEF Writers
    <3>2. W \in SUBSET (0 .. Len(m.items)) /\ Len(m.items) \in Nat
      BY <3>1, PayloadTaken, ItemsOf
    <3> HIDE DEF W
    <3> QED BY <1>2, <3>1, <3>2, MaxOf
  <2>2. v \in Int
    <3> HIDE DEF i
    <3> QED BY <2>1, ValueByIs
  <2>3. Written(m, p, k, n) = [n EXCEPT !.val = v]
    BY <1>2 DEF Written
  <2> HIDE DEF v
  <2> QED BY <2>2, <2>3, NodeExcept
<1> QED BY <1>1, <1>2

(* What the first k maps have done in the basic mode.                      *)
BaseUpTo(k, s, m, p, r) ==
  /\ s \in [maps : Maps, rc : Result]
  /\ Alike(m, s.maps)
  /\ s.maps.mapped_payload = {Written(m, p, k, n) : n \in m.mapped_payload}
  /\ Shape(s.maps.mapped_payload) = Shape(m.mapped_payload)
  /\ s.rc = "NO_ERROR" =>
       \A i \in Applies(m, p) : i <= k => s.maps.items[i].src_iter = r

(* One more map in the basic mode.                                         *)
LEMMA BaseStep ==
  ASSUME NEW m, Sound(m), ~m.is_extended, NEW p \in Document \union {None},
         NEW r \in Nat, NEW k \in Nat, k + 1 \in Applies(m, p), NEW s,
         BaseUpTo(k, s, m, p, r)
  PROVE  BaseUpTo(k + 1, ApplyBase(s, k + 1, p, r), m, p, r)
<1> DEFINE i == k + 1
           q == ApplyBase(s, i, p, r)
           item == m.items[i]
           doc == PayloadOf(m, i, p)
           M == m.mapped_payload
           N == s.maps.mapped_payload
<1>1. /\ m \in Maps /\ M \in Document /\ m.tgt_payload \in Document
      /\ i \in 1 .. Len(m.items) /\ Len(m.items) \in Nat
      /\ item \in Item /\ doc \in Document /\ item.src_path \in Path
      /\ Has(m.tgt_payload, item.tgt_path)
      /\ Shape(M) = Shape(m.tgt_payload)
      /\ item.fallback \in Int
  <2>1. m \in Maps
    BY DEF Sound
  <2>2. i \in 1 .. Len(m.items) /\ item \in Item /\ doc \in Document
    BY <2>1, PayloadTaken
  <2>3. M \in Document /\ m.tgt_payload \in Document
    BY <2>1 DEF Maps
  <2>4. Len(m.items) \in Nat
    BY <2>1, ItemsOf
  <2>5. item.fallback \in Int
    BY <2>2 DEF Item
  <2> QED BY <2>1, <2>2, <2>3, <2>4, <2>5 DEF Sound
<1>2. /\ s.maps \in Maps /\ s.rc \in Result /\ Alike(m, s.maps)
      /\ s \in [maps : Maps, rc : Result]
      /\ N \in Document /\ N = {Written(m, p, k, n) : n \in M} /\ Shape(N) = Shape(M)
      /\ s.maps.items \in Seq(Item) /\ Len(s.maps.items) = Len(m.items)
      /\ PayloadOf(s.maps, i, p) = doc
  <2>1. /\ s.maps \in Maps /\ s.rc \in Result /\ Alike(m, s.maps)
        /\ s \in [maps : Maps, rc : Result]
        /\ N = {Written(m, p, k, n) : n \in M} /\ Shape(N) = Shape(M)
    BY DEF BaseUpTo
  <2>2. N \in Document
    BY <2>1 DEF Maps
  <2>3. s.maps.items \in Seq(Item) /\ Len(s.maps.items) = Len(m.items)
    BY <2>1, ItemsOf DEF Alike
  <2>4. PayloadOf(s.maps, i, p) = doc
    BY <1>1, <2>1, AlikePayloads
  <2> QED BY <2>1, <2>2, <2>3, <2>4
<1>3. /\ s.maps.items[i] \in Item
      /\ s.maps.items[i].src_path = item.src_path /\ s.maps.items[i].tgt_path = item.tgt_path
      /\ s.maps.items[i].fallback = item.fallback
      /\ SourcePath(s.maps.items[i]) = SourcePath(item)
  <2>1. s.maps.items[i] \in Item
    BY <1>1, <1>2
  <2> QED BY <1>1, <1>2, <2>1 DEF Alike, SourcePath
<1>4. \A x, y \in M : x.path = y.path => x = y
  BY <1>1, DocumentIs
<1>5. \A n \in M : n \in Node /\ Written(m, p, k, n) \in Node
                   /\ Written(m, p, k, n).path = n.path
                   /\ Written(m, p, k, n).type = n.type
  <2>1. k \in 0 .. Len(m.items)
    BY <1>1
  <2>2. \A n \in M : n \in Node
    BY <1>1, DocumentIs
  <2> QED BY <1>1, <2>1, <2>2, WrittenIs
<1> HIDE DEF q, item, doc, M, N
<1>6. CASE item.src_path = Root
  <2>1. q = [s EXCEPT !.rc = LastError(s.rc, "BAD_ROOT_TYPE")]
    BY <1>3, <1>6 DEF ApplyBase, q
  <2>2. /\ q \in [maps : Maps, rc : Result] /\ q.maps = s.maps
        /\ q.rc # "NO_ERROR"
    BY <1>2, <2>1 DEF LastError, Result
  <2>3. ASSUME NEW n \in M PROVE Written(m, p, k + 1, n) = Written(m, p, k, n)
    <3>1. Writers(m, p, k + 1, n.path) = Writers(m, p, k, n.path)
      <4>1. \A j \in Applies(m, p) : j \in Nat
        BY <1>1, PayloadTaken
      <4>2. \A j \in Applies(m, p) : j <= k + 1 <=> j <= k \/ j = k + 1
        BY <4>1
      <4> QED BY <1>6, <4>2 DEF Writers, item
    <3> QED BY <3>1 DEF Written
  <2>4. N = {Written(m, p, k + 1, n) : n \in M}
    BY <1>2, <2>3
  <2> QED BY <1>2, <2>2, <2>4 DEF BaseUpTo, N, M, q
<1>7. CASE item.src_path # Root
  <2> DEFINE t == item.tgt_path
             found == Has(doc, SourcePath(item))
             src == At(doc, SourcePath(item))
             tgt == At(N, t)
             val == IF found /\ CanWrite(tgt.type, src)
                    THEN Converted(tgt.type, src) ELSE item.fallback
             iter == IF found THEN r ELSE s.maps.items[i].src_iter
             New == (N \ {tgt}) \union {[tgt EXCEPT !.val = val]}
             items == [s.maps.items EXCEPT ![i] = [s.maps.items[i] EXCEPT !.src_iter = iter]]
  <2>1. q = [maps |-> [s.maps EXCEPT !.mapped_payload = New, !.items = items],
             rc |-> LastError(s.rc, IF found THEN "NO_ERROR" ELSE "MISSING_SRC_KEY")]
    BY <1>2, <1>3, <1>7 DEF ApplyBase, q, N, Reset
  <2>2. PICK n0 \in M : n0.path = t
    <3>1. PICK x \in m.tgt_payload : x.path = t
      BY <1>1 DEF Has
    <3>2. <<x.path, x.type>> \in Shape(M)
      BY <1>1, <3>1 DEF Shape
    <3> QED BY <3>1, <3>2 DEF Shape
  <2>3. tgt = Written(m, p, k, n0) /\ tgt \in N /\ tgt \in Node
        /\ tgt.path = t /\ tgt.type = n0.type
    <3>1. Written(m, p, k, n0) \in N /\ Written(m, p, k, n0).path = t
      BY <1>2, <1>5, <2>2
    <3>2. At(N, t) = Written(m, p, k, n0)
      BY <1>2, <3>1, AtNode
    <3> QED BY <1>5, <2>2, <3>1, <3>2
  <2>4. found => src \in doc /\ src.path = SourcePath(item) /\ src \in Node
    <3>1. found => src \in doc /\ src.path = SourcePath(item)
      BY <1>1, AtNode
    <3> QED BY <1>1, <3>1, DocumentIs
  <2>5. val \in Int
    <3>1. found => Converted(tgt.type, src) \in Int
      BY <2>4, ConvertedIs
    <3> QED BY <1>1, <3>1
  <2>6. iter \in Nat
    <3>1. s.maps.items[i].src_iter \in Nat
      BY <1>3 DEF Item
    <3> QED BY <3>1
  <2>7. val = ValueBy(m, i, p, n0)
    <3> DEFINE srcs == {x \in doc : x.path = SourcePath(item) /\ CanWrite(n0.type, x)}
    <3>1. ValueBy(m, i, p, n0) = IF srcs = {} THEN item.fallback
                                ELSE Converted(n0.type, CHOOSE x \in srcs : TRUE)
      BY DEF ValueBy, doc, item
    <3>2. \A x, y \in doc : x.path = y.path => x = y
      BY <1>1, DocumentIs
    <3>3. \A x \in doc : x.path = SourcePath(item) => found
      BY DEF Has
    <3> HIDE DEF src
    <3>4. CASE found /\ CanWrite(tgt.type, src)
      <4>1. srcs = {src}
        BY <2>3, <2>4, <3>2, <3>4
      <4>2. (CHOOSE x \in srcs : TRUE) = src
        BY <4>1
      <4> HIDE DEF srcs, found, tgt
      <4>3. srcs # {}
        BY <4>1
      <4> QED BY <2>3, <3>1, <3>4, <4>2, <4>3
    <3>5. CASE ~(found /\ CanWrite(tgt.type, src))
      <4>1. srcs = {}
        BY <2>3, <2>4, <3>2, <3>3, <3>5
      <4> HIDE DEF srcs, found, tgt
      <4> QED BY <3>1, <3>5, <4>1
    <3> QED BY <3>4, <3>5
  <2> HIDE DEF found, src, tgt, val, iter
  <2>8. New \in Document /\ Shape(New) = Shape(N)
    BY <1>2, <2>3, <2>5, ValueChanged
  <2>9. [tgt EXCEPT !.val = val] = Written(m, p, i, n0)
    <3> DEFINE W == Writers(m, p, i, n0.path)
    <3>1. i \in W /\ \A j \in W : j <= i /\ j \in Nat
      <4>1. \A j \in Applies(m, p) : j \in Nat
        BY <1>1, PayloadTaken
      <4> QED BY <1>1, <1>7, <2>2, <4>1 DEF Writers, item
    <3>2. Max(W) = i
      <4>1. W \in SUBSET (0 .. i) /\ i \in Nat
        BY <1>1, <3>1
      <4> DEFINE x == Max(W)
      <4>2. x \in W /\ \A j \in W : j <= x
        <5> HIDE DEF W
        <5> QED BY <3>1, <4>1, MaxOf
      <4>3. x \in Nat /\ x <= i /\ i <= x
        BY <3>1, <4>2
      <4> HIDE DEF x
      <4>4. x = i
        BY <4>1, <4>3
      <4> QED BY <4>4 DEF x
    <3>3. Written(m, p, i, n0) = [n0 EXCEPT !.val = val]
      BY <2>7, <3>1, <3>2 DEF Written
    <3>4. /\ [tgt EXCEPT !.val = val] \in Node /\ [tgt EXCEPT !.val = val].path = t
          /\ [tgt EXCEPT !.val = val].type = n0.type /\ [tgt EXCEPT !.val = val].val = val
      BY <2>3, <2>5, NodeExcept
    <3>5. /\ [n0 EXCEPT !.val = val] \in Node /\ [n0 EXCEPT !.val = val].path = t
          /\ [n0 EXCEPT !.val = val].type = n0.type /\ [n0 EXCEPT !.val = val].val = val
      BY <1>5, <2>2, <2>5, NodeExcept
    <3> DEFINE a == [tgt EXCEPT !.val = val]
               b == [n0 EXCEPT !.val = val]
    <3>6. /\ a \in Node /\ b \in Node
          /\ a.path = b.path /\ a.type = b.type /\ a.val = b.val
      BY <3>4, <3>5
    <3> HIDE DEF a, b
    <3>7. a = b
      BY <3>6, NodeExcept
    <3> QED BY <3>3, <3>7 DEF a, b
  <2>10. ASSUME NEW n \in M, n # n0 PROVE Written(m, p, i, n) = Written(m, p, k, n)
    <3>1. n.path # t
      BY <1>4, <2>2, <2>10
    <3>2. Writers(m, p, i, n.path) = Writers(m, p, k, n.path)
      <4>1. \A j \in Applies(m, p) : j \in Nat
        BY <1>1, PayloadTaken
      <4>2. \A j \in Applies(m, p) : j <= k + 1 <=> j <= k \/ j = k + 1
        BY <4>1
      <4> QED BY <3>1, <4>2 DEF Writers, item
    <3> QED BY <3>2 DEF Written
  <2>11. New = {Written(m, p, i, n) : n \in M}
    <3>1. \A n \in M : n # n0 => Written(m, p, k, n) # tgt
      BY <1>4, <1>5, <2>2, <2>3
    <3> DEFINE a == [tgt EXCEPT !.val = val]
    <3>2. a = Written(m, p, i, n0)
      BY <2>9
    <3> HIDE DEF a
    <3>3. \A x : x \in (N \ {tgt}) \union {a} <=> \E n \in M : x = Written(m, p, i, n)
      BY <1>2, <2>2, <2>3, <2>10, <3>1, <3>2
    <3> QED BY <3>3 DEF a
  <2> HIDE DEF New
  <2>12. /\ items \in Seq(Item) /\ Len(items) = Len(m.items)
         /\ items[i] = [s.maps.items[i] EXCEPT !.src_iter = iter]
         /\ \A j \in 1 .. Len(m.items) : j # i => items[j] = s.maps.items[j]
    <3> DEFINE x == [s.maps.items[i] EXCEPT !.src_iter = iter]
    <3>1. x \in Item
      BY <1>3, <2>6 DEF Item
    <3> HIDE DEF x
    <3>2. [s.maps.items EXCEPT ![i] = x] \in Seq(Item)
      BY <1>1, <1>2, <3>1, ExceptSeq
    <3>3. Len([s.maps.items EXCEPT ![i] = x]) = Len(m.items)
      BY <1>1, <1>2, <3>1, ExceptSeq
    <3>4. /\ [s.maps.items EXCEPT ![i] = x][i] = x
          /\ \A j \in 1 .. Len(m.items) : j # i =>
               [s.maps.items EXCEPT ![i] = x][j] = s.maps.items[j]
      BY <1>1, <1>2
    <3> QED BY <3>2, <3>3, <3>4 DEF x
  <2> HIDE DEF items
  <2>13. /\ q \in [maps : Maps, rc : Result]
         /\ q.maps.mapped_payload = New /\ q.maps.items = items
         /\ q.maps.is_extended = m.is_extended
         /\ q.maps.tgt_payload = m.tgt_payload
         /\ q.rc = "NO_ERROR" <=> s.rc = "NO_ERROR" /\ found
    <3>1. [s.maps EXCEPT !.mapped_payload = New, !.items = items] \in Maps
      BY <1>2, <2>8, <2>12 DEF Maps
    <3> DEFINE e == IF found THEN "NO_ERROR" ELSE "MISSING_SRC_KEY"
               y == [s.maps EXCEPT !.mapped_payload = New, !.items = items]
    <3>2. LastError(s.rc, e) \in Result
          /\ (LastError(s.rc, e) = "NO_ERROR" <=> s.rc = "NO_ERROR" /\ found)
      BY <1>2 DEF LastError, Result
    <3>3. /\ y.mapped_payload = New /\ y.items = items
          /\ y.is_extended = m.is_extended /\ y.tgt_payload = m.tgt_payload
      BY <1>2 DEF Maps, Alike
    <3> HIDE DEF y, e
    <3>4. q = [maps |-> y, rc |-> LastError(s.rc, e)] /\ y \in Maps
      BY <2>1, <3>1 DEF y, e
    <3> QED BY <3>2, <3>3, <3>4
  <2>14. Alike(m, q.maps)
    <3> DEFINE x == items[i]
    <3>1. /\ x.key = s.maps.items[i].key /\ x.src_path = s.maps.items[i].src_path
          /\ x.src_prefix = s.maps.items[i].src_prefix
          /\ x.tgt_path = s.maps.items[i].tgt_path
          /\ x.src_payload = s.maps.items[i].src_payload
          /\ x.type = s.maps.items[i].type /\ x.fallback = s.maps.items[i].fallback
      BY <1>3, <2>12 DEF Item
    <3> HIDE DEF x
    <3>2. ASSUME NEW j \in 1 .. Len(m.items)
          PROVE  /\ m.items[j].key = items[j].key
                 /\ m.items[j].src_path = items[j].src_path
                 /\ m.items[j].src_prefix = items[j].src_prefix
                 /\ m.items[j].tgt_path = items[j].tgt_path
                 /\ m.items[j].src_payload = items[j].src_payload
                 /\ m.items[j].type = items[j].type
                 /\ m.items[j].fallback = items[j].fallback
      <4>1. CASE j = i
        BY <1>1, <1>2, <3>1, <4>1 DEF Alike, x
      <4>2. CASE j # i
        BY <1>2, <2>12, <4>2 DEF Alike
      <4> QED BY <4>1, <4>2
    <3> QED BY <2>12, <2>13, <3>2 DEF Alike
  <2>15. q.rc = "NO_ERROR" =>
           \A j \in Applies(m, p) : j <= k + 1 => q.maps.items[j].src_iter = r
    <3> SUFFICES ASSUME q.rc = "NO_ERROR", NEW j \in Applies(m, p), j <= k + 1
                 PROVE  items[j].src_iter = r
      BY <2>13
    <3>1. j \in 1 .. Len(m.items)
      BY <1>1, PayloadTaken
    <3>2. CASE j = i
      <4>1. items[i].src_iter = iter
        BY <1>3, <2>12 DEF Item
      <4> QED BY <2>13, <3>2, <4>1 DEF iter
    <3>3. CASE j # i
      <4>1. j <= k
        BY <3>1, <3>3
      <4> QED BY <2>12, <2>13, <3>1, <3>3, <4>1 DEF BaseUpTo
    <3> QED BY <3>2, <3>3
  <2>16. Shape(q.maps.mapped_payload) = Shape(M)
    BY <1>2, <2>8, <2>13
  <2> QED BY <2>11, <2>13, <2>14, <2>15, <2>16 DEF BaseUpTo, M, q
<1> QED BY <1>6, <1>7 DEF q

(* The maps one after the other, as the source's loop.                     *)
LEMMA ApplyAllBaseLoop ==
  ASSUME NEW m, Len(m.items) \in Nat, NEW p, NEW r
  PROVE  \E s : /\ s[0] = [maps |-> m, rc |-> "NO_ERROR"]
                /\ \A k \in 1 .. Len(m.items) :
                     s[k] = IF k \in Applies(m, p) THEN ApplyBase(s[k - 1], k, p, r)
                            ELSE s[k - 1]
                /\ ApplyAllBase(m, p, r) = s[Len(m.items)]
<1> DEFINE start == [maps |-> m, rc |-> "NO_ERROR"]
           n == Len(m.items)
           A == Applies(m, p)
           Body(f, l) ==
             [i \in 0 .. l |->
                CASE i = 0 -> start
                  [] i > 0 /\ i \in A -> ApplyBase(f[i - 1], i, p, r)
                  [] OTHER -> f[i - 1]]
           I == {l \in Nat : \E f : f = Body(f, l)}
           s == CHOOSE f : f = Body(f, n)
<1>0. ApplyAllBase(m, p, r) = s[n]
  BY DEF ApplyAllBase
<1> HIDE DEF start, s, A, n
<1>1. 0 \in I
  <2>1. [k \in 0 .. 0 |-> start] = Body([k \in 0 .. 0 |-> start], 0)
    OBVIOUS
  <2> QED BY <2>1
<1>2. ASSUME NEW l \in Nat, l \in I PROVE l + 1 \in I
  <2>1. PICK f : f = Body(f, l)
    BY <1>2
  <2> DEFINE g == Body(f, l + 1)
  <2>2. ASSUME NEW k \in 1 .. l + 1 PROVE g[k - 1] = f[k - 1]
    <3>1. k - 1 \in 0 .. l /\ k - 1 \in 0 .. l + 1
      OBVIOUS
    <3>2. f[k - 1] = Body(f, l)[k - 1]
      BY <2>1
    <3> QED BY <3>1, <3>2
  <2>3. g = Body(g, l + 1)
    <3>1. ASSUME NEW k \in 0 .. l + 1 PROVE g[k] = Body(g, l + 1)[k]
      <4>1. CASE k = 0
        BY <4>1
      <4>2. CASE k # 0
        <5>1. k \in 1 .. l + 1 /\ k > 0
          BY <4>2
        <5>2. g[k] = IF k \in A THEN ApplyBase(f[k - 1], k, p, r) ELSE f[k - 1]
          BY <4>2, <5>1
        <5> HIDE DEF g
        <5>3. Body(g, l + 1)[k] = IF k \in A THEN ApplyBase(g[k - 1], k, p, r) ELSE g[k - 1]
          BY <4>2, <5>1
        <5>4. g[k - 1] = f[k - 1]
          BY <2>2, <5>1
        <5> QED BY <5>2, <5>3, <5>4
      <4> QED BY <4>1, <4>2
    <3>2. DOMAIN g = 0 .. l + 1 /\ DOMAIN Body(g, l + 1) = 0 .. l + 1
      OBVIOUS
    <3> QED BY <3>1, <3>2
  <2> HIDE DEF g, Body
  <2> QED BY <2>3
<1>3. n \in Nat /\ n \in I
  <2>1. n \in Nat
    BY DEF n
  <2> HIDE DEF I
  <2> QED BY <1>1, <1>2, <2>1, SetInduction
<1>4. s = Body(s, n)
  BY <1>3 DEF s
<1>5. ASSUME NEW k \in 0 .. n PROVE s[k] = Body(s, n)[k]
  BY <1>4
<1>6. s[0] = start
  BY <1>3, <1>5
<1>7. ASSUME NEW k \in 1 .. n
      PROVE  s[k] = IF k \in A THEN ApplyBase(s[k - 1], k, p, r) ELSE s[k - 1]
  <2>1. k \in 0 .. n /\ k # 0 /\ k > 0
    BY <1>3
  <2>2. s[k] = Body(s, n)[k]
    BY <1>5, <2>1
  <2> QED BY <2>1, <2>2
<1> QED BY <1>0, <1>6, <1>7 DEF start, A, n

(* Data maps are alike themselves.                                         *)
LEMMA AlikeSelf ==
  ASSUME NEW m PROVE Alike(m, m)
BY DEF Alike

(* Data maps in the basic mode, applied.                                   *)
LEMMA BaseApplied ==
  ASSUME NEW m, Sound(m), ~m.is_extended, NEW p \in Document \union {None},
         NEW r \in Nat
  PROVE  BaseUpTo(Len(m.items), ApplyAllBase(m, p, r), m, p, r)
<1> DEFINE n == Len(m.items)
<1>1. m \in Maps /\ n \in Nat
  <2>1. m \in Maps
    BY DEF Sound
  <2> QED BY <2>1, ItemsOf
<1>2. PICK s : /\ s[0] = [maps |-> m, rc |-> "NO_ERROR"]
               /\ \A k \in 1 .. n :
                    s[k] = IF k \in Applies(m, p) THEN ApplyBase(s[k - 1], k, p, r)
                           ELSE s[k - 1]
               /\ ApplyAllBase(m, p, r) = s[n]
  BY <1>1, ApplyAllBaseLoop
<1>3. \A j \in Applies(m, p) : j \in 1 .. n
  BY <1>1, PayloadTaken
<1> DEFINE I == {k \in Nat : k <= n => BaseUpTo(k, s[k], m, p, r)}
<1> HIDE DEF n
<1>4. 0 \in I
  <2> DEFINE s0 == [maps |-> m, rc |-> "NO_ERROR"]
  <2>1. s0 \in [maps : Maps, rc : Result] /\ s0.maps = m
    BY <1>1 DEF Result
  <2>2. \A x : Written(m, p, 0, x) = x
    <3>1. \A path : Writers(m, p, 0, path) = {}
      BY <1>3 DEF Writers
    <3> QED BY <3>1 DEF Written
  <2>3. \A j \in Applies(m, p) : ~(j <= 0)
    BY <1>3
  <2> HIDE DEF s0
  <2>4. m.mapped_payload = {Written(m, p, 0, x) : x \in m.mapped_payload}
    BY <2>2
  <2>5. BaseUpTo(0, s0, m, p, r)
    BY <2>1, <2>3, <2>4, AlikeSelf DEF BaseUpTo
  <2>6. BaseUpTo(0, s[0], m, p, r)
    BY <1>2, <2>5 DEF s0
  <2> QED BY <2>6
<1>5. ASSUME NEW k \in Nat, k \in I PROVE k + 1 \in I
  <2> SUFFICES ASSUME k + 1 <= n PROVE BaseUpTo(k + 1, s[k + 1], m, p, r)
    OBVIOUS
  <2>1. BaseUpTo(k, s[k], m, p, r)
    BY <1>1, <1>5
  <2>2. s[k + 1] = IF k + 1 \in Applies(m, p) THEN ApplyBase(s[k], k + 1, p, r)
                   ELSE s[k]
    <3>1. k + 1 \in 1 .. n /\ (k + 1) - 1 = k
      BY <1>1
    <3> QED BY <1>2, <3>1
  <2>3. CASE k + 1 \in Applies(m, p)
    <3> DEFINE t == s[k]
    <3>1. BaseUpTo(k, t, m, p, r)
      BY <2>1
    <3> HIDE DEF t
    <3>2. BaseUpTo(k + 1, ApplyBase(t, k + 1, p, r), m, p, r)
      BY <2>3, <3>1, BaseStep
    <3> QED BY <2>2, <2>3, <3>2 DEF t
  <2>4. CASE k + 1 \notin Applies(m, p)
    <3>1. s[k + 1] = s[k]
      BY <2>2, <2>4
    <3>2. \A j \in Applies(m, p) : j <= k + 1 <=> j <= k
      BY <1>3, <2>4
    <3>3. \A path : Writers(m, p, k + 1, path) = Writers(m, p, k, path)
      BY <3>2 DEF Writers
    <3>4. \A x : Written(m, p, k + 1, x) = Written(m, p, k, x)
      BY <3>3 DEF Written
    <3> DEFINE t == s[k]
    <3>5. BaseUpTo(k, t, m, p, r)
      BY <2>1
    <3> HIDE DEF t
    <3>6. BaseUpTo(k + 1, t, m, p, r)
      BY <3>2, <3>4, <3>5 DEF BaseUpTo
    <3> QED BY <3>1, <3>6 DEF t
  <2> QED BY <2>3, <2>4
<1>6. n \in I
  <2> HIDE DEF I
  <2> QED BY <1>1, <1>4, <1>5, SetInduction
<1>7. BaseUpTo(n, s[n], m, p, r)
  BY <1>1, <1>6
<1> QED BY <1>2, <1>7 DEF n

(* What keeps the list of data maps, and that they are as they were made.  *)
Like(m, n) ==
  /\ Len(m.items) = Len(n.items)
  /\ \A i \in 1 .. Len(m.items) :
       /\ m.items[i].src_path = n.items[i].src_path
       /\ m.items[i].tgt_path = n.items[i].tgt_path
       /\ m.items[i].type = n.items[i].type
       /\ m.items[i].fallback = n.items[i].fallback
  /\ m.is_extended = n.is_extended /\ m.tgt_payload = n.tgt_payload

(* Data maps that are alike have the same paths, types and fallbacks.      *)
LEMMA AlikeLike ==
  ASSUME NEW m, NEW n, Alike(m, n)
  PROVE  Like(m, n)
BY DEF Alike, Like

(* Data maps that are alike write to the same places.                      *)
LEMMA AlikeMapped ==
  ASSUME NEW m \in Maps, NEW n \in Maps, Like(m, n), NEW path
  PROVE  Mapped(m, path) = Mapped(n, path)
<1>1. /\ DOMAIN m.items = 1 .. Len(m.items) /\ DOMAIN n.items = 1 .. Len(m.items)
  BY ItemsOf DEF Like
<1> QED BY <1>1 DEF Like, Mapped, MapsTo

(* Applying data maps, in either mode: the maps are as before but for      *)
(* their iterators, and the mapped payload is what the mode makes.         *)
LEMMA Applied ==
  ASSUME NEW m, Sound(m), NEW p \in Document \union {None}, NEW r \in Nat
  PROVE  LET a == Apply(m, p, r)
         IN /\ Sound(a.maps) /\ Alike(m, a.maps)
            /\ a.rc \in Result
            /\ a.maps.mapped_payload = AppliedTo(m, p)
            /\ a.rc = "NO_ERROR" /\ ~m.is_extended =>
                 \A i \in Applies(m, p) : a.maps.items[i].src_iter = r
<1> DEFINE a == Apply(m, p, r)
<1>1. m \in Maps
  BY DEF Sound
<1>2. ASSUME a.maps \in Maps, Alike(m, a.maps),
             ~m.is_extended =>
               /\ Shape(a.maps.mapped_payload) = Shape(m.tgt_payload)
               /\ \A n \in m.tgt_payload :
                    Mapped(m, n.path) = {} => n \in a.maps.mapped_payload
      PROVE  Sound(a.maps)
  <2> DEFINE n == a.maps
  <2>1. /\ n \in Maps /\ Alike(m, n)
        /\ ~m.is_extended =>
             /\ Shape(n.mapped_payload) = Shape(m.tgt_payload)
             /\ \A x \in m.tgt_payload :
                  Mapped(m, x.path) = {} => x \in n.mapped_payload
    BY <1>2
  <2> HIDE DEF n
  <2>2. \A path : Mapped(m, path) = Mapped(n, path)
    <3>1. Like(m, n)
      BY <2>1, AlikeLike
    <3> QED BY <1>1, <2>1, <3>1, AlikeMapped
  <2>3. Sound(n)
    BY <2>1, <2>2 DEF Sound, Alike
  <2> QED BY <2>3 DEF n
<1>3. CASE m.is_extended
  <2> DEFINE built == ApplyExtIter(m, p)
             x(i) == [m.items[i] EXCEPT !.src_iter = r]
             items == [i \in DOMAIN m.items |->
                         IF i \in built.set THEN x(i) ELSE m.items[i]]
  <2>1. a = [maps |-> [m EXCEPT !.mapped_payload = built.doc, !.items = items],
             rc |-> "NO_ERROR"]
    BY <1>3 DEF Apply, ApplyExt
  <2>2. built.doc = AppliedExt(m, p) /\ built.doc \in Document
    BY <1>1, WalkBuilds, AppliedDocument
  <2>3. /\ m.items \in Seq(Item) /\ Len(m.items) \in Nat
        /\ DOMAIN m.items = 1 .. Len(m.items)
        /\ \A i \in 1 .. Len(m.items) : m.items[i] \in Item
    BY <1>1, ItemsOf
  <2>4. ASSUME NEW i \in 1 .. Len(m.items)
        PROVE  /\ x(i) \in Item
               /\ x(i).key = m.items[i].key /\ x(i).src_path = m.items[i].src_path
               /\ x(i).src_prefix = m.items[i].src_prefix
               /\ x(i).tgt_path = m.items[i].tgt_path
               /\ x(i).src_payload = m.items[i].src_payload
               /\ x(i).type = m.items[i].type /\ x(i).fallback = m.items[i].fallback
    <3>1. m.items[i] \in Item
      BY <2>3
    <3> QED BY <3>1 DEF Item
  <2> HIDE DEF built, x
  <2>5. /\ items \in Seq(Item) /\ Len(items) = Len(m.items)
        /\ \A i \in 1 .. Len(m.items) :
             items[i] = IF i \in built.set THEN x(i) ELSE m.items[i]
    BY <2>3, <2>4
  <2> HIDE DEF items
  <2>6. /\ a.maps \in Maps /\ a.rc = "NO_ERROR" /\ a.maps.items = items
        /\ a.maps.mapped_payload = built.doc
        /\ a.maps.is_extended = m.is_extended /\ a.maps.tgt_payload = m.tgt_payload
    <3> DEFINE y == [m EXCEPT !.mapped_payload = built.doc, !.items = items]
    <3>1. /\ y \in Maps /\ y.items = items /\ y.mapped_payload = built.doc
          /\ y.is_extended = m.is_extended /\ y.tgt_payload = m.tgt_payload
      BY <1>1, <2>2, <2>5 DEF Maps
    <3>2. a = [maps |-> y, rc |-> "NO_ERROR"]
      BY <2>1
    <3> HIDE DEF y, a
    <3> QED BY <3>1, <3>2
  <2>7. Alike(m, a.maps)
    BY <2>4, <2>5, <2>6 DEF Alike
  <2>8. Sound(a.maps)
    BY <1>2, <1>3, <2>6, <2>7
  <2>9. a.maps.mapped_payload = AppliedTo(m, p)
    BY <1>3, <2>2, <2>6 DEF AppliedTo
  <2> HIDE DEF a
  <2>10. a.rc \in Result
    BY <2>6 DEF Result
  <2> QED BY <1>3, <2>7, <2>8, <2>9, <2>10 DEF a
<1>4. CASE ~m.is_extended
  <2>1. a = ApplyAllBase(m, p, r)
    BY <1>4 DEF Apply
  <2>2. BaseUpTo(Len(m.items), a, m, p, r)
    BY <1>4, <2>1, BaseApplied
  <2> HIDE DEF a
  <2>3. /\ a.maps \in Maps /\ a.rc \in Result /\ Alike(m, a.maps)
        /\ a.maps.mapped_payload =
             {Written(m, p, Len(m.items), n) : n \in m.mapped_payload}
        /\ Shape(a.maps.mapped_payload) = Shape(m.mapped_payload)
    BY <2>2 DEF BaseUpTo
  <2>4. a.maps.mapped_payload = AppliedTo(m, p)
    BY <1>4, <2>3 DEF AppliedTo, AppliedBase
  <2>5. Shape(a.maps.mapped_payload) = Shape(m.tgt_payload)
    BY <1>4, <2>3 DEF Sound
  <2>8. ASSUME NEW n \in m.tgt_payload, Mapped(m, n.path) = {}
        PROVE  n \in a.maps.mapped_payload
    <3>1. n \in m.mapped_payload
      BY <1>4, <2>8 DEF Sound
    <3>2. Writers(m, p, Len(m.items), n.path) = {}
      BY <2>8 DEF Writers, Applies, Mapped, MapsTo
    <3>3. Written(m, p, Len(m.items), n) = n
      BY <3>2 DEF Written
    <3> QED BY <2>3, <3>1, <3>3
  <2>6. Sound(a.maps)
    BY <1>2, <2>3, <2>5, <2>8
  <2>7. a.rc = "NO_ERROR" => \A i \in Applies(m, p) : a.maps.items[i].src_iter = r
    <3>1. \A i \in Applies(m, p) : i <= Len(m.items)
      BY <1>1, PayloadTaken
    <3> QED BY <2>2, <3>1 DEF BaseUpTo
  <2> QED BY <2>3, <2>4, <2>6, <2>7 DEF a
<1> QED BY <1>3, <1>4

-------------------------------------------------------------------------------
(* What the maps make is what a reader of their list expects.              *)

(* Where the maps with payloads of their own are the last, every map is    *)
(* applied to what it is fed with.                                         *)
LEMMA FedByPayload ==
  ASSUME NEW m \in Maps, OwnPayloadsLast(m), NEW p \in Document \union {None}
  PROVE  /\ \A i \in 1 .. Len(m.items) : PayloadOf(m, i, p) = FedWith(m.items[i], p)
         /\ Applies(m, p) =
              {i \in 1 .. Len(m.items) : FedWith(m.items[i], p) # None}
<1>1. Len(m.items) \in Nat /\ DOMAIN m.items = 1 .. Len(m.items)
  BY ItemsOf
<1>2. ASSUME NEW i \in 1 .. Len(m.items)
      PROVE  PayloadOf(m, i, p) = FedWith(m.items[i], p)
  <2> DEFINE own == {j \in 1 .. i : m.items[j].src_payload # None}
  <2>1. PayloadOf(m, i, p) = IF own = {} THEN p ELSE m.items[Max(own)].src_payload
    BY DEF PayloadOf
  <2>2. \A j \in own : j = i \/ (j \in 1 .. Len(m.items) /\ j < i)
    BY <1>1
  <2>3. CASE m.items[i].src_payload = None
    <3>1. own = {}
      <4>1. ASSUME NEW j \in own PROVE FALSE
        BY <1>1, <2>2, <2>3, <4>1 DEF OwnPayloadsLast
      <4> QED BY <4>1
    <3> QED BY <2>1, <2>3, <3>1 DEF FedWith
  <2>4. CASE m.items[i].src_payload # None
    <3>1. i \in own /\ own \in SUBSET (0 .. i) /\ i \in Nat
      BY <1>1, <2>4
    <3>2. \A j \in own : j <= i /\ j \in Nat
      BY <3>1
    <3> HIDE DEF own
    <3>3. Max(own) \in own /\ i <= Max(own)
      BY <3>1, MaxOf
    <3> DEFINE x == Max(own)
    <3>4. x \in own /\ i <= x
      BY <3>3
    <3> HIDE DEF x
    <3>5. x = i
      BY <3>1, <3>2, <3>4
    <3> QED BY <2>1, <2>4, <3>1, <3>5 DEF FedWith, x
  <2> QED BY <2>3, <2>4
<1> QED BY <1>1, <1>2 DEF Applies

(* The expectation in the basic mode, node by node.                        *)
FedTo(m, p, path) == Mapped(m, path) \intersect FedMaps(m, path, p)
GivenBy(m, p, i, n) ==
  {Converted(n.type, s) : s \in {x \in Sources(m.items[i], p) : CanWrite(n.type, x)}}
ExpectedVal(m, p, before, n) ==
  IF FedTo(m, p, n.path) # {}
  THEN LET given == GivenBy(m, p, Max(FedTo(m, p, n.path)), n)
       IN IF given = {} THEN n.val ELSE CHOOSE v \in given : TRUE
  ELSE IF Mapped(m, n.path) = {} THEN n.val ELSE At(before, n.path).val

LEMMA ExpectedBaseIs ==
  ASSUME NEW m, NEW p, NEW before
  PROVE  ExpectedBase(m, p, before) =
           {[n EXCEPT !.val = ExpectedVal(m, p, before, n)] : n \in m.tgt_payload}
<1> DEFINE V(n) ==
             CASE Mapped(m, n.path) = {} -> n.val
               [] Mapped(m, n.path) # {} /\ FedTo(m, p, n.path) = {} ->
                    At(before, n.path).val
               [] OTHER ->
                    IF GivenBy(m, p, Max(FedTo(m, p, n.path)), n) = {} THEN n.val
                    ELSE CHOOSE v \in GivenBy(m, p, Max(FedTo(m, p, n.path)), n) : TRUE
<1>1. ExpectedBase(m, p, before) = {[n EXCEPT !.val = V(n)] : n \in m.tgt_payload}
  BY DEF ExpectedBase, Mapped, FedTo, GivenBy
<1>2. ASSUME NEW n PROVE V(n) = ExpectedVal(m, p, before, n)
  <2>1. FedTo(m, p, n.path) # {} => Mapped(m, n.path) # {}
    BY DEF FedTo
  <2> DEFINE given == GivenBy(m, p, Max(FedTo(m, p, n.path)), n)
  <2> HIDE DEF given
  <2> QED BY <2>1 DEF ExpectedVal, given
<1> HIDE DEF V
<1> QED BY <1>1, <1>2

(* The value that a map gives, as a reader of the list expects it.         *)
LEMMA GivenIs ==
  ASSUME NEW m, Sound(m), ~m.is_extended, OwnPayloadsLast(m),
         NEW p \in Document \union {None}, NEW n \in m.tgt_payload,
         NEW q, q.type = n.type, NEW i \in FedTo(m, p, n.path)
  PROVE  LET given == GivenBy(m, p, i, n)
         IN ValueBy(m, i, p, q) = IF given = {} THEN n.val ELSE CHOOSE v \in given : TRUE
<1>1. m \in Maps /\ m.tgt_payload \in Document
  BY DEF Sound, Maps
<1>2. /\ i \in 1 .. Len(m.items) /\ m.items[i].tgt_path = n.path
      /\ FedWith(m.items[i], p) # None
  BY <1>1, ItemsOf DEF FedTo, FedMaps, Mapped, MapsTo
<1>3. /\ PayloadOf(m, i, p) = FedWith(m.items[i], p)
      /\ i \in Applies(m, p)
  BY <1>1, <1>2, FedByPayload
<1> DEFINE doc == FedWith(m.items[i], p)
           srcs == {s \in doc : s.path = SourcePath(m.items[i]) /\ CanWrite(n.type, s)}
           given == GivenBy(m, p, i, n)
<1>4. doc \in Document
  BY <1>1, <1>3, PayloadTaken
<1>5. m.items[i].fallback = n.val
  <2>1. m.items[i].fallback = At(m.tgt_payload, m.items[i].tgt_path).val
    BY <1>2 DEF Sound
  <2> QED BY <1>1, <1>2, <2>1, AtNode
<1>6. given = {Converted(n.type, s) : s \in srcs}
  BY DEF GivenBy, Sources
<1>7. ValueBy(m, i, p, q) = IF srcs = {} THEN n.val
                            ELSE Converted(n.type, CHOOSE s \in srcs : TRUE)
  BY <1>3, <1>5 DEF ValueBy
<1>8. \A s, t \in srcs : s = t
  BY <1>4, DocumentIs
<1> HIDE DEF srcs, doc, given
<1>9. CASE srcs = {}
  BY <1>6, <1>7, <1>9 DEF given
<1>10. CASE srcs # {}
  <2>1. PICK s \in srcs : TRUE
    BY <1>10
  <2>2. srcs = {s} /\ given = {Converted(n.type, s)}
    BY <1>6, <1>8, <2>1
  <2>3. (CHOOSE t \in srcs : TRUE) = s
    BY <1>8, <2>1
  <2>4. (CHOOSE v \in given : TRUE) = Converted(n.type, s) /\ given # {}
    BY <2>2
  <2> QED BY <1>7, <1>10, <2>3, <2>4 DEF given
<1> QED BY <1>9, <1>10

(* In the basic mode: each node of the target is as expected.              *)
LEMMA BaseExpected ==
  ASSUME NEW m, Sound(m), ~m.is_extended, OwnPayloadsLast(m),
         NEW p \in Document \union {None}
  PROVE  AppliedBase(m, p) = ExpectedBase(m, p, m.mapped_payload)
<1> DEFINE M == m.mapped_payload
           T == m.tgt_payload
           l == Len(m.items)
           New(n) == [n EXCEPT !.val = ExpectedVal(m, p, M, n)]
<1>1. m \in Maps /\ M \in Document /\ T \in Document /\ Shape(M) = Shape(T)
  BY DEF Sound, Maps
<1>2. \A path : Writers(m, p, l, path) = FedTo(m, p, path)
  <2>1. Applies(m, p) = {i \in 1 .. l : FedWith(m.items[i], p) # None}
    BY <1>1, FedByPayload
  <2>2. l \in Nat /\ DOMAIN m.items = 1 .. l
    BY <1>1, ItemsOf
  <2>3. \A i \in 1 .. l : i <= l
    BY <2>2
  <2> HIDE DEF l
  <2> QED BY <2>1, <2>2, <2>3 DEF Writers, FedTo, FedMaps, Mapped, MapsTo
<1>3. ASSUME NEW n \in T, NEW q \in M, q.path = n.path, q.type = n.type
      PROVE  Written(m, p, l, q) = New(n)
  <2> DEFINE W == FedTo(m, p, n.path)
             v == ExpectedVal(m, p, M, n)
  <2>1. n \in Node /\ q \in Node
    BY <1>1, DocumentIs
  <2>2. \A x : [n EXCEPT !.val = x] = [q EXCEPT !.val = x]
    BY <1>3, <2>1 DEF Node
  <2>3. Written(m, p, l, q) =
          IF W = {} THEN q ELSE [q EXCEPT !.val = ValueBy(m, Max(W), p, q)]
    BY <1>2, <1>3 DEF Written
  <2> HIDE DEF l, M, T
  <2>4. CASE W # {}
    <3>1. Max(W) \in W
      <4>1. Len(m.items) \in Nat /\ DOMAIN m.items = 1 .. Len(m.items)
        BY <1>1, ItemsOf
      <4>2. W \in SUBSET (0 .. Len(m.items))
        BY <4>1 DEF FedTo, FedMaps, Mapped, MapsTo
      <4> HIDE DEF W
      <4> QED BY <2>4, <4>1, <4>2, MaxOf
    <3>2. ValueBy(m, Max(W), p, q) = v
      <4> DEFINE i == Max(W)
                 given == GivenBy(m, p, i, n)
      <4>1. v = IF given = {} THEN n.val ELSE CHOOSE x \in given : TRUE
        BY <2>4 DEF ExpectedVal
      <4>2. n \in m.tgt_payload /\ i \in FedTo(m, p, n.path)
        BY <3>1 DEF T
      <4> HIDE DEF i, v
      <4>3. ValueBy(m, i, p, q) = IF given = {} THEN n.val ELSE CHOOSE x \in given : TRUE
        BY <1>3, <4>2, GivenIs
      <4> QED BY <4>1, <4>3 DEF i
    <3> HIDE DEF v, W
    <3> QED BY <2>2, <2>3, <2>4, <3>2 DEF v
  <2>5. CASE W = {} /\ Mapped(m, n.path) # {}
    <3>1. v = At(M, n.path).val
      BY <2>5 DEF ExpectedVal
    <3>2. At(M, n.path) = q
      BY <1>1, <1>3, AtNode
    <3>3. [q EXCEPT !.val = q.val] = q
      BY <2>1 DEF Node
    <3> HIDE DEF v, W
    <3> QED BY <2>2, <2>3, <2>5, <3>1, <3>2, <3>3 DEF v
  <2>6. CASE W = {} /\ Mapped(m, n.path) = {}
    <3>1. v = n.val
      BY <2>6 DEF ExpectedVal
    <3>2. n \in M
      BY <2>6 DEF Sound, M, T
    <3>3. q = n
      BY <1>1, <1>3, <3>2, DocumentIs
    <3>4. [n EXCEPT !.val = n.val] = n
      BY <2>1 DEF Node
    <3> HIDE DEF v, W
    <3> QED BY <2>3, <2>6, <3>1, <3>3, <3>4 DEF v
  <2> QED BY <2>4, <2>5, <2>6
<1>4. AppliedBase(m, p) = {Written(m, p, l, q) : q \in M}
  BY DEF AppliedBase
<1>5. ExpectedBase(m, p, M) = {New(n) : n \in T}
  BY ExpectedBaseIs
<1> HIDE DEF New, M, T, l
<1>6. \A q \in M : \E n \in T : q.path = n.path /\ q.type = n.type
  <2> SUFFICES ASSUME NEW q \in M
               PROVE  \E n \in T : q.path = n.path /\ q.type = n.type
    OBVIOUS
  <2>1. <<q.path, q.type>> \in Shape(T)
    BY <1>1 DEF Shape
  <2> QED BY <2>1 DEF Shape
<1>7. \A n \in T : \E q \in M : q.path = n.path /\ q.type = n.type
  <2> SUFFICES ASSUME NEW n \in T
               PROVE  \E q \in M : q.path = n.path /\ q.type = n.type
    OBVIOUS
  <2>1. <<n.path, n.type>> \in Shape(M)
    BY <1>1 DEF Shape
  <2> QED BY <2>1 DEF Shape
<1>8. \A x : x \in {Written(m, p, l, q) : q \in M} <=> x \in {New(n) : n \in T}
  BY <1>3, <1>6, <1>7
<1> QED BY <1>4, <1>5, <1>8 DEF M

(* The expectation in the extended mode, node by node.                     *)
Decider(m, p, path) == m.items[Min(FedMaps(m, path, p))]
ReplacedAt(m, p, path) ==
  /\ FedMaps(m, path, p) # {}
  /\ \/ Decider(m, p, path).src_path = Root
     \/ Sources(Decider(m, p, path), p) # {}
ReplacementAt(m, p, path) ==
  LET item == Decider(m, p, path)
      doc == FedWith(item, p)
  IN IF item.src_path = Root THEN Append_(path, "document", 0, doc)
     ELSE UNION {Appended(item.type, path, x, doc) : x \in Sources(item, p)}

LEMMA ExpectedExtIs ==
  ASSUME NEW m, NEW p
  PROVE  ExpectedExt(m, p) =
           UNION {IF ReplacedAt(m, p, n.path) THEN ReplacementAt(m, p, n.path) ELSE {n} :
                    n \in {x \in m.tgt_payload :
                             ~ \E k \in 1 .. Len(x.path) - 1 :
                                 ReplacedAt(m, p, SubSeq(x.path, 1, k))}}
BY DEF ExpectedExt, ReplacedAt, ReplacementAt, Decider

(* A map replaces what it is expected to, by what is expected.             *)
LEMMA ReplacedIs ==
  ASSUME NEW m \in Maps, OwnPayloadsLast(m), NEW p \in Document \union {None},
         NEW path
  PROVE  /\ Taken(m, p, path) <=> ReplacedAt(m, p, path)
         /\ Taken(m, p, path) => AppendVal(m, path, p).doc = ReplacementAt(m, p, path)
<1> DEFINE mine == {j \in Applies(m, p) : m.items[j].tgt_path = path}
           i == Min(mine)
           item == m.items[i]
           doc == PayloadOf(m, i, p)
           val == AppendVal(m, path, p)
<1>1. Len(m.items) \in Nat /\ DOMAIN m.items = 1 .. Len(m.items)
  BY ItemsOf
<1>2. mine = FedMaps(m, path, p)
  <2>1. Applies(m, p) = {j \in 1 .. Len(m.items) : FedWith(m.items[j], p) # None}
    BY FedByPayload
  <2> QED BY <1>1, <2>1 DEF FedMaps, MapsTo
<1>3. val = IF mine = {} THEN [rc |-> "MISSING_TGT_KEY", doc |-> {}, set |-> {}]
            ELSE IF item.src_path = Root
            THEN [rc |-> "NO_ERROR", doc |-> Append_(path, "document", 0, doc),
                  set |-> {}]
            ELSE IF ~Has(doc, SourcePath(item))
            THEN [rc |-> "MISSING_SRC_KEY", doc |-> {}, set |-> {}]
            ELSE [rc |-> "NO_ERROR",
                  doc |-> Appended(item.type, path, At(doc, SourcePath(item)), doc),
                  set |-> {i}]
  <2> DEFINE missing == [rc |-> "MISSING_SRC_KEY", doc |-> {}, set |-> {}]
  <2>1. val =
          CASE mine = {} -> [missing EXCEPT !.rc = "MISSING_TGT_KEY"]
            [] mine # {} /\ item.src_path = Root ->
                 [rc |-> "NO_ERROR", doc |-> Append_(path, "document", 0, doc),
                  set |-> {}]
            [] mine # {} /\ item.src_path # Root /\ ~Has(doc, SourcePath(item)) ->
                 missing
            [] OTHER ->
                 [rc |-> "NO_ERROR",
                  doc |-> Appended(item.type, path, At(doc, SourcePath(item)), doc),
                  set |-> {i}]
    BY DEF AppendVal
  <2> HIDE DEF val, mine, item, doc, i
  <2>2. [missing EXCEPT !.rc = "MISSING_TGT_KEY"]
          = [rc |-> "MISSING_TGT_KEY", doc |-> {}, set |-> {}]
    OBVIOUS
  <2>3. CASE mine = {}
    BY <2>1, <2>2, <2>3
  <2>4. CASE mine # {}
    BY <2>1, <2>4
  <2> QED BY <2>3, <2>4
<1>4. mine # {} => /\ i \in mine /\ doc = FedWith(item, p) /\ doc \in Document
                   /\ item = Decider(m, p, path)
  <2> SUFFICES ASSUME mine # {}
               PROVE  /\ i \in mine /\ doc = FedWith(item, p) /\ doc \in Document
                      /\ item = Decider(m, p, path)
    OBVIOUS
  <2>1. mine \in SUBSET (0 .. Len(m.items))
    BY <1>1 DEF Applies
  <2>2. i \in mine
    <3> HIDE DEF mine
    <3> QED BY <1>1, <2>1, MinOf
  <2>3. i \in Applies(m, p)
    BY <2>2
  <2>4. i \in 1 .. Len(m.items)
    BY <1>1, <2>3 DEF Applies
  <2>5. item = Decider(m, p, path)
    BY <1>2 DEF Decider
  <2> HIDE DEF mine, i
  <2>6. doc = FedWith(item, p)
    BY <2>4, FedByPayload
  <2>7. doc \in Document
    BY <2>3, PayloadTaken
  <2> QED BY <2>2, <2>5, <2>6, <2>7
<1>5. Taken(m, p, path) <=> val.rc = "NO_ERROR"
  BY DEF Taken
<1> HIDE DEF val, mine, i, item, doc
<1>6. CASE mine = {}
  <2>1. val.rc = "MISSING_TGT_KEY"
    BY <1>3, <1>6
  <2> QED BY <1>2, <1>5, <1>6, <2>1 DEF ReplacedAt
<1>7. CASE mine # {} /\ item.src_path = Root
  <2>1. val.rc = "NO_ERROR" /\ val.doc = Append_(path, "document", 0, doc)
    BY <1>3, <1>7
  <2> QED BY <1>2, <1>4, <1>5, <1>7, <2>1 DEF ReplacedAt, ReplacementAt, val
<1>8. CASE mine # {} /\ item.src_path # Root
  <2>1. Sources(item, p) = {x \in doc : x.path = SourcePath(item)}
    BY <1>4, <1>8 DEF Sources
  <2>2. CASE ~Has(doc, SourcePath(item))
    <3>1. Sources(item, p) = {}
      BY <2>1, <2>2 DEF Has
    <3>2. val.rc = "MISSING_SRC_KEY"
      BY <1>3, <1>8, <2>2
    <3> QED BY <1>2, <1>4, <1>5, <1>8, <3>1, <3>2 DEF ReplacedAt
  <2>3. CASE Has(doc, SourcePath(item))
    <3> DEFINE x == At(doc, SourcePath(item))
    <3>1. x \in doc /\ x.path = SourcePath(item)
      BY <1>4, <1>8, <2>3, AtNode
    <3>2. \A y \in doc : y.path = SourcePath(item) => x = y
      BY <1>4, <1>8, AtNode
    <3>3. val.rc = "NO_ERROR" /\ val.doc = Appended(item.type, path, x, doc)
      BY <1>3, <1>8, <2>3
    <3> HIDE DEF x
    <3>4. Sources(item, p) = {x}
      BY <2>1, <3>1, <3>2
    <3>5. ReplacementAt(m, p, path) = UNION {Appended(item.type, path, x, doc)}
      BY <1>4, <1>8, <3>4 DEF ReplacementAt
    <3>6. ReplacedAt(m, p, path)
      BY <1>2, <1>4, <1>8, <3>4 DEF ReplacedAt
    <3>7. AppendVal(m, path, p).doc = ReplacementAt(m, p, path)
      BY <3>3, <3>5 DEF val
    <3> QED BY <1>5, <3>3, <3>6, <3>7
  <2> QED BY <2>2, <2>3
<1> QED BY <1>6, <1>7, <1>8

(* In either mode: what the maps make is what a reader of their list       *)
(* expects.                                                                *)
LEMMA AppliedExpected ==
  ASSUME NEW m, Sound(m), OwnPayloadsLast(m), NEW p \in Document \union {None}
  PROVE  AppliedTo(m, p) = Expected(m, p, m.mapped_payload)
<1>1. m \in Maps
  BY DEF Sound
<1>2. CASE m.is_extended
  <2>1. \A path : /\ Taken(m, p, path) <=> ReplacedAt(m, p, path)
                  /\ Taken(m, p, path) =>
                       AppendVal(m, path, p).doc = ReplacementAt(m, p, path)
    BY <1>1, ReplacedIs
  <2> DEFINE Kept(x) == ~ \E k \in 1 .. Len(x.path) - 1 :
                            ReplacedAt(m, p, SubSeq(x.path, 1, k))
             Part(n) == IF ReplacedAt(m, p, n.path) THEN ReplacementAt(m, p, n.path)
                        ELSE {n}
  <2>2. \A x : Hidden(m, p, x.path) <=> ~Kept(x)
    BY <2>1 DEF Hidden
  <2>3. \A n : Piece(m, p, n) = Part(n)
    BY <2>1 DEF Piece
  <2>4. AppliedExt(m, p) =
          UNION {Piece(m, p, n) : n \in {x \in m.tgt_payload : ~Hidden(m, p, x.path)}}
    BY DEF AppliedExt
  <2>5. ExpectedExt(m, p) =
          UNION {Part(n) : n \in {x \in m.tgt_payload : Kept(x)}}
    BY ExpectedExtIs
  <2> HIDE DEF Kept, Part
  <2>6. {x \in m.tgt_payload : ~Hidden(m, p, x.path)} = {x \in m.tgt_payload : Kept(x)}
    BY <2>2
  <2>7. AppliedExt(m, p) = ExpectedExt(m, p)
    BY <2>3, <2>4, <2>5, <2>6
  <2> QED BY <1>2, <2>7 DEF AppliedTo, Expected
<1>3. CASE ~m.is_extended
  BY <1>3, BaseExpected DEF AppliedTo, Expected
<1> QED BY <1>2, <1>3

(* The expectation looks at the items and the target of data maps only.    *)
LEMMA ExpectedOf ==
  ASSUME NEW m, NEW n, NEW p, NEW before, m.items = n.items,
         m.tgt_payload = n.tgt_payload, m.is_extended = n.is_extended
  PROVE  Expected(m, p, before) = Expected(n, p, before)
BY DEF Expected, ExpectedBase, ExpectedExt, FedMaps, MapsTo

-------------------------------------------------------------------------------
(* Data maps and the list they were made of.                               *)

(* Data maps and the list they were made of: a type option decides the     *)
(* type, and the extended mode is for options and targets that need it.    *)
OfList(m, list) ==
  /\ list \in MapList /\ Len(list) = Len(m.items)
  /\ \A i \in 1 .. Len(m.items) :
       LET tgt == list[i].tgt
           item == m.items[i]
       IN /\ list[i] \in MapField
          /\ \A o \in 1 .. Len(tgt) :
               /\ tgt[o].path # None => item.tgt_path = tgt[o].path
               /\ tgt[o].type # None => item.type = tgt[o].type
          /\ (\A o \in 1 .. Len(tgt) : tgt[o].type = None) =>
               \E g \in Garbage :
                 item.type = ItemType("undefined", At(m.tgt_payload, item.tgt_path), g)
  /\ m.is_extended <=>
       \E i \in 1 .. Len(m.items) : \E o \in 1 .. Len(list[i].tgt) :
         \/ list[i].tgt[o].type # None
         \/ At(m.tgt_payload, list[i].tgt[o].path).type \notin BasicType

(* Data maps made without error are sound, and as their list says.         *)
LEMMA ListMade ==
  ASSUME NEW data \in Document, NEW list \in MapList, NEW garbage \in Garbage,
         InitMaps(list, data, garbage).rc = "NO_ERROR"
  PROVE  LET m == InitMaps(list, data, garbage).maps
         IN /\ Sound(m) /\ OfList(m, list)
            /\ m.tgt_payload = data /\ m.mapped_payload = data
            /\ OwnPayloadsLast(m)
<1> DEFINE s == InitMaps(list, data, garbage)
           m == s.maps
           n == Len(list)
           r(i) == InitItem(data, list[i], garbage)
<1>0. n \in Nat /\ \A i \in 1 .. n : list[i] \in MapField \union {NoDocument}
  BY DEF MapList
<1>1. MapsUpTo(n, s, list, data, garbage) /\ s.rc = "NO_ERROR"
  BY MapsMade
<1> HIDE DEF s, n
<1>2. /\ m \in Maps /\ m.tgt_payload = data /\ m.mapped_payload = data
      /\ Len(m.items) = n
      /\ \A i \in 1 .. n : /\ list[i] # NoDocument
                           /\ r(i).rc = "NO_ERROR" /\ m.items[i] = r(i).item
      /\ m.is_extended <=> \E i \in 1 .. n : r(i).is_extended
  BY <1>1 DEF MapsUpTo
<1>3. ASSUME NEW i \in 1 .. n
      PROVE  /\ list[i] \in MapField
             /\ ReadUpTo(Len(list[i].tgt), r(i), data, list[i], garbage)
             /\ r(i).rc = "NO_ERROR"
             /\ r(i).item.src_path # None /\ r(i).item.tgt_path # None
             /\ Has(data, r(i).item.tgt_path)
  <2>1. list[i] \in MapField
    BY <1>0, <1>2
  <2> QED BY <1>2, <2>1, ItemMade
<1> HIDE DEF m, r
<1>4. ASSUME NEW i \in 1 .. n
      PROVE  /\ m.items[i] \in Item
             /\ m.items[i].src_path \in Path /\ m.items[i].src_payload = None
             /\ Has(data, m.items[i].tgt_path)
             /\ At(data, m.items[i].tgt_path).type \in BasicType =>
                  m.items[i].fallback = At(data, m.items[i].tgt_path).val
             /\ \E o \in 1 .. Len(list[i].tgt) :
                  /\ list[i].tgt[o].path # None
                  /\ m.items[i].tgt_path = list[i].tgt[o].path
             /\ \A o \in 1 .. Len(list[i].tgt) :
                  /\ list[i].tgt[o].path # None =>
                       m.items[i].tgt_path = list[i].tgt[o].path
                  /\ list[i].tgt[o].type # None =>
                       m.items[i].type = list[i].tgt[o].type
             /\ (\A o \in 1 .. Len(list[i].tgt) : list[i].tgt[o].type = None) =>
                  m.items[i].type =
                    ItemType("undefined", At(data, m.items[i].tgt_path), garbage)
             /\ r(i).is_extended <=>
                  \E o \in 1 .. Len(list[i].tgt) :
                    \/ list[i].tgt[o].type # None
                    \/ At(data, list[i].tgt[o].path).type \notin BasicType
  <2> DEFINE q == r(i)
             l == Len(list[i].tgt)
             tgt == list[i].tgt
  <2>1. m.items[i] = q.item
    BY <1>2
  <2>2. /\ ReadUpTo(l, q, data, list[i], garbage) /\ q.rc = "NO_ERROR"
        /\ q.item.src_path # None /\ q.item.tgt_path # None
        /\ Has(data, q.item.tgt_path)
    BY <1>3
  <2> HIDE DEF q, l
  <2>3. /\ q.item \in Item /\ q.item.src_path \in Path
        /\ q.item.src_payload = None
        /\ At(data, q.item.tgt_path).type \in BasicType =>
             q.item.fallback = At(data, q.item.tgt_path).val
        /\ (\A o \in 1 .. l : tgt[o].path = None) => q.item.tgt_path = None
        /\ \A o \in 1 .. l : tgt[o].path # None => q.item.tgt_path = tgt[o].path
        /\ \A o \in 1 .. l : tgt[o].type # None => q.item.type = tgt[o].type
        /\ (\A o \in 1 .. l : tgt[o].type = None) =>
               q.item.type =
                 IF \A o \in 1 .. l : tgt[o].path = None THEN "undefined"
                 ELSE ItemType("undefined", At(data, q.item.tgt_path), garbage)
        /\ q.is_extended <=>
               \E o \in 1 .. l :
                 \/ tgt[o].type # None
                 \/ At(data, tgt[o].path).type \notin BasicType
    <3>1. q.item \in Item
      BY <2>2 DEF ReadUpTo, Made
    <3>2. q.item.src_path \in Path
      BY <2>2, <3>1 DEF Item
    <3> QED BY <2>2, <3>1, <3>2 DEF ReadUpTo
  <2>4. PICK o \in 1 .. l : tgt[o].path # None
    BY <2>2, <2>3
  <2>5. q.item.tgt_path = tgt[o].path
    BY <2>3, <2>4
  <2>6. (\A x \in 1 .. l : tgt[x].type = None) =>
           q.item.type = ItemType("undefined", At(data, q.item.tgt_path), garbage)
    BY <2>3, <2>4
  <2> HIDE DEF tgt
  <2> QED BY <2>1, <2>2, <2>3, <2>4, <2>5, <2>6 DEF q, l, tgt
<1>5. m.is_extended <=>
        \E i \in 1 .. n : \E o \in 1 .. Len(list[i].tgt) :
          \/ list[i].tgt[o].type # None
          \/ At(data, list[i].tgt[o].path).type \notin BasicType
  BY <1>2, <1>4
<1>6. ASSUME NEW i \in 1 .. n, ~m.is_extended
      PROVE  At(data, m.items[i].tgt_path).type \in BasicType
  <2>1. PICK o \in 1 .. Len(list[i].tgt) : m.items[i].tgt_path = list[i].tgt[o].path
    BY <1>4
  <2> QED BY <1>5, <1>6, <2>1
<1>7. Sound(m)
  BY <1>2, <1>4, <1>6 DEF Sound
<1>9. OwnPayloadsLast(m)
  <2>1. DOMAIN m.items = 1 .. n
    BY <1>2, ItemsOf
  <2> QED BY <1>4, <2>1 DEF OwnPayloadsLast
<1>8. OfList(m, list)
  <2>1. ASSUME NEW i \in 1 .. n
        PROVE  /\ list[i] \in MapField
               /\ \A o \in 1 .. Len(list[i].tgt) :
                    /\ list[i].tgt[o].path # None =>
                         m.items[i].tgt_path = list[i].tgt[o].path
                    /\ list[i].tgt[o].type # None =>
                         m.items[i].type = list[i].tgt[o].type
               /\ (\A o \in 1 .. Len(list[i].tgt) : list[i].tgt[o].type = None) =>
                    \E g \in Garbage :
                      m.items[i].type =
                        ItemType("undefined", At(data, m.items[i].tgt_path), g)
    BY <1>3, <1>4
  <2> QED BY <1>2, <1>5, <2>1 DEF OfList, n
<1> QED BY <1>2, <1>7, <1>8, <1>9 DEF m, s

(* What changes neither paths nor types nor fallbacks keeps data maps as   *)
(* their list says.                                                        *)
LEMMA LikeKept ==
  ASSUME NEW m, NEW n, NEW list, Like(m, n)
  PROVE  /\ OfList(m, list) => OfList(n, list)
         /\ Sound(m) /\ n \in Maps /\ n.mapped_payload = m.mapped_payload => Sound(n)
<1>0. /\ Len(m.items) = Len(n.items)
      /\ \A i \in 1 .. Len(m.items) :
           /\ m.items[i].tgt_path = n.items[i].tgt_path
           /\ m.items[i].type = n.items[i].type
      /\ m.is_extended = n.is_extended /\ m.tgt_payload = n.tgt_payload
  BY DEF Like
<1>1. OfList(m, list) => OfList(n, list)
  <2> SUFFICES ASSUME OfList(m, list) PROVE OfList(n, list)
    OBVIOUS
  <2>1. list \in MapList /\ Len(list) = Len(n.items)
    BY <1>0 DEF OfList
  <2>2. ASSUME NEW i \in 1 .. Len(n.items)
        PROVE  LET tgt == list[i].tgt
                   item == n.items[i]
               IN /\ list[i] \in MapField
                  /\ \A o \in 1 .. Len(tgt) :
                       /\ tgt[o].path # None => item.tgt_path = tgt[o].path
                       /\ tgt[o].type # None => item.type = tgt[o].type
                  /\ (\A o \in 1 .. Len(tgt) : tgt[o].type = None) =>
                       \E g \in Garbage :
                         item.type =
                           ItemType("undefined", At(n.tgt_payload, item.tgt_path), g)
    <3>1. i \in 1 .. Len(m.items)
      BY <1>0
    <3> QED BY <1>0, <3>1 DEF OfList
  <2>3. n.is_extended <=>
          \E i \in 1 .. Len(n.items) : \E o \in 1 .. Len(list[i].tgt) :
            \/ list[i].tgt[o].type # None
            \/ At(n.tgt_payload, list[i].tgt[o].path).type \notin BasicType
    BY <1>0 DEF OfList
  <2> QED BY <2>1, <2>2, <2>3 DEF OfList
<1>2. ASSUME Sound(m), n \in Maps, n.mapped_payload = m.mapped_payload
      PROVE  Sound(n)
  <2>1. \A path : Mapped(m, path) = Mapped(n, path)
    <3>1. m \in Maps
      BY <1>2 DEF Sound
    <3> QED BY <1>2, <3>1, AlikeMapped
  <2> QED BY <1>2, <2>1 DEF Like, Sound
<1> QED BY <1>1, <1>2

(* Documents of one shape have the same keys, of the same types.           *)
LEMMA SameShape ==
  ASSUME NEW d \in Document, NEW e \in Document, Shape(d) = Shape(e), NEW path
  PROVE  Has(d, path) => Has(e, path) /\ At(d, path).type = At(e, path).type
<1> SUFFICES ASSUME Has(d, path)
             PROVE  Has(e, path) /\ At(d, path).type = At(e, path).type
  OBVIOUS
<1>1. At(d, path) \in d /\ At(d, path).path = path
  BY AtNode
<1> DEFINE t == At(d, path).type
<1>2. <<path, t>> \in Shape(e)
  <2>1. <<path, t>> \in Shape(d)
    BY <1>1 DEF Shape
  <2> QED BY <2>1
<1>3. PICK n \in e : n.path = path /\ n.type = t
  BY <1>2 DEF Shape
<1>4. At(e, path) = n
  BY <1>3, AtNode
<1> QED BY <1>3, <1>4 DEF Has

(* A list for the basic mode makes data maps in the basic mode.            *)
LEMMA BasicMode ==
  ASSUME NEW m, Sound(m), NEW list, OfList(m, list), NEW doc \in Document,
         Shape(m.tgt_payload) = Shape(doc), Basic(list, doc)
  PROVE  ~m.is_extended
<1>1. m \in Maps /\ m.tgt_payload \in Document
  BY DEF Sound, Maps
<1>2. /\ Len(m.items) \in Nat /\ Len(list) = Len(m.items)
      /\ DOMAIN list = 1 .. Len(m.items)
  BY <1>1, ItemsOf DEF OfList, MapList
<1>3. ASSUME NEW i \in 1 .. Len(m.items), NEW o \in 1 .. Len(list[i].tgt)
      PROVE  /\ list[i].tgt[o].type = None
             /\ At(m.tgt_payload, list[i].tgt[o].path).type \in BasicType
  <2>1. list[i] \in MapField
    BY DEF OfList
  <2>2. list[i].tgt \in Seq(Option)
    BY <2>1 DEF MapField
  <2>3. o \in DOMAIN list[i].tgt /\ list[i].tgt[o] \in Option
    BY <2>2
  <2>4. o \in UNION {DOMAIN list[k].tgt : k \in DOMAIN list}
    BY <1>2, <2>3
  <2>5. /\ list[i].tgt[o].type = None
        /\ At(doc, list[i].tgt[o].path).type \in BasicType
    BY <1>2, <2>3, <2>4 DEF Basic
  <2>6. list[i].tgt[o].path # None
    BY <2>3, <2>5 DEF Option
  <2>7. Has(m.tgt_payload, list[i].tgt[o].path)
    <3>1. m.items[i].tgt_path = list[i].tgt[o].path
      BY <2>6 DEF OfList
    <3> QED BY <3>1 DEF Sound
  <2> QED BY <1>1, <2>5, <2>7, SameShape
<1> QED BY <1>3 DEF OfList

(* The type of a map is as its list says.                                  *)
LEMMA TypeOfList ==
  ASSUME NEW m \in Maps, NEW list, OfList(m, list), NEW i \in DOMAIN m.items
  PROVE  LET options == {list[i].tgt[o] : o \in DOMAIN list[i].tgt}
             type == {o.type : o \in options} \ {None}
             tgt == At(m.tgt_payload, m.items[i].tgt_path).type
         IN CASE type # {} -> m.items[i].type \in type
              [] type = {} /\ tgt \in MapType -> m.items[i].type = tgt
              [] OTHER -> m.items[i].type \in Garbage
<1> DEFINE t == list[i].tgt
           options == {t[o] : o \in DOMAIN t}
           type == {o.type : o \in options} \ {None}
           n == At(m.tgt_payload, m.items[i].tgt_path)
<1>1. i \in 1 .. Len(m.items)
  BY ItemsOf
<1>2. /\ list[i] \in MapField
      /\ \A o \in 1 .. Len(t) : t[o].type # None => m.items[i].type = t[o].type
      /\ (\A o \in 1 .. Len(t) : t[o].type = None) =>
           \E g \in Garbage : m.items[i].type = ItemType("undefined", n, g)
  BY <1>1 DEF OfList
<1>3. DOMAIN t = 1 .. Len(t)
  BY <1>2 DEF MapField
<1> HIDE DEF n, t
<1>4. CASE type # {}
  <2>1. PICK o \in 1 .. Len(t) : t[o].type \in type
    BY <1>3, <1>4
  <2>2. m.items[i].type \in type
    BY <1>2, <2>1
  <2> HIDE DEF type
  <2> QED BY <1>4, <2>2 DEF n, t, type
<1>5. CASE type = {}
  <2>1. \A o \in 1 .. Len(t) : t[o].type = None
    BY <1>3, <1>5
  <2>2. PICK g \in Garbage : m.items[i].type = ItemType("undefined", n, g)
    BY <1>2, <2>1
  <2>3. m.items[i].type = IF n.type \in MapType THEN n.type ELSE g
    BY <2>2 DEF ItemType
  <2> HIDE DEF type
  <2> QED BY <1>5, <2>3 DEF n, t, type
<1> QED BY <1>4, <1>5

-------------------------------------------------------------------------------
(* The properties of a net.                                                *)

(* The places of a net's configuration, one after the other.               *)
LEMMA GetJsonDocLoop ==
  ASSUME NEW n
  PROVE  \E s : /\ s[0] = [static_conf |-> None, rc |-> -1]
                /\ \A k \in 1 .. 4 :
                     s[k] = IF s[k - 1].rc = 0 THEN s[k - 1]
                            ELSE GetJsonDocItem(s[k - 1], Append(Levels(n)[k], "config"))
                /\ GetJsonDoc(n) = s[4]
<1> DEFINE start == [static_conf |-> None, rc |-> -1]
           Path_(k) == Append(Levels(n)[k], "config")
           Body(f, l) ==
             [k \in 0 .. l |->
                CASE k = 0 -> start
                  [] k > 0 /\ f[k - 1].rc = 0 -> f[k - 1]
                  [] OTHER -> GetJsonDocItem(f[k - 1], Path_(k))]
           I == {l \in Nat : \E f : f = Body(f, l)}
           s == CHOOSE f : f = Body(f, 4)
<1>0. GetJsonDoc(n) = s[4]
  BY DEF GetJsonDoc
<1> HIDE DEF start, s, Path_
<1>1. 0 \in I
  <2>1. [k \in 0 .. 0 |-> start] = Body([k \in 0 .. 0 |-> start], 0)
    OBVIOUS
  <2> QED BY <2>1
<1>2. ASSUME NEW l \in Nat, l \in I PROVE l + 1 \in I
  <2>1. PICK f : f = Body(f, l)
    BY <1>2
  <2> DEFINE g == Body(f, l + 1)
  <2>2. ASSUME NEW k \in 1 .. l + 1 PROVE g[k - 1] = f[k - 1]
    <3>1. k - 1 \in 0 .. l /\ k - 1 \in 0 .. l + 1
      OBVIOUS
    <3>2. f[k - 1] = Body(f, l)[k - 1]
      BY <2>1
    <3> QED BY <3>1, <3>2
  <2>3. g = Body(g, l + 1)
    <3>1. ASSUME NEW k \in 0 .. l + 1 PROVE g[k] = Body(g, l + 1)[k]
      <4>1. CASE k = 0
        BY <4>1
      <4>2. CASE k # 0
        <5>1. k \in 1 .. l + 1 /\ k > 0
          BY <4>2
        <5>2. g[k] = IF f[k - 1].rc = 0 THEN f[k - 1]
                     ELSE GetJsonDocItem(f[k - 1], Path_(k))
          BY <4>2, <5>1
        <5> HIDE DEF g
        <5>3. Body(g, l + 1)[k] = IF g[k - 1].rc = 0 THEN g[k - 1]
                                  ELSE GetJsonDocItem(g[k - 1], Path_(k))
          BY <4>2, <5>1
        <5>4. g[k - 1] = f[k - 1]
          BY <2>2, <5>1
        <5> QED BY <5>2, <5>3, <5>4
      <4> QED BY <4>1, <4>2
    <3>2. DOMAIN g = 0 .. l + 1 /\ DOMAIN Body(g, l + 1) = 0 .. l + 1
      OBVIOUS
    <3> QED BY <3>1, <3>2
  <2> HIDE DEF g, Body
  <2> QED BY <2>3
<1>3. 4 \in I
  <2> HIDE DEF I
  <2> QED BY <1>1, <1>2, SetInduction
<1>4. s = Body(s, 4)
  BY <1>3 DEF s
<1>5. ASSUME NEW k \in 0 .. 4 PROVE s[k] = Body(s, 4)[k]
  BY <1>4
<1>6. s[0] = start
  BY <1>5
<1>7. ASSUME NEW k \in 1 .. 4
      PROVE  s[k] = IF s[k - 1].rc = 0 THEN s[k - 1]
                    ELSE GetJsonDocItem(s[k - 1], Path_(k))
  <2>1. k \in 0 .. 4 /\ k # 0 /\ k > 0
    OBVIOUS
  <2>2. s[k] = Body(s, 4)[k]
    BY <1>5, <2>1
  <2> QED BY <2>1, <2>2
<1> QED BY <1>0, <1>6, <1>7 DEF start, Path_

(* What Follows says of a net.                                             *)
EntryIn(n, files, k, prop) == {m \in files : m.path = Append(Levels(n)[k], prop)}
ConfigOf(files, m) ==
  IF m.type = "document" THEN Below(files, m.path) ELSE NetFile(m.val).doc
LoadedIn(n, files, k) ==
  {m \in EntryIn(n, files, k, "config") :
     \/ m.type = "document"
     \/ m.type = "utf8" /\ NetFile(m.val) # None /\ NetFile(m.val).parses}
BrokenIn(n, files, k) ==
  {m \in EntryIn(n, files, k, "config") :
     m.type = "utf8" /\ NetFile(m.val) # None /\ ~NetFile(m.val).parses}
SayingIn(n, files, k) == {m \in EntryIn(n, files, k, "is_disabled") : m.type = "bool"}
NetIs(net, n, files) ==
  /\ \A k \in 1 .. 4 : (\A j \in 1 .. k - 1 : LoadedIn(n, files, j) = {}) =>
       \A m \in LoadedIn(n, files, k) : net.static_conf = ConfigOf(files, m)
  /\ (\A k \in 1 .. 4 : LoadedIn(n, files, k) = {}) =>
       /\ \A k \in 1 .. 4 : (\A j \in k + 1 .. 4 : BrokenIn(n, files, j) = {}) =>
            \A m \in BrokenIn(n, files, k) : net.static_conf = ConfigOf(files, m)
       /\ (\A k \in 1 .. 4 : BrokenIn(n, files, k) = {}) => net.static_conf = None
  /\ net.is_disabled = 1 <=>
       \E k \in 1 .. 4 : /\ \A j \in 1 .. k - 1 : SayingIn(n, files, j) = {}
                         /\ \E m \in SayingIn(n, files, k) : m.val = 1

(* What a net follows, by the record of the net.                           *)
LEMMA FollowsIs ==
  ASSUME NEW n, NEW files
  PROVE  Follows(n, files) <=> NetIs(nets[n], n, files)
BY DEF Follows, NetIs, EntryIn, ConfigOf, LoadedIn, BrokenIn, SayingIn

(* A file that can be opened has a document.                               *)
LEMMA NetFileIs ==
  ASSUME NEW name, NetFile(name) # None
  PROVE  NetFile(name) \in [parses : BOOLEAN, doc : Document]
BY ProgramAssumption DEF NetFile

(* One place of a net's configuration.                                     *)
LEMMA JsonItem ==
  ASSUME conf \in Document, NEW n, NEW k,
         NEW s \in [static_conf : Document \union {None}, rc : {0, -1}]
  PROVE  LET q == GetJsonDocItem(s, Append(Levels(n)[k], "config"))
         IN /\ q \in [static_conf : Document \union {None}, rc : {0, -1}]
            /\ LoadedIn(n, conf, k) = {} =>
                 /\ q.rc = -1
                 /\ BrokenIn(n, conf, k) = {} => q.static_conf = s.static_conf
                 /\ \A m \in BrokenIn(n, conf, k) : q.static_conf = ConfigOf(conf, m)
            /\ \A m \in LoadedIn(n, conf, k) :
                 q.rc = 0 /\ q.static_conf = ConfigOf(conf, m)
<1> DEFINE path == Append(Levels(n)[k], "config")
           q == GetJsonDocItem(s, path)
           f == NetFile(At(conf, path).val)
<1> HIDE DEF path
<1>1. \A x, y \in conf : x.path = y.path => x = y
  BY DocumentIs
<1>2. LoadedIn(n, conf, k) =
        {m \in conf : /\ m.path = path
                      /\ \/ m.type = "document"
                         \/ m.type = "utf8" /\ NetFile(m.val) # None /\ NetFile(m.val).parses}
  BY DEF LoadedIn, EntryIn, path
<1>7. BrokenIn(n, conf, k) =
        {m \in conf : /\ m.path = path /\ m.type = "utf8"
                      /\ NetFile(m.val) # None /\ ~NetFile(m.val).parses}
  BY DEF BrokenIn, EntryIn, path
<1>3. \A m \in conf : m.path = path => At(conf, path) = m
  BY AtNode
<1>4. CASE Holds(conf, path, "document")
  <2>1. PICK m \in conf : m.path = path /\ m.type = "document"
    BY <1>4 DEF Holds
  <2>2. Below(conf, path) \in Document
    <3>1. path \in Path
      <4>1. m.path \in Seq(STRING)
        BY DocumentIs
      <4> QED BY <2>1, <4>1 DEF Path
    <3> QED BY <3>1, BelowDocument
  <2>3. q = [static_conf |-> Below(conf, path), rc |-> 0]
    <3>1. ~Holds(conf, path, "utf8")
      BY <1>1, <2>1 DEF Holds
    <3> QED BY <1>4, <3>1 DEF GetJsonDocItem
  <2>4. \A x \in LoadedIn(n, conf, k) : ConfigOf(conf, x) = Below(conf, path)
    BY <1>1, <1>2, <2>1 DEF ConfigOf
  <2>5. m \in LoadedIn(n, conf, k)
    BY <1>2, <2>1
  <2> HIDE DEF q
  <2> QED BY <2>2, <2>3, <2>4, <2>5 DEF q, path
<1>5. CASE ~Holds(conf, path, "document") /\ Holds(conf, path, "utf8") /\ f # None
  <2>1. PICK m \in conf : m.path = path /\ m.type = "utf8"
    BY <1>5 DEF Holds
  <2>2. f = NetFile(m.val) /\ f \in [parses : BOOLEAN, doc : Document]
    <3>1. f = NetFile(m.val)
      BY <1>3, <2>1
    <3> QED BY <1>5, <3>1, NetFileIs
  <2>3. q = [static_conf |-> f.doc, rc |-> IF f.parses THEN 0 ELSE -1]
    BY <1>5 DEF GetJsonDocItem
  <2> HIDE DEF f
  <2>4. \A x \in LoadedIn(n, conf, k) : x = m /\ f.parses
    BY <1>1, <1>2, <2>1, <2>2
  <2>5. f.parses => m \in LoadedIn(n, conf, k)
    BY <1>2, <1>5, <2>1, <2>2
  <2>6. ConfigOf(conf, m) = f.doc
    BY <2>1, <2>2 DEF ConfigOf
  <2>8. ~f.parses => BrokenIn(n, conf, k) = {m}
    BY <1>1, <1>5, <1>7, <2>1, <2>2
  <2>7. /\ q \in [static_conf : Document \union {None}, rc : {0, -1}]
        /\ q.static_conf = f.doc /\ q.rc = IF f.parses THEN 0 ELSE -1
    <3> HIDE DEF q
    <3> QED BY <2>2, <2>3
  <2> HIDE DEF q
  <2> QED BY <2>4, <2>5, <2>6, <2>7, <2>8 DEF q, path
<1>6. CASE ~Holds(conf, path, "document") /\ ~(Holds(conf, path, "utf8") /\ f # None)
  <2>1. q = [s EXCEPT !.rc = -1]
    BY <1>6 DEF GetJsonDocItem
  <2>2. LoadedIn(n, conf, k) = {}
    BY <1>2, <1>3, <1>6 DEF Holds
  <2>3. /\ q \in [static_conf : Document \union {None}, rc : {0, -1}]
        /\ q.rc = -1 /\ q.static_conf = s.static_conf
    <3> HIDE DEF q
    <3> QED BY <2>1
  <2>4. BrokenIn(n, conf, k) = {}
    BY <1>3, <1>6, <1>7 DEF Holds
  <2> HIDE DEF q
  <2> QED BY <2>2, <2>3, <2>4 DEF q, path
<1> QED BY <1>4, <1>5, <1>6

(* The first place that can be loaded is the net's configuration, and      *)
(* without one the last broken file is.                                    *)
LEMMA JsonFollows ==
  ASSUME conf \in Document, NEW n
  PROVE  /\ GetJsonDoc(n).static_conf \in Document \union {None}
         /\ \A k \in 1 .. 4 : (\A j \in 1 .. k - 1 : LoadedIn(n, conf, j) = {}) =>
              \A m \in LoadedIn(n, conf, k) :
                GetJsonDoc(n).static_conf = ConfigOf(conf, m)
         /\ (\A k \in 1 .. 4 : LoadedIn(n, conf, k) = {}) =>
              /\ \A k \in 1 .. 4 : (\A j \in k + 1 .. 4 : BrokenIn(n, conf, j) = {}) =>
                   \A m \in BrokenIn(n, conf, k) :
                     GetJsonDoc(n).static_conf = ConfigOf(conf, m)
              /\ (\A k \in 1 .. 4 : BrokenIn(n, conf, k) = {}) =>
                   GetJsonDoc(n).static_conf = None
<1> DEFINE S == [static_conf : Document \union {None}, rc : {0, -1}]
           L(k) == LoadedIn(n, conf, k)
           B(k) == BrokenIn(n, conf, k)
           Up(l, q) ==
             /\ q \in S
             /\ (\A j \in 1 .. l : L(j) = {}) =>
                  /\ q.rc = -1
                  /\ \A k \in 1 .. l : (\A j \in k + 1 .. l : B(j) = {}) =>
                       \A m \in B(k) : q.static_conf = ConfigOf(conf, m)
                  /\ (\A k \in 1 .. l : B(k) = {}) => q.static_conf = None
             /\ \A k \in 1 .. l : (\A j \in 1 .. k - 1 : L(j) = {}) =>
                  \A m \in L(k) : q.rc = 0 /\ q.static_conf = ConfigOf(conf, m)
<1>1. PICK s : /\ s[0] = [static_conf |-> None, rc |-> -1]
               /\ \A k \in 1 .. 4 :
                    s[k] = IF s[k - 1].rc = 0 THEN s[k - 1]
                           ELSE GetJsonDocItem(s[k - 1], Append(Levels(n)[k], "config"))
               /\ GetJsonDoc(n) = s[4]
  BY GetJsonDocLoop
<1> DEFINE I == {l \in Nat : l <= 4 => Up(l, s[l])}
<1> HIDE DEF L, B
<1>2. 0 \in I
  BY <1>1
<1>3. ASSUME NEW l \in Nat, l \in I PROVE l + 1 \in I
  <2> SUFFICES ASSUME l + 1 <= 4 PROVE Up(l + 1, s[l + 1])
    OBVIOUS
  <2> DEFINE q == s[l]
             t == s[l + 1]
             u == GetJsonDocItem(q, Append(Levels(n)[l + 1], "config"))
  <2>1. Up(l, q)
    BY <1>3
  <2>2. t = IF q.rc = 0 THEN q ELSE u
    <3>1. l + 1 \in 1 .. 4 /\ (l + 1) - 1 = l
      OBVIOUS
    <3> QED BY <1>1, <3>1
  <2>3. /\ u \in S
        /\ L(l + 1) = {} =>
             /\ u.rc = -1
             /\ B(l + 1) = {} => u.static_conf = q.static_conf
             /\ \A m \in B(l + 1) : u.static_conf = ConfigOf(conf, m)
        /\ \A m \in L(l + 1) : u.rc = 0 /\ u.static_conf = ConfigOf(conf, m)
    <3>1. q \in S
      BY <2>1
    <3> HIDE DEF q
    <3> QED BY <3>1, JsonItem DEF L, B
  <2> HIDE DEF q, t, u
  <2>4. \A j \in 1 .. l + 1 : j \in 1 .. l \/ j = l + 1
    OBVIOUS
  <2>5. l + 1 \in 1 .. l + 1 /\ \A j \in 1 .. l : j \in 1 .. l + 1
    OBVIOUS
  <2>6. t \in S
    BY <2>1, <2>2, <2>3
  <2>7. ASSUME \A j \in 1 .. l + 1 : L(j) = {}
        PROVE  /\ t.rc = -1
               /\ \A k \in 1 .. l + 1 : (\A j \in k + 1 .. l + 1 : B(j) = {}) =>
                    \A m \in B(k) : t.static_conf = ConfigOf(conf, m)
               /\ (\A k \in 1 .. l + 1 : B(k) = {}) => t.static_conf = None
    <3>1. /\ q.rc = -1
          /\ \A k \in 1 .. l : (\A j \in k + 1 .. l : B(j) = {}) =>
               \A m \in B(k) : q.static_conf = ConfigOf(conf, m)
          /\ (\A k \in 1 .. l : B(k) = {}) => q.static_conf = None
      BY <2>1, <2>5, <2>7
    <3>2. L(l + 1) = {} /\ t = u
      BY <2>2, <2>5, <2>7, <3>1
    <3>3. /\ t.rc = -1
          /\ B(l + 1) = {} => t.static_conf = q.static_conf
          /\ \A m \in B(l + 1) : t.static_conf = ConfigOf(conf, m)
      BY <2>3, <3>2
    <3>4. ASSUME NEW k \in 1 .. l + 1, \A j \in k + 1 .. l + 1 : B(j) = {},
                 NEW m \in B(k)
          PROVE  t.static_conf = ConfigOf(conf, m)
      <4>1. CASE k = l + 1
        BY <3>3, <3>4, <4>1
      <4>2. CASE k \in 1 .. l
        <5>1. l + 1 \in k + 1 .. l + 1 /\ \A j \in k + 1 .. l : j \in k + 1 .. l + 1
          BY <4>2
        <5>2. q.static_conf = ConfigOf(conf, m)
          BY <3>1, <3>4, <4>2, <5>1
        <5> QED BY <3>3, <3>4, <5>1, <5>2
      <4> QED BY <2>4, <4>1, <4>2
    <3>5. ASSUME \A k \in 1 .. l + 1 : B(k) = {} PROVE t.static_conf = None
      BY <2>5, <3>1, <3>3, <3>5
    <3> QED BY <3>3, <3>4, <3>5
  <2>8. ASSUME NEW k \in 1 .. l + 1, \A j \in 1 .. k - 1 : L(j) = {}, NEW m \in L(k)
        PROVE  t.rc = 0 /\ t.static_conf = ConfigOf(conf, m)
    <3>1. CASE k \in 1 .. l
      <4>1. q.rc = 0 /\ q.static_conf = ConfigOf(conf, m)
        BY <2>1, <2>8, <3>1
      <4> QED BY <2>2, <4>1
    <3>2. CASE k = l + 1
      <4>1. \A j \in 1 .. l : L(j) = {}
        BY <2>8, <3>2
      <4>2. q.rc = -1
        BY <2>1, <4>1
      <4> QED BY <2>2, <2>3, <2>8, <3>2, <4>2
    <3> QED BY <2>4, <3>1, <3>2
  <2>9. Up(l + 1, t)
    BY <2>6, <2>7, <2>8
  <2> QED BY <2>9 DEF t
<1>4. 4 \in I
  <2> HIDE DEF I
  <2> QED BY <1>2, <1>3, SetInduction
<1>5. Up(4, s[4])
  BY <1>4
<1> QED BY <1>1, <1>5 DEF L, B

(* The most specific level that says so disables a net.                    *)
LEMMA DisabledFollows ==
  ASSUME conf \in Document, NEW n
  PROVE  NetProp(n, "is_disabled", "bool", 0) = 1 <=>
           \E k \in 1 .. 4 : /\ \A j \in 1 .. k - 1 : SayingIn(n, conf, j) = {}
                             /\ \E m \in SayingIn(n, conf, k) : m.val = 1
<1> DEFINE at == {k \in 1 .. 4 : Holds(conf, Append(Levels(n)[k], "is_disabled"), "bool")}
           v == NetProp(n, "is_disabled", "bool", 0)
           B(k) == SayingIn(n, conf, k)
           b == Min(at)
<1>1. v = IF at = {} THEN 0
          ELSE At(conf, Append(Levels(n)[b], "is_disabled")).val
  BY DEF NetProp
<1>2. \A k \in 1 .. 4 : k \in at <=> B(k) # {}
  BY DEF Holds, SayingIn, EntryIn
<1>3. \A k : \A m \in B(k) : At(conf, Append(Levels(n)[k], "is_disabled")) = m
  BY AtNode DEF SayingIn, EntryIn
<1>4. at # {} => b \in at /\ \A j \in at : b <= j
  <2>1. at \in SUBSET (0 .. 4) /\ 4 \in Nat
    OBVIOUS
  <2> HIDE DEF at
  <2> QED BY <2>1, MinOf
<1>5. \A k \in at : k \in 1 .. 4
  OBVIOUS
<1> HIDE DEF at, v, B, b
<1>6. CASE at = {}
  <2>1. \A k \in 1 .. 4 : B(k) = {}
    BY <1>2, <1>6
  <2>2. v = 0
    BY <1>1, <1>6
  <2> QED BY <2>1, <2>2 DEF B, v
<1>7. CASE at # {}
  <2>1. b \in at /\ b \in 1 .. 4 /\ \A j \in at : b <= j
    BY <1>4, <1>5, <1>7
  <2>2. PICK m : m \in B(b)
    BY <1>2, <2>1
  <2>3. v = m.val /\ \A x \in B(b) : x = m
    BY <1>1, <1>3, <1>7, <2>2
  <2>4. \A j \in 1 .. b - 1 : B(j) = {}
    <3>1. ASSUME NEW j \in 1 .. b - 1 PROVE B(j) = {}
      <4>1. j \in 1 .. 4 /\ ~(b <= j)
        BY <2>1
      <4> QED BY <1>2, <2>1, <4>1
    <3> QED BY <3>1
  <2>5. ASSUME NEW k \in 1 .. 4, \A j \in 1 .. k - 1 : B(j) = {}, NEW x \in B(k)
        PROVE  k = b
    <3>1. k \in at
      BY <1>2, <2>5
    <3>2. b <= k
      BY <2>1, <3>1
    <3>3. ~(b < k)
      <4>1. b < k => b \in 1 .. k - 1
        BY <2>1
      <4> QED BY <2>2, <2>5, <4>1
    <3> QED BY <2>1, <3>2, <3>3
  <2>6. v = 1 <=> \E k \in 1 .. 4 : /\ \A j \in 1 .. k - 1 : B(j) = {}
                                   /\ \E x \in B(k) : x.val = 1
    BY <2>1, <2>2, <2>3, <2>4, <2>5
  <2> QED BY <2>6 DEF v, B
<1> QED BY <1>6, <1>7

-------------------------------------------------------------------------------
(* The configuration from the files.                                       *)

(* The configuration as the first map files make it.                       *)
FileStep(p, l, k, doc) ==
  Expected(InitMaps(p.files[k].maps, doc, l[k]).maps, p.files[k].payload, doc)
FilesConf(p, l) ==
  LET c[k \in 0 .. Len(l)] == IF k = 0 THEN p.conf ELSE FileStep(p, l, k, c[k - 1])
  IN c[Len(l)]

(* The configuration as the files make it, for the program and what has    *)
(* been loaded.                                                            *)
LEMMA ConfOfFilesIs == ConfOfFiles = FilesConf(prog, loaded)
BY DEF ConfOfFiles, FilesConf, FileStep

(* The map files one after the other.                                      *)
LEMMA FilesConfLoop ==
  ASSUME NEW p, NEW l, Len(l) \in Nat
  PROVE  \E c : /\ c[0] = p.conf
                /\ \A k \in 1 .. Len(l) : c[k] = FileStep(p, l, k, c[k - 1])
                /\ FilesConf(p, l) = c[Len(l)]
<1> DEFINE n == Len(l)
           Body(f, m) ==
             [k \in 0 .. m |-> IF k = 0 THEN p.conf ELSE FileStep(p, l, k, f[k - 1])]
           I == {m \in Nat : \E f : f = Body(f, m)}
           s == CHOOSE f : f = Body(f, n)
<1>0. FilesConf(p, l) = s[n]
  BY DEF FilesConf
<1> HIDE DEF s, n
<1>1. 0 \in I
  <2>1. [k \in 0 .. 0 |-> p.conf] = Body([k \in 0 .. 0 |-> p.conf], 0)
    OBVIOUS
  <2> QED BY <2>1
<1>2. ASSUME NEW m \in Nat, m \in I PROVE m + 1 \in I
  <2>1. PICK f : f = Body(f, m)
    BY <1>2
  <2> DEFINE g == Body(f, m + 1)
  <2>2. ASSUME NEW k \in 1 .. m + 1 PROVE g[k - 1] = f[k - 1]
    <3>1. k - 1 \in 0 .. m /\ k - 1 \in 0 .. m + 1
      OBVIOUS
    <3>2. f[k - 1] = Body(f, m)[k - 1]
      BY <2>1
    <3> QED BY <3>1, <3>2
  <2>3. g = Body(g, m + 1)
    <3>1. ASSUME NEW k \in 0 .. m + 1 PROVE g[k] = Body(g, m + 1)[k]
      <4>1. CASE k = 0
        BY <4>1
      <4>2. CASE k # 0
        <5>1. k \in 1 .. m + 1
          BY <4>2
        <5> QED BY <2>2, <5>1
      <4> QED BY <4>1, <4>2
    <3>2. DOMAIN g = 0 .. m + 1 /\ DOMAIN Body(g, m + 1) = 0 .. m + 1
      OBVIOUS
    <3> QED BY <3>1, <3>2
  <2> HIDE DEF g, Body
  <2> QED BY <2>3
<1>3. n \in Nat /\ n \in I
  <2>1. n \in Nat
    BY DEF n
  <2> HIDE DEF I
  <2> QED BY <1>1, <1>2, <2>1, SetInduction
<1>4. s = Body(s, n)
  BY <1>3 DEF s
<1>5. ASSUME NEW k \in 0 .. n PROVE s[k] = Body(s, n)[k]
  BY <1>4
<1>6. s[0] = p.conf
  BY <1>3, <1>5
<1>7. ASSUME NEW k \in 1 .. n PROVE s[k] = FileStep(p, l, k, s[k - 1])
  <2>1. k \in 0 .. n /\ k # 0
    BY <1>3
  <2>2. s[k] = Body(s, n)[k]
    BY <1>5, <2>1
  <2> QED BY <2>1, <2>2
<1> QED BY <1>0, <1>6, <1>7 DEF n

(* One more map file.                                                      *)
LEMMA FilesConfStep ==
  ASSUME NEW p, NEW l \in Seq(Garbage), NEW g \in Garbage
  PROVE  /\ FilesConf(p, <<>>) = p.conf
         /\ FilesConf(p, Append(l, g)) =
              Expected(InitMaps(p.files[Len(l) + 1].maps, FilesConf(p, l), g).maps,
                       p.files[Len(l) + 1].payload, FilesConf(p, l))
<1> DEFINE n == Len(l)
           h == Append(l, g)
<1>1. FilesConf(p, <<>>) = p.conf
  <2> DEFINE e == <<>>
  <2>1. Len(e) = 0
    BY EmptySeq
  <2> HIDE DEF e
  <2>2. FilesConf(p, e) = p.conf
    BY <2>1, FilesConfLoop
  <2> QED BY <2>2 DEF e
<1>2. /\ n \in Nat /\ Len(h) = n + 1 /\ h[n + 1] = g
      /\ \A k \in 1 .. n : h[k] = l[k]
  OBVIOUS
<1> HIDE DEF n, h
<1>3. PICK c : /\ c[0] = p.conf
               /\ \A k \in 1 .. n : c[k] = FileStep(p, l, k, c[k - 1])
               /\ FilesConf(p, l) = c[n]
  BY <1>2, FilesConfLoop DEF n
<1>4. PICK d : /\ d[0] = p.conf
               /\ \A k \in 1 .. n + 1 : d[k] = FileStep(p, h, k, d[k - 1])
               /\ FilesConf(p, h) = d[n + 1]
  <2>1. Len(h) \in Nat
    BY <1>2
  <2> QED BY <1>2, <2>1, FilesConfLoop
<1> DEFINE I == {k \in Nat : k <= n => c[k] = d[k]}
<1>5. 0 \in I
  BY <1>3, <1>4
<1>6. ASSUME NEW k \in Nat, k \in I PROVE k + 1 \in I
  <2> SUFFICES ASSUME k + 1 <= n PROVE c[k + 1] = d[k + 1]
    OBVIOUS
  <2>1. c[k] = d[k]
    BY <1>2, <1>6
  <2>2. k + 1 \in 1 .. n /\ k + 1 \in 1 .. n + 1 /\ (k + 1) - 1 = k
    BY <1>2
  <2>3. c[k + 1] = FileStep(p, l, k + 1, c[k]) /\ d[k + 1] = FileStep(p, h, k + 1, d[k])
    BY <1>3, <1>4, <2>2
  <2>4. FileStep(p, l, k + 1, c[k]) = FileStep(p, h, k + 1, c[k])
    BY <1>2, <2>2 DEF FileStep
  <2> QED BY <2>1, <2>3, <2>4
<1>7. n \in I
  <2> HIDE DEF I
  <2> QED BY <1>2, <1>5, <1>6, SetInduction
<1>8. c[n] = d[n]
  BY <1>2, <1>7
<1>9. FilesConf(p, h) = FileStep(p, h, n + 1, FilesConf(p, l))
  <2>1. n + 1 \in 1 .. n + 1 /\ (n + 1) - 1 = n
    BY <1>2
  <2> QED BY <1>3, <1>4, <1>8, <2>1
<1>10. FileStep(p, h, n + 1, FilesConf(p, l)) =
         Expected(InitMaps(p.files[n + 1].maps, FilesConf(p, l), g).maps,
                  p.files[n + 1].payload, FilesConf(p, l))
  BY <1>2 DEF FileStep
<1> QED BY <1>1, <1>9, <1>10 DEF n, h

(* Applied once more to what they were applied to, data maps give the      *)
(* same: their iterators have no part in it.                               *)
LEMMA AppliedAgain ==
  ASSUME NEW m, Sound(m), NEW p \in Document \union {None}, NEW r \in Nat,
         NEW a, a = Apply(m, p, r)
  PROVE  /\ OwnPayloadsLast(a.maps) =>
              a.maps.mapped_payload = Expected(a.maps, p, m.mapped_payload)
         /\ Applies(a.maps, p) = Applies(m, p)
<1>1. /\ Sound(a.maps) /\ Alike(m, a.maps)
      /\ a.maps.mapped_payload = AppliedTo(m, p)
  BY Applied
<1>2. m \in Maps /\ a.maps \in Maps /\ m.mapped_payload \in Document
  BY <1>1 DEF Sound, Maps
<1> DEFINE n == a.maps
           b == [n EXCEPT !.mapped_payload = m.mapped_payload]
<1>3. /\ b \in Maps /\ b.items = n.items /\ b.is_extended = n.is_extended
      /\ b.tgt_payload = n.tgt_payload /\ b.mapped_payload = m.mapped_payload
  BY <1>2 DEF Maps
<1> HIDE DEF b
<1>4. Alike(m, b)
  BY <1>1, <1>3 DEF Alike
<1>5. AppliedTo(m, p) = AppliedTo(b, p)
  BY <1>2, <1>3, <1>4, AlikeApplied
<1>6. Applies(a.maps, p) = Applies(m, p)
  BY <1>1, <1>2, AlikePayloads
<1>7. Sound(b)
  <2>1. Like(m, b)
    BY <1>4, AlikeLike
  <2> QED BY <1>3, <2>1, LikeKept
<1>8. ASSUME OwnPayloadsLast(n)
      PROVE  n.mapped_payload = Expected(n, p, m.mapped_payload)
  <2>1. OwnPayloadsLast(b)
    BY <1>3, <1>8 DEF OwnPayloadsLast
  <2>2. AppliedTo(b, p) = Expected(b, p, b.mapped_payload)
    BY <1>7, <2>1, AppliedExpected
  <2> DEFINE before == m.mapped_payload
  <2> HIDE DEF n, before
  <2>3. Expected(b, p, before) = Expected(n, p, before)
    BY <1>3, ExpectedOf
  <2> QED BY <1>1, <1>3, <1>5, <2>2, <2>3 DEF n, before
<1> HIDE DEF n
<1> QED BY <1>6, <1>8 DEF n

(* A box changes a map.                                                    *)
LEMMA ItemChanged ==
  ASSUME NEW m, Sound(m), NEW list, OfList(m, list), NEW i \in DOMAIN m.items,
         NEW x \in Item, x.src_path = m.items[i].src_path,
         x.tgt_path = m.items[i].tgt_path, x.type = m.items[i].type,
         x.fallback = m.items[i].fallback
  PROVE  LET n == [m EXCEPT !.items = [m.items EXCEPT ![i] = x]]
         IN Sound(n) /\ OfList(n, list)
<1> DEFINE items == [m.items EXCEPT ![i] = x]
           n == [m EXCEPT !.items = items]
<1>1. m \in Maps
  BY DEF Sound
<1>2. /\ m.items \in Seq(Item) /\ Len(m.items) \in Nat /\ i \in 1 .. Len(m.items)
  BY <1>1, ItemsOf
<1>3. /\ items \in Seq(Item) /\ Len(items) = Len(m.items) /\ items[i] = x
      /\ \A j \in 1 .. Len(m.items) : j # i => items[j] = m.items[j]
  BY <1>2, ExceptSeq
<1> HIDE DEF items
<1>4. /\ n \in Maps /\ n.items = items /\ n.mapped_payload = m.mapped_payload
      /\ n.is_extended = m.is_extended /\ n.tgt_payload = m.tgt_payload
  BY <1>1, <1>3 DEF Maps
<1> HIDE DEF n
<1>5. ASSUME NEW j \in 1 .. Len(m.items)
      PROVE  /\ m.items[j].src_path = n.items[j].src_path
             /\ m.items[j].tgt_path = n.items[j].tgt_path
             /\ m.items[j].type = n.items[j].type
             /\ m.items[j].fallback = n.items[j].fallback
  <2>1. CASE j = i
    BY <1>3, <1>4, <2>1
  <2>2. CASE j # i
    BY <1>3, <1>4, <2>2
  <2> QED BY <2>1, <2>2
<1>6. Like(m, n)
  BY <1>3, <1>4, <1>5 DEF Like
<1>7. Sound(n) /\ OfList(n, list)
  BY <1>4, <1>6, LikeKept
<1> QED BY <1>7 DEF n, items

(* A map that is found by its key is one of the items.                     *)
LEMMA MapByKeyIs ==
  ASSUME NEW m \in Maps, NEW key, MapByKey(m, key) # 0
  PROVE  MapByKey(m, key) \in DOMAIN m.items
<1> DEFINE found == {i \in DOMAIN m.items : m.items[i].key # None /\ m.items[i].key = key}
<1>1. MapByKey(m, key) = IF found = {} THEN 0 ELSE Min(found)
  BY DEF MapByKey
<1>2. found \in SUBSET (0 .. Len(m.items)) /\ Len(m.items) \in Nat
  BY ItemsOf
<1>3. \A i \in found : i \in DOMAIN m.items
  OBVIOUS
<1> HIDE DEF found
<1> QED BY <1>1, <1>2, <1>3, MinOf

-------------------------------------------------------------------------------
(* The inductive invariant, and each action.                               *)

(* The state is of the documents and maps the program can have.            *)
TypeInv ==
  /\ prog \in Program
  /\ conf \in Document
  /\ loaded \in Seq(Garbage)
  /\ round \in Nat
  /\ DOMAIN nets = Nets
  /\ \A n \in Nets : nets[n] \notin {None, Null} =>
       nets[n].static_conf \in Document \union {None}

(* When there are nets, and when a box has data maps.                      *)
OrderInv ==
  /\ pc \in {"conf", "maps"} => \A n \in Nets : nets[n] = None
  /\ pc = "conf" => loaded = <<>>
  /\ pc = "run" => \A n \in Nets : nets[n] # None
  /\ box # None => pc = "run"
  /\ pc \in {"nets", "run"} /\ box = None => call.rc = "none"

(* The data maps are those of their list, whoever has them.                *)
MapsInv ==
  /\ maps # None => Sound(maps) /\ OfList(maps, fields)
  /\ box # None => Sound(maps) /\ OfList(maps, fields)

(* The configuration is what the map files make of the application's.      *)
ConfInv ==
  /\ pc \in {"maps", "nets", "run"} => prog.conf \in Document
  /\ pc \in {"maps", "nets"} => conf = FilesConf(prog, loaded)
  /\ (pc \in {"maps", "nets", "run"}
        /\ \A k \in DOMAIN loaded : Basic(prog.files[k].maps, prog.conf)) =>
       Shape(conf) = Shape(prog.conf)

NetsInv ==
  pc = "nets" =>
    \A n \in Nets : nets[n] \notin {None, Null} => NetIs(nets[n], n, conf)

IInv ==
  /\ TypeInv /\ OrderInv /\ MapsInv /\ ConfInv /\ NetsInv
  /\ MappedByLastPayload /\ SrcIterFresh

(* The inductive invariant holds at first.                                 *)
LEMMA InitIInv == Init => IInv
<1> SUFFICES ASSUME Init PROVE IInv
  OBVIOUS
<1>1. /\ prog \in Programs
      /\ pc = "conf" /\ conf = {} /\ loaded = <<>>
      /\ maps = None /\ call.rc = "none" /\ round = 0 /\ box = None
      /\ nets = [n \in Nets |-> None]
  BY DEF Init, NoCall
<1>2. {} \in Document
  <2>1. IsFiniteSet({})
    BY FS_EmptySet
  <2> QED BY <2>1, IsDocument
<1>3. <<>> \in Seq(Garbage)
  BY EmptySeq
<1>4. TypeInv
  BY <1>1, <1>2, <1>3, ProgramAssumption DEF TypeInv
<1>5. OrderInv
  BY <1>1 DEF OrderInv
<1>6. MapsInv
  BY <1>1 DEF MapsInv
<1>7. ConfInv
  BY <1>1 DEF ConfInv
<1>8. NetsInv
  BY <1>1 DEF NetsInv
<1>9. MappedByLastPayload /\ SrcIterFresh
  BY <1>1 DEF MappedByLastPayload, SrcIterFresh
<1> QED BY <1>4, <1>5, <1>6, <1>7, <1>8, <1>9 DEF IInv

(* What an action that leaves the data maps alone keeps.                   *)
LEMMA MapsUnchanged ==
  ASSUME MapsInv, MappedByLastPayload, SrcIterFresh,
         UNCHANGED <<maps, fields, call, round, box>>
  PROVE  MapsInv' /\ MappedByLastPayload' /\ SrcIterFresh'
BY DEF MapsInv, MappedByLastPayload, SrcIterFresh

(* The application configuration is read: it is what the files make so     *)
(* far.                                                                    *)
LEMMA ReadConfKeeps == IInv /\ ReadConf => IInv'
<1> SUFFICES ASSUME IInv, ReadConf PROVE IInv'
  OBVIOUS
<1>1. /\ pc = "conf" /\ UNCHANGED <<prog, loaded, maps, fields, call, round, args, nets, box>>
      /\ \/ pc' = "maps" /\ prog.conf # None /\ conf' = prog.conf
         \/ pc' = "exit" /\ conf' = {}
  BY DEF ReadConf
<1>2. TypeInv /\ OrderInv /\ MapsInv /\ MappedByLastPayload /\ SrcIterFresh
  BY DEF IInv
<1>3. prog.conf # None => prog.conf \in Document
  BY <1>2 DEF TypeInv, Program
<1>4. {} \in Document
  <2>1. IsFiniteSet({})
    BY FS_EmptySet
  <2> QED BY <2>1, IsDocument
<1>5. TypeInv'
  BY <1>1, <1>2, <1>3, <1>4 DEF TypeInv
<1>6. OrderInv'
  BY <1>1, <1>2 DEF OrderInv
<1>7. MapsInv' /\ MappedByLastPayload' /\ SrcIterFresh'
  BY <1>1, <1>2, MapsUnchanged
<1>8. ConfInv'
  <2>1. loaded = <<>>
    BY <1>1, <1>2 DEF OrderInv
  <2>2. FilesConf(prog, <<>>) = prog.conf
    <3> DEFINE p == prog
               e == <<>>
    <3>1. Len(e) = 0
      BY EmptySeq
    <3> HIDE DEF e, p
    <3>2. FilesConf(p, e) = p.conf
      BY <3>1, FilesConfLoop
    <3> QED BY <3>2 DEF e, p
  <2> QED BY <1>1, <1>3, <2>1, <2>2 DEF ConfInv
<1>9. NetsInv'
  BY <1>1 DEF NetsInv
<1> QED BY <1>5, <1>6, <1>7, <1>8, <1>9 DEF IInv

(* One more map file: the configuration that results is the expectation,   *)
(* and the maps are as their list says.                                    *)
LEMMA ApplyMapFileKeeps == IInv /\ ApplyMapFile => IInv'
<1> SUFFICES ASSUME IInv, ApplyMapFile PROVE IInv'
  OBVIOUS
<1> DEFINE k == Len(loaded) + 1
           f == prog.files[k]
<1>1. /\ pc = "maps" /\ Len(loaded) < Len(prog.files)
      /\ UNCHANGED <<prog, round, args, nets, box>>
  BY DEF ApplyMapFile
<1>2. /\ TypeInv /\ OrderInv /\ MapsInv /\ ConfInv
      /\ MappedByLastPayload /\ SrcIterFresh
  BY DEF IInv
<1>3. box = None /\ (\A n \in Nets : nets[n] = None)
  BY <1>1, <1>2 DEF OrderInv
<1>4. CASE pc' = "exit" /\ UNCHANGED <<maps, fields, call, conf, loaded>>
  <2>1. TypeInv'
    BY <1>1, <1>2, <1>4 DEF TypeInv
  <2>2. OrderInv'
    BY <1>1, <1>2, <1>3, <1>4 DEF OrderInv
  <2>3. MapsInv' /\ MappedByLastPayload' /\ SrcIterFresh'
    BY <1>1, <1>2, <1>4, MapsUnchanged
  <2>4. ConfInv' /\ NetsInv'
    BY <1>4 DEF ConfInv, NetsInv
  <2> QED BY <2>1, <2>2, <2>3, <2>4 DEF IInv
<1>5. ASSUME Usable(f), NEW g \in Garbage,
             NEW m, m = InitMaps(f.maps, conf, g).maps,
             NEW a, a = Apply(m, f.payload, 1),
             InitMaps(f.maps, conf, g).rc = "NO_ERROR", a.rc = "NO_ERROR",
             maps' = a.maps, fields' = f.maps,
             call' = [payload |-> f.payload, before |-> conf, rc |-> a.rc],
             conf' = a.maps.mapped_payload, loaded' = Append(loaded, g), pc' = pc
      PROVE  IInv'
  <2>1. f.maps \in MapList /\ f.payload \in Document
    <3>1. /\ prog.files \in Seq([maps : MapList \union {None},
                                 payload : Document \union {None}] \union {None})
          /\ k \in 1 .. Len(prog.files)
      BY <1>1, <1>2 DEF TypeInv, Program
    <3>2. f \in [maps : MapList \union {None}, payload : Document \union {None}]
                  \union {None}
      BY <3>1
    <3> HIDE DEF f
    <3> QED BY <1>5, <3>2 DEF Usable
  <2>2. conf \in Document /\ loaded \in Seq(Garbage) /\ Len(loaded) \in Nat
    BY <1>2 DEF TypeInv
  <2> DEFINE fmaps == f.maps
             fpay == f.payload
             doc == conf
  <2> HIDE DEF fmaps, fpay, doc
  <2>3. /\ Sound(m) /\ OfList(m, fmaps) /\ m.tgt_payload = doc
        /\ m.mapped_payload = doc /\ OwnPayloadsLast(m)
    <3>1. /\ doc \in Document /\ fmaps \in MapList
          /\ InitMaps(fmaps, doc, g).rc = "NO_ERROR" /\ m = InitMaps(fmaps, doc, g).maps
      BY <1>5, <2>1, <2>2 DEF fmaps, doc
    <3> QED BY <3>1, ListMade
  <2>4. fpay \in Document \union {None} /\ a = Apply(m, fpay, 1) /\ 1 \in Nat
    BY <1>5, <2>1 DEF fpay
  <2>5. /\ Sound(a.maps) /\ Alike(m, a.maps)
        /\ a.maps.mapped_payload = AppliedTo(m, fpay)
        /\ ~m.is_extended => \A i \in Applies(m, fpay) : a.maps.items[i].src_iter = 1
    <3> DEFINE b == Apply(m, fpay, 1)
    <3>1. /\ Sound(b.maps) /\ Alike(m, b.maps)
          /\ b.maps.mapped_payload = AppliedTo(m, fpay)
          /\ b.rc = "NO_ERROR" /\ ~m.is_extended =>
               \A i \in Applies(m, fpay) : b.maps.items[i].src_iter = 1
      BY <2>3, <2>4, Applied
    <3>2. a = b
      BY <2>4
    <3> HIDE DEF b
    <3> QED BY <1>5, <3>1, <3>2
  <2>6. /\ OwnPayloadsLast(a.maps) =>
             a.maps.mapped_payload = Expected(a.maps, fpay, doc)
        /\ Applies(a.maps, fpay) = Applies(m, fpay)
    <3>1. /\ OwnPayloadsLast(a.maps) =>
               a.maps.mapped_payload = Expected(a.maps, fpay, m.mapped_payload)
          /\ Applies(a.maps, fpay) = Applies(m, fpay)
      BY <2>3, <2>4, AppliedAgain
    <3> QED BY <2>3, <3>1
  <2>16. a.maps.mapped_payload = Expected(m, fpay, doc)
    <3>1. AppliedTo(m, fpay) = Expected(m, fpay, m.mapped_payload)
      BY <2>3, <2>4, AppliedExpected
    <3> QED BY <2>3, <2>5, <3>1
  <2>7. OfList(a.maps, fmaps)
    BY <2>3, <2>5, AlikeLike, LikeKept
  <2>8. a.maps \in Maps /\ a.maps.mapped_payload \in Document
        /\ a.maps.is_extended = m.is_extended
    BY <2>5 DEF Sound, Maps, Alike
  <2>9. TypeInv'
    <3>1. Append(loaded, g) \in Seq(Garbage)
      BY <2>2
    <3> QED BY <1>1, <1>2, <1>5, <2>8, <3>1 DEF TypeInv
  <2>10. OrderInv'
    BY <1>1, <1>3, <1>5 DEF OrderInv
  <2>11. MapsInv'
    BY <1>1, <1>3, <1>5, <2>5, <2>7 DEF MapsInv, fmaps
  <2>12. MappedByLastPayload'
    BY <1>5, <2>6 DEF MappedByLastPayload, doc, fpay
  <2>13. SrcIterFresh'
    <3>1. ~maps'.is_extended =>
            \A i \in Applies(maps', call'.payload) : maps'.items[i].src_iter = 1
      BY <1>5, <2>5, <2>6, <2>8 DEF fpay
    <3> QED BY <1>1, <1>3, <3>1 DEF SrcIterFresh
  <2>14. ConfInv'
    <3>1. prog.conf \in Document /\ conf = FilesConf(prog, loaded)
      BY <1>1, <1>2 DEF ConfInv
    <3>2. FilesConf(prog, Append(loaded, g)) =
            Expected(InitMaps(f.maps, FilesConf(prog, loaded), g).maps, f.payload,
                     FilesConf(prog, loaded))
      <4> DEFINE p == prog
                 l == loaded
      <4>1. l \in Seq(Garbage)
        BY <2>2
      <4> HIDE DEF p, l
      <4>2. FilesConf(p, Append(l, g)) =
              Expected(InitMaps(p.files[Len(l) + 1].maps, FilesConf(p, l), g).maps,
                       p.files[Len(l) + 1].payload, FilesConf(p, l))
        BY <4>1, FilesConfStep
      <4> QED BY <4>2 DEF p, l
    <3>3. conf' = FilesConf(prog', loaded')
      BY <1>1, <1>5, <2>16, <3>1, <3>2 DEF fpay, doc
    <3>4. ASSUME \A j \in DOMAIN loaded' : Basic(prog.files[j].maps, prog.conf)
          PROVE  Shape(conf') = Shape(prog.conf)
      <4>1. \A j \in DOMAIN loaded : Basic(prog.files[j].maps, prog.conf)
        <5>1. \A j \in DOMAIN loaded : j \in DOMAIN loaded'
          BY <1>5, <2>2
        <5> QED BY <3>4, <5>1
      <4>2. Shape(doc) = Shape(prog.conf)
        BY <1>1, <1>2, <4>1 DEF ConfInv, doc
      <4>3. Basic(fmaps, prog.conf)
        <5>1. k \in DOMAIN loaded'
          BY <1>5, <2>2
        <5> QED BY <3>4, <5>1 DEF fmaps
      <4>4. ~m.is_extended
        <5> DEFINE base == prog.conf
        <5>1. base \in Document /\ Basic(fmaps, base) /\ Shape(m.tgt_payload) = Shape(base)
          BY <2>3, <3>1, <4>2, <4>3
        <5> HIDE DEF base
        <5> QED BY <2>3, <5>1, BasicMode
      <4>5. Shape(a.maps.mapped_payload) = Shape(doc)
        <5>1. a.maps.tgt_payload = doc
          BY <2>3, <2>5 DEF Alike
        <5> QED BY <2>5, <2>8, <4>4, <5>1 DEF Sound
      <4> QED BY <1>5, <4>2, <4>5
    <3> QED BY <1>1, <1>5, <3>1, <3>3, <3>4 DEF ConfInv
  <2>15. NetsInv'
    BY <1>1, <1>5 DEF NetsInv
  <2> QED BY <2>9, <2>10, <2>11, <2>12, <2>13, <2>14, <2>15 DEF IInv
<1>6. \/ pc' = "exit" /\ UNCHANGED <<maps, fields, call, conf, loaded>>
      \/ /\ Usable(f)
         /\ \E g \in Garbage :
              LET i == InitMaps(f.maps, conf, g)
                  a == Apply(i.maps, f.payload, 1)
              IN /\ i.rc = "NO_ERROR" /\ a.rc = "NO_ERROR"
                 /\ maps' = a.maps /\ fields' = f.maps
                 /\ call' = [payload |-> f.payload, before |-> conf, rc |-> a.rc]
                 /\ conf' = a.maps.mapped_payload
                 /\ loaded' = Append(loaded, g) /\ pc' = pc
  <2> HIDE DEF f
  <2> QED BY DEF ApplyMapFile, f, k
<1> HIDE DEF f, k
<1> QED BY <1>4, <1>5, <1>6

(* What an action that leaves the configuration alone, too, keeps.         *)
LEMMA ConfUnchanged ==
  ASSUME ConfInv, UNCHANGED <<prog, conf, loaded>>,
         pc' \in {"maps", "nets"} => pc \in {"maps", "nets"},
         pc' = "run" => pc \in {"nets", "run"}
  PROVE  ConfInv'
BY DEF ConfInv

(* The arguments are read and the maps of the files are gone.              *)
LEMMA ReadArgsKeeps == IInv /\ ReadArgs => IInv'
<1> SUFFICES ASSUME IInv, ReadArgs PROVE IInv'
  OBVIOUS
<1>1. /\ pc = "maps" /\ pc' \in {"exit", "nets"}
      /\ maps' = None /\ call'.rc = "none"
      /\ UNCHANGED <<prog, conf, loaded, round, nets, box>>
  BY DEF ReadArgs, NoCall
<1>2. TypeInv /\ OrderInv /\ ConfInv
  BY DEF IInv
<1>3. box = None /\ \A n \in Nets : nets[n] = None
  BY <1>1, <1>2 DEF OrderInv
<1>4. TypeInv'
  BY <1>1, <1>2 DEF TypeInv
<1>5. OrderInv'
  BY <1>1, <1>3 DEF OrderInv
<1>6. MapsInv'
  BY <1>1, <1>3 DEF MapsInv
<1>7. MappedByLastPayload' /\ SrcIterFresh'
  BY <1>1 DEF MappedByLastPayload, SrcIterFresh
<1>8. ConfInv'
  BY <1>1, <1>2, ConfUnchanged
<1>9. NetsInv'
  BY <1>1, <1>3 DEF NetsInv
<1> QED BY <1>4, <1>5, <1>6, <1>7, <1>8, <1>9 DEF IInv

(* A net is created from the most specific places of the configuration.    *)
LEMMA CreateNetKeeps ==
  ASSUME IInv, NEW n \in Nets, CreateNet(n)
  PROVE  IInv'
<1> DEFINE net == [static_conf |-> GetJsonDoc(n).static_conf,
                   has_profiler |-> NetProp(n, "profiler", "bool", 0),
                   has_type_filter |-> NetProp(n, "type_filter", "bool", 0),
                   is_disabled |-> NetProp(n, "is_disabled", "bool", 0),
                   conf_port_name |-> NetProp(n, "dyn_conf_port", "utf8", None),
                   conf_port_timeout |-> NetProp(n, "dyn_conf_timeout", "int32", 0),
                   expected_rate |-> NetProp(n, "expected_rate", "int32", 0),
                   shared_state_key |-> NetProp(n, "shared_state_key", "utf8", None)]
<1>1. /\ pc = "nets" /\ nets[n] = None
      /\ nets' = [nets EXCEPT ![n] = IF n.index >= MaxNets THEN Null ELSE net]
      /\ UNCHANGED <<prog, pc, conf, loaded, maps, fields, call, round, args, box>>
  BY DEF CreateNet
<1>2. /\ TypeInv /\ OrderInv /\ MapsInv /\ ConfInv /\ NetsInv
      /\ MappedByLastPayload /\ SrcIterFresh
  BY DEF IInv
<1>3. conf \in Document /\ DOMAIN nets = Nets
  BY <1>2 DEF TypeInv
<1>4. net.static_conf \in Document \union {None} /\ NetIs(net, n, conf)
  <2>1. /\ net.static_conf = GetJsonDoc(n).static_conf
        /\ net.is_disabled = NetProp(n, "is_disabled", "bool", 0)
    OBVIOUS
  <2> HIDE DEF net
  <2>2. /\ GetJsonDoc(n).static_conf \in Document \union {None}
        /\ \A k \in 1 .. 4 : (\A j \in 1 .. k - 1 : LoadedIn(n, conf, j) = {}) =>
             \A m \in LoadedIn(n, conf, k) :
               GetJsonDoc(n).static_conf = ConfigOf(conf, m)
        /\ (\A k \in 1 .. 4 : LoadedIn(n, conf, k) = {}) =>
             /\ \A k \in 1 .. 4 : (\A j \in k + 1 .. 4 : BrokenIn(n, conf, j) = {}) =>
                  \A m \in BrokenIn(n, conf, k) :
                    GetJsonDoc(n).static_conf = ConfigOf(conf, m)
             /\ (\A k \in 1 .. 4 : BrokenIn(n, conf, k) = {}) =>
                  GetJsonDoc(n).static_conf = None
    BY <1>3, JsonFollows
  <2>3. NetProp(n, "is_disabled", "bool", 0) = 1 <=>
           \E k \in 1 .. 4 : /\ \A j \in 1 .. k - 1 : SayingIn(n, conf, j) = {}
                             /\ \E m \in SayingIn(n, conf, k) : m.val = 1
    BY <1>3, DisabledFollows
  <2>4. net.static_conf \in Document \union {None}
    BY <2>1, <2>2
  <2>5. NetIs(net, n, conf)
    BY <2>1, <2>2, <2>3 DEF NetIs
  <2> QED BY <2>4, <2>5
<1> HIDE DEF net
<1>5. /\ DOMAIN nets' = Nets /\ nets'[n] \in {Null, net}
      /\ \A k \in Nets : k # n => nets'[k] = nets[k]
  BY <1>1, <1>3
<1>6. TypeInv'
  BY <1>1, <1>2, <1>4, <1>5 DEF TypeInv
<1>7. OrderInv'
  BY <1>1, <1>2 DEF OrderInv
<1>8. MapsInv' /\ MappedByLastPayload' /\ SrcIterFresh'
  BY <1>1, <1>2, MapsUnchanged
<1>9. ConfInv'
  BY <1>1, <1>2, ConfUnchanged
<1>10. NetsInv'
  <2> SUFFICES ASSUME NEW k \in Nets, nets'[k] \notin {None, Null}
               PROVE  NetIs(nets'[k], k, conf)
    BY <1>1 DEF NetsInv
  <2>1. CASE k = n
    BY <1>4, <1>5, <2>1
  <2>2. CASE k # n
    <3>1. nets'[k] = nets[k]
      BY <1>5, <2>2
    <3> QED BY <1>1, <1>2, <3>1 DEF NetsInv
  <2> QED BY <2>1, <2>2
<1> QED BY <1>6, <1>7, <1>8, <1>9, <1>10 DEF IInv

(* The nets are started once all of them have been created.                *)
LEMMA StartNetsKeeps == IInv /\ StartNets => IInv'
<1> SUFFICES ASSUME IInv, StartNets PROVE IInv'
  OBVIOUS
<1>1. /\ pc = "nets" /\ pc' = "run" /\ \A n \in Nets : nets[n] # None
      /\ UNCHANGED <<prog, conf, loaded, maps, fields, call, round, args, nets, box>>
  BY DEF StartNets
<1>2. /\ TypeInv /\ OrderInv /\ MapsInv /\ ConfInv
      /\ MappedByLastPayload /\ SrcIterFresh
  BY DEF IInv
<1>3. TypeInv'
  BY <1>1, <1>2 DEF TypeInv
<1>4. OrderInv'
  BY <1>1, <1>2 DEF OrderInv
<1>5. MapsInv' /\ MappedByLastPayload' /\ SrcIterFresh'
  BY <1>1, <1>2, MapsUnchanged
<1>6. ConfInv'
  BY <1>1, <1>2, ConfUnchanged
<1>7. NetsInv'
  BY <1>1 DEF NetsInv
<1> QED BY <1>3, <1>4, <1>5, <1>6, <1>7 DEF IInv

(* What an action of a box keeps that changes neither configuration nor    *)
(* nets.                                                                   *)
LEMMA BoxKeeps ==
  ASSUME IInv, UNCHANGED <<prog, pc, conf, loaded, nets>>,
         round' \in Nat, box' # None => pc = "run",
         box' = None => call'.rc = "none" \/ (box = None /\ UNCHANGED call)
  PROVE  TypeInv' /\ OrderInv' /\ ConfInv' /\ NetsInv'
<1>1. TypeInv /\ OrderInv /\ ConfInv /\ NetsInv
  BY DEF IInv
<1>2. TypeInv'
  BY <1>1 DEF TypeInv
<1>3. OrderInv'
  BY <1>1 DEF OrderInv
<1>4. ConfInv'
  BY <1>1, ConfUnchanged
<1>5. NetsInv'
  BY <1>1 DEF NetsInv
<1> QED BY <1>2, <1>3, <1>4, <1>5

(* A box makes data maps of a list.                                        *)
LEMMA BoxInitKeeps ==
  ASSUME IInv, NEW n \in Nets, BoxInit(n)
  PROVE  IInv'
<1>1. PICK f \in prog.lists, g \in Garbage :
        /\ pc = "run" /\ box = None /\ round = 0
        /\ nets[n] # Null /\ nets[n].static_conf # None
        /\ InitMaps(f, nets[n].static_conf, g).rc = "NO_ERROR"
        /\ box' = n
        /\ maps' = InitMaps(f, nets[n].static_conf, g).maps
        /\ fields' = f
        /\ UNCHANGED <<prog, pc, conf, loaded, call, round, args, nets>>
  BY DEF BoxInit
<1>2. TypeInv /\ OrderInv
  BY DEF IInv
<1>3. f \in MapList /\ nets[n].static_conf \in Document
  <2>1. f \in MapList
    BY <1>2 DEF TypeInv, Program
  <2>2. nets[n] # None
    BY <1>1, <1>2 DEF OrderInv
  <2> QED BY <1>1, <1>2, <2>1, <2>2 DEF TypeInv
<1>4. Sound(maps') /\ OfList(maps', f)
  <2> DEFINE doc == nets[n].static_conf
             m == InitMaps(f, doc, g).maps
  <2>1. doc \in Document /\ InitMaps(f, doc, g).rc = "NO_ERROR" /\ maps' = m
    BY <1>1, <1>3
  <2> HIDE DEF doc
  <2>2. Sound(m) /\ OfList(m, f)
    BY <1>3, <2>1, ListMade
  <2> QED BY <2>1, <2>2
<1>5. call.rc = "none"
  BY <1>1, <1>2 DEF OrderInv
<1>6. TypeInv' /\ OrderInv' /\ ConfInv' /\ NetsInv'
  <2>1. round' \in Nat
    BY <1>1
  <2> QED BY <1>1, <1>5, <2>1, BoxKeeps
<1>7. MapsInv'
  BY <1>1, <1>4 DEF MapsInv
<1>8. MappedByLastPayload' /\ SrcIterFresh'
  BY <1>1, <1>5 DEF MappedByLastPayload, SrcIterFresh
<1> QED BY <1>6, <1>7, <1>8 DEF IInv

(* A box applies its data maps, for the first time or again.               *)
LEMMA BoxApplyKeeps == IInv /\ BoxApply => IInv'
<1> SUFFICES ASSUME IInv, BoxApply PROVE IInv'
  OBVIOUS
<1>1. PICK p \in Payloads :
        /\ box # None /\ round < MaxRounds
        /\ maps' = Apply(maps, p, round + 1).maps
        /\ round' = round + 1
        /\ call' = [payload |-> p, before |-> maps.mapped_payload,
                    rc |-> Apply(maps, p, round + 1).rc]
        /\ UNCHANGED <<prog, pc, conf, loaded, fields, args, nets, box>>
  BY DEF BoxApply
<1>2. TypeInv /\ OrderInv /\ MapsInv
  BY DEF IInv
<1> DEFINE m == maps
           r == round + 1
           a == Apply(m, p, r)
<1>3. /\ Sound(m) /\ OfList(m, fields) /\ p \in Document \union {None}
      /\ r \in Nat /\ pc = "run"
  BY <1>1, <1>2, ProgramAssumption DEF MapsInv, TypeInv, OrderInv
<1>4. /\ maps' = a.maps /\ round' = r
      /\ call' = [payload |-> p, before |-> m.mapped_payload, rc |-> a.rc]
  BY <1>1
<1> HIDE DEF m, r
<1>5. /\ Sound(a.maps) /\ Alike(m, a.maps)
      /\ a.rc = "NO_ERROR" /\ ~m.is_extended =>
           \A i \in Applies(m, p) : a.maps.items[i].src_iter = r
  BY <1>3, Applied
<1>6. /\ OwnPayloadsLast(a.maps) =>
           a.maps.mapped_payload = Expected(a.maps, p, m.mapped_payload)
      /\ Applies(a.maps, p) = Applies(m, p)
  BY <1>3, AppliedAgain
<1> HIDE DEF a
<1>7. OfList(a.maps, fields) /\ a.maps.is_extended = m.is_extended
  <2>1. Like(m, a.maps)
    BY <1>5, AlikeLike
  <2> QED BY <1>3, <2>1, LikeKept DEF Like
<1>8. TypeInv' /\ OrderInv' /\ ConfInv' /\ NetsInv'
  BY <1>1, <1>3, <1>4, BoxKeeps
<1>9. MapsInv'
  BY <1>1, <1>4, <1>5, <1>7 DEF MapsInv
<1>10. MappedByLastPayload'
  BY <1>4, <1>6 DEF MappedByLastPayload
<1>11. SrcIterFresh'
  <2>1. call'.rc = "NO_ERROR" /\ ~maps'.is_extended =>
          \A i \in Applies(maps', call'.payload) : maps'.items[i].src_iter = round'
    BY <1>4, <1>5, <1>6, <1>7
  <2> QED BY <1>1, <2>1 DEF SrcIterFresh
<1> QED BY <1>8, <1>9, <1>10, <1>11 DEF IInv

(* A box gives a map a payload.                                            *)
LEMMA BoxSetPayloadKeeps == IInv /\ BoxSetPayload => IInv'
<1> SUFFICES ASSUME IInv, BoxSetPayload PROVE IInv'
  OBVIOUS
<1>1. PICK i \in 1 .. MaxMapItems, p \in Payloads \ {None} :
        /\ box # None /\ i \in DOMAIN maps.items
        /\ maps' = [maps EXCEPT !.items[i].src_payload = p]
        /\ call' = NoCall
        /\ UNCHANGED <<prog, pc, conf, loaded, fields, round, args, nets, box>>
  BY DEF BoxSetPayload
<1>2. TypeInv /\ OrderInv /\ MapsInv
  BY DEF IInv
<1> DEFINE m == maps
           x == [m.items[i] EXCEPT !.src_payload = p]
           n == [m EXCEPT !.items = [m.items EXCEPT ![i] = x]]
<1>3. /\ Sound(m) /\ OfList(m, fields) /\ p \in Document \union {None}
      /\ i \in DOMAIN m.items /\ maps' = n
  BY <1>1, <1>2, ProgramAssumption DEF MapsInv
<1> HIDE DEF m
<1>4. /\ x \in Item /\ x.src_path = m.items[i].src_path
      /\ x.tgt_path = m.items[i].tgt_path /\ x.type = m.items[i].type
      /\ x.fallback = m.items[i].fallback
  <2>1. m.items[i] \in Item
    BY <1>3, ItemsOf DEF Sound
  <2> QED BY <1>3, <2>1 DEF Item
<1> HIDE DEF x
<1>5. Sound(n) /\ OfList(n, fields)
  BY <1>3, <1>4, ItemChanged
<1> HIDE DEF n
<1>6. MapsInv'
  BY <1>1, <1>3, <1>5 DEF MapsInv
<1>7. MappedByLastPayload' /\ SrcIterFresh'
  BY <1>1 DEF MappedByLastPayload, SrcIterFresh, NoCall
<1>8. TypeInv' /\ OrderInv' /\ ConfInv' /\ NetsInv'
  <2>1. round' \in Nat /\ pc = "run" /\ call'.rc = "none"
    BY <1>1, <1>2 DEF TypeInv, OrderInv, NoCall
  <2> QED BY <1>1, <2>1, BoxKeeps
<1> QED BY <1>6, <1>7, <1>8 DEF IInv

(* A box gives a map a source prefix.                                      *)
LEMMA BoxSetPrefixKeeps == IInv /\ BoxSetPrefix => IInv'
<1> SUFFICES ASSUME IInv, BoxSetPrefix PROVE IInv'
  OBVIOUS
<1>1. PICK k \in {fields[j].key : j \in DOMAIN fields}, prefix \in SrcPrefixes :
        /\ box # None /\ MapByKey(maps, k) # 0
        /\ maps' = [maps EXCEPT !.items[MapByKey(maps, k)].src_prefix = prefix]
        /\ call' = NoCall
        /\ UNCHANGED <<prog, pc, conf, loaded, fields, round, args, nets, box>>
  BY DEF BoxSetPrefix
<1>2. TypeInv /\ OrderInv /\ MapsInv
  BY DEF IInv
<1> DEFINE m == maps
           i == MapByKey(m, k)
           x == [m.items[i] EXCEPT !.src_prefix = prefix]
           n == [m EXCEPT !.items = [m.items EXCEPT ![i] = x]]
<1>3. /\ Sound(m) /\ OfList(m, fields) /\ prefix \in Path
      /\ i # 0 /\ maps' = n
  BY <1>1, <1>2, ProgramAssumption DEF MapsInv
<1> HIDE DEF m
<1>4. m \in Maps /\ i \in DOMAIN m.items
  BY <1>3, MapByKeyIs DEF Sound
<1> HIDE DEF i
<1>5. /\ x \in Item /\ x.src_path = m.items[i].src_path
      /\ x.tgt_path = m.items[i].tgt_path /\ x.type = m.items[i].type
      /\ x.fallback = m.items[i].fallback
  <2>1. m.items[i] \in Item
    BY <1>4, ItemsOf
  <2> QED BY <1>3, <2>1 DEF Item
<1> HIDE DEF x
<1>6. Sound(n) /\ OfList(n, fields)
  BY <1>3, <1>4, <1>5, ItemChanged
<1> HIDE DEF n
<1>7. MapsInv'
  BY <1>1, <1>3, <1>6 DEF MapsInv
<1>8. MappedByLastPayload' /\ SrcIterFresh'
  BY <1>1 DEF MappedByLastPayload, SrcIterFresh, NoCall
<1>9. TypeInv' /\ OrderInv' /\ ConfInv' /\ NetsInv'
  <2>1. round' \in Nat /\ pc = "run" /\ call'.rc = "none"
    BY <1>1, <1>2 DEF TypeInv, OrderInv, NoCall
  <2> QED BY <1>1, <2>1, BoxKeeps
<1> QED BY <1>7, <1>8, <1>9 DEF IInv

(* A box frees its data maps.                                              *)
LEMMA BoxCleanupKeeps == IInv /\ BoxCleanup => IInv'
<1> SUFFICES ASSUME IInv, BoxCleanup PROVE IInv'
  OBVIOUS
<1>1. /\ maps' = None /\ call' = NoCall /\ box' = None
      /\ round' = MaxRounds + 1
      /\ UNCHANGED <<prog, pc, conf, loaded, args, nets>>
  BY DEF BoxCleanup
<1>2. MapsInv' /\ MappedByLastPayload' /\ SrcIterFresh'
  BY <1>1 DEF MapsInv, MappedByLastPayload, SrcIterFresh, NoCall
<1>3. TypeInv' /\ OrderInv' /\ ConfInv' /\ NetsInv'
  <2>1. round' \in Nat /\ call'.rc = "none"
    BY <1>1, ProgramAssumption DEF NoCall
  <2>2. /\ box' # None => pc = "run"
        /\ box' = None => call'.rc = "none" \/ (box = None /\ UNCHANGED call)
        /\ UNCHANGED <<prog, pc, conf, loaded, nets>>
    BY <1>1, <2>1
  <2> QED BY <2>1, <2>2, BoxKeeps
<1> QED BY <1>2, <1>3 DEF IInv

(* The nets and the program are destroyed.                                 *)
LEMMA CleanupKeeps == IInv /\ Cleanup => IInv'
<1> SUFFICES ASSUME IInv, Cleanup PROVE IInv'
  OBVIOUS
<1>1. /\ pc = "run" /\ box = None /\ pc' = "end"
      /\ nets' = [n \in Nets |-> Null] /\ conf' = {}
      /\ UNCHANGED <<prog, loaded, maps, fields, call, round, box>>
  BY DEF Cleanup
<1>2. TypeInv /\ MapsInv /\ MappedByLastPayload /\ SrcIterFresh
  BY DEF IInv
<1>3. {} \in Document
  <2>1. IsFiniteSet({})
    BY FS_EmptySet
  <2> QED BY <2>1, IsDocument
<1>4. TypeInv'
  BY <1>1, <1>2, <1>3 DEF TypeInv
<1>5. OrderInv' /\ ConfInv' /\ NetsInv'
  BY <1>1 DEF OrderInv, ConfInv, NetsInv
<1>6. MapsInv' /\ MappedByLastPayload' /\ SrcIterFresh'
  BY <1>1, <1>2, MapsUnchanged
<1> QED BY <1>4, <1>5, <1>6 DEF IInv

-------------------------------------------------------------------------------
(* The theorems.                                                           *)

(* The invariant is inductive: whatever the map files, the arguments and   *)
(* the boxes do, the configuration is what the files make of the           *)
(* application's, data maps are as the list they were made of, every net   *)
(* follows the configuration it was created from, and the maps applied     *)
(* last gave what was expected of the last payload, where the maps with    *)
(* payloads of their own come last.                                        *)
THEOREM ProgramInductive == Spec => []IInv
<1>1. Init => IInv
  BY InitIInv
<1>2. IInv /\ [Next]_vars => IInv'
  <2> SUFFICES ASSUME IInv, [Next]_vars PROVE IInv'
    OBVIOUS
  <2>1. CASE ReadConf
    BY <2>1, ReadConfKeeps
  <2>2. CASE ApplyMapFile
    BY <2>2, ApplyMapFileKeeps
  <2>3. CASE ReadArgs
    BY <2>3, ReadArgsKeeps
  <2>4. CASE StartNets
    BY <2>4, StartNetsKeeps
  <2>5. ASSUME NEW n \in Nets, CreateNet(n) PROVE IInv'
    BY <2>5, CreateNetKeeps
  <2>6. ASSUME NEW n \in Nets, BoxInit(n) PROVE IInv'
    BY <2>6, BoxInitKeeps
  <2>7. CASE BoxApply
    BY <2>7, BoxApplyKeeps
  <2>8. CASE BoxSetPayload
    BY <2>8, BoxSetPayloadKeeps
  <2>9. CASE BoxSetPrefix
    BY <2>9, BoxSetPrefixKeeps
  <2>10. CASE BoxCleanup
    BY <2>10, BoxCleanupKeeps
  <2>11. CASE Cleanup
    BY <2>11, CleanupKeeps
  <2>12. CASE UNCHANGED vars
    <3>1. UNCHANGED <<prog, pc, conf, loaded, maps, fields, call, round, nets, box>>
      BY <2>12 DEF vars
    <3>2. /\ TypeInv /\ OrderInv /\ MapsInv /\ ConfInv /\ NetsInv
          /\ MappedByLastPayload /\ SrcIterFresh
      BY DEF IInv
    <3>3. MapsInv' /\ MappedByLastPayload' /\ SrcIterFresh'
      BY <3>1, <3>2, MapsUnchanged
    <3>4. TypeInv' /\ OrderInv' /\ ConfInv' /\ NetsInv'
      BY <3>1, <3>2 DEF TypeInv, OrderInv, ConfInv, NetsInv
    <3> QED BY <3>3, <3>4 DEF IInv
  <2> QED BY <2>1, <2>2, <2>3, <2>4, <2>5, <2>6, <2>7, <2>8, <2>9, <2>10,
             <2>11, <2>12 DEF Next
<1> QED BY <1>1, <1>2, PTL DEF Spec

(* After every application of data maps (smx_config_data_maps_apply), by   *)
(* the main thread or by a box and for the first time or again, the mapped *)
(* payload is what the list says of the last payload, whatever the         *)
(* document, the list and the number of rounds, if the maps with payloads  *)
(* of their own are the last of the list.  An earlier payload shows only   *)
(* in targets none of whose maps has a payload this time.                  *)
THEOREM MappedPayload == Spec => []MappedByLastPayload
<1>1. IInv => MappedByLastPayload
  BY DEF IInv
<1> QED BY <1>1, ProgramInductive, PTL

(* When smx_config_data_maps_apply has returned no error in the basic      *)
(* mode, the source iterator of every map that was applied points into the *)
(* payload of this round, although is_src_iter_set is never reset.         *)
THEOREM IteratorsFresh == Spec => []SrcIterFresh
<1>1. IInv => SrcIterFresh
  BY DEF IInv
<1> QED BY <1>1, ProgramInductive, PTL

(* The basic mode (smx_config_data_maps_apply_base) changes values only:   *)
(* neither the data maps of a box nor any number of map files gives a      *)
(* document another key or type.                                           *)
THEOREM ShapesKept == Spec => []ShapeKept
<1>1. IInv => ShapeKept
  <2> SUFFICES ASSUME IInv PROVE ShapeKept
    OBVIOUS
  <2>1. MapsInv /\ ConfInv
    BY DEF IInv
  <2>2. maps # None /\ ~maps.is_extended =>
          Shape(maps.mapped_payload) = Shape(maps.tgt_payload)
    BY <2>1 DEF MapsInv, Sound
  <2> QED BY <2>1, <2>2 DEF ShapeKept, ConfInv
<1> QED BY <1>1, ProgramInductive, PTL

(* The type option of a map decides its type wherever it is in the list of *)
(* options (smx_config_data_map_init_tgt), and without one the type is     *)
(* that of the target.                                                     *)
THEOREM TypesExplicit == Spec => []ExplicitTypeWins
<1>1. IInv => ExplicitTypeWins
  <2> SUFFICES ASSUME IInv, maps # None, NEW i \in DOMAIN maps.items
               PROVE  LET options == {fields[i].tgt[o] : o \in DOMAIN fields[i].tgt}
                          type == {o.type : o \in options} \ {None}
                          tgt == At(maps.tgt_payload, maps.items[i].tgt_path).type
                      IN CASE type # {} -> maps.items[i].type \in type
                           [] type = {} /\ tgt \in MapType -> maps.items[i].type = tgt
                           [] OTHER -> maps.items[i].type \in Garbage
    BY DEF ExplicitTypeWins
  <2>1. maps \in Maps /\ OfList(maps, fields)
    BY DEF IInv, MapsInv, Sound
  <2> QED BY <2>1, TypeOfList
<1> QED BY <1>1, ProgramInductive, PTL

(* smx_net_create takes the configuration of a net, and whether it is      *)
(* disabled, from the most specific level that has it, in the              *)
(* configuration that results from all map files in their order; where no  *)
(* level can be loaded it keeps what was read of the least specific broken *)
(* file.                                                                   *)
THEOREM NetsFollow == Spec => []NetsFollowFiles
<1>1. IInv => NetsFollowFiles
  <2> SUFFICES ASSUME IInv, pc = "nets" PROVE AllFollow(ConfOfFiles)
    BY DEF NetsFollowFiles
  <2>1. ConfInv /\ NetsInv
    BY DEF IInv
  <2>2. conf = ConfOfFiles
    BY <2>1, ConfOfFilesIs DEF ConfInv
  <2>3. AllFollow(conf)
    BY <2>1, FollowsIs DEF NetsInv, AllFollow
  <2> QED BY <2>2, <2>3
<1> QED BY <1>1, ProgramInductive, PTL
===============================================================================
