------------------------------- MODULE SmxBson -------------------------------
(***************************************************************************)
(* BSON documents as src/ uses them through libbson, which is not part of  *)
(* it.  A document is the set of its nodes; a path is the sequence of keys *)
(* that lead to a node from the root, which is no node itself.  The values *)
(* of all types are integers: a boolean is 0 or 1, a double counts halves, *)
(* a string or an object id is the number of the text it stands for, and a *)
(* node without a value of its own has 0.                                  *)
(***************************************************************************)
EXTENDS Integers, FiniteSets, Sequences, SequencesExt

BsonType == {"document", "array", "bool", "int32", "int64", "double", "utf8",
             "oid", "null"}

Containers == {"document", "array"}

Key(path, type, val) == [path |-> path, type |-> type, val |-> val]

(* Every key is in a document once, and what it contains is in a container.*)
Root == <<>>
Path == Seq(STRING)
Node == [path : Path \ {Root}, type : BsonType, val : Int]
Document ==
  {doc \in SUBSET Node :
     /\ IsFiniteSet(doc)
     /\ \A m, n \in doc : m.path = n.path => m = n
     /\ \A n \in doc : Len(n.path) > 1 =>
          \E m \in doc : m.path = Front(n.path) /\ m.type \in Containers}

(* bson_iter_find_descendant and the BSON_ITER_HOLDS_ macros.              *)
Has(doc, path) == \E n \in doc : n.path = path
At(doc, path) == CHOOSE n \in doc : n.path = path
Holds(doc, path, type) == \E n \in doc : n.path = path /\ n.type = type

(* The document a node holds, with paths of its own: bson_iter_document,   *)
(* bson_iter_recurse.                                                      *)
Below(doc, path) ==
  {[n EXCEPT !.path = SubSeq(@, Len(path) + 1, Len(@))] :
     n \in {m \in doc : IsStrictPrefix(path, m.path)}}

Children(doc, path) ==
  {n \in doc : IsStrictPrefix(path, n.path) /\ Len(n.path) = Len(path) + 1}

(* BSON_APPEND_VALUE, _DOCUMENT and _ARRAY: a node and what it contains.   *)
Append_(path, type, val, doc) ==
  {Key(path, type, val)} \union {[n EXCEPT !.path = path \o @] : n \in doc}

(* bson_iter_as_bool, _as_double and _as_int64: any string is true, what   *)
(* has no value is false, and a double loses its fraction.                 *)
AsBool(n) == IF n.type = "utf8" \/ n.val # 0 THEN 1 ELSE 0
AsDouble(n) == IF n.type = "double" THEN n.val ELSE 2 * n.val
AsInt64(n) ==
  CASE n.type # "double" -> n.val
    [] n.type = "double" /\ n.val >= 0 -> n.val \div 2
    [] OTHER -> -((-n.val) \div 2)

(* What is there, and of which type, whatever the values are.              *)
Shape(doc) == {<<n.path, n.type>> : n \in doc}
=============================================================================
