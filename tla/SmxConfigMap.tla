----------------------------- MODULE SmxConfigMap -----------------------------
(***************************************************************************)
(* Configuration data maps (smxconfig.c): a list of maps, each of which    *)
(* takes a value from a source document, the payload, to a place in a      *)
(* target document.  smx_config_data_maps_init reads the list,             *)
(* smx_config_data_maps_apply brings the mapped payload up to date, either *)
(* in the basic mode, where each map overwrites its value in place, or in  *)
(* the extended mode, where the mapped payload is built anew along the     *)
(* target document.                                                        *)
(***************************************************************************)
EXTENDS SmxBson, FiniteSetsExt

CONSTANTS
  None,        \* NULL: no key, no path, no payload
  NoDocument,  \* an entry of a list of maps that is no document
  MaxMapItems  \* SMX_CONFIG_MAX_MAP_ITEMS

(* A map as it is written: its key and source path or None, and its target *)
(* as the sequence of options of a target document, of which the short     *)
(* form, a string, is one "path".                                          *)
PathOption(path) == [path |-> path, type |-> None]
TypeOption(type) == [path |-> None, type |-> type]
Field(key, src, tgt) == [key |-> key, src |-> src, tgt |-> tgt]

(* The lists of maps: an option is one of the two, and a target has each   *)
(* at most once.                                                           *)
Option ==
  {o \in [path : Path \union {None}, type : STRING \union {None}] :
     o.path = None <=> o.type # None}
MapField ==
  {f \in [key : STRING \union {None}, src : Path \union {None},
          tgt : Seq(Option)] :
     \A i, j \in DOMAIN f.tgt :
       (\/ f.tgt[i].path # None /\ f.tgt[j].path # None
        \/ f.tgt[i].type # None /\ f.tgt[j].type # None) => i = j}
MapList == Seq(MapField \union {NoDocument})

MapType == {"bool", "int32", "int64", "double", "utf8", "oid", "array",
            "document"}
BasicType == {"bool", "int32", "int64", "double"}

(* smx_config_data_map_init, its first part; src_iter is the round of      *)
(* applying in which the iterator was set, 0 for none.                     *)
NewItem ==
  [key |-> None, src_path |-> None, src_prefix |-> <<>>, tgt_path |-> None,
   src_payload |-> None, type |-> "undefined", fallback |-> 0, src_iter |-> 0]

(* Mutant: the type of the target replaces the type option before it.      *)
ItemTypeOfTarget(type, tgt, garbage) ==
  IF tgt.type \in MapType THEN tgt.type ELSE garbage

(* The type of a map with the given target, when it may have one already.  *)
ItemType(type, tgt, garbage) ==
  CASE type # "undefined" -> type
    [] type = "undefined" /\ tgt.type \in MapType -> tgt.type
    [] OTHER -> garbage

(* smx_config_data_map_init_tgt_utf8.  The local variable type is not      *)
(* initialised, and is not assigned when the target is of a type that is   *)
(* not listed: garbage is what it holds then.                              *)
InitTgtPath(s, data, path, garbage) ==
  LET tgt == At(data, path)
  IN IF ~Has(data, path)
     THEN [item |-> [s.item EXCEPT !.tgt_path = path],
           is_extended |-> s.is_extended, rc |-> "MISSING_TGT_KEY"]
     ELSE [item |-> [s.item EXCEPT
                       !.tgt_path = path,
                       !.fallback = IF tgt.type \in BasicType THEN tgt.val ELSE @,
                       !.type = ItemType(@, tgt, garbage)],
           is_extended |-> s.is_extended \/ tgt.type \notin BasicType,
           rc |-> "NO_ERROR"]

(* smx_config_data_map_init_tgt_doc, an option of it.                      *)
InitTgtOption(s, data, option, garbage) ==
  CASE s.rc # "NO_ERROR" -> s
    [] s.rc = "NO_ERROR" /\ option.path # None ->
         InitTgtPath(s, data, option.path, garbage)
    [] OTHER ->
         IF option.type \in MapType
         THEN [item |-> [s.item EXCEPT !.type = option.type],
               is_extended |-> TRUE, rc |-> "NO_ERROR"]
         ELSE [item |-> s.item,
               is_extended |-> TRUE, rc |-> "BAD_TYPE_OPTION"]

(* smx_config_data_map_init_tgt_doc: one option after the other.           *)
InitTgt(start, data, tgt, garbage) ==
  LET s[k \in 0 .. Len(tgt)] ==
        IF k = 0 THEN start
        ELSE InitTgtOption(s[k - 1], data, tgt[k], garbage)
  IN s[Len(tgt)]

(* smx_config_data_map_init: the item of a map, whether it calls for the   *)
(* extended mode, and the error.                                           *)
InitItem(data, field, garbage) ==
  LET start == [item |-> [NewItem EXCEPT !.src_path = field.src,
                                         !.key = field.key],
                is_extended |-> FALSE, rc |-> "NO_ERROR"]
      s == InitTgt(start, data, field.tgt, garbage)
  IN CASE s.rc # "NO_ERROR" -> s
       [] s.rc = "NO_ERROR" /\ s.item.src_path = None ->
            [s EXCEPT !.rc = "MISSING_SRC_DEF"]
       [] s.rc = "NO_ERROR" /\ s.item.src_path # None
            /\ s.item.tgt_path = None ->
            [s EXCEPT !.rc = "MISSING_TGT_DEF"]
       [] OTHER -> s

(* smx_config_data_maps_init, an entry of the list: what went wrong before *)
(* it ends the list.                                                       *)
InitMap(s, field, garbage) ==
  LET i == InitItem(s.maps.mapped_payload, field, garbage)
  IN CASE s.rc # "NO_ERROR" -> s
       [] s.rc = "NO_ERROR" /\ Len(s.maps.items) >= MaxMapItems ->
            [s EXCEPT !.rc = "MAP_COUNT_EXCEEDED"]
       [] s.rc = "NO_ERROR" /\ Len(s.maps.items) < MaxMapItems
            /\ field = NoDocument ->
            [s EXCEPT !.rc = "BAD_MAP_TYPE"]
       [] OTHER ->
            [maps |-> [s.maps EXCEPT
                         !.items = IF i.rc = "NO_ERROR"
                                   THEN Append(@, i.item) ELSE @,
                         !.is_extended = @ \/ i.is_extended],
             rc |-> i.rc]

(* smx_config_data_maps_init.                                              *)
InitMaps(fields, data, garbage) ==
  LET start == [maps |-> [items |-> <<>>, is_extended |-> FALSE,
                          tgt_payload |-> data, mapped_payload |-> data],
                rc |-> "NO_ERROR"]
      s[k \in 0 .. Len(fields)] ==
        IF k = 0 THEN start ELSE InitMap(s[k - 1], fields[k], garbage)
      last == s[Len(fields)]
  IN IF last.rc = "NO_ERROR" /\ last.maps.items = <<>>
     THEN [last EXCEPT !.rc = "NO_MAP_ITEM"]
     ELSE last

-----------------------------------------------------------------------------
(* The payload of the i-th map when the maps are applied to payload: once  *)
(* a map has a payload of its own, src_payload_item keeps it for the maps  *)
(* after it.                                                               *)
PayloadOf(maps, i, payload) ==
  LET own == {j \in 1 .. i : maps.items[j].src_payload # None}
  IN IF own = {} THEN payload ELSE maps.items[Max(own)].src_payload

(* A map without payload is passed over.                                   *)
Applies(maps, payload) ==
  {i \in DOMAIN maps.items : PayloadOf(maps, i, payload) # None}

(* The source path with the prefix; ".", the Root, stands for the whole    *)
(* payload and is compared without prefix.                                 *)
SourcePath(item) == item.src_prefix \o item.src_path

(* The smx_config_data_map_can_write_ functions.                           *)
CanWrite(type, src) ==
  CASE type = "bool" -> src.type \in BasicType \union {"utf8", "null"}
    [] type \in {"double", "int64"} -> src.type \in BasicType
    [] OTHER -> src.type = "int32"

Converted(type, src) ==
  CASE type = "bool" -> AsBool(src)
    [] type = "double" -> AsDouble(src)
    [] type = "int64" -> AsInt64(src)
    [] OTHER -> src.val

(* Mutant: the target keeps the value an earlier payload has given it.     *)
ResetKeeps(item, tgt) == tgt.val

(* What the target is set back to before its source is looked for.         *)
Reset(item, tgt) == item.fallback

(* Mutant: the result is that of the last map.                             *)
LastErrorOfLast(err, rc) == rc

(* The result after one more map: the last error.                          *)
LastError(err, rc) == IF rc = "NO_ERROR" THEN err ELSE rc

(* smx_config_data_maps_apply_base: the target is set back to its fallback *)
(* and then overwritten in place, if the source is there and of a type     *)
(* that can be written.                                                    *)
ApplyBase(s, i, payload, round) ==
  LET item == s.maps.items[i]
      doc == PayloadOf(s.maps, i, payload)
      found == Has(doc, SourcePath(item))
      src == At(doc, SourcePath(item))
      tgt == At(s.maps.mapped_payload, item.tgt_path)
      val == IF found /\ CanWrite(tgt.type, src)
             THEN Converted(tgt.type, src) ELSE Reset(item, tgt)
  IN IF item.src_path = Root
     THEN [s EXCEPT !.rc = LastError(@, "BAD_ROOT_TYPE")]
     ELSE [maps |-> [s.maps EXCEPT
             !.mapped_payload = (@ \ {tgt}) \union {[tgt EXCEPT !.val = val]},
             !.items[i].src_iter = IF found THEN round ELSE @],
           rc |-> LastError(s.rc, IF found THEN "NO_ERROR"
                                  ELSE "MISSING_SRC_KEY")]

(* smx_config_data_maps_apply in the basic mode: the last error is         *)
(* returned, after all maps have been applied.                             *)
ApplyAllBase(maps, payload, round) ==
  LET s[i \in 0 .. Len(maps.items)] ==
        CASE i = 0 -> [maps |-> maps, rc |-> "NO_ERROR"]
          [] i > 0 /\ i \in Applies(maps, payload) ->
               ApplyBase(s[i - 1], i, payload, round)
          [] OTHER -> s[i - 1]
  IN s[Len(maps.items)]

-----------------------------------------------------------------------------
(* smx_config_data_map_append_val, from where the source is found: what is *)
(* appended at path for a source of the document doc.  A source that does  *)
(* not fit the type appends nothing, and the key is gone.                  *)
Appended(type, path, src, doc) ==
  LET whole == Append_(path, src.type, src.val, Below(doc, src.path))
      fits ==
        CASE type = "utf8" -> src.type \in {"utf8", "oid"}
          [] type = "oid" -> src.type \in {"utf8", "oid"}
          [] type \in BasicType -> CanWrite(type, src)
          [] type \in Containers -> src.type = type
          [] OTHER -> FALSE
  IN CASE type = "undefined" -> whole
       [] type \in Containers /\ fits -> whole
       [] type \in BasicType /\ fits -> {Key(path, type, Converted(type, src))}
       [] type \in {"utf8", "oid"} /\ fits -> {Key(path, type, src.val)}
       [] OTHER -> {}

(* smx_config_data_map_append_val: the first map of the list that has a    *)
(* payload and this target decides, even if its source is missing.         *)
AppendVal(maps, path, payload) ==
  LET mine == {i \in Applies(maps, payload) : maps.items[i].tgt_path = path}
      i == Min(mine)
      item == maps.items[i]
      doc == PayloadOf(maps, i, payload)
      missing == [rc |-> "MISSING_SRC_KEY", doc |-> {}, set |-> {}]
  IN CASE mine = {} -> [missing EXCEPT !.rc = "MISSING_TGT_KEY"]
       [] mine # {} /\ item.src_path = Root ->
            [rc |-> "NO_ERROR", doc |-> Append_(path, "document", 0, doc),
             set |-> {}]
       [] mine # {} /\ item.src_path # Root /\ ~Has(doc, SourcePath(item)) ->
            missing
       [] OTHER ->
            [rc |-> "NO_ERROR",
             doc |-> Appended(item.type, path, At(doc, SourcePath(item)), doc),
             set |-> {i}]

(* smx_config_data_maps_apply_ext_iter: what is built for the children of  *)
(* the target at path, and the maps whose iterator is set on the way.      *)
ApplyExtIter(maps, payload) ==
  LET tgt == maps.tgt_payload
      Built(sub, n) ==
        LET val == AppendVal(maps, n.path, payload)
        IN CASE val.rc = "NO_ERROR" -> val
             [] val.rc # "NO_ERROR" /\ n.type \in Containers ->
                  [val EXCEPT !.doc = {n} \union sub.doc, !.set = sub.set]
             [] OTHER -> [val EXCEPT !.doc = {n}]
      iter[path \in {Root} \union {n.path : n \in tgt}] ==
        LET all == {Built(iter[n.path], n) : n \in Children(tgt, path)}
        IN [doc |-> UNION {b.doc : b \in all}, set |-> UNION {b.set : b \in all}]
  IN iter[Root]

(* smx_config_data_maps_apply_ext: the result of the walk is 0 whatever it *)
(* met.                                                                    *)
ApplyExt(maps, payload, round) ==
  LET built == ApplyExtIter(maps, payload)
  IN [maps |-> [maps EXCEPT
        !.mapped_payload = built.doc,
        !.items = [i \in DOMAIN @ |->
                     IF i \in built.set
                     THEN [@[i] EXCEPT !.src_iter = round] ELSE @[i]]],
      rc |-> "NO_ERROR"]

(* Mutant: the extended mode whatever the maps need.                       *)
ApplyExtended(maps, payload, round) == ApplyExt(maps, payload, round)

(* smx_config_data_maps_apply.                                             *)
Apply(maps, payload, round) ==
  IF maps.is_extended
  THEN ApplyExt(maps, payload, round)
  ELSE ApplyAllBase(maps, payload, round)

(* smx_config_data_maps_get_map_by_key: the first item with the key, 0 for *)
(* NULL.                                                                   *)
MapByKey(maps, key) ==
  LET found == {i \in DOMAIN maps.items :
                  maps.items[i].key # None /\ maps.items[i].key = key}
  IN IF found = {} THEN 0 ELSE Min(found)

-----------------------------------------------------------------------------
(* The mapped payload that a reader of the list of maps expects for a      *)
(* payload, node by node of the target document, whatever was mapped       *)
(* before.  A map is fed with its own payload or else with the message's.  *)
FedWith(item, payload) == IF item.src_payload # None THEN item.src_payload
                                                     ELSE payload

(* The maps to path, and those of them that have something to map.         *)
MapsTo(maps, path) == {i \in DOMAIN maps.items : maps.items[i].tgt_path = path}
FedMaps(maps, path, payload) ==
  {i \in MapsTo(maps, path) : FedWith(maps.items[i], payload) # None}

(* The node a map takes, if it is there.                                   *)
Sources(item, payload) ==
  {m \in FedWith(item, payload) : m.path = SourcePath(item)}

(* In the basic mode the last map that is fed decides: its source, if the  *)
(* target can hold it, or else the target's own value.  Where none of the  *)
(* maps is fed the target keeps the value it had before, and what no map   *)
(* gives a value to stays as it is in the target document.                 *)
ExpectedBase(maps, payload, before) ==
  LET Mapped(p) == {i \in MapsTo(maps, p) : maps.items[i].src_path # Root}
      Fed(p) == Mapped(p) \intersect FedMaps(maps, p, payload)
      Given(n) == {Converted(n.type, m) :
                     m \in {src \in Sources(maps.items[Max(Fed(n.path))], payload) :
                              CanWrite(n.type, src)}}
      Val(n) == CASE Mapped(n.path) = {} -> n.val
                  [] Mapped(n.path) # {} /\ Fed(n.path) = {} ->
                       At(before, n.path).val
                  [] OTHER -> IF Given(n) = {} THEN n.val
                              ELSE CHOOSE val \in Given(n) : TRUE
  IN {[n EXCEPT !.val = Val(n)] : n \in maps.tgt_payload}

(* In the extended mode the first map that is fed decides.  If its source  *)
(* is there it takes the place of the target and of all below it, unless   *)
(* something above the target is replaced already; if not, or without such *)
(* a map, the target stays as it is.                                       *)
ExpectedExt(maps, payload) ==
  LET Decides(p) == maps.items[Min(FedMaps(maps, p, payload))]
      Replaced(p) == /\ FedMaps(maps, p, payload) # {}
                     /\ \/ Decides(p).src_path = Root
                        \/ Sources(Decides(p), payload) # {}
      Replacement(p) ==
        LET item == Decides(p)
            doc == FedWith(item, payload)
        IN IF item.src_path = Root THEN Append_(p, "document", 0, doc)
           ELSE UNION {Appended(item.type, p, m, doc) : m \in Sources(item, payload)}
      Hidden(p) == \E k \in 1 .. Len(p) - 1 : Replaced(SubSeq(p, 1, k))
  IN UNION {IF Replaced(n.path) THEN Replacement(n.path) ELSE {n} :
              n \in {m \in maps.tgt_payload : ~Hidden(m.path)}}

Expected(maps, payload, before) ==
  IF maps.is_extended THEN ExpectedExt(maps, payload)
                      ELSE ExpectedBase(maps, payload, before)
=============================================================================
