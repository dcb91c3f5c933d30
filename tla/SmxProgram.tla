------------------------------ MODULE SmxProgram ------------------------------
(***************************************************************************)
(* A program from its configuration files to its nets and to the end: the  *)
(* main thread reads the application configuration, changes it by one list *)
(* of data maps after the other, reads the arguments and creates the nets, *)
(* each of which looks for its properties in the configuration             *)
(* (smx_program_init, smx_net_create).  The boxes of the nets use data     *)
(* maps of their own to bring a part of their configuration up to date     *)
(* with the messages they read; boxes are not part of src/, and theirs are *)
(* the actions the interface of smxconfig.h allows.  The threads of the    *)
(* nets are SmxStartup's.                                                  *)
(***************************************************************************)
EXTENDS SmxConfigMap

CONSTANTS
  Programs,     \* the programs considered: their files, [conf, files, args,
                \*   lists]
  NotGiven,     \* no arguments
  Nets,         \* the nets of a program: [index, id, impl, name], the id as
                \*   a number and as a key
  NetFiles,     \* the files a net configuration may name: number ->
                \*   [parses, doc], None if it cannot be opened; doc is what
                \*   was read
  Null,         \* what smx_net_create returns for a net it does not create
  Payloads,     \* the payloads of messages, None for no payload
  SrcPrefixes,  \* the source prefixes boxes set
  Garbage,      \* what an uninitialised type may hold
  MaxRounds,    \* bound: rounds of applying maps in a box
  MaxNets       \* SMX_MAX_NETS

(* What a program is given: the application configuration, None if it      *)
(* cannot be read; the map files, [maps, payload], None if unreadable; the *)
(* arguments, None if they cannot be parsed; and the lists of maps that    *)
(* its boxes use.                                                          *)
Program ==
  [conf : Document \union {None},
   files : Seq([maps : MapList \union {None}, payload : Document \union {None}]
                 \union {None}),
   args : Document \union {None, NotGiven},
   lists : SUBSET MapList]
ASSUME ProgramAssumption ==
  /\ MaxMapItems \in Nat \ {0} /\ MaxNets \in Nat
  /\ MaxRounds \in Nat
  /\ None \in Payloads
  /\ Programs \subseteq Program
  /\ Payloads \subseteq Document \union {None}
  /\ SrcPrefixes \subseteq Path
  /\ Nets \subseteq [index : Nat, id : STRING, impl : STRING, name : STRING]
  /\ \A name \in DOMAIN NetFiles :
       NetFiles[name] \in [parses : BOOLEAN, doc : Document] \union {None}

VARIABLES
  prog,    \* the program that runs
  pc,      \* what the main thread does
  conf,    \* tgt, then rts->conf
  loaded,  \* history: what garbage was for each map file applied so far
  maps,    \* the data maps applied last, or those of the box
  fields,  \* the list they were made of
  call,    \* history: what they were applied to last, and the result
  round,   \* how often the box has applied its maps
  args,    \* rts->args
  nets,    \* the nets: None before smx_net_create, Null if that returns NULL
  box      \* the net whose box the maps belong to, None for the main thread

vars == <<prog, pc, conf, loaded, maps, fields, call, round, args, nets, box>>

NoCall == [payload |-> None, before |-> {}, rc |-> "none"]

Init ==
  /\ prog \in Programs
  /\ pc = "conf" /\ conf = {} /\ loaded = <<>>
  /\ maps = None /\ fields = <<>> /\ call = NoCall /\ round = 0
  /\ args = None /\ box = None
  /\ nets = [n \in Nets |-> None]

-----------------------------------------------------------------------------
(* smx_program_init_conf: an error ends the program.                       *)
ReadConf ==
  LET good == /\ prog.conf # None
              /\ Holds(prog.conf, <<"_nets">>, "document")
              /\ Has(prog.conf, <<"_name">>)
  IN /\ pc = "conf"
     /\ pc' = IF good THEN "maps" ELSE "exit"
     /\ conf' = IF good THEN prog.conf ELSE {}
     /\ UNCHANGED <<prog, loaded, maps, fields, call, round, args, nets, box>>

(* smx_program_init_maps: whether a map file can be used.  A missing list  *)
(* of maps ends the program whatever the test of its type, which looks at  *)
(* an iterator that is not set, says: there is nothing to recurse into.    *)
Usable(f) == f # None /\ f.maps # None /\ f.payload # None

(* The loop of smx_program_init, for one map file: an error ends the       *)
(* program, otherwise the mapped payload is the configuration from here on *)
(* and the target of the next map file.                                    *)
ApplyMapFile ==
  LET f == prog.files[Len(loaded) + 1]
      Exit == pc' = "exit" /\ UNCHANGED <<maps, fields, call, conf, loaded>>
      Take(g, i, a) ==
        IF i.rc # "NO_ERROR" \/ a.rc # "NO_ERROR" THEN Exit
        ELSE /\ maps' = a.maps
             /\ fields' = f.maps
             /\ call' = [payload |-> f.payload, before |-> conf, rc |-> a.rc]
             /\ conf' = a.maps.mapped_payload
             /\ loaded' = Append(loaded, g)
             /\ UNCHANGED pc
      TakeMaps(g, i) == Take(g, i, Apply(i.maps, f.payload, 1))
  IN /\ pc = "maps" /\ Len(loaded) < Len(prog.files)
     /\ \/ ~Usable(f) /\ Exit
        \/ Usable(f) /\ \E g \in Garbage : TakeMaps(g, InitMaps(f.maps, conf, g))
     /\ UNCHANGED <<prog, round, args, nets, box>>

(* smx_program_init_args, after the last map file: the name of the         *)
(* program, copied before the map files were applied, is the experiment id *)
(* if the arguments have none.                                             *)
ReadArgs ==
  LET given == IF prog.args = NotGiven THEN {} ELSE prog.args
      id == <<"experiment_id">>
  IN /\ pc = "maps" /\ Len(loaded) = Len(prog.files)
     /\ maps' = None /\ fields' = <<>> /\ call' = NoCall
     /\ IF prog.args = None
        THEN pc' = "exit" /\ UNCHANGED args
        ELSE /\ pc' = "nets"
             /\ args' = IF Has(given, id)
                        THEN given
                        ELSE given \union
                               {Key(id, "utf8", At(prog.conf, <<"_name">>).val)}
     /\ UNCHANGED <<prog, conf, loaded, round, nets, box>>

-----------------------------------------------------------------------------
(* Where a net looks for a property, the most specific place first.        *)
Levels(n) ==
  <<<<"_nets", n.impl, n.name, n.id>>, <<"_nets", n.impl, n.name, "_default">>,
    <<"_nets", n.impl, "_default">>, <<"_nets", "_default">>>>

(* smx_net_get_boolean_prop, smx_net_get_int_prop, smx_net_get_string_prop:*)
(* an entry of another type is passed over.                                *)
NetProp(n, prop, type, default) ==
  LET at == {k \in 1 .. 4 : Holds(conf, Append(Levels(n)[k], prop), type)}
  IN IF at = {} THEN default
     ELSE At(conf, Append(Levels(n)[Min(at)], prop)).val

(* bson_json_reader_new_from_file: None if there is no such file.          *)
NetFile(name) == IF name \in DOMAIN NetFiles THEN NetFiles[name] ELSE None

(* smx_net_get_json_doc_item: a document, or the name of a file.  A file   *)
(* that cannot be parsed leaves the net with what was read of it.          *)
GetJsonDocItem(s, path) ==
  LET f == NetFile(At(conf, path).val)
  IN CASE Holds(conf, path, "document") ->
            [static_conf |-> Below(conf, path), rc |-> 0]
       [] Holds(conf, path, "utf8") /\ f # None ->
            [static_conf |-> f.doc, rc |-> IF f.parses THEN 0 ELSE -1]
       [] OTHER -> [s EXCEPT !.rc = -1]

(* Mutant: the net keeps the first configuration it has got, even if it    *)
(* could not be parsed.                                                    *)
GetJsonDocOnce(n) ==
  LET s[k \in 0 .. 4] ==
        CASE k = 0 -> [static_conf |-> None, rc |-> -1]
          [] k > 0 /\ s[k - 1].static_conf # None -> s[k - 1]
          [] OTHER -> GetJsonDocItem(s[k - 1], Append(Levels(n)[k], "config"))
  IN s[4]

(* smx_net_get_json_doc.                                                   *)
GetJsonDoc(n) ==
  LET s[k \in 0 .. 4] ==
        CASE k = 0 -> [static_conf |-> None, rc |-> -1]
          [] k > 0 /\ s[k - 1].rc = 0 -> s[k - 1]
          [] OTHER -> GetJsonDocItem(s[k - 1], Append(Levels(n)[k], "config"))
  IN s[4]

(* smx_net_create.                                                         *)
CreateNet(n) ==
  /\ pc = "nets" /\ nets[n] = None
  /\ nets' = [nets EXCEPT ![n] =
       IF n.index >= MaxNets THEN Null
       ELSE [static_conf |-> GetJsonDoc(n).static_conf,
             has_profiler |-> NetProp(n, "profiler", "bool", 0),
             has_type_filter |-> NetProp(n, "type_filter", "bool", 0),
             is_disabled |-> NetProp(n, "is_disabled", "bool", 0),
             conf_port_name |-> NetProp(n, "dyn_conf_port", "utf8", None),
             conf_port_timeout |-> NetProp(n, "dyn_conf_timeout", "int32", 0),
             expected_rate |-> NetProp(n, "expected_rate", "int32", 0),
             shared_state_key |-> NetProp(n, "shared_state_key", "utf8", None)]]
  /\ UNCHANGED <<prog, pc, conf, loaded, maps, fields, call, round, args, box>>

(* The nets have been created and their threads started.                   *)
StartNets ==
  /\ pc = "nets" /\ \A n \in Nets : nets[n] # None
  /\ pc' = "run"
  /\ UNCHANGED <<prog, conf, loaded, maps, fields, call, round, args, nets, box>>

-----------------------------------------------------------------------------
(* A box makes data maps for the configuration of its net.                 *)
BoxInit(n) ==
  \E f \in prog.lists, g \in Garbage :
    LET i == InitMaps(f, nets[n].static_conf, g)
    IN /\ pc = "run" /\ box = None /\ round = 0
       /\ nets[n] # Null /\ nets[n].static_conf # None
       /\ i.rc = "NO_ERROR"
       /\ box' = n
       /\ maps' = i.maps
       /\ fields' = f
       /\ UNCHANGED <<prog, pc, conf, loaded, call, round, args, nets>>

(* A box applies its maps to the payload of a message.                     *)
BoxApply ==
  \E p \in Payloads :
    LET a == Apply(maps, p, round + 1)
    IN /\ box # None /\ round < MaxRounds
       /\ maps' = a.maps
       /\ round' = round + 1
       /\ call' = [payload |-> p, before |-> maps.mapped_payload, rc |-> a.rc]
       /\ UNCHANGED <<prog, pc, conf, loaded, fields, args, nets, box>>

(* A box gives a map a payload of its own, or changes it.                  *)
BoxSetPayload ==
  \E i \in 1 .. MaxMapItems, p \in Payloads \ {None} :
    /\ box # None /\ i \in DOMAIN maps.items
    /\ maps' = [maps EXCEPT !.items[i].src_payload = p]
    /\ call' = NoCall
    /\ UNCHANGED <<prog, pc, conf, loaded, fields, round, args, nets, box>>

(* smx_config_data_map_init_src_prefix, for the map with a key             *)
(* (smx_config_data_maps_get_map_by_key).                                  *)
BoxSetPrefix ==
  \E k \in {fields[i].key : i \in DOMAIN fields}, prefix \in SrcPrefixes :
    LET i == MapByKey(maps, k)
    IN /\ box # None /\ k # None /\ i # 0
       /\ maps' = [maps EXCEPT !.items[i].src_prefix = prefix]
       /\ call' = NoCall
       /\ UNCHANGED <<prog, pc, conf, loaded, fields, round, args, nets, box>>

(* smx_config_data_maps_cleanup, when the net of the box ends.             *)
BoxCleanup ==
  /\ box # None
  /\ maps' = None /\ fields' = <<>> /\ call' = NoCall /\ box' = None
  /\ round' = MaxRounds + 1
  /\ UNCHANGED <<prog, pc, conf, loaded, args, nets>>

(* smx_net_destroy of every net, and smx_program_cleanup.                  *)
Cleanup ==
  /\ pc = "run" /\ box = None
  /\ pc' = "end"
  /\ nets' = [n \in Nets |-> Null]
  /\ conf' = {} /\ args' = None
  /\ UNCHANGED <<prog, loaded, maps, fields, call, round, box>>

Next ==
  \/ ReadConf \/ ApplyMapFile \/ ReadArgs \/ StartNets
  \/ \E n \in Nets : CreateNet(n) \/ BoxInit(n)
  \/ BoxApply \/ BoxSetPayload \/ BoxSetPrefix \/ BoxCleanup
  \/ Cleanup

Spec == Init /\ [][Next]_vars

-----------------------------------------------------------------------------
(* The maps with payloads of their own are the last of the list.  The code *)
(* keeps the payload of such a map for all maps behind it, and so does not *)
(* look at the message for any of those.                                   *)
OwnPayloadsLast(m) ==
  \A i, j \in DOMAIN m.items :
    i < j /\ m.items[i].src_payload # None => m.items[j].src_payload # None

(* After every application of data maps, be it to the program's            *)
(* configuration or in a box, for the first or for the third time, the     *)
(* mapped payload is what the list of maps says of the last payload, if no *)
(* map without a payload stands behind one with its own.  Nothing an       *)
(* earlier payload left shows, but in targets whose maps have no payload   *)
(* at all this time: the basic mode leaves those alone.                    *)
MappedByLastPayload ==
  (call.rc # "none" /\ OwnPayloadsLast(maps)) =>
    maps.mapped_payload = Expected(maps, call.payload, call.before)

(* A list of maps that is applied in the basic mode.                       *)
Basic(list, doc) ==
  \A i \in DOMAIN list, o \in UNION {DOMAIN list[k].tgt : k \in DOMAIN list} :
    o \in DOMAIN list[i].tgt =>
      /\ list[i].tgt[o].type = None
      /\ At(doc, list[i].tgt[o].path).type \in BasicType

(* Maps in the basic mode change values and nothing else: the program's    *)
(* configuration keeps every key and type, so that no net finds a property *)
(* at another level than in the file, and the targets of a box's maps stay *)
(* where their iterators point.                                            *)
ShapeKept ==
  /\ (maps # None /\ ~maps.is_extended) =>
       Shape(maps.mapped_payload) = Shape(maps.tgt_payload)
  /\ (pc \in {"maps", "nets", "run"}
       /\ \A k \in DOMAIN loaded : Basic(prog.files[k].maps, prog.conf)) =>
       Shape(conf) = Shape(prog.conf)

(* When maps in the basic mode have been applied and no error returned,    *)
(* the source iterator of every map that was applied is of this round: a   *)
(* box that goes on to use it (is_src_iter_set is never reset) does not    *)
(* look into the payload of an earlier message.                            *)
SrcIterFresh ==
  (call.rc = "NO_ERROR" /\ ~maps.is_extended) =>
    \A i \in Applies(maps, call.payload) :
      maps.items[i].src_iter = IF box = None THEN 1 ELSE round

(* The type option of a map decides its type, before or after the path in  *)
(* the target's document; without one the type is that of the target.      *)
ExplicitTypeWins ==
  maps # None =>
    \A i \in DOMAIN maps.items :
      LET options == {fields[i].tgt[o] : o \in DOMAIN fields[i].tgt}
          type == {o.type : o \in options} \ {None}
          tgt == At(maps.tgt_payload, maps.items[i].tgt_path).type
      IN CASE type # {} -> maps.items[i].type \in type
           [] type = {} /\ tgt \in MapType -> maps.items[i].type = tgt
           [] OTHER -> maps.items[i].type \in Garbage

(* The configuration as the files make it, by the expectation of a reader  *)
(* of their maps.                                                          *)
ConfOfFiles ==
  LET c[k \in 0 .. Len(loaded)] ==
        IF k = 0 THEN prog.conf
        ELSE Expected(InitMaps(prog.files[k].maps, c[k - 1], loaded[k]).maps,
                      prog.files[k].payload, c[k - 1])
  IN c[Len(loaded)]

(* The configuration of a net is the most specific one in these files that *)
(* can be loaded.  If none can, it is what could be read of a broken file, *)
(* of the least specific one, and only without those there is none.        *)
(* Whether the net is disabled is said by the most specific level that     *)
(* says so.                                                                *)
Follows(n, files) ==
  LET Entry(k, prop) == {m \in files : m.path = Append(Levels(n)[k], prop)}
      ConfigIn(m) == IF m.type = "document" THEN Below(files, m.path)
                     ELSE NetFile(m.val).doc
      Loaded(k) == {m \in Entry(k, "config") :
                      \/ m.type = "document"
                      \/ /\ m.type = "utf8" /\ NetFile(m.val) # None
                         /\ NetFile(m.val).parses}
      Broken(k) == {m \in Entry(k, "config") :
                      /\ m.type = "utf8" /\ NetFile(m.val) # None
                      /\ ~NetFile(m.val).parses}
      Saying(k) == {m \in Entry(k, "is_disabled") : m.type = "bool"}
      conf_of == nets[n].static_conf
  IN /\ \A k \in 1 .. 4 : (\A j \in 1 .. k - 1 : Loaded(j) = {}) =>
          \A m \in Loaded(k) : conf_of = ConfigIn(m)
     /\ (\A k \in 1 .. 4 : Loaded(k) = {}) =>
          /\ \A k \in 1 .. 4 : (\A j \in k + 1 .. 4 : Broken(j) = {}) =>
               \A m \in Broken(k) : conf_of = ConfigIn(m)
          /\ (\A k \in 1 .. 4 : Broken(k) = {}) => conf_of = None
     /\ nets[n].is_disabled = 1 <=>
          \E k \in 1 .. 4 : /\ \A j \in 1 .. k - 1 : Saying(j) = {}
                            /\ \E m \in Saying(k) : m.val = 1

AllFollow(files) ==
  \A n \in Nets : nets[n] \notin {None, Null} => Follows(n, files)

(* Every net is created from all map files in their order, and from the    *)
(* rest of a file that could not be parsed only when there is nothing else.*)
NetsFollowFiles == pc = "nets" => AllFollow(ConfOfFiles)
=============================================================================
