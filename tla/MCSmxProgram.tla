----------------------------- MODULE MCSmxProgram -----------------------------
(* SmxProgram with small files: one net implementation with three          *)
(* instances, the last of which has no place among MaxNets nets, and maps  *)
(* over values that do and do not fit.                                     *)
EXTENDS SmxProgram

Doc(path) == Key(path, "document", 0)

(* {"_name": .., "_nets": {"_default": {"is_disabled": false},             *)
(*   "a": {"_default": {"config": ..}, "n": {"1": {..}}}}}                 *)
AppConf ==
  {Key(<<"_name">>, "utf8", 7), Doc(<<"_nets">>), Doc(<<"_nets", "_default">>),
   Key(<<"_nets", "_default", "is_disabled">>, "bool", 0),
   Doc(<<"_nets", "a">>), Doc(<<"_nets", "a", "_default">>),
   Doc(<<"_nets", "a", "_default", "config">>),
   Key(<<"_nets", "a", "_default", "config", "x">>, "int32", 4),
   Key(<<"_nets", "a", "_default", "config", "y">>, "double", 3),
   Doc(<<"_nets", "a", "_default", "config", "d">>),
   Key(<<"_nets", "a", "_default", "config", "d", "z">>, "bool", 0),
   Key(<<"_nets", "a", "_default", "config", "d", "w">>, "null", 0),
   Doc(<<"_nets", "a", "n">>), Doc(<<"_nets", "a", "n", "1">>),
   Key(<<"_nets", "a", "n", "1", "config">>, "utf8", 1),
   Key(<<"_nets", "a", "n", "1", "is_disabled">>, "bool", 1)}

(* No level has a configuration that can be loaded: one or two levels name *)
(* a file that breaks off.                                                 *)
BrokenConf == {n \in AppConf : \A i \in DOMAIN n.path :
                 n.path[i] = "config" => n.path = <<"_nets", "a", "n", "1", "config">>}
BrokenConfs ==
  {BrokenConf, BrokenConf \union {Key(<<"_nets", "_default", "config">>, "utf8", 4)}}

(* No _name, and _nets of another type.                                    *)
BadConfs == {{Doc(<<"_nets">>)},
             {Key(<<"_nets">>, "int32", 1), Key(<<"_name">>, "utf8", 7)}}

PathTo(p) == <<PathOption(p)>>

(* Map files: one in the basic mode, that disables nets at two levels; one *)
(* whose sources are missing; two in the extended mode, that give the net  *)
(* another configuration, a document or another file; and broken ones.     *)
Disable == <<"_nets", "_default", "is_disabled">>
DisableOne == <<"_nets", "a", "n", "1", "is_disabled">>
Config == <<"_nets", "a", "_default", "config">>
ConfigOne == <<"_nets", "a", "n", "1", "config">>
FilePayload == {Key(<<"on">>, "int32", 1), Key(<<"off">>, "bool", 0),
                Key(<<"f">>, "utf8", 2), Doc(<<"c">>), Key(<<"c", "x">>, "int32", 9)}

Base == [maps |-> <<Field(None, <<"on">>, PathTo(Disable)),
                    Field(None, <<"off">>, PathTo(DisableOne))>>,
         payload |-> FilePayload]
Missing == [maps |-> <<Field(None, <<"gone">>, PathTo(Disable)),
                       Field(None, <<"off">>, PathTo(DisableOne))>>,
            payload |-> FilePayload]
OtherFile == [maps |-> <<Field(None, <<"f">>, PathTo(ConfigOne))>>,
              payload |-> FilePayload]
Replaced == [maps |-> <<Field(None, <<"c">>, <<TypeOption("document"),
                                               PathOption(ConfigOne)>>),
                        Field(None, <<"on">>, PathTo(Append(Config, "x")))>>,
             payload |-> FilePayload]
Copied == [maps |-> <<Field(None, <<"c">>, PathTo(Config)),
                      Field(None, <<"gone">>, PathTo(ConfigOne))>>,
           payload |-> FilePayload]
BadFiles == {None, [maps |-> None, payload |-> FilePayload],
             [maps |-> <<NoDocument>>, payload |-> FilePayload]}
GoodFiles == {Base, Missing, OtherFile, Replaced, Copied}

MCArgs == {NotGiven, None, {}, {Key(<<"experiment_id">>, "utf8", 8)}}

MCNets == {[index |-> 0, id |-> "0", impl |-> "a", name |-> "n"],
           [index |-> 1, id |-> "1", impl |-> "a", name |-> "n"],
           [index |-> 2, id |-> "2", impl |-> "a", name |-> "n"]}

(* The first file breaks off and so does the fourth, the second is whole,  *)
(* the third is not there.                                                 *)
MCNetFiles ==
  <<[parses |-> FALSE, doc |-> {Key(<<"x">>, "int32", 5)}],
    [parses |-> TRUE, doc |-> {Key(<<"x">>, "int32", 6), Key(<<"y">>, "double", 1)}],
    None,
    [parses |-> FALSE, doc |-> {Key(<<"y">>, "double", 7)}]>>

(* The lists of maps a box may have: pairs of maps from these.             *)
X == <<"x">>
Y == <<"y">>
Z == <<"d", "z">>
D == <<"d">>
K == Field("k", <<"s">>, PathTo(X))
BoxFields ==
  {K, Field(None, <<"t">>, PathTo(X)),
   Field("l", <<"t">>, PathTo(Z)), Field(None, Root, PathTo(D)),
   Field(None, <<"t">>, <<PathOption(Z), TypeOption("utf8")>>),
   Field(None, <<"t">>, PathTo(<<"d", "w">>))}
OtherFields ==
  {Field(None, <<"s">>, PathTo(Y)),
   Field(None, <<"s">>, <<TypeOption("int64"), PathOption(X)>>),
   Field(None, <<"s">>, PathTo(<<"gone">>)), Field(None, <<"s">>, <<>>),
   Field(None, None, PathTo(X)),
   Field(None, <<"s">>, <<TypeOption("text"), PathOption(X)>>)}

MCPayloads ==
  {None, {Key(<<"s">>, "int32", 2), Key(<<"t">>, "bool", 1)},
   {Key(<<"s">>, "double", -3), Key(<<"t">>, "utf8", 5)},
   {Key(<<"t">>, "int32", 8), Doc(<<"p">>), Key(<<"p", "s">>, "int64", 1)}}

MCPrefixes == {<<"p">>}

(* Programs that are about their files, and one whose boxes use maps.      *)
Pairs(S) == {<<f, g>> : f \in S, g \in S}
FilePrograms ==
  [conf : {AppConf, None} \union BadConfs,
   files : {<<>>} \union {<<f>> : f \in BadFiles \union GoodFiles}
             \union Pairs(GoodFiles) \union {<<Base, Replaced, Copied>>},
   args : MCArgs, lists : {{}}]
BoxPrograms ==
  [conf : {AppConf}, files : {<<>>}, args : {NotGiven},
   lists : {Pairs(BoxFields) \union {<<K, f>> : f \in OtherFields}
              \union {<<f>> : f \in OtherFields}
              \union {<<>>, <<NoDocument>>, <<K, K, K>>}}]
BrokenPrograms ==
  [conf : BrokenConfs, files : {<<>>, <<Base>>, <<OtherFile>>},
   args : {NotGiven}, lists : {{}}]
MCPrograms == FilePrograms \union BoxPrograms \union BrokenPrograms
MCGarbage == {"undefined", "utf8", "other"}
=============================================================================
