---------------------------- MODULE MCSmxStartup ----------------------------
(* SmxStartup with the programs the runs look at.                          *)
EXTENDS SmxStartup

RolesOf(disabled, static, keys, from, timeouts, filters, sends, fails) ==
  [disabled : disabled, static : static, key : keys, from : from,
   timeout : timeouts, filter : filters, sends : sends, fails : fails]

(* Nets with shared states, some of them disabled or unconfigured.         *)
SharingPrograms ==
  [Nets -> {r \in RolesOf(BOOLEAN, BOOLEAN, Keys \union {None}, {None},
                          {FALSE}, {FALSE}, {FALSE}, {{}, {"init_shared"}}) :
              /\ r.disabled => r.static
              /\ r.disabled \/ r.key = None => r.fails = {}}]

(* Nets that wait for one another's configuration, at most one of them     *)
(* with a type filter and at most one of them with a step that fails.      *)
ConfigPrograms ==
  {p \in [Nets -> RolesOf({FALSE}, {TRUE}, {None}, Nets \union {None}, BOOLEAN,
                          BOOLEAN, BOOLEAN, {{}, {"init"}, {"parse"}, {"port"}})] :
     /\ Cardinality({n \in Nets : p[n].filter}) <= 1
     /\ Cardinality({n \in Nets : p[n].fails # {}}) <= 1
     /\ \A n \in Nets :
          /\ p[n].from # n
          /\ p[n].from = None => p[n].timeout /\ p[n].fails \notin {{"parse"}, {"port"}}
          /\ p[n].filter => p[n].from # None /\ p[n].fails = {}
          /\ p[n].fails = {"port"} => p[n].timeout
          /\ p[n].sends => \E m \in Nets : p[m].from = n}

AllPrograms == SharingPrograms \union ConfigPrograms

(* Two nets with the same key, where init_shared may fail.                 *)
FailingPrograms ==
  [Nets -> RolesOf({FALSE}, {TRUE}, Keys, {None}, {FALSE}, {FALSE}, {FALSE},
                   {{}, {"init_shared"}})]
=============================================================================
