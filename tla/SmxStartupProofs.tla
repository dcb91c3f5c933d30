--------------------------- MODULE SmxStartupProofs ---------------------------
(***************************************************************************)
(* The start of any number of nets with any roles: the barriers keep its   *)
(* phases apart, nets with one key share one state, and a net that runs is *)
(* configured.                                                             *)
(***************************************************************************)
EXTENDS SmxStartup, FiniteSetTheorems, TLAPS

(* The nets that have come to the first and to the second barrier.         *)
Arriving == {"done", "run", "ended"}
CameToFirst == {n \in Nets : pc[n] \notin Allocating}
CameToSecond == {n \in Nets : pc[n] \in Arriving}

Typed ==
  /\ role \in Programs
  /\ pc \in [Nets -> Pc]
  /\ failed \subseteq Nets
  /\ mutex \in Nets \union {None}
  /\ arrived \in [{"pre_init_done", "init_done"} -> Nat]
  /\ states \in Seq([key : Keys, state : Nets \union {None}])
  /\ shared \in [Nets -> Nets \union {None}]
  /\ sent \subseteq Nets

(* Every net has come to each barrier once, if it is behind the place from *)
(* which it comes there.                                                   *)
Counted ==
  /\ arrived["pre_init_done"] = Cardinality(CameToFirst)
  /\ arrived["init_done"] = Cardinality(CameToSecond)

(* Nobody is behind a barrier that has not opened.                         *)
Phases ==
  \A n \in Nets :
    /\ pc[n] \in Initialising \union Arriving => Open("pre_init_done")
    /\ pc[n] \in {"run", "ended"} => Open("init_done")

(* Where nets that are going to terminate are, and what is known of those  *)
(* that are not.                                                           *)
Ways ==
  \A n \in Nets :
    /\ n \in failed => pc[n] \in {"pre", "done", "ended"}
    /\ pc[n] \in {"mutex", "alloc"} => role[n].key # None
    /\ n \notin failed /\ pc[n] # "start" => ~role[n].disabled
    /\ pc[n] \in {"filter", "await"} => role[n].from # None

(* The mutex is with a net that allocates, or with one that has failed.    *)
Locked ==
  /\ \A n \in Nets : pc[n] = "alloc" => mutex = n
  /\ mutex # None => pc[mutex] = "alloc" \/ mutex \in failed

(* The list of shared states: a key is there once, the net of a state has  *)
(* its key, and after a NULL state there is no other.                      *)
Listed ==
  /\ \A i, j \in DOMAIN states : states[i].key = states[j].key => i = j
  /\ \A i \in DOMAIN states :
       IF states[i].state = None THEN mutex \in failed
       ELSE role[states[i].state].key = states[i].key
  /\ \A n \in Nets : pc[n] = "alloc" => Entries(n) = {}

(* What a net has is in the list, and it has what it was promised.         *)
Promised ==
  \A n \in Nets :
    /\ shared[n] # None =>
         \E i \in DOMAIN states : /\ states[i].key = role[n].key
                                  /\ states[i].state = shared[n]
    /\ pc[n] \notin Allocating /\ n \notin failed /\ role[n].key # None =>
         shared[n] # None

(* A net that is at its own init, or has got through it, has its           *)
(* configuration, and every configuration comes from a net that has its    *)
(* own; in a circle of nets nobody can be the first to have one.           *)
Sourced ==
  /\ \A n \in Nets :
       pc[n] = "init" \/ (pc[n] \in {"done", "run"} /\ n \notin failed) =>
         IF role[n].from = None THEN role[n].static ELSE n \in sent
  /\ \A n \in sent : role[n].from \in Nets /\ Configured(role[n].from)
  /\ \A S \in SUBSET Nets : Circle(S) => S \cap sent = {}

Inv == /\ Typed /\ Counted /\ Phases /\ Ways
       /\ Locked /\ Listed /\ Promised /\ Sourced

-----------------------------------------------------------------------------
(* Steps.                                                                  *)

(* The roles of a program.                                                 *)
LEMMA RoleType ==
  ASSUME Typed, NEW n \in Nets
  PROVE  /\ role[n] \in Role /\ role[n].key \in Keys \union {None}
         /\ role[n].from \in Nets \union {None}
         /\ None \notin Nets /\ None \notin Keys
<1>1. role \in [Nets -> Role]
  BY StartupAssumption DEF Typed
<1>2. role[n] \in Role
  BY <1>1
<1> QED BY <1>2, StartupAssumption DEF Role

(* What a step of net n does to the barriers.                              *)
Stays(n) == arrived' = arrived /\ failed' = failed
Comes(n, b) ==
  /\ arrived' = [arrived EXCEPT ![b] = @ + 1]
  /\ failed' \in {failed, failed \union {n}}

Moves(n) ==
  /\ role' = role /\ pc' = [pc EXCEPT ![n] = pc'[n]]
  /\ \/ pc[n] \in Allocating /\ pc'[n] \in Allocating /\ Stays(n)
     \/ pc[n] \in Allocating /\ pc'[n] = "pre" /\ Comes(n, "pre_init_done")
     \/ /\ pc[n] = "pre" /\ Open("pre_init_done") /\ failed' = failed
        /\ \/ n \in failed /\ pc'[n] = "done" /\ Comes(n, "init_done")
           \/ n \notin failed /\ pc'[n] = "conf" /\ arrived' = arrived
     \/ pc[n] \in Initialising /\ pc'[n] \in Initialising /\ Stays(n)
     \/ pc[n] \in Initialising /\ pc'[n] = "done" /\ Comes(n, "init_done")
     \/ /\ pc[n] = "done" /\ Open("init_done") /\ Stays(n)
        /\ pc'[n] = IF n \in failed THEN "ended" ELSE "run"
     \/ pc[n] = "run" /\ pc'[n] = "ended" /\ Stays(n)

(* A step of a net does no more than Moves says.                           *)
LEMMA StepMoves ==
  ASSUME Typed, NEW n \in Nets, StartUp(n) \/ End(n)
  PROVE  Moves(n)
<1> USE DEF Typed, GoTo, Allocating, Initialising, Stays, Comes, Arrive, Moves
<1>1. CASE Start(n)
  BY <1>1 DEF Start, GiveUpBeforePreInit
<1>2. CASE LookUp(n)
  BY <1>2 DEF LookUp
<1>3. CASE InitShared(n)
  BY <1>3 DEF InitShared, GiveUpBeforePreInit
<1>4. CASE PassPreInit(n)
  BY <1>4 DEF PassPreInit
<1>5. CASE SkipConfig(n)
  BY <1>5 DEF SkipConfig, GiveUp
<1>6. CASE MissConfigPort(n)
  BY <1>6 DEF MissConfigPort, GiveUp
<1>7. CASE SetFilter(n)
  BY <1>7 DEF SetFilter
<1>8. CASE FilterSet(n)
  BY <1>8 DEF FilterSet
<1>9. CASE ReadConfig(n)
  BY <1>9 DEF ReadConfig, GiveUp
<1>10. CASE ConfigTimeout(n)
  BY <1>10 DEF ConfigTimeout, GiveUp
<1>11. CASE InitNet(n)
  BY <1>11 DEF InitNet, GiveUp
<1>12. CASE PassInit(n)
  BY <1>12 DEF PassInit
<1>13. CASE End(n)
  BY <1>13 DEF End
<1> QED BY <1>1, <1>2, <1>3, <1>4, <1>5, <1>6, <1>7, <1>8, <1>9, <1>10, <1>11,
           <1>12, <1>13 DEF StartUp

(* What the steps leave alone that neither look for a shared state nor     *)
(* make one.                                                               *)
LEMMA OtherMoves ==
  ASSUME NEW n \in Nets, StartUp(n) \/ End(n), ~LookUp(n), ~InitShared(n), Typed
  PROVE  /\ UNCHANGED <<mutex, states, shared>>
         /\ pc[n] # "alloc" /\ pc'[n] # "alloc"
         /\ pc'[n] = "mutex" => role[n].key # None
         /\ pc[n] \in Allocating /\ pc'[n] = "pre" /\ n \notin failed' =>
              role[n].key = None
         /\ pc[n] = "start" /\ n \notin failed' => ~role[n].disabled
<1> USE DEF GoTo, Allocating, Typed
<1>1. CASE Start(n)
  BY <1>1 DEF Start, GiveUpBeforePreInit
<1>2. CASE PassPreInit(n)
  BY <1>2 DEF PassPreInit
<1>3. CASE SkipConfig(n)
  BY <1>3 DEF SkipConfig, GiveUp
<1>4. CASE MissConfigPort(n)
  BY <1>4 DEF MissConfigPort, GiveUp
<1>5. CASE SetFilter(n)
  BY <1>5 DEF SetFilter
<1>6. CASE FilterSet(n)
  BY <1>6 DEF FilterSet
<1>7. CASE ReadConfig(n)
  BY <1>7 DEF ReadConfig, GiveUp
<1>8. CASE ConfigTimeout(n)
  BY <1>8 DEF ConfigTimeout, GiveUp
<1>9. CASE InitNet(n)
  BY <1>9 DEF InitNet, GiveUp
<1>10. CASE PassInit(n)
  BY <1>10 DEF PassInit
<1>11. CASE End(n)
  BY <1>11 DEF End
<1> QED BY <1>1, <1>2, <1>3, <1>4, <1>5, <1>6, <1>7, <1>8, <1>9, <1>10, <1>11
           DEF StartUp

(* What becomes of the configurations, sent and awaited.                   *)
LEMMA SentMoves ==
  ASSUME NEW n \in Nets, StartUp(n) \/ End(n), Typed
  PROVE  /\ \/ sent' = sent
            \/ /\ pc[n] = "init"
               /\ sent \subseteq sent'
               /\ \A m \in sent' \ sent : role[m].from = n
         /\ pc'[n] \in {"filter", "await"} =>
              pc[n] \in {"filter", "await"} \/ role[n].from # None
         /\ pc'[n] = "init" =>
              \/ pc[n] = "conf" /\ role[n].from = None /\ role[n].static
              \/ pc[n] = "await" /\ n \in sent
         /\ pc'[n] = "done" /\ n \notin failed' => pc[n] = "init"
<1> USE DEF GoTo, Typed
<1>1. CASE Start(n)
  BY <1>1 DEF Start, GiveUpBeforePreInit
<1>2. CASE LookUp(n)
  BY <1>2 DEF LookUp
<1>3. CASE InitShared(n)
  BY <1>3 DEF InitShared, GiveUpBeforePreInit
<1>4. CASE PassPreInit(n)
  BY <1>4 DEF PassPreInit
<1>5. CASE SkipConfig(n)
  BY <1>5 DEF SkipConfig, GiveUp
<1>6. CASE MissConfigPort(n)
  BY <1>6 DEF MissConfigPort, GiveUp
<1>7. CASE SetFilter(n)
  BY <1>7 DEF SetFilter
<1>8. CASE FilterSet(n)
  BY <1>8 DEF FilterSet
<1>9. CASE ReadConfig(n)
  BY <1>9 DEF ReadConfig, GiveUp
<1>10. CASE ConfigTimeout(n)
  BY <1>10 DEF ConfigTimeout, GiveUp
<1>11. CASE InitNet(n)
  BY <1>11 DEF InitNet, GiveUp, Listeners
<1>12. CASE PassInit(n)
  BY <1>12 DEF PassInit
<1>13. CASE End(n)
  BY <1>13 DEF End
<1> QED BY <1>1, <1>2, <1>3, <1>4, <1>5, <1>6, <1>7, <1>8, <1>9, <1>10, <1>11,
           <1>12, <1>13 DEF StartUp

(* Looking for a state.  Keys are in the list once, so that the first      *)
(* entry is the only one.                                                  *)
LEMMA FoundEntry ==
  ASSUME NEW n \in Nets, Typed, Listed, NEW i \in Entries(n)
  PROVE  Entries(n) = {i} /\ Found(n) = states[i].state
<1>1. Entries(n) = {i}
  BY DEF Listed, Entries
<1>2. i \in Nat
  BY DEF Entries, Typed
<1>3. (CHOOSE j \in Entries(n) : \A k \in Entries(n) : j <= k) = i
  BY <1>1, <1>2
<1> QED BY <1>1, <1>3 DEF Found

(* A look-up finds a state listed for the key, or keeps the mutex to add   *)
(* one.                                                                    *)
LEMMA LookUpMoves ==
  ASSUME NEW n \in Nets, Inv, LookUp(n)
  PROVE  /\ mutex = None /\ pc[n] = "mutex"
         /\ \A i \in DOMAIN states : states[i].state # None
         /\ UNCHANGED <<role, failed, states, sent>>
         /\ shared' = [shared EXCEPT ![n] = Found(n)]
         /\ \/ /\ Entries(n) = {} /\ Found(n) = None
               /\ pc'[n] = "alloc" /\ mutex' = n
            \/ /\ Found(n) # None /\ pc'[n] = "pre" /\ mutex' = mutex
               /\ \E i \in DOMAIN states : /\ states[i].key = role[n].key
                                          /\ states[i].state = Found(n)
<1>1. Typed /\ Listed /\ failed \subseteq Nets /\ None \notin Nets
      /\ pc \in [Nets -> Pc]
  BY RoleType DEF Inv, Typed
<1>2. mutex = None /\ pc[n] = "mutex" /\ UNCHANGED <<role, failed, states, sent>>
      /\ shared' = [shared EXCEPT ![n] = Found(n)]
  BY DEF LookUp
<1>3. \A i \in DOMAIN states : states[i].state # None
  BY <1>1, <1>2 DEF Listed
<1>4. CASE Entries(n) = {}
  <2>1. Found(n) = None
    BY <1>4 DEF Found
  <2> QED BY <1>1, <1>2, <1>3, <1>4, <2>1 DEF LookUp, GoTo
<1>5. ASSUME NEW i \in Entries(n) PROVE
        /\ Found(n) # None /\ pc'[n] = "pre" /\ mutex' = mutex
        /\ states[i].key = role[n].key /\ states[i].state = Found(n)
        /\ i \in DOMAIN states
  <2>1. Found(n) = states[i].state /\ i \in DOMAIN states
        /\ states[i].key = role[n].key
    BY <1>1, FoundEntry DEF Entries
  <2> QED BY <1>1, <1>3, <2>1 DEF LookUp, GoTo
<1> QED BY <1>2, <1>3, <1>4, <1>5

(* Making one.                                                             *)
LEMMA InitSharedMoves ==
  ASSUME NEW n \in Nets, Inv, InitShared(n)
  PROVE  /\ mutex = n /\ pc[n] = "alloc" /\ pc'[n] = "pre" /\ Entries(n) = {}
         /\ n \notin failed /\ role[n].key \in Keys
         /\ UNCHANGED <<role, sent>>
         /\ \A i \in DOMAIN states : states[i].state # None
         /\ \E state \in {n, None} :
              /\ states' = Append(states, [key |-> role[n].key, state |-> state])
              /\ shared' = [shared EXCEPT ![n] = state]
              /\ state = n => mutex' = None /\ failed' = failed
              /\ state = None => mutex' = n /\ failed' = failed \union {n}
<1>1. /\ pc[n] = "alloc" /\ mutex = n /\ Entries(n) = {} /\ n \notin failed
      /\ role[n].key # None
  BY DEF InitShared, Inv, Locked, Listed, Ways
<1>2. role[n].key \in Keys
  BY <1>1, RoleType DEF Inv
<1>3. \A i \in DOMAIN states : states[i].state # None
  BY <1>1 DEF Inv, Listed
<1>4. pc'[n] = "pre" /\ UNCHANGED <<role, sent>>
  BY DEF InitShared, GiveUpBeforePreInit, GoTo, Inv, Typed
<1>5. \E state \in {n, None} :
        /\ states' = Append(states, [key |-> role[n].key, state |-> state])
        /\ shared' = [shared EXCEPT ![n] = state]
        /\ state = n => mutex' = None /\ failed' = failed
        /\ state = None => mutex' = n /\ failed' = failed \union {n}
  <2>0. n # None
    BY StartupAssumption
  <2>1. CASE "init_shared" \notin role[n].fails
    BY <2>0, <2>1 DEF InitShared
  <2>2. CASE "init_shared" \in role[n].fails
    BY <1>1, <2>0, <2>2 DEF InitShared, GiveUpBeforePreInit
  <2> QED BY <2>1, <2>2
<1> QED BY <1>1, <1>2, <1>3, <1>4, <1>5

-----------------------------------------------------------------------------
(* Each part of the invariant.                                             *)

(* Every step keeps the types.                                             *)
LEMMA TypedStep ==
  ASSUME NEW n \in Nets, Inv, StartUp(n) \/ End(n)
  PROVE  Typed'
<1>1. Typed /\ Moves(n)
  BY StepMoves DEF Inv
<1>2. /\ role' \in Programs /\ pc' \in [Nets -> Pc] /\ failed' \subseteq Nets
      /\ arrived' \in [{"pre_init_done", "init_done"} -> Nat]
  BY <1>1 DEF Typed, Moves, Stays, Comes, Allocating, Initialising, Pc
<1>3. sent' \subseteq Nets
  BY <1>1 DEF StartUp, Start, LookUp, InitShared, PassPreInit, SkipConfig,
     MissConfigPort, SetFilter, FilterSet, ReadConfig, ConfigTimeout, InitNet, Listeners,
     PassInit, End, Typed
<1>4. /\ mutex' \in Nets \union {None}
      /\ states' \in Seq([key : Keys, state : Nets \union {None}])
      /\ shared' \in [Nets -> Nets \union {None}]
  <2>1. CASE LookUp(n)
    <3>1. /\ states' = states /\ shared' = [shared EXCEPT ![n] = Found(n)]
          /\ mutex' = n \/ mutex' = mutex
          /\ \/ Found(n) = None
             \/ \E i \in DOMAIN states : states[i].state = Found(n)
      BY <2>1, LookUpMoves
    <3>2. ASSUME NEW i \in DOMAIN states
          PROVE  states[i].state \in Nets \union {None}
      <4> DEFINE Entry == [key : Keys, state : Nets \union {None}]
      <4>1. states \in Seq(Entry)
        BY <1>1 DEF Typed
      <4> HIDE DEF Entry
      <4>2. states[i] \in Entry
        BY <4>1
      <4> QED BY <4>2 DEF Entry
    <3>3. Found(n) \in Nets \union {None}
      BY <3>1, <3>2
    <3> QED BY <1>1, <3>1, <3>3 DEF Typed
  <2>2. CASE InitShared(n)
    <3>1. PICK state \in {n, None} :
            /\ states' = Append(states, [key |-> role[n].key, state |-> state])
            /\ shared' = [shared EXCEPT ![n] = state]
            /\ role[n].key \in Keys
            /\ mutex' \in {n, None}
      BY <2>2, InitSharedMoves
    <3> QED BY <1>1, <3>1 DEF Typed
  <2>3. CASE ~LookUp(n) /\ ~InitShared(n)
    BY <1>1, <2>3, OtherMoves DEF Typed
  <2> QED BY <2>1, <2>2, <2>3
<1> QED BY <1>2, <1>3, <1>4 DEF Typed

(* One net more has come to a barrier, or none.                            *)
LEMMA CountedStep ==
  ASSUME Typed, Counted, NEW n \in Nets, Moves(n)
  PROVE  Counted'
<1>1. /\ IsFiniteSet(CameToFirst) /\ IsFiniteSet(CameToSecond)
  BY StartupAssumption, FS_Subset DEF CameToFirst, CameToSecond
<1>2. /\ \A m \in Nets \ {n} : pc'[m] = pc[m]
      /\ pc \in [Nets -> Pc]
      /\ arrived["pre_init_done"] \in Nat /\ arrived["init_done"] \in Nat
      /\ arrived \in [{"pre_init_done", "init_done"} -> Nat]
  BY DEF Typed, Moves
<1>3. CameToFirst' = IF pc[n] \in Allocating /\ pc'[n] \notin Allocating
                     THEN CameToFirst \union {n} ELSE CameToFirst
  BY <1>2 DEF Moves, CameToFirst, Allocating, Initialising
<1>4. CameToSecond' = IF pc[n] \notin Arriving /\ pc'[n] \in Arriving
                      THEN CameToSecond \union {n} ELSE CameToSecond
  BY <1>2 DEF Moves, CameToSecond, Arriving, Allocating, Initialising
<1>5. /\ arrived'["pre_init_done"] =
           IF pc[n] \in Allocating /\ pc'[n] \notin Allocating
           THEN arrived["pre_init_done"] + 1 ELSE arrived["pre_init_done"]
      /\ arrived'["init_done"] =
           IF pc[n] \notin Arriving /\ pc'[n] \in Arriving
           THEN arrived["init_done"] + 1 ELSE arrived["init_done"]
  BY <1>2 DEF Moves, Stays, Comes, Arriving, Allocating, Initialising
<1>6. /\ pc[n] \in Allocating => n \notin CameToFirst
      /\ pc[n] \notin Arriving => n \notin CameToSecond
  BY DEF CameToFirst, CameToSecond
<1>7. /\ Cardinality(CameToFirst \union {n}) =
           IF n \in CameToFirst THEN Cardinality(CameToFirst)
                                ELSE Cardinality(CameToFirst) + 1
      /\ Cardinality(CameToSecond \union {n}) =
           IF n \in CameToSecond THEN Cardinality(CameToSecond)
                                 ELSE Cardinality(CameToSecond) + 1
  BY <1>1, FS_AddElement
<1> QED BY <1>3, <1>4, <1>5, <1>6, <1>7 DEF Counted

(* A barrier is open when nobody is left before it, and for good.          *)
LEMMA OpenAll ==
  ASSUME Typed, Counted
  PROVE  /\ Open("pre_init_done") <=> CameToFirst = Nets
         /\ Open("init_done") <=> CameToSecond = Nets
         /\ arrived["pre_init_done"] <= Cardinality(Nets)
         /\ arrived["init_done"] <= Cardinality(Nets)
<1>1. /\ CameToFirst \subseteq Nets /\ CameToSecond \subseteq Nets
      /\ IsFiniteSet(Nets)
  BY StartupAssumption DEF CameToFirst, CameToSecond
<1>2. /\ Cardinality(CameToFirst) <= Cardinality(Nets)
      /\ Cardinality(Nets) = Cardinality(CameToFirst) => Nets = CameToFirst
  BY <1>1, FS_Subset
<1>3. /\ Cardinality(CameToSecond) <= Cardinality(Nets)
      /\ Cardinality(Nets) = Cardinality(CameToSecond) => Nets = CameToSecond
  BY <1>1, FS_Subset
<1> QED BY <1>2, <1>3 DEF Counted, Open

(* Every step keeps the phases of the start.                               *)
LEMMA PhasesStep ==
  ASSUME Typed, Counted, Phases, NEW n \in Nets, Moves(n), Counted', Typed'
  PROVE  Phases'
<1>1. /\ \A m \in Nets \ {n} : pc'[m] = pc[m]
      /\ pc \in [Nets -> Pc]
  BY DEF Typed, Moves
<1>2. Open("pre_init_done") => Open("pre_init_done")'
  <2>1. Open("pre_init_done") => pc[n] \notin Allocating
    BY OpenAll DEF CameToFirst
  <2> QED BY <1>1, <2>1 DEF Moves, Stays, Comes, Open, Typed
<1>3. Open("init_done") => Open("init_done")'
  <2>1. Open("init_done") => pc[n] \in Arriving
    BY OpenAll DEF CameToSecond
  <2> QED BY <1>1, <2>1 DEF Moves, Stays, Comes, Open, Typed, Arriving,
             Allocating, Initialising
<1>4. ASSUME NEW m \in Nets, m # n
      PROVE  /\ pc'[m] \in Initialising \union Arriving => Open("pre_init_done")'
             /\ pc'[m] \in {"run", "ended"} => Open("init_done")'
  BY <1>1, <1>2, <1>3, <1>4 DEF Phases
<1>5. /\ pc'[n] \in Initialising \union Arriving => Open("pre_init_done")
      /\ pc'[n] \in {"run", "ended"} => Open("init_done")
  BY DEF Moves, Phases, Allocating, Initialising, Arriving
<1> QED BY <1>2, <1>3, <1>4, <1>5 DEF Phases

(* A net that gives up goes on to the barriers, and the others' ways stay. *)
LEMMA WaysStep ==
  ASSUME NEW n \in Nets, Inv, StartUp(n) \/ End(n)
  PROVE  Ways'
<1>1. Typed /\ Ways /\ Moves(n)
  BY StepMoves DEF Inv
<1>2. /\ \A m \in Nets \ {n} : pc'[m] = pc[m]
      /\ role' = role /\ failed \subseteq failed' /\ failed' \subseteq failed \union {n}
  BY <1>1 DEF Typed, Moves, Stays, Comes
<1>3. n \in failed' => pc'[n] \in {"pre", "done", "ended"}
  BY <1>1 DEF Ways, Moves, Stays, Allocating, Initialising
<1>4. pc'[n] \in {"mutex", "alloc"} => role[n].key # None
  BY <1>1, LookUpMoves, InitSharedMoves, OtherMoves DEF Ways
<1>5. n \notin failed' /\ pc'[n] # "start" => ~role[n].disabled
  <2>1. CASE pc[n] = "start"
    BY <1>1, <2>1, OtherMoves DEF LookUp, InitShared
  <2>2. CASE pc[n] # "start"
    BY <1>1, <1>2, <2>2 DEF Ways
  <2> QED BY <2>1, <2>2
<1>6. pc'[n] \in {"filter", "await"} => role[n].from # None
  BY <1>1, SentMoves DEF Ways
<1> QED BY <1>1, <1>2, <1>3, <1>4, <1>5, <1>6 DEF Ways

(* The mutex.                                                              *)
LEMMA LockedStep ==
  ASSUME NEW n \in Nets, Inv, StartUp(n) \/ End(n)
  PROVE  Locked'
<1>1. Typed /\ Locked /\ Moves(n) /\ n # None
  BY StepMoves, StartupAssumption DEF Inv
<1>2. /\ \A m \in Nets \ {n} : pc'[m] = pc[m]
      /\ failed \subseteq failed'
  BY <1>1 DEF Typed, Moves, Stays, Comes
<1>3. CASE LookUp(n)
  <2>1. /\ mutex = None
        /\ \/ pc'[n] = "alloc" /\ mutex' = n
           \/ pc'[n] = "pre" /\ mutex' = mutex
    BY <1>3, LookUpMoves
  <2>2. \A m \in Nets : m # None
    BY StartupAssumption
  <2> QED BY <1>1, <1>2, <2>1, <2>2 DEF Locked
<1>4. CASE InitShared(n)
  BY <1>1, <1>2, <1>4, InitSharedMoves DEF Locked
<1>5. CASE ~LookUp(n) /\ ~InitShared(n)
  <2>1. mutex' = mutex /\ pc[n] # "alloc" /\ pc'[n] # "alloc"
    BY <1>1, <1>5, OtherMoves
  <2>2. mutex \in Nets \union {None}
    BY <1>1 DEF Typed
  <2> QED BY <1>1, <1>2, <2>1, <2>2 DEF Locked
<1> QED BY <1>3, <1>4, <1>5

(* The list: only the holder of the mutex adds to it, and only the key     *)
(* that it did not find.                                                   *)
LEMMA ListedStep ==
  ASSUME NEW n \in Nets, Inv, StartUp(n) \/ End(n)
  PROVE  Listed'
<1>1. Typed /\ Locked /\ Listed /\ Moves(n) /\ n # None
  BY StepMoves, StartupAssumption DEF Inv
<1>2. /\ \A m \in Nets \ {n} : pc'[m] = pc[m]
      /\ role' = role /\ failed \subseteq failed'
  BY <1>1 DEF Typed, Moves, Stays, Comes
<1>3. CASE LookUp(n)
  BY <1>1, <1>2, <1>3, LookUpMoves DEF Listed, Entries
<1>4. CASE InitShared(n)
  <2>1. \A m \in Nets : pc'[m] # "alloc"
    BY <1>1, <1>2, <1>4, InitSharedMoves DEF Locked
  <2>2. PICK state \in {n, None} :
          /\ states' = Append(states, [key |-> role[n].key, state |-> state])
          /\ state = None => mutex' = n /\ failed' = failed \union {n}
    BY <1>4, InitSharedMoves
  <2>3. /\ DOMAIN states = 1 .. Len(states) /\ Len(states) \in Nat
        /\ DOMAIN states' = 1 .. Len(states) + 1
        /\ \A i \in DOMAIN states : states'[i] = states[i]
        /\ states'[Len(states) + 1] = [key |-> role[n].key, state |-> state]
    BY <1>1, <1>4, <2>2, InitSharedMoves DEF Typed
  <2>4. /\ \A i \in DOMAIN states : states[i].key # role[n].key
        /\ \A i \in DOMAIN states : states[i].state # None
    BY <1>4, InitSharedMoves DEF Entries
  <2>5. \A i, j \in DOMAIN states' : states'[i].key = states'[j].key => i = j
    BY <1>1, <2>3, <2>4 DEF Listed
  <2>6. \A i \in DOMAIN states' :
          IF states'[i].state = None THEN mutex' \in failed'
          ELSE role'[states'[i].state].key = states'[i].key
    BY <1>1, <1>2, <2>2, <2>3, <2>4 DEF Listed
  <2> QED BY <2>1, <2>5, <2>6 DEF Listed
<1>5. CASE ~LookUp(n) /\ ~InitShared(n)
  <2>1. UNCHANGED <<mutex, states>> /\ pc'[n] # "alloc"
    BY <1>1, <1>5, OtherMoves
  <2> QED BY <1>1, <1>2, <2>1 DEF Listed, Entries
<1> QED BY <1>3, <1>4, <1>5

(* What the nets have of it.                                               *)
LEMMA PromisedStep ==
  ASSUME NEW n \in Nets, Inv, StartUp(n) \/ End(n)
  PROVE  Promised'
<1>1. Typed /\ Promised /\ Moves(n) /\ n # None
  BY StepMoves, StartupAssumption DEF Inv
<1>2. /\ \A m \in Nets \ {n} : pc'[m] = pc[m]
      /\ role' = role /\ failed \subseteq failed'
      /\ shared \in [Nets -> Nets \union {None}]
  BY <1>1 DEF Typed, Moves, Stays, Comes
<1>3. CASE LookUp(n)
  <2>1. /\ states' = states
        /\ \A m \in Nets \ {n} : shared'[m] = shared[m]
        /\ shared'[n] = Found(n)
    BY <1>2, <1>3, LookUpMoves
  <2> QED BY <1>1, <1>2, <1>3, <2>1, LookUpMoves DEF Promised, Allocating
<1>4. CASE InitShared(n)
  <2>1. PICK state \in {n, None} :
          /\ states' = Append(states, [key |-> role[n].key, state |-> state])
          /\ shared' = [shared EXCEPT ![n] = state]
          /\ state = None => failed' = failed \union {n}
    BY <1>4, InitSharedMoves
  <2>2. /\ \A i \in DOMAIN states : i \in DOMAIN states' /\ states'[i] = states[i]
        /\ \E i \in DOMAIN states' :
             states'[i] = [key |-> role[n].key, state |-> state]
    <3>1. /\ DOMAIN states = 1 .. Len(states) /\ Len(states) \in Nat
          /\ DOMAIN states' = 1 .. Len(states) + 1
          /\ \A i \in DOMAIN states : states'[i] = states[i]
          /\ states'[Len(states) + 1] = [key |-> role[n].key, state |-> state]
      BY <1>1, <1>4, <2>1, InitSharedMoves DEF Typed
    <3> QED BY <3>1
  <2>3. /\ \A m \in Nets \ {n} : shared'[m] = shared[m]
        /\ shared'[n] = state
    BY <1>2, <2>1
  <2>4. \A m \in Nets : shared'[m] # None =>
          \E i \in DOMAIN states' : /\ states'[i].key = role'[m].key
                                   /\ states'[i].state = shared'[m]
    BY <1>1, <1>2, <2>2, <2>3 DEF Promised
  <2>5. \A m \in Nets : pc'[m] \notin Allocating /\ m \notin failed'
                         /\ role'[m].key # None => shared'[m] # None
    BY <1>1, <1>2, <2>1, <2>3 DEF Promised
  <2> QED BY <2>4, <2>5 DEF Promised, Allocating
<1>5. CASE ~LookUp(n) /\ ~InitShared(n)
  <2>1. /\ UNCHANGED <<states, shared>>
        /\ pc[n] \in Allocating /\ pc'[n] = "pre" /\ n \notin failed' =>
             role[n].key = None
    BY <1>1, <1>5, OtherMoves
  <2>2. pc'[n] \notin Allocating =>
          pc[n] \notin Allocating \/ pc'[n] = "pre"
    BY <1>1 DEF Moves, Allocating, Initialising
  <2>3. pc'[n] \notin Allocating /\ n \notin failed' /\ role[n].key # None =>
          shared[n] # None
    BY <1>1, <1>2, <2>1, <2>2 DEF Promised
  <2> QED BY <1>1, <1>2, <2>1, <2>3 DEF Promised, Allocating
<1> QED BY <1>3, <1>4, <1>5

(* The configurations.                                                     *)
LEMMA SourcedStep ==
  ASSUME NEW n \in Nets, Inv, StartUp(n) \/ End(n)
  PROVE  Sourced'
<1>1. Typed /\ Ways /\ Sourced /\ Moves(n)
  BY StepMoves DEF Inv
<1>2. /\ \A m \in Nets \ {n} : pc'[m] = pc[m]
      /\ role' = role /\ failed \subseteq failed' /\ failed' \subseteq failed \union {n}
      /\ sent \subseteq Nets
  BY <1>1 DEF Typed, Moves, Stays, Comes
<1>3. \/ sent' = sent
      \/ /\ pc[n] = "init"
         /\ sent \subseteq sent'
         /\ \A m \in sent' \ sent : role[m].from = n
  BY <1>1, SentMoves
<1>4. pc'[n] = "init" \/ (pc'[n] \in {"done", "run"} /\ n \notin failed') =>
        IF role[n].from = None THEN role[n].static ELSE n \in sent
  <2>1. CASE pc'[n] = "init"
    BY <1>1, <2>1, SentMoves DEF Ways
  <2>2. CASE pc'[n] = "done" /\ n \notin failed'
    BY <1>1, <1>2, <2>2, SentMoves DEF Sourced
  <2>3. CASE pc'[n] = "run" /\ n \notin failed'
    <3>1. pc[n] = "done" /\ n \notin failed
      BY <1>1, <2>3 DEF Moves, Stays, Allocating, Initialising
    <3> QED BY <1>1, <3>1 DEF Sourced
  <2> QED BY <2>1, <2>2, <2>3
<1>5. \A m \in Nets :
        pc'[m] = "init" \/ (pc'[m] \in {"done", "run"} /\ m \notin failed') =>
          IF role'[m].from = None THEN role'[m].static ELSE m \in sent'
  BY <1>1, <1>2, <1>3, <1>4 DEF Sourced
<1>6. pc[n] = "init" => Configured(n)
  BY <1>1 DEF Ways, Sourced, Configured
<1>7. \A m \in Nets : Configured(m) => Configured(m)'
  BY <1>2, <1>3 DEF Configured
<1>8. ASSUME NEW m \in sent'
      PROVE  (role[m].from \in Nets /\ Configured(role[m].from))'
  <2>1. role[m].from \in Nets /\ Configured(role[m].from)
    BY <1>1, <1>3, <1>6, <1>8 DEF Sourced
  <2>2. PICK p \in Nets : p = role[m].from
    BY <2>1
  <2>3. p = role'[m].from
    BY <1>2, <2>2
  <2>4. Configured(p)'
    BY <1>7, <2>1, <2>2
  <2> QED BY <2>3, <2>4
<1>9. ASSUME NEW S \in SUBSET Nets, Circle(S)' PROVE S \cap sent' = {}
  <2>1. Circle(S)
    BY <1>2, <1>9 DEF Circle
  <2>2. S \cap sent = {}
    BY <1>1, <2>1 DEF Sourced
  <2>3. ASSUME NEW m \in S, m \in sent' PROVE FALSE
    <3>1. pc[n] = "init" /\ role[m].from = n
      BY <1>3, <2>2, <2>3
    <3>2. n \in S /\ role[n].from \in Nets
      BY <2>1, <2>3, <3>1 DEF Circle
    <3>3. n \in sent
      BY <1>6, <3>1, <3>2, StartupAssumption DEF Configured
    <3> QED BY <2>2, <3>2, <3>3
  <2> QED BY <2>3
<1> QED BY <1>5, <1>8, <1>9 DEF Sourced

-----------------------------------------------------------------------------
(* The invariant and the theorems.                                         *)

(* The invariant holds at the start ...                                    *)
LEMMA InvInit == Init => Inv
<1> SUFFICES ASSUME Init PROVE Inv
  OBVIOUS
<1>1. Typed
  BY DEF Init, Typed, Pc
<1>2. Counted
  <2>1. CameToFirst = {} /\ CameToSecond = {}
    BY DEF Init, CameToFirst, CameToSecond, Allocating, Arriving
  <2> QED BY <2>1, FS_EmptySet DEF Init, Counted
<1>3. Phases /\ Ways
  BY DEF Init, Phases, Ways, Initialising, Arriving
<1>4. Locked /\ Listed /\ Promised /\ Sourced
  BY DEF Init, Locked, Listed, Promised, Sourced, Allocating
<1> QED BY <1>1, <1>2, <1>3, <1>4 DEF Inv

(* ... through every step ...                                              *)
LEMMA InvStep == Inv /\ [Next]_vars => Inv'
<1> SUFFICES ASSUME Inv, [Next]_vars PROVE Inv'
  OBVIOUS
<1>1. ASSUME NEW n \in Nets, StartUp(n) \/ End(n) PROVE Inv'
  <2>1. Moves(n) /\ Typed'
    BY <1>1, StepMoves, TypedStep DEF Inv
  <2>2. Counted'
    BY <2>1, CountedStep DEF Inv
  <2>3. Phases'
    BY <2>1, <2>2, PhasesStep DEF Inv
  <2> QED BY <1>1, <2>1, <2>2, <2>3, WaysStep, LockedStep, ListedStep,
             PromisedStep, SourcedStep DEF Inv
<1>2. CASE UNCHANGED vars
  BY <1>2 DEF vars, Inv, Typed, Counted, CameToFirst, CameToSecond, Phases, Open,
     Ways, Locked, Listed, Entries, Promised, Sourced, Configured, Circle
<1> QED BY <1>1, <1>2 DEF Next

(* ... and so always.                                                      *)
LEMMA SpecInv == Spec => []Inv
<1> QED BY InvInit, InvStep, PTL DEF Spec

(* The start keeps its types, and no barrier is come to more often than    *)
(* there are nets: pthread_barrier_wait would let a second round begin.    *)
THEOREM TypeCorrect == Spec => []TypeOK
<1>1. Inv => TypeOK
  <2> SUFFICES ASSUME Inv PROVE TypeOK
    OBVIOUS
  <2>1. Typed /\ Counted /\ Cardinality(Nets) \in Nat
    BY StartupAssumption, FS_CardinalityType DEF Inv
  <2>2. arrived \in [{"pre_init_done", "init_done"} -> 0 .. Cardinality(Nets)]
    BY <2>1, OpenAll DEF Typed
  <2> QED BY <2>1, <2>2 DEF Typed, TypeOK
<1> QED BY <1>1, SpecInv, PTL

(* The barriers of smx_net_start_routine_with_shared_state keep the phases *)
(* apart, for any number of nets, whichever give up.                       *)
THEOREM PhasesKeptApart == Spec => []PhasesApart
<1>1. Inv => PhasesApart
  <2> SUFFICES ASSUME Inv, NEW n \in Nets, NEW m \in Nets
               PROVE  /\ pc[n] \in Initialising => pc[m] \notin Allocating
                      /\ pc[n] \in {"run", "ended"} =>
                           pc[m] \notin Allocating \union Initialising \union {"pre"}
    BY DEF PhasesApart
  <2>1. pc[n] \in Initialising => m \in CameToFirst
    BY OpenAll DEF Inv, Phases
  <2>2. pc[n] \in {"run", "ended"} => m \in CameToSecond
    BY OpenAll DEF Inv, Phases
  <2> QED BY <2>1, <2>2 DEF CameToFirst, CameToSecond, Arriving, Allocating,
         Initialising
<1> QED BY <1>1, SpecInv, PTL

(* Nets with one key share one state, for any number of nets and keys, and *)
(* the look-up under net_mutex is why.                                     *)
THEOREM StateShared == Spec => []OneSharedState
<1>1. Inv => OneSharedState
  <2> SUFFICES ASSUME Inv PROVE OneSharedState
    OBVIOUS
  <2>1. ASSUME NEW n \in Nets, shared[n] # None
        PROVE  \E i \in DOMAIN states : /\ states[i].key = role[n].key
                                         /\ states[i].state = shared[n]
    BY <2>1 DEF Inv, Promised
  <2>2. ASSUME NEW n \in Nets, NEW m \in Nets, role[n].key = role[m].key,
               shared[n] # None, shared[m] # None
        PROVE  shared[n] = shared[m]
    BY <2>1, <2>2 DEF Inv, Listed
  <2>3. ASSUME NEW n \in Nets, pc[n] \in Initialising \union {"run"},
               role[n].key # None
        PROVE  shared[n] # None /\ role[shared[n]].key = role[n].key
    <3>1. shared[n] # None
      BY <2>3 DEF Inv, Promised, Ways, Allocating, Initialising
    <3> QED BY <2>1, <3>1 DEF Inv, Listed
  <2> QED BY <2>2, <2>3 DEF OneSharedState
<1> QED BY <1>1, SpecInv, PTL

(* A net that runs has its configuration, every configuration comes from a *)
(* net that has its own, and nets that wait in a circle never run, for any *)
(* number of nets: the reads between the barriers of                       *)
(* smx_net_start_routine_with_shared_state are why.                        *)
THEOREM RunningConfigured == Spec => []RunsConfigured
<1>1. Inv => RunsConfigured
  <2> SUFFICES ASSUME Inv PROVE RunsConfigured
    OBVIOUS
  <2>1. ASSUME NEW n \in Nets, pc[n] = "run" PROVE Configured(n)
    BY <2>1 DEF Inv, Ways, Sourced, Configured
  <2>2. ASSUME NEW S \in SUBSET Nets, Circle(S), NEW n \in S
        PROVE  pc[n] # "run" /\ n \notin sent
    <3>1. n \notin sent
      BY <2>2 DEF Inv, Sourced
    <3>2. role[n].from # None
      BY <2>2, StartupAssumption DEF Circle
    <3> QED BY <2>1, <2>2, <3>1, <3>2 DEF Configured
  <2> QED BY <2>1, <2>2 DEF Inv, Sourced, RunsConfigured
<1> QED BY <1>1, SpecInv, PTL
=============================================================================
