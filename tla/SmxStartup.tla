------------------------------ MODULE SmxStartup ------------------------------
(***************************************************************************)
(* The start of the net threads (smx_net_start_routine_with_shared_state), *)
(* up to their main loops: the allocation of shared states under the net   *)
(* mutex, the barrier after it, the read of a dynamic configuration from   *)
(* another net, the initialisation of the net, and the barrier before the  *)
(* main loop.  A net that is disabled or fails has to pass the barriers    *)
(* all the same, for the others to get through.                            *)
(***************************************************************************)
EXTENDS Integers, FiniteSets, Sequences

CONSTANTS
  Nets,     \* the nets of the program
  Keys,     \* the keys of shared states
  None,     \* no net, no key, NULL
  Programs  \* the programs considered: a role for each net

(* What a net is configured to do: disabled; with a static configuration   *)
(* or without; the key of its shared state; the net that sends its dynamic *)
(* configuration, on a port whose read blocks, whether that read has a     *)
(* timeout and whether the net's property type_filter is set; whether its  *)
(* own init sends the configurations others wait for; and which of its     *)
(* steps fail ("port": the named port does not exist).                     *)
Role == [disabled : BOOLEAN, static : BOOLEAN, key : Keys \union {None},
         from : Nets \union {None}, timeout : BOOLEAN, filter : BOOLEAN,
         sends : BOOLEAN,
         fails : SUBSET {"init_shared", "port", "parse", "init"}]

ASSUME StartupAssumption ==
  /\ IsFiniteSet(Nets) /\ Nets # {}
  /\ None \notin Nets \union Keys
  /\ Programs \subseteq [Nets -> Role]

VARIABLES
  role,      \* the program that runs
  pc,        \* where each net is
  failed,    \* the nets that are going to terminate after the barriers
  mutex,     \* the net that holds net_mutex
  arrived,   \* how many threads have come to each barrier
  states,    \* rts->shared_state: [key, state]; a state is called after the
             \*   net that allocated it
  shared,    \* the shared state of each net
  sent       \* the nets whose dynamic configuration is in their port

vars == <<role, pc, failed, mutex, arrived, states, shared, sent>>

Pc == {"start", "mutex", "alloc", "pre", "conf", "filter", "await", "init",
       "done", "run", "ended"}

TypeOK ==
  /\ role \in Programs
  /\ pc \in [Nets -> Pc]
  /\ failed \subseteq Nets
  /\ mutex \in Nets \union {None}
  /\ arrived \in [{"pre_init_done", "init_done"} -> 0 .. Cardinality(Nets)]
  /\ states \in Seq([key : Keys, state : Nets \union {None}])
  /\ shared \in [Nets -> Nets \union {None}]
  /\ sent \subseteq Nets

Init ==
  /\ role \in Programs
  /\ pc = [n \in Nets |-> "start"]
  /\ failed = {}
  /\ mutex = None
  /\ arrived = [b \in {"pre_init_done", "init_done"} |-> 0]
  /\ states = <<>>
  /\ shared = [n \in Nets |-> None]
  /\ sent = {}

-----------------------------------------------------------------------------
GoTo(n, step) == pc' = [pc EXCEPT ![n] = step]

(* pthread_barrier_wait: to arrive is a step, to go on needs everybody.    *)
Arrive(b) == arrived' = [arrived EXCEPT ![b] = @ + 1]
(* Mutant: a barrier for one thread too few.                               *)
OpenEarly(b) == arrived[b] >= Cardinality(Nets) - 1

Open(b) == arrived[b] = Cardinality(Nets)

(* A net that gives up before the first barrier goes through both, one     *)
(* that gives up later through the second.                                 *)
GiveUpBeforePreInit(n) ==
  /\ failed' = failed \union {n}
  /\ Arrive("pre_init_done")
  /\ GoTo(n, "pre")

(* Mutant: the second barrier is forgotten on the way out.                 *)
GiveUpAlone(n) ==
  /\ failed' = failed \union {n}
  /\ GoTo(n, "done")
  /\ UNCHANGED arrived

GiveUp(n) ==
  /\ failed' = failed \union {n}
  /\ Arrive("init_done")
  /\ GoTo(n, "done")

Start(n) ==
  /\ pc[n] = "start"
  /\ \/ /\ role[n].disabled \/ (role[n].key # None /\ ~role[n].static)
        /\ GiveUpBeforePreInit(n)
     \/ /\ ~role[n].disabled /\ role[n].key = None
        /\ Arrive("pre_init_done") /\ GoTo(n, "pre") /\ UNCHANGED failed
     \/ /\ ~role[n].disabled /\ role[n].key # None /\ role[n].static
        /\ GoTo(n, "mutex") /\ UNCHANGED <<failed, arrived>>
  /\ UNCHANGED <<role, mutex, states, shared, sent>>

(* The first entry with the net's key is taken; a NULL state counts as     *)
(* none.                                                                   *)
Entries(n) == {i \in DOMAIN states : states[i].key = role[n].key}
Found(n) == IF Entries(n) = {} THEN None
            ELSE states[CHOOSE i \in Entries(n) :
                          \A j \in Entries(n) : i <= j].state

(* Mutant: the list is searched without the mutex.                         *)
LookUpUnlocked(n) ==
  /\ pc[n] = "mutex"
  /\ shared' = [shared EXCEPT ![n] = Found(n)]
  /\ IF Found(n) = None
     THEN mutex' = n /\ GoTo(n, "alloc") /\ UNCHANGED arrived
     ELSE Arrive("pre_init_done") /\ GoTo(n, "pre") /\ UNCHANGED mutex
  /\ UNCHANGED <<role, failed, states, sent>>

LookUp(n) ==
  /\ pc[n] = "mutex" /\ mutex = None
  /\ shared' = [shared EXCEPT ![n] = Found(n)]
  /\ IF Found(n) = None
     THEN mutex' = n /\ GoTo(n, "alloc") /\ UNCHANGED arrived
     ELSE Arrive("pre_init_done") /\ GoTo(n, "pre") /\ UNCHANGED mutex
  /\ UNCHANGED <<role, failed, states, sent>>

(* The entry is made in any case.  The mutex is only given back when       *)
(* init_shared succeeds.                                                   *)
InitShared(n) ==
  LET ok == "init_shared" \notin role[n].fails
      state == IF ok THEN n ELSE None
  IN  /\ pc[n] = "alloc"
      /\ states' = Append(states, [key |-> role[n].key, state |-> state])
      /\ shared' = [shared EXCEPT ![n] = state]
      /\ IF ok
         THEN mutex' = None /\ Arrive("pre_init_done") /\ GoTo(n, "pre")
              /\ UNCHANGED failed
         ELSE GiveUpBeforePreInit(n) /\ UNCHANGED mutex
      /\ UNCHANGED <<role, sent>>

PassPreInit(n) ==
  /\ pc[n] = "pre" /\ Open("pre_init_done")
  /\ IF n \in failed THEN Arrive("init_done") /\ GoTo(n, "done")
                     ELSE GoTo(n, "conf") /\ UNCHANGED arrived
  /\ UNCHANGED <<role, failed, mutex, states, shared, sent>>

(* Without a configuration port the static configuration has to do.        *)
SkipConfig(n) ==
  /\ pc[n] = "conf" /\ role[n].from = None
  /\ IF role[n].static THEN GoTo(n, "init") /\ UNCHANGED <<failed, arrived>>
                       ELSE GiveUp(n)
  /\ UNCHANGED <<role, mutex, states, shared, sent>>

MissConfigPort(n) ==
  /\ pc[n] = "conf" /\ role[n].from # None /\ "port" \in role[n].fails
  /\ GiveUp(n)
  /\ UNCHANGED <<role, mutex, states, shared, sent>>

(* smx_channel_set_filter on the port: the list of types is there before   *)
(* its length and its types are, and no mutex is held.                     *)
SetFilter(n) ==
  /\ pc[n] = "conf" /\ role[n].from # None /\ "port" \notin role[n].fails
  /\ GoTo(n, IF role[n].filter THEN "filter" ELSE "await")
  /\ UNCHANGED <<role, failed, mutex, arrived, states, shared, sent>>

FilterSet(n) ==
  /\ pc[n] = "filter"
  /\ GoTo(n, "await")
  /\ UNCHANGED <<role, failed, mutex, arrived, states, shared, sent>>

(* smx_channel_read on the configuration port.  Its producer terminates    *)
(* only behind the second barrier, so this read never meets NO_TARGET.     *)
ReadConfig(n) ==
  /\ pc[n] = "await" /\ n \in sent
  /\ IF "parse" \in role[n].fails
     THEN GiveUp(n)
     ELSE GoTo(n, "init") /\ UNCHANGED <<failed, arrived>>
  /\ UNCHANGED <<role, mutex, states, shared, sent>>

(* Mutant: the static configuration is used instead.                       *)
ConfigTimeoutGoesOn(n) ==
  /\ pc[n] = "await" /\ role[n].timeout
  /\ GoTo(n, "init")
  /\ UNCHANGED <<role, failed, mutex, arrived, states, shared, sent>>

ConfigTimeout(n) ==
  /\ pc[n] = "await" /\ role[n].timeout
  /\ GiveUp(n)
  /\ UNCHANGED <<role, mutex, states, shared, sent>>

(* The net's own init, in which it may write to its output ports, also     *)
(* when it fails in the end: then some of the configurations may be gone   *)
(* out before.  A write that meets a half-made filter is rejected or not,  *)
(* as what it finds in the list happens to be.                             *)
HalfFiltered == {m \in Nets : pc[m] = "filter"}
Listeners(n) == {m \in Nets : role[m].from = n}

InitNet(n) ==
  LET fails == "init" \in role[n].fails
  IN  /\ pc[n] = "init"
      /\ \E lost \in SUBSET Listeners(n) :
           /\ fails \/ lost \subseteq HalfFiltered
           /\ sent' = IF role[n].sends THEN sent \union (Listeners(n) \ lost)
                                      ELSE sent
      /\ IF fails THEN GiveUp(n)
         ELSE Arrive("init_done") /\ GoTo(n, "done") /\ UNCHANGED failed
      /\ UNCHANGED <<role, mutex, states, shared>>

(* Into the main loop, or to smx_net_terminate.                            *)
PassInit(n) ==
  /\ pc[n] = "done" /\ Open("init_done")
  /\ GoTo(n, IF n \in failed THEN "ended" ELSE "run")
  /\ UNCHANGED <<role, failed, mutex, arrived, states, shared, sent>>

(* The main loop ends.                                                     *)
End(n) ==
  /\ pc[n] = "run"
  /\ GoTo(n, "ended")
  /\ UNCHANGED <<role, failed, mutex, arrived, states, shared, sent>>

StartUp(n) ==
  \/ Start(n) \/ LookUp(n) \/ InitShared(n) \/ PassPreInit(n)
  \/ SkipConfig(n) \/ MissConfigPort(n) \/ SetFilter(n)
  \/ FilterSet(n) \/ ReadConfig(n) \/ ConfigTimeout(n)
  \/ InitNet(n) \/ PassInit(n)

Next == \E n \in Nets : StartUp(n) \/ End(n)

(* The threads run and what they call during the start returns.  Each net  *)
(* takes the mutex once, so that weak fairness gets everybody their turn.  *)
Fairness == \A n \in Nets : WF_vars(StartUp(n))

Spec == Init /\ [][Next]_vars
FairSpec == Spec /\ Fairness

-----------------------------------------------------------------------------
(* Safety.                                                                 *)

(* The barriers keep the phases apart, whichever nets give up and where:   *)
(* while a net allocates shared states none reads a configuration or       *)
(* initialises, and while one does none is in its main loop or gone.       *)
Allocating == {"start", "mutex", "alloc"}
Initialising == {"conf", "filter", "await", "init"}
PhasesApart ==
  \A n, m \in Nets :
    /\ pc[n] \in Initialising => pc[m] \notin Allocating
    /\ pc[n] \in {"run", "ended"} =>
         pc[m] \notin Allocating \union Initialising \union {"pre"}

(* Nets with the same key share one state, whichever of them comes first,  *)
(* and a net that initialises or runs has the state it was promised.       *)
OneSharedState ==
  /\ \A n, m \in Nets :
       role[n].key = role[m].key /\ shared[n] # None /\ shared[m] # None
         => shared[n] = shared[m]
  /\ \A n \in Nets :
       pc[n] \in Initialising \union {"run"} /\ role[n].key # None
         => shared[n] # None /\ role[shared[n]].key = role[n].key

(* A net is in its main loop only with the configuration it waited for,    *)
(* and each configuration comes from a net that had its own, though that   *)
(* one's init may have failed after it was sent: so back to a net with a   *)
(* static configuration, and nets that wait for one another in a circle    *)
(* never run, whichever of them give up waiting and when.                  *)
Configured(n) == /\ ~role[n].disabled
                 /\ IF role[n].from = None THEN role[n].static ELSE n \in sent

Circle(S) == S \subseteq Nets /\ \A n \in S : role[n].from \in S

RunsConfigured ==
  /\ \A n \in Nets : pc[n] = "run" => Configured(n)
  /\ \A n \in sent : Configured(role[n].from)
  /\ \A S \in SUBSET Nets :
       Circle(S) => \A n \in S : pc[n] # "run" /\ n \notin sent

-----------------------------------------------------------------------------
(* Liveness.                                                               *)

AllThrough == \A n \in Nets : pc[n] \in {"run", "ended"}

(* The nets that get as far as the pre-initialisation with a shared state. *)
UsesShared(n) == ~role[n].disabled /\ role[n].key # None /\ role[n].static

(* Nobody can be left waiting for the mutex of a failed init_shared ...    *)
SharedSafe == \A n \in Nets : UsesShared(n) /\ "init_shared" \in role[n].fails
                => \A m \in Nets \ {n} : ~UsesShared(m)

(* ... nor for a configuration: a read without a timeout is of a port that *)
(* gets no type filter, and waits for a net that is sure to send, which is *)
(* so after k rounds of the nets that wait only for nets known to be sure. *)
Sure[k \in 0 .. Cardinality(Nets)] ==
  IF k = 0 THEN {}
  ELSE {p \in Nets :
          LET r == role[p]
          IN  /\ ~r.disabled /\ r.sends /\ r.fails = {}
              /\ r.key # None => r.static
              /\ IF r.from = None THEN r.static
                 ELSE ~r.timeout /\ ~r.filter /\ r.from \in Sure[k - 1]}

ConfigSafe == \A n \in Nets : role[n].from # None /\ ~role[n].timeout
                => ~role[n].filter /\ role[n].from \in Sure[Cardinality(Nets)]

(* Every net gets through both barriers, whichever nets are disabled or    *)
(* fail, in the programs where no wait depends on one that does.           *)
StartupCompletes == SharedSafe /\ ConfigSafe => <>AllThrough

(* smxrts.h: the barrier is there "to make sure all nets finish            *)
(* intialisation befor staring the main loop".  It does not let all nets   *)
(* finish when init_shared fails in one of several.                        *)
EveryNetThrough == <>AllThrough
=============================================================================
