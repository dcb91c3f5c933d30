----------------------------- MODULE SmxNetProofs -----------------------------
(***************************************************************************)
(* The end of nets in every network: no net ends without a cause, and one  *)
(* that ends because its producers did leaves no message behind.           *)
(***************************************************************************)
EXTENDS SmxNet, SmxFifoProofs

(* A net in a loop over its ports is at one of them.                       *)
InLoop(n) == nets[n].pc \in {"read", "ins", "termIn", "write", "outs", "termOut"}

AtPorts ==
  \A n \in Nets : InLoop(n) =>
    nets[n].port \in DOMAIN Ports(graph, n, nets[n].pc)

Typed == TypeOK /\ AtPorts

(* An end of a channel is at END only because the net at the other end is  *)
(* in smx_net_terminate, and past its inputs if it is the producer.        *)
Told ==
  \A c \in Channels :
    /\ chans[c].source.state = "END" =>
         \E m \in Nets : nets[m].pc \in {"termOut", "ended"} /\ Writes(graph, m, c)
    /\ chans[c].sink.state = "END" =>
         \E m \in Nets : Ending(m) /\ Reads(graph, m, c)

(* What the loops of smx_net_update_state found stays true.                *)
Drained(n, i) ==
  /\ i \in Triggers(graph, n)
  /\ chans[graph.in[n][i]].source.state = "END"
  /\ chans[graph.in[n][i]].fifo = <<>>
Abandoned(n, i) ==
  /\ i \in DOMAIN graph.out[n] /\ graph.out[n][i] # Open
  /\ chans[graph.out[n][i]].sink.state = "END"

Seen ==
  \A n \in Nets : /\ \A i \in nets[n].doneIn : Drained(n, i)
                  /\ \A i \in nets[n].doneOut : Abandoned(n, i)

Reasons ==
  \A n \in Nets : nets[n].why = "inputs" =>
                    Ending(n) /\ Triggers(graph, n) \subseteq nets[n].doneIn

Caused == doomed = Doomed(graph) /\ EndHasCause

Inv == Typed /\ Told /\ Seen /\ Reasons /\ Caused

-----------------------------------------------------------------------------
(* Places.                                                                 *)

(* The ports of a net are channels, or open.                               *)
LEMMA PortType ==
  ASSUME NEW g \in Networks, NEW n \in Nets
  PROVE  /\ g.in[n] \in Seq(Channels \union {Open})
         /\ g.out[n] \in Seq(Channels \union {Open})
         /\ \A i \in DOMAIN g.in[n] : i \in Nat \ {0}
                                      /\ g.in[n][i] \in Channels \union {Open}
         /\ \A i \in DOMAIN g.out[n] : i \in Nat \ {0}
                                       /\ g.out[n][i] \in Channels \union {Open}
         /\ g.limit[n] \in Nat
<1>1. /\ g.in \in [Nets -> Seq(Channels \union {Open})]
      /\ g.out \in [Nets -> Seq(Channels \union {Open})]
      /\ g.limit \in [Nets -> Nat]
  BY NetworkAssumption
<1> QED BY <1>1

(* From the inputs a net comes to the outputs, and from there to the end   *)
(* of the loop; in smx_net_terminate it does not leave that.               *)
LEMMA PlaceType ==
  ASSUME NEW g \in Networks, NEW n \in Nets, NEW port \in Nat \ {0},
         NEW pc \in {"read", "ins", "termIn", "write", "outs", "termOut"}
  PROVE  LET p == Place(g, n, pc, port)
         IN  /\ p.pc \in Pc /\ p.port \in Nat \ {0}
             /\ p.pc \in {"read", "ins", "termIn", "write", "outs", "termOut"}
                  => p.port \in DOMAIN Ports(g, n, p.pc)
             /\ pc \in {"read", "write"} => p.pc \in {"read", "write", "return"}
             /\ pc \in {"ins", "outs"} => p.pc \in {"ins", "outs", "decide"}
             /\ pc = "termIn" => p.pc \in {"termIn", "termOut", "ended"}
             /\ pc = "termOut" => p.pc \in {"termOut", "ended"}
<1> DEFINE p == Place(g, n, pc, port)
<1>1. /\ DOMAIN Second = {"read", "ins", "termIn"}
      /\ DOMAIN Third = {"write", "outs", "termOut"}
      /\ Second["read"] = "write" /\ Second["ins"] = "outs"
      /\ Second["termIn"] = "termOut"
      /\ Third["write"] = "return" /\ Third["outs"] = "decide"
      /\ Third["termOut"] = "ended"
  BY DEF Second, Third
<1>2. g.out[n] # <<>> => 1 \in DOMAIN g.out[n]
  BY PortType
<1>3. CASE pc \in {"read", "ins", "termIn"}
  <2>1. CASE port \in DOMAIN g.in[n]
    <3>1. p = [pc |-> pc, port |-> port]
      BY <1>1, <1>3, <2>1 DEF Place, Ports
    <3> QED BY <1>1, <1>3, <2>1, <3>1 DEF Ports, Pc
  <2>2. CASE port \notin DOMAIN g.in[n]
    <3>1. p = IF g.out[n] = <<>> THEN [pc |-> Third[Second[pc]], port |-> 1]
                                 ELSE [pc |-> Second[pc], port |-> 1]
      BY <1>1, <1>3, <2>2 DEF Place, Ports
    <3> QED BY <1>1, <1>2, <1>3, <3>1 DEF Ports, Pc
  <2> QED BY <2>1, <2>2
<1>4. CASE pc \in {"write", "outs", "termOut"}
  <2>1. CASE port \in DOMAIN g.out[n]
    <3>1. p = [pc |-> pc, port |-> port]
      BY <1>1, <1>4, <2>1 DEF Place, Ports
    <3> QED BY <1>1, <1>4, <2>1, <3>1 DEF Ports, Pc
  <2>2. CASE port \notin DOMAIN g.out[n]
    <3>1. p = [pc |-> Third[pc], port |-> 1]
      BY <1>1, <1>4, <2>2 DEF Place, Ports
    <3> QED BY <1>1, <1>4, <3>1 DEF Ports, Pc
  <2> QED BY <2>1, <2>2
<1> QED BY <1>3, <1>4

(* Moving a net changes its place and nothing else.                        *)
LEMMA AtType ==
  ASSUME TypeOK, NEW n \in Nets, NEW place, place.pc \in Pc,
         place.port \in Nat \ {0}
  PROVE  /\ At(n, place) \in [Nets -> NetState]
         /\ \A m \in Nets : m # n => At(n, place)[m] = nets[m]
         /\ At(n, place)[n] = [nets[n] EXCEPT !.pc = place.pc,
                                             !.port = place.port]
<1>1. nets \in [Nets -> NetState] /\ nets[n] \in NetState
  BY DEF TypeOK
<1> QED BY <1>1 DEF At, NetState

(* A net that is at a port is at the next, or past the loop.               *)
LEMMA NextPortType ==
  ASSUME Typed, NEW n \in Nets, InLoop(n)
  PROVE  LET p == Place(graph, n, nets[n].pc, nets[n].port + 1)
         IN  /\ NextPort(n) \in [Nets -> NetState]
             /\ \A m \in Nets : m # n => NextPort(n)[m] = nets[m]
             /\ NextPort(n)[n] = [nets[n] EXCEPT !.pc = p.pc, !.port = p.port]
             /\ p.pc \in {"read", "ins", "termIn", "write", "outs", "termOut"}
                  => p.port \in DOMAIN Ports(graph, n, p.pc)
             /\ nets[n].pc \in {"read", "write"}
                  => p.pc \in {"read", "write", "return"}
             /\ nets[n].pc \in {"ins", "outs"} => p.pc \in {"ins", "outs", "decide"}
             /\ nets[n].pc = "termIn" => p.pc \in {"termIn", "termOut", "ended"}
             /\ nets[n].pc = "termOut" => p.pc \in {"termOut", "ended"}
<1> DEFINE p == Place(graph, n, nets[n].pc, nets[n].port + 1)
<1>1. /\ graph \in Networks /\ nets[n] \in NetState
      /\ nets[n].port + 1 \in Nat \ {0}
  BY DEF Typed, TypeOK, NetState
<1>2. /\ p.pc \in Pc /\ p.port \in Nat \ {0}
      /\ p.pc \in {"read", "ins", "termIn", "write", "outs", "termOut"}
           => p.port \in DOMAIN Ports(graph, n, p.pc)
      /\ nets[n].pc \in {"read", "write"} => p.pc \in {"read", "write", "return"}
      /\ nets[n].pc \in {"ins", "outs"} => p.pc \in {"ins", "outs", "decide"}
      /\ nets[n].pc = "termIn" => p.pc \in {"termIn", "termOut", "ended"}
      /\ nets[n].pc = "termOut" => p.pc \in {"termOut", "ended"}
  BY <1>1, PlaceType DEF InLoop
<1>3. /\ NextPort(n) \in [Nets -> NetState]
      /\ \A m \in Nets : m # n => NextPort(n)[m] = nets[m]
      /\ NextPort(n)[n] = [nets[n] EXCEPT !.pc = p.pc, !.port = p.port]
  <2> HIDE DEF p
  <2>1. NextPort(n) = At(n, p)
    BY DEF NextPort, p
  <2>2. /\ At(n, p) \in [Nets -> NetState]
        /\ \A m \in Nets : m # n => At(n, p)[m] = nets[m]
        /\ At(n, p)[n] = [nets[n] EXCEPT !.pc = p.pc, !.port = p.port]
    BY <1>2, AtType, Zenon DEF Typed
  <2> QED BY <2>1, <2>2, Zenon
<1> QED BY <1>2, <1>3

(* The port a net is at.                                                   *)
LEMMA CurrentPort ==
  ASSUME Typed, NEW n \in Nets, InLoop(n)
  PROVE  /\ Port(n) \in Channels \union {Open}
         /\ nets[n].pc \in {"read", "ins", "termIn"} =>
              /\ nets[n].port \in DOMAIN graph.in[n]
              /\ Port(n) = graph.in[n][nets[n].port] /\ Reads(graph, n, Port(n))
         /\ nets[n].pc \in {"write", "outs", "termOut"} =>
              /\ nets[n].port \in DOMAIN graph.out[n]
              /\ Port(n) = graph.out[n][nets[n].port]
              /\ Writes(graph, n, Port(n))
<1>1. graph \in Networks /\ nets[n].port \in DOMAIN Ports(graph, n, nets[n].pc)
  BY DEF Typed, TypeOK, AtPorts
<1>2. DOMAIN Second = {"read", "ins", "termIn"}
  BY DEF Second
<1>3. CASE nets[n].pc \in {"read", "ins", "termIn"}
  BY <1>1, <1>2, <1>3, PortType DEF Ports, Port, Reads
<1>4. CASE nets[n].pc \in {"write", "outs", "termOut"}
  BY <1>1, <1>2, <1>4, PortType DEF Ports, Port, Writes
<1> QED BY <1>3, <1>4 DEF InLoop

-----------------------------------------------------------------------------
(* What a step of one net does.                                            *)

(* To the net: it stays at its ports, adds to what it has found only what  *)
(* it has seen, and starts to end for one of three reasons.                *)
Moves(n) ==
  /\ graph' = graph /\ doomed' = doomed
  /\ nets' \in [Nets -> NetState]
  /\ \A m \in Nets : m # n => nets'[m] = nets[m]
  /\ InLoop(n)' => nets'[n].port \in DOMAIN Ports(graph, n, nets'[n].pc)
  /\ \/ nets'[n].doneIn \in {nets[n].doneIn, {}}
     \/ \E i : Drained(n, i) /\ nets'[n].doneIn = nets[n].doneIn \union {i}
  /\ \/ nets'[n].doneOut \in {nets[n].doneOut, {}}
     \/ \E i : Abandoned(n, i) /\ nets'[n].doneOut = nets[n].doneOut \union {i}
  /\ nets[n].pc \in {"termOut", "ended"} => nets'[n].pc \in {"termOut", "ended"}
  /\ Ending(n) => Ending(n)' /\ nets'[n].doneIn = nets[n].doneIn
  /\ \/ /\ nets'[n].why = nets[n].why
        /\ Ending(n)' => Ending(n)
     \/ /\ nets'[n].doneIn = nets[n].doneIn /\ Ending(n)'
        /\ \/ nets'[n].why = "forced" /\ graph.limit[n] > 0
           \/ nets'[n].why = "inputs" /\ InputsDone(n)
           \/ nets'[n].why = "outputs" /\ OutputsDone(n)

(* A step to the next port that changes nothing else of the net.           *)
LEMMA PassMoves ==
  ASSUME Typed, NEW n \in Nets, InLoop(n), nets' = NextPort(n),
         graph' = graph, doomed' = doomed
  PROVE  Moves(n)
<1> DEFINE p == Place(graph, n, nets[n].pc, nets[n].port + 1)
<1>1. nets[n] \in NetState
  BY DEF Typed, TypeOK
<1>2. /\ nets' \in [Nets -> NetState]
      /\ \A m \in Nets : m # n => nets'[m] = nets[m]
      /\ nets'[n] = [nets[n] EXCEPT !.pc = p.pc, !.port = p.port]
      /\ p.pc \in {"read", "ins", "termIn", "write", "outs", "termOut"}
           => p.port \in DOMAIN Ports(graph, n, p.pc)
      /\ nets[n].pc \in {"read", "write"} => p.pc \in {"read", "write", "return"}
      /\ nets[n].pc \in {"ins", "outs"} => p.pc \in {"ins", "outs", "decide"}
      /\ nets[n].pc = "termIn" => p.pc \in {"termIn", "termOut", "ended"}
      /\ nets[n].pc = "termOut" => p.pc \in {"termOut", "ended"}
  BY NextPortType
<1>3. /\ nets'[n].pc = p.pc /\ nets'[n].port = p.port
      /\ nets'[n].doneIn = nets[n].doneIn /\ nets'[n].doneOut = nets[n].doneOut
      /\ nets'[n].why = nets[n].why
  BY <1>1, <1>2 DEF NetState
<1> HIDE DEF p
<1> QED BY <1>2, <1>3 DEF Moves, InLoop, Ending

(* smx_net_update_state and its looks.                                     *)
LEMMA LookMoves ==
  ASSUME Typed, NEW n \in Nets, LookIn(n) \/ LookOut(n)
  PROVE  Moves(n)
<1>1. /\ nets[n] \in NetState /\ nets[n].port \in Nat
      /\ nets[n].doneIn \subseteq Nat /\ nets[n].doneOut \subseteq Nat
  BY DEF Typed, TypeOK, NetState
<1>2. InLoop(n) /\ nets[n].pc \in {"ins", "outs"}
      /\ Port(n) # Open /\ graph' = graph /\ doomed' = doomed
  BY DEF LookIn, LookOut, AtChannel, InLoop
<1> DEFINE p == Place(graph, n, nets[n].pc, nets[n].port + 1)
<1>3. /\ NextPort(n) \in [Nets -> NetState]
      /\ \A m \in Nets : m # n => NextPort(n)[m] = nets[m]
      /\ NextPort(n)[n] = [nets[n] EXCEPT !.pc = p.pc, !.port = p.port]
      /\ p.pc \in {"ins", "outs", "decide"}
      /\ p.pc \in {"ins", "outs"} => p.port \in DOMAIN Ports(graph, n, p.pc)
  BY <1>2, NextPortType
<1>4. CASE LookIn(n)
  <2>1. PICK D \in {nets[n].doneIn, nets[n].doneIn \union {nets[n].port}} :
          /\ nets' = [NextPort(n) EXCEPT ![n].doneIn = D]
          /\ D # nets[n].doneIn => Drained(n, nets[n].port)
    BY <1>1, <1>2, <1>3, <1>4, CurrentPort
       DEF LookIn, AtChannel, Drained, NetState
  <2>2. D \subseteq Nat
    BY <1>1, <2>1
  <2>3. /\ nets' \in [Nets -> NetState]
        /\ \A m \in Nets : m # n => nets'[m] = nets[m]
        /\ nets'[n] = [nets[n] EXCEPT !.pc = p.pc, !.port = p.port, !.doneIn = D]
    BY <1>1, <1>3, <2>1, <2>2 DEF NetState
  <2> QED BY <1>1, <1>2, <1>3, <2>1, <2>3 DEF Moves, InLoop, Ending, NetState
<1>5. CASE LookOut(n)
  <2>1. PICK D \in {nets[n].doneOut, nets[n].doneOut \union {nets[n].port}} :
          /\ nets' = [NextPort(n) EXCEPT ![n].doneOut = D]
          /\ D # nets[n].doneOut => Abandoned(n, nets[n].port)
    BY <1>1, <1>2, <1>3, <1>5, CurrentPort
       DEF LookOut, AtChannel, Abandoned, NetState
  <2>2. D \subseteq Nat
    BY <1>1, <2>1
  <2>3. /\ nets' \in [Nets -> NetState]
        /\ \A m \in Nets : m # n => nets'[m] = nets[m]
        /\ nets'[n] = [nets[n] EXCEPT !.pc = p.pc, !.port = p.port, !.doneOut = D]
    BY <1>1, <1>3, <2>1, <2>2 DEF NetState
  <2> QED BY <1>1, <1>2, <1>3, <2>1, <2>3 DEF Moves, InLoop, Ending, NetState
<1> QED BY <1>4, <1>5

(* A jump to the start of another loop.                                    *)
LEMMA JumpType ==
  ASSUME Typed, NEW n \in Nets, NEW pc \in {"read", "ins", "termIn"}
  PROVE  LET p == Place(graph, n, pc, 1)
         IN  /\ At(n, p) \in [Nets -> NetState]
             /\ \A m \in Nets : m # n => At(n, p)[m] = nets[m]
             /\ At(n, p)[n] = [nets[n] EXCEPT !.pc = p.pc, !.port = p.port]
             /\ p.pc \in {"read", "ins", "termIn", "write", "outs", "termOut"}
                  => p.port \in DOMAIN Ports(graph, n, p.pc)
             /\ pc = "read" => p.pc \in {"read", "write", "return"}
             /\ pc = "ins" => p.pc \in {"ins", "outs", "decide"}
             /\ pc = "termIn" => p.pc \in {"termIn", "termOut", "ended"}
<1> DEFINE p == Place(graph, n, pc, 1)
<1>1. graph \in Networks /\ 1 \in Nat \ {0}
  BY DEF Typed, TypeOK
<1>2. /\ p.pc \in Pc /\ p.port \in Nat \ {0}
      /\ p.pc \in {"read", "ins", "termIn", "write", "outs", "termOut"}
           => p.port \in DOMAIN Ports(graph, n, p.pc)
      /\ pc = "read" => p.pc \in {"read", "write", "return"}
      /\ pc = "ins" => p.pc \in {"ins", "outs", "decide"}
      /\ pc = "termIn" => p.pc \in {"termIn", "termOut", "ended"}
  BY <1>1, PlaceType
<1> HIDE DEF p
<1>3. /\ At(n, p) \in [Nets -> NetState]
      /\ \A m \in Nets : m # n => At(n, p)[m] = nets[m]
      /\ At(n, p)[n] = [nets[n] EXCEPT !.pc = p.pc, !.port = p.port]
  BY <1>2, AtType, Zenon DEF Typed
<1> QED BY <1>2, <1>3 DEF p

(* The box goes on.                                                        *)
LEMMA BoxMoves ==
  ASSUME Typed, NEW n \in Nets, Read(n) \/ Return(n) \/ ReturnEnd(n)
  PROVE  Moves(n)
<1>1. /\ graph \in Networks /\ nets[n] \in NetState
      /\ nets[n].loops \in Nat /\ graph.limit[n] \in Nat
  BY PortType DEF Typed, TypeOK, NetState
<1>2. CASE Read(n)
  <2> DEFINE p == Place(graph, n, nets[n].pc, nets[n].port + 1)
  <2>1. /\ nets[n].pc = "read" /\ InLoop(n)
        /\ graph' = graph /\ doomed' = doomed
    BY <1>2 DEF Read, AtChannel, InLoop
  <2>2. /\ NextPort(n) \in [Nets -> NetState]
        /\ \A m \in Nets : m # n => NextPort(n)[m] = nets[m]
        /\ NextPort(n)[n] = [nets[n] EXCEPT !.pc = p.pc, !.port = p.port]
        /\ p.pc \in {"read", "write", "return"}
        /\ p.pc \in {"read", "write"} => p.port \in DOMAIN Ports(graph, n, p.pc)
    BY <2>1, NextPortType
  <2> HIDE DEF p
  <2>3. PICK b \in BOOLEAN : nets' = [NextPort(n) EXCEPT ![n].got = b]
    <3>1. NextPort(n)[n].got \in BOOLEAN
      BY <2>2 DEF NetState
    <3> QED BY <1>2, <3>1 DEF Read
  <2>4. /\ nets' \in [Nets -> NetState]
        /\ \A m \in Nets : m # n => nets'[m] = nets[m]
        /\ nets'[n] = [nets[n] EXCEPT !.pc = p.pc, !.port = p.port, !.got = b]
    BY <2>2, <2>3 DEF NetState
  <2> QED BY <1>1, <2>1, <2>2, <2>4 DEF Moves, InLoop, Ending, NetState
<1>3. CASE Return(n)
  <2> DEFINE p == Place(graph, n, "ins", 1)
  <2>1. nets[n].pc = "return" /\ graph' = graph /\ doomed' = doomed
    BY <1>3 DEF Return
  <2>2. /\ At(n, p) \in [Nets -> NetState]
        /\ \A m \in Nets : m # n => At(n, p)[m] = nets[m]
        /\ At(n, p)[n] = [nets[n] EXCEPT !.pc = p.pc, !.port = p.port]
        /\ p.pc \in {"ins", "outs", "decide"}
        /\ p.pc \in {"ins", "outs"} => p.port \in DOMAIN Ports(graph, n, p.pc)
    BY JumpType
  <2>3. PICK k \in Nat :
          nets' = [At(n, p) EXCEPT ![n].doneIn = {}, ![n].doneOut = {},
                                   ![n].loops = k]
    <3>1. At(n, p)[n].loops \in Nat
      BY <2>2 DEF NetState
    <3> QED BY <1>1, <1>3, <3>1 DEF Return
  <2> HIDE DEF p
  <2>4. /\ nets' \in [Nets -> NetState]
        /\ \A m \in Nets : m # n => nets'[m] = nets[m]
        /\ nets'[n] = [nets[n] EXCEPT !.pc = p.pc, !.port = p.port,
                          !.doneIn = {}, !.doneOut = {}, !.loops = k]
    <3> DEFINE t == At(n, p)[n]
               u == [t EXCEPT !.doneIn = {}, !.doneOut = {}, !.loops = k]
    <3>1. t \in NetState
      BY <2>2
    <3>2. u \in NetState
      BY <3>1 DEF NetState
    <3>3. nets' = [At(n, p) EXCEPT ![n] = u]
      BY <2>2, <2>3
    <3>4. u = [nets[n] EXCEPT !.pc = p.pc, !.port = p.port,
                 !.doneIn = {}, !.doneOut = {}, !.loops = k]
      BY <1>1, <2>2 DEF NetState
    <3> QED BY <2>2, <3>2, <3>3, <3>4
  <2> QED BY <1>1, <2>1, <2>2, <2>4 DEF Moves, InLoop, Ending, NetState
<1>4. CASE ReturnEnd(n)
  <2> DEFINE p == Place(graph, n, "termIn", 1)
  <2>1. /\ nets[n].pc = "return" /\ graph' = graph /\ doomed' = doomed
        /\ graph.limit[n] > 0
        /\ nets' = [At(n, p) EXCEPT ![n].why = "forced"]
    BY <1>4 DEF ReturnEnd, End
  <2>2. /\ At(n, p) \in [Nets -> NetState]
        /\ \A m \in Nets : m # n => At(n, p)[m] = nets[m]
        /\ At(n, p)[n] = [nets[n] EXCEPT !.pc = p.pc, !.port = p.port]
        /\ p.pc \in {"termIn", "termOut", "ended"}
        /\ p.pc \in {"termIn", "termOut"} => p.port \in DOMAIN Ports(graph, n, p.pc)
    BY JumpType
  <2> HIDE DEF p
  <2>3. /\ nets' \in [Nets -> NetState]
        /\ \A m \in Nets : m # n => nets'[m] = nets[m]
        /\ nets'[n] = [nets[n] EXCEPT !.pc = p.pc, !.port = p.port, !.why = "forced"]
    <3> DEFINE t == At(n, p)[n]
               u == [t EXCEPT !.why = "forced"]
    <3>1. t \in NetState
      BY <2>2
    <3>2. u \in NetState
      BY <3>1 DEF NetState, Cause
    <3>3. nets' = [At(n, p) EXCEPT ![n] = u]
      BY <2>1, <2>2
    <3>4. u = [nets[n] EXCEPT !.pc = p.pc, !.port = p.port, !.why = "forced"]
      BY <1>1, <2>2 DEF NetState
    <3> QED BY <2>2, <3>2, <3>3, <3>4
  <2> QED BY <1>1, <2>1, <2>2, <2>3 DEF Moves, InLoop, Ending, NetState
<1> QED BY <1>2, <1>3, <1>4

(* smx_net_update_state decides.                                           *)
LEMMA DecideMoves ==
  ASSUME Typed, NEW n \in Nets, Decide(n)
  PROVE  Moves(n)
<1>1. /\ graph \in Networks /\ nets[n] \in NetState
      /\ nets[n].pc = "decide" /\ graph' = graph /\ doomed' = doomed
  BY DEF Typed, TypeOK, Decide
<1>2. ASSUME NEW why \in {"inputs", "outputs"}, End(n, why),
             why = "inputs" => InputsDone(n), why = "outputs" => OutputsDone(n)
      PROVE  Moves(n)
  <2> DEFINE p == Place(graph, n, "termIn", 1)
  <2>1. nets' = [At(n, p) EXCEPT ![n].why = why]
    BY <1>2 DEF End
  <2>2. /\ At(n, p) \in [Nets -> NetState]
        /\ \A m \in Nets : m # n => At(n, p)[m] = nets[m]
        /\ At(n, p)[n] = [nets[n] EXCEPT !.pc = p.pc, !.port = p.port]
        /\ p.pc \in {"termIn", "termOut", "ended"}
        /\ p.pc \in {"termIn", "termOut"} => p.port \in DOMAIN Ports(graph, n, p.pc)
    BY JumpType
  <2> HIDE DEF p
  <2>3. /\ nets' \in [Nets -> NetState]
        /\ \A m \in Nets : m # n => nets'[m] = nets[m]
        /\ nets'[n] = [nets[n] EXCEPT !.pc = p.pc, !.port = p.port, !.why = why]
    <3>1. why \in Cause
      BY DEF Cause
    <3> QED BY <2>1, <2>2, <3>1 DEF NetState
  <2> QED BY <1>1, <1>2, <2>2, <2>3 DEF Moves, InLoop, Ending, NetState
<1>3. ASSUME GoOn(n) PROVE Moves(n)
  <2> DEFINE p == Place(graph, n, "read", 1)
  <2>1. PICK b \in BOOLEAN : nets' = [At(n, p) EXCEPT ![n].got = b]
    BY <1>3 DEF GoOn
  <2>2. /\ At(n, p) \in [Nets -> NetState]
        /\ \A m \in Nets : m # n => At(n, p)[m] = nets[m]
        /\ At(n, p)[n] = [nets[n] EXCEPT !.pc = p.pc, !.port = p.port]
        /\ p.pc \in {"read", "write", "return"}
        /\ p.pc \in {"read", "write"} => p.port \in DOMAIN Ports(graph, n, p.pc)
    BY JumpType
  <2> HIDE DEF p
  <2>3. /\ nets' \in [Nets -> NetState]
        /\ \A m \in Nets : m # n => nets'[m] = nets[m]
        /\ nets'[n] = [nets[n] EXCEPT !.pc = p.pc, !.port = p.port, !.got = b]
    BY <1>1, <2>1, <2>2 DEF NetState
  <2> QED BY <1>1, <2>2, <2>3 DEF Moves, InLoop, Ending, NetState
<1> QED BY <1>2, <1>3 DEF Decide

(* Every step of a net is of that kind.                                    *)
LEMMA NetMoves ==
  ASSUME Typed, NEW n \in Nets, Net(n)
  PROVE  Moves(n)
<1>1. CASE PassOpen(n) \/ Write(n) \/ TermIn(n) \/ TermOut(n)
  <2>1. InLoop(n)
    BY <1>1 DEF PassOpen, Write, TermIn, TermOut, AtChannel, InLoop, Second, Third
  <2> QED BY <1>1, <2>1, PassMoves DEF PassOpen, Write, TermIn, TermOut
<1>2. CASE Read(n) \/ Return(n) \/ ReturnEnd(n)
  BY <1>2, BoxMoves
<1>3. CASE LookIn(n) \/ LookOut(n)
  BY <1>3, LookMoves
<1>4. CASE Decide(n)
  BY <1>4, DecideMoves
<1> QED BY <1>1, <1>2, <1>3, <1>4 DEF Net

(* To the channels: an END stays, is set at the source by the producer and *)
(* at the sink by the consumer in smx_net_terminate, and an empty channel  *)
(* stays empty unless its producer writes.                                 *)
Carries(n, c) ==
  /\ chans'[c] \in Channel
  /\ chans'[c].source.state = "END" <=>
       \/ chans[c].source.state = "END"
       \/ TermOut(n) /\ Port(n) = c
  /\ chans'[c].sink.state = "END" <=>
       \/ chans[c].sink.state = "END"
       \/ TermIn(n) /\ Port(n) = c
  /\ chans[c].fifo = <<>> =>
       \/ chans'[c].fifo = <<>>
       \/ Write(n) /\ Port(n) = c

(* A termination changes the state of one end only.                        *)
LEMMA TerminateFrame ==
  ASSUME NEW c \in Channel
  PROVE  /\ TerminateSink(c) \in Channel /\ TerminateSource(c) \in Channel
         /\ TerminateSink(c).fifo = c.fifo /\ TerminateSource(c).fifo = c.fifo
         /\ TerminateSink(c).source = c.source
         /\ TerminateSource(c).sink = c.sink
         /\ TerminateSink(c).sink.state = "END"
         /\ TerminateSource(c).source.state = "END"
<1>1. "END" \in EndState
  BY DEF EndState
<1>2. c.sink \in ChannelEnd /\ c.source \in ChannelEnd
  BY DEF Channel
<1>3. /\ SetState(c.sink, "END").state = "END"
      /\ SetState(c.source, "END").state = "END"
  BY <1>1, <1>2, SetStateType
<1> QED
  BY <1>1, <1>3, ChangeReadStateType, ChangeWriteStateType
     DEF TerminateSink, TerminateSource, ChangeReadState, ChangeWriteState, Channel

(* Each step of a net does that to every channel.                          *)
LEMMA NetCarries ==
  ASSUME Typed, NEW n \in Nets, Net(n), NEW c \in Channels
  PROVE  Carries(n, c)
<1>1. /\ chans \in [Channels -> Channel] /\ chans[c] \in Channel
      /\ nets[n].pc \in Pc
  BY DEF Typed, TypeOK, NetState
<1>2. CASE chans' = chans /\ ~TermOut(n) /\ ~TermIn(n)
  BY <1>1, <1>2 DEF Carries
<1>3. CASE \/ PassOpen(n) \/ Return(n) \/ ReturnEnd(n) \/ LookIn(n) \/ LookOut(n)
           \/ Decide(n)
  <2>1. chans' = chans /\ ~TermOut(n) /\ ~TermIn(n)
    BY <1>3 DEF PassOpen, Return, ReturnEnd, LookIn, LookOut, Decide, TermIn,
                TermOut, AtChannel
  <2> QED BY <1>2, <2>1
<1>4. CASE Read(n)
  <2>1. ~TermOut(n) /\ ~TermIn(n)
    BY <1>4 DEF Read, TermIn, TermOut, AtChannel
  <2>2. chans' = [chans EXCEPT ![Port(n)] = ChannelRead(chans[Port(n)])]
    BY <1>4 DEF Read
  <2>3. CASE Port(n) # c
    BY <1>1, <1>2, <2>1, <2>2, <2>3 DEF Carries
  <2>4. CASE Port(n) = c
    <3>1. chans'[c] = ChannelRead(chans[c])
      BY <1>1, <2>2, <2>4
    <3> QED BY <1>1, <2>1, <3>1, ReadFrame, ChannelReadType DEF Carries
  <2> QED BY <2>3, <2>4
<1>5. CASE Write(n)
  <2>1. ~TermOut(n) /\ ~TermIn(n)
    BY <1>5 DEF Write, TermIn, TermOut, AtChannel
  <2>2. CASE chans' = chans
    BY <1>2, <2>1, <2>2
  <2>3. CASE chans' # chans
    <3>1. chans' = [chans EXCEPT ![Port(n)] =
                      IF chans[Port(n)].sink.state = "END"
                      THEN SetWriteErr(chans[Port(n)], "NO_TARGET")
                      ELSE ChannelWrite(chans[Port(n)], Msg)]
      BY <1>5, <2>3 DEF Write
    <3>2. CASE Port(n) # c
      BY <1>1, <2>1, <3>1, <3>2 DEF Carries
    <3>3. CASE Port(n) = c
      <4>1. chans'[c] = IF chans[c].sink.state = "END"
                        THEN SetWriteErr(chans[c], "NO_TARGET")
                        ELSE ChannelWrite(chans[c], Msg)
        BY <1>1, <3>1, <3>3
      <4>2. Msg \in Message
        BY DEF Msg, Message
      <4> QED
        BY <1>1, <1>5, <2>1, <3>3, <4>1, <4>2, WriteFrame, ChannelWriteType,
           WriteErrFrame, SetWriteErrType
           DEF Carries, EndErr
    <3> QED BY <3>2, <3>3
  <2> QED BY <2>2, <2>3
<1>6. CASE TermIn(n)
  <2>1. /\ ~TermOut(n)
        /\ chans' = [chans EXCEPT ![Port(n)] = TerminateSink(@)]
    BY <1>6 DEF TermIn, TermOut, AtChannel
  <2>2. chans'[c] = IF Port(n) = c THEN TerminateSink(chans[c]) ELSE chans[c]
    BY <1>1, <2>1
  <2> QED BY <1>1, <1>6, <2>1, <2>2, TerminateFrame DEF Carries
<1>7. CASE TermOut(n)
  <2>1. /\ ~TermIn(n)
        /\ chans' = [chans EXCEPT ![Port(n)] = TerminateSource(@)]
    BY <1>7 DEF TermIn, TermOut, AtChannel
  <2>2. chans'[c] = IF Port(n) = c THEN TerminateSource(chans[c]) ELSE chans[c]
    BY <1>1, <2>1
  <2> QED BY <1>1, <1>7, <2>1, <2>2, TerminateFrame DEF Carries
<1> QED BY <1>3, <1>4, <1>5, <1>6, <1>7 DEF Net

-----------------------------------------------------------------------------
(* The invariant.                                                          *)

(* A channel has only one producer.                                        *)
LEMMA OneWriter ==
  ASSUME Typed, NEW c \in Channels, NEW n \in Nets, NEW m \in Nets,
         Writes(graph, n, c), Writes(graph, m, c)
  PROVE  n = m
BY ConnectionAssumption DEF Typed, TypeOK

(* The types are kept.                                                     *)
LEMMA TypedStep ==
  ASSUME Typed, NEW n \in Nets, Net(n)
  PROVE  Typed'
<1>1. Moves(n) /\ \A c \in Channels : Carries(n, c)
  BY NetMoves, NetCarries
<1>2. DOMAIN chans' = Channels /\ chans' = [c \in Channels |-> chans'[c]]
  BY DEF Net, PassOpen, Read, Write, Return, ReturnEnd, LookIn, LookOut, Decide,
         TermIn, TermOut, Typed, TypeOK
<1>3. TypeOK'
  BY <1>1, <1>2 DEF Moves, Carries, Typed, TypeOK
<1>4. AtPorts'
  BY <1>1 DEF Moves, Typed, AtPorts, InLoop
<1> QED BY <1>3, <1>4 DEF Typed

(* Before any step nothing has ended but the nets that never start.        *)
LEMMA InvInit == Init => Inv
<1> SUFFICES ASSUME Init PROVE Inv
  OBVIOUS
<1> DEFINE off(n) == n \in graph.disabled
           p(n) == Place(graph, n, IF off(n) THEN "termIn" ELSE "read", 1)
<1>1. graph \in Networks /\ doomed = Doomed(graph)
  BY DEF Init
<1>2. graph.disabled \subseteq Nets
  BY <1>1, NetworkAssumption
<1>3. \A n \in Nets :
        /\ p(n).pc \in Pc /\ p(n).port \in Nat \ {0}
        /\ p(n).pc \in {"read", "ins", "termIn", "write", "outs", "termOut"}
             => p(n).port \in DOMAIN Ports(graph, n, p(n).pc)
        /\ p(n).pc \in {"termIn", "termOut", "ended"} => off(n)
  BY <1>1, PlaceType
<1>4. nets = [n \in Nets |->
                [pc |-> p(n).pc, port |-> p(n).port, got |-> graph.in[n] = <<>>,
                 loops |-> 0, doneIn |-> {}, doneOut |-> {},
                 why |-> IF off(n) THEN "disabled" ELSE "none"]]
  BY DEF Init
<1> HIDE DEF p, off
<1>5. nets \in [Nets -> NetState]
  BY <1>3, <1>4 DEF NetState, Cause
<1>6. \A c \in Channels : /\ chans[c] \in Channel
                          /\ chans[c].source.state # "END"
                          /\ chans[c].sink.state # "END"
  <2> SUFFICES ASSUME NEW c \in Channels
               PROVE  /\ chans[c] \in Channel
                      /\ chans[c].source.state # "END"
                      /\ chans[c].sink.state # "END"
    OBVIOUS
  <2>1. graph.type[c] \in ChannelType /\ graph.length[c] \in Nat \ {0}
    <3>1. graph.type \in [Channels -> ChannelType]
          /\ graph.length \in [Channels -> Nat \ {0}]
      BY <1>1, NetworkAssumption
    <3> QED BY <3>1
  <2>2. chans[c] = ChannelCreate(graph.type[c], graph.length[c], "none", FALSE,
                                 FALSE)
    BY DEF Init
  <2> QED BY <2>1, <2>2
             DEF ChannelCreate, NewEnd, Channel, ChannelEnd, EndState, EndErr,
                 GuardState
<1>7. TypeOK
  <2>1. chans \in [Channels -> Channel]
    BY <1>6 DEF Init
  <2>2. doomed \subseteq Nets
    BY <1>1 DEF Doomed
  <2> QED BY <1>1, <1>5, <2>1, <2>2 DEF TypeOK
<1>8. AtPorts
  BY <1>3, <1>4 DEF AtPorts, InLoop
<1>9. Told
  BY <1>6 DEF Told
<1>10. Seen /\ Reasons
  BY <1>4 DEF Seen, Reasons
<1>11. EndHasCause
  <2> SUFFICES ASSUME NEW n \in Nets, Ending(n) PROVE n \in doomed
    BY DEF EndHasCause
  <2>1. n \in graph.disabled
    BY <1>3, <1>4 DEF Ending, off
  <2> QED BY <1>1, <2>1 DEF Doomed, Closed
<1> QED BY <1>1, <1>7, <1>8, <1>9, <1>10, <1>11 DEF Inv, Typed, Caused

(* Whoever ended a channel is still ending.                                *)
LEMMA ToldStep ==
  ASSUME Inv, NEW n \in Nets, Net(n)
  PROVE  Told'
<1>1. Typed /\ Told /\ Moves(n) /\ \A c \in Channels : Carries(n, c)
  BY NetMoves, NetCarries DEF Inv
<1>2. /\ graph' = graph
      /\ \A m \in Nets : m # n => nets'[m] = nets[m]
      /\ nets[n].pc \in {"termOut", "ended"} => nets'[n].pc \in {"termOut", "ended"}
      /\ Ending(n) => Ending(n)'
  BY <1>1 DEF Moves
<1> SUFFICES ASSUME NEW c \in Channels
             PROVE  /\ chans'[c].source.state = "END" =>
                         \E m \in Nets : /\ nets'[m].pc \in {"termOut", "ended"}
                                         /\ Writes(graph, m, c)
                    /\ chans'[c].sink.state = "END" =>
                         \E m \in Nets : Ending(m)' /\ Reads(graph, m, c)
  BY <1>2 DEF Told
<1>3. ASSUME chans'[c].source.state = "END"
      PROVE  \E m \in Nets : /\ nets'[m].pc \in {"termOut", "ended"}
                             /\ Writes(graph, m, c)
  <2>1. CASE chans[c].source.state = "END"
    <3>1. PICK m \in Nets : nets[m].pc \in {"termOut", "ended"}
                            /\ Writes(graph, m, c)
      BY <1>1, <2>1 DEF Told
    <3>2. nets'[m].pc \in {"termOut", "ended"}
      BY <1>2, <3>1
    <3> QED BY <3>1, <3>2
  <2>2. CASE TermOut(n) /\ Port(n) = c
    <3>1. nets[n].pc = "termOut" /\ InLoop(n)
      BY <2>2 DEF TermOut, AtChannel, InLoop
    <3>2. Writes(graph, n, c)
      BY <1>1, <2>2, <3>1, CurrentPort
    <3> QED BY <1>2, <3>1, <3>2
  <2> QED BY <1>1, <1>3, <2>1, <2>2 DEF Carries
<1>4. ASSUME chans'[c].sink.state = "END"
      PROVE  \E m \in Nets : Ending(m)' /\ Reads(graph, m, c)
  <2>1. CASE chans[c].sink.state = "END"
    <3>1. PICK m \in Nets : Ending(m) /\ Reads(graph, m, c)
      BY <1>1, <2>1 DEF Told
    <3>2. Ending(m)'
      BY <1>2, <3>1 DEF Ending
    <3> QED BY <3>1, <3>2
  <2>2. CASE TermIn(n) /\ Port(n) = c
    <3>1. nets[n].pc = "termIn" /\ InLoop(n) /\ Ending(n)
      BY <2>2 DEF TermIn, AtChannel, InLoop, Ending
    <3>2. Reads(graph, n, c)
      BY <1>1, <2>2, <3>1, CurrentPort
    <3> QED BY <1>2, <3>1, <3>2
  <2> QED BY <1>1, <1>4, <2>1, <2>2 DEF Carries
<1> QED BY <1>3, <1>4

(* A channel whose producer has ended and that is empty stays so: its only *)
(* producer is past its last write.                                        *)
LEMMA DrainedStays ==
  ASSUME Inv, NEW n \in Nets, Net(n), NEW m \in Nets, NEW i, Drained(m, i)
  PROVE  Drained(m, i)'
<1> DEFINE c == graph.in[m][i]
<1>1. Typed /\ Told /\ graph \in Networks /\ graph' = graph
  BY NetMoves DEF Inv, Typed, TypeOK, Moves
<1>2. c \in Channels
  BY <1>1, PortType DEF Drained, Triggers
<1>3. Carries(n, c) /\ chans[c].source.state = "END" /\ chans[c].fifo = <<>>
  BY <1>1, <1>2, NetCarries DEF Drained
<1>4. PICK w \in Nets : nets[w].pc \in {"termOut", "ended"} /\ Writes(graph, w, c)
  BY <1>1, <1>2, <1>3 DEF Told
<1>5. ~(Write(n) /\ Port(n) = c)
  <2> SUFFICES ASSUME Write(n), Port(n) = c PROVE FALSE
    OBVIOUS
  <2>1. nets[n].pc = "write" /\ InLoop(n)
    BY DEF Write, AtChannel, InLoop
  <2>2. Writes(graph, n, c)
    BY <1>1, <2>1, CurrentPort
  <2>3. n = w
    BY <1>1, <1>2, <1>4, <2>2, OneWriter
  <2> QED BY <1>4, <2>1, <2>3
<1>6. chans'[c].source.state = "END" /\ chans'[c].fifo = <<>>
  BY <1>3, <1>5 DEF Carries
<1> QED BY <1>1, <1>6 DEF Drained, Triggers

(* A consumer that has ended stays ended.                                  *)
LEMMA AbandonedStays ==
  ASSUME Inv, NEW n \in Nets, Net(n), NEW m \in Nets, NEW i, Abandoned(m, i)
  PROVE  Abandoned(m, i)'
<1> DEFINE c == graph.out[m][i]
<1>1. Typed /\ graph \in Networks /\ graph' = graph
  BY NetMoves DEF Inv, Typed, TypeOK, Moves
<1>2. c \in Channels
  BY <1>1, PortType DEF Abandoned
<1>3. Carries(n, c) /\ chans[c].sink.state = "END"
  BY <1>1, <1>2, NetCarries DEF Abandoned
<1>4. chans'[c].sink.state = "END"
  BY <1>3 DEF Carries
<1> QED BY <1>1, <1>4 DEF Abandoned

(* What a net has counted as done is done, whatever happened since.        *)
LEMMA SeenStep ==
  ASSUME Inv, NEW n \in Nets, Net(n)
  PROVE  Seen'
<1>1. Seen /\ Moves(n)
  BY NetMoves DEF Inv
<1>2. /\ \A m \in Nets : m # n => nets'[m] = nets[m]
      /\ \/ nets'[n].doneIn \in {nets[n].doneIn, {}}
         \/ \E i : Drained(n, i) /\ nets'[n].doneIn = nets[n].doneIn \union {i}
      /\ \/ nets'[n].doneOut \in {nets[n].doneOut, {}}
         \/ \E i : Abandoned(n, i) /\ nets'[n].doneOut = nets[n].doneOut \union {i}
  BY <1>1 DEF Moves
<1>3. \A m \in Nets : /\ \A i \in nets'[m].doneIn : Drained(m, i)
                      /\ \A i \in nets'[m].doneOut : Abandoned(m, i)
  <2> SUFFICES ASSUME NEW m \in Nets
               PROVE  /\ \A i \in nets'[m].doneIn : Drained(m, i)
                      /\ \A i \in nets'[m].doneOut : Abandoned(m, i)
    OBVIOUS
  <2>1. /\ \A i \in nets[m].doneIn : Drained(m, i)
        /\ \A i \in nets[m].doneOut : Abandoned(m, i)
    BY <1>1 DEF Seen
  <2> HIDE DEF Drained, Abandoned
  <2>2. CASE m # n
    BY <1>2, <2>1, <2>2
  <2>3. CASE m = n
    <3>1. \A i \in nets'[n].doneIn : Drained(n, i)
      BY <1>2, <2>1, <2>3
    <3>2. \A i \in nets'[n].doneOut : Abandoned(n, i)
      BY <1>2, <2>1, <2>3
    <3> QED BY <2>3, <3>1, <3>2
  <2> QED BY <2>2, <2>3
<1> QED BY <1>3, DrainedStays, AbandonedStays DEF Seen

(* A net that ended because of its inputs has counted all of them.         *)
LEMMA ReasonsStep ==
  ASSUME Inv, NEW n \in Nets, Net(n)
  PROVE  Reasons'
<1>1. Reasons /\ Moves(n)
  BY NetMoves DEF Inv
<1>2. /\ graph' = graph /\ \A m \in Nets : m # n => nets'[m] = nets[m]
      /\ Ending(n) => Ending(n)' /\ nets'[n].doneIn = nets[n].doneIn
      /\ \/ nets'[n].why = nets[n].why
         \/ /\ nets'[n].doneIn = nets[n].doneIn /\ Ending(n)'
            /\ \/ nets'[n].why \in {"forced", "outputs"}
               \/ nets'[n].why = "inputs" /\ InputsDone(n)
  BY <1>1 DEF Moves
<1> SUFFICES ASSUME NEW m \in Nets, nets'[m].why = "inputs"
             PROVE  Ending(m)' /\ Triggers(graph, m) \subseteq nets'[m].doneIn
  BY <1>2 DEF Reasons
<1>3. CASE m # n
  BY <1>1, <1>2, <1>3 DEF Reasons, Ending
<1>4. CASE m = n /\ nets'[n].why = nets[n].why
  BY <1>1, <1>2, <1>4 DEF Reasons
<1>5. CASE m = n /\ nets'[n].why # nets[n].why
  BY <1>2, <1>5 DEF InputsDone
<1> QED BY <1>3, <1>4, <1>5

(* A net that starts to end has a cause: what it has seen done was ended   *)
(* by neighbours that have one.                                            *)
LEMMA CausedStep ==
  ASSUME Inv, NEW n \in Nets, Net(n)
  PROVE  Caused'
<1>1. /\ Typed /\ Told /\ Seen /\ doomed = Doomed(graph) /\ EndHasCause
      /\ graph \in Networks /\ Moves(n)
  BY NetMoves DEF Inv, Typed, TypeOK, Caused
<1>2. /\ graph' = graph /\ doomed' = doomed
      /\ \A m \in Nets : m # n => nets'[m] = nets[m]
      /\ \/ Ending(n)' => Ending(n)
         \/ graph.limit[n] > 0 \/ InputsDone(n) \/ OutputsDone(n)
  BY <1>1 DEF Moves
<1>3. ASSUME NEW S \in SUBSET Nets, Closed(graph, S),
             graph.limit[n] > 0 \/ InputsDone(n) \/ OutputsDone(n)
      PROVE  n \in S
  <2>1. \A m \in Nets : Ending(m) => m \in S
    BY <1>1, <1>3 DEF EndHasCause, Doomed
  <2>2. CASE graph.limit[n] > 0
    BY <1>3, <2>2 DEF Closed
  <2>3. CASE InputsDone(n)
    <3>1. ASSUME NEW i \in Triggers(graph, n)
          PROVE  \E m \in S : Writes(graph, m, graph.in[n][i])
      <4>1. Drained(n, i)
        BY <1>1, <2>3 DEF InputsDone, Seen
      <4>2. graph.in[n][i] \in Channels
        BY <1>1, PortType DEF Triggers
      <4>3. PICK m \in Nets : nets[m].pc \in {"termOut", "ended"}
                              /\ Writes(graph, m, graph.in[n][i])
        BY <1>1, <4>1, <4>2 DEF Drained, Told
      <4> QED BY <2>1, <4>3 DEF Ending
    <3>2. FedBy(graph, n, S)
      BY <2>3, <3>1 DEF FedBy, InputsDone
    <3> QED BY <1>3, <3>2 DEF Closed
  <2>4. CASE OutputsDone(n)
    <3>1. ASSUME NEW i \in DOMAIN graph.out[n]
          PROVE  /\ graph.out[n][i] # Open
                 /\ \E m \in S : Reads(graph, m, graph.out[n][i])
      <4>1. Abandoned(n, i)
        BY <1>1, <2>4 DEF OutputsDone, Seen
      <4>2. graph.out[n][i] \in Channels
        BY <1>1, <4>1, PortType DEF Abandoned
      <4>3. PICK m \in Nets : Ending(m) /\ Reads(graph, m, graph.out[n][i])
        BY <1>1, <4>1, <4>2 DEF Abandoned, Told
      <4> QED BY <2>1, <4>1, <4>3 DEF Abandoned
    <3>2. FeedsOnly(graph, n, S)
      BY <2>4, <3>1 DEF FeedsOnly, OutputsDone
    <3> QED BY <1>3, <3>2 DEF Closed
  <2> QED BY <1>3, <2>2, <2>3, <2>4
<1>4. ASSUME NEW m \in Nets, Ending(m)' PROVE m \in doomed
  <2>1. CASE m # n
    BY <1>1, <1>2, <1>4, <2>1 DEF EndHasCause, Ending
  <2>2. CASE m = n /\ Ending(n)
    BY <1>1, <2>2 DEF EndHasCause
  <2>3. CASE m = n /\ ~Ending(n)
    BY <1>1, <1>2, <1>3, <1>4, <2>3 DEF Doomed
  <2> QED BY <2>1, <2>2, <2>3
<1> QED BY <1>1, <1>2, <1>4 DEF Caused, EndHasCause

(* Inv is inductive.                                                       *)
LEMMA InvStep == Inv /\ [Next]_vars => Inv'
<1> SUFFICES ASSUME Inv, [Next]_vars PROVE Inv'
  OBVIOUS
<1>1. ASSUME NEW n \in Nets, Net(n) PROVE Inv'
  <2>1. Typed
    BY DEF Inv
  <2> QED BY <1>1, <2>1, TypedStep, ToldStep, SeenStep, ReasonsStep, CausedStep
             DEF Inv
<1>2. CASE UNCHANGED vars
  BY <1>2 DEF vars, Inv, Typed, TypeOK, AtPorts, InLoop, Told, Seen, Drained,
              Abandoned, Reasons, Caused, EndHasCause, Ending
<1> QED BY <1>1, <1>2 DEF Next, Ended

-----------------------------------------------------------------------------
(* The theorems.                                                           *)

(* The specification keeps the invariant.                                  *)
LEMMA Invariance == Spec => []Inv
BY InvInit, InvStep, PTL DEF Spec

(* Channels and nets keep their types in every network.                    *)
THEOREM TypeCorrect == Spec => []TypeOK
<1>1. Inv => TypeOK
  BY DEF Inv, Typed
<1> QED BY <1>1, Invariance, PTL

(* No net ends without a cause, in any network and any order of events.    *)
THEOREM CauseOfEnd == Spec => []EndHasCause
<1>1. Inv => EndHasCause
  BY DEF Inv, Caused
<1> QED BY <1>1, Invariance, PTL

(* A net that ends because its producers did has read all they wrote.      *)
THEOREM NothingLeft == Spec => []NothingLeftUnread
<1>1. Inv => NothingLeftUnread
  BY DEF Inv, Seen, Reasons, Drained, NothingLeftUnread
<1> QED BY <1>1, Invariance, PTL
=============================================================================
