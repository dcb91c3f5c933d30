-------------------------------- MODULE SmxNet --------------------------------
(***************************************************************************)
(* The main loop and the end of the nets of a program (smxnet.c), in       *)
(* networks of any shape: the end of a net reaches its neighbours through  *)
(* the channels, in both directions, and each of them decides on its own   *)
(* after every loop, from unlocked looks at its channels, whether to go on.*)
(*                                                                         *)
(* A box implementation is the user's.  The ones here read every input     *)
(* once, write a message to every output if they got one, and leave it to  *)
(* smx_net_update_state whether to go on, or end after a bounded number of *)
(* loops.  The waits inside the channels are SmxChannel's.                 *)
(***************************************************************************)
EXTENDS SmxFifo

CONSTANTS
  Nets,
  Channels,
  Networks,  \* the networks considered: the ports of each net, in and out,
             \*   the type and length of each channel, the loops after which a
             \*   net ends by itself (0: never), and the nets that are disabled
             \*   or fail to start, which go to their end with the others at
             \*   the second barrier
  Open       \* a port that is not connected

ASSUME NetworkAssumption ==
  /\ Open \notin Channels
  /\ Networks \subseteq [in : [Nets -> Seq(Channels \union {Open})],
                         out : [Nets -> Seq(Channels \union {Open})],
                         type : [Channels -> ChannelType],
                         length : [Channels -> Nat \ {0}],
                         limit : [Nets -> Nat], disabled : SUBSET Nets]

Reads(g, n, c) == \E i \in DOMAIN g.in[n] : g.in[n][i] = c
Writes(g, n, c) == \E i \in DOMAIN g.out[n] : g.out[n][i] = c

(* A channel connects one port to one port.                                *)
ASSUME ConnectionAssumption ==
  \A g \in Networks : \A c \in Channels : \A n, m \in Nets :
    /\ Reads(g, n, c) /\ Reads(g, m, c) => n = m
    /\ Writes(g, n, c) /\ Writes(g, m, c) => n = m

-----------------------------------------------------------------------------
(* Which nets have to end.                                                 *)

(* The inputs a net waits for.                                             *)
Triggers(g, n) ==
  {i \in DOMAIN g.in[n] : g.in[n][i] # Open
                          /\ g.type[g.in[n][i]] \in {"FIFO", "D_FIFO"}}

(* The producers of all inputs net n waits for, and the consumers of all   *)
(* its outputs, none of them open, are in S.                               *)
FedBy(g, n, S) ==
  /\ Triggers(g, n) # {}
  /\ \A i \in Triggers(g, n) : \E m \in S : Writes(g, m, g.in[n][i])
FeedsOnly(g, n, S) ==
  /\ g.out[n] # <<>>
  /\ \A i \in DOMAIN g.out[n] : /\ g.out[n][i] # Open
                                /\ \E m \in S : Reads(g, m, g.out[n][i])

(* S has every net that is disabled or ends by itself, and with the        *)
(* neighbours a net depends on the net itself.                             *)
Closed(g, S) ==
  \A n \in Nets :
    (n \in g.disabled \/ g.limit[n] > 0 \/ FedBy(g, n, S) \/ FeedsOnly(g, n, S))
      => n \in S

(* The nets that end as a consequence: the least set of that kind.         *)
Doomed(g) == {n \in Nets : \A S \in SUBSET Nets : Closed(g, S) => n \in S}

-----------------------------------------------------------------------------
VARIABLES
  graph,  \* the network
  chans,  \* its channels
  nets,   \* the nets: pc and port they are at, whether the box has a message
          \*   to write, the loops so far, the ports found done by the loop of
          \*   smx_net_update_state they are in (for done_cnt_in and
          \*   done_cnt_out), and history: why the net ended
  doomed  \* history: the nets that have a cause to end

vars == <<graph, chans, nets, doomed>>

Pc == {"read", "write", "return", "ins", "outs", "decide", "termIn", "termOut",
       "ended"}
Cause == {"none", "disabled", "forced", "inputs", "outputs"}

NetState == [pc : Pc, port : Nat \ {0}, got : BOOLEAN, loops : Nat,
             doneIn : SUBSET Nat, doneOut : SUBSET Nat, why : Cause]

TypeOK ==
  /\ graph \in Networks /\ doomed \subseteq Nets
  /\ chans \in [Channels -> Channel]
  /\ nets \in [Nets -> NetState]

(* Steps through the ports: first the inputs, then the outputs.            *)

Second == [read |-> "write", ins |-> "outs", termIn |-> "termOut"]
Third == [write |-> "return", outs |-> "decide", termOut |-> "ended"]

Ports(g, n, pc) == IF pc \in DOMAIN Second THEN g.in[n] ELSE g.out[n]

(* Where a net is when it comes to a port, or to the end of the ports.     *)
Place(g, n, pc, port) ==
  IF port \in DOMAIN Ports(g, n, pc) THEN [pc |-> pc, port |-> port]
  ELSE IF pc \in DOMAIN Third THEN [pc |-> Third[pc], port |-> 1]
  ELSE IF g.out[n] = <<>> THEN [pc |-> Third[Second[pc]], port |-> 1]
  ELSE [pc |-> Second[pc], port |-> 1]

Init ==
  /\ graph \in Networks
  /\ chans = [c \in Channels |-> ChannelCreate(graph.type[c], graph.length[c],
                                               "none", FALSE, FALSE)]
  /\ nets = [n \in Nets |->
       LET off == n \in graph.disabled
           place == Place(graph, n, IF off THEN "termIn" ELSE "read", 1)
       IN  [pc |-> place.pc, port |-> place.port, got |-> graph.in[n] = <<>>,
            loops |-> 0, doneIn |-> {}, doneOut |-> {},
            why |-> IF off THEN "disabled" ELSE "none"]]
  /\ doomed = Doomed(graph)

-----------------------------------------------------------------------------
At(n, place) == [nets EXCEPT ![n].pc = place.pc, ![n].port = place.port]

NextPort(n) == At(n, Place(graph, n, nets[n].pc, nets[n].port + 1))

Port(n) == Ports(graph, n, nets[n].pc)[nets[n].port]
AtChannel(n, pc) == nets[n].pc = pc /\ Port(n) # Open

(* A port that is not connected gives no message and takes any, is         *)
(* neither a triggering input nor an output that is done.                  *)
PassOpen(n) ==
  /\ nets[n].pc \in DOMAIN Second \union DOMAIN Third /\ Port(n) = Open
  /\ nets' = NextPort(n)
  /\ UNCHANGED <<graph, chans, doomed>>

-----------------------------------------------------------------------------
(* The box implementation.                                                 *)

Read(n) ==
  /\ AtChannel(n, "read")
  /\ LET ch == chans[Port(n)]
     IN  /\ ch.source.state # "PENDING"
         /\ chans' = [chans EXCEPT ![Port(n)] = ChannelRead(ch)]
         /\ nets' = [NextPort(n) EXCEPT ![n].got =
                       @ \/ ChannelReadMsg(ch) # NoMsg]
  /\ UNCHANGED <<graph, doomed>>

(* All messages are alike: only whether there are any is looked at.        *)
Msg == [seq |-> 1, prevent_backup |-> FALSE]

Write(n) ==
  /\ AtChannel(n, "write")
  /\ LET ch == chans[Port(n)]
     IN  IF ~nets[n].got THEN UNCHANGED chans
         ELSE /\ ch.sink.state # "PENDING"
              /\ chans' = [chans EXCEPT ![Port(n)] =
                             IF ch.sink.state = "END"
                             THEN SetWriteErr(ch, "NO_TARGET")
                             ELSE ChannelWrite(ch, Msg)]
  /\ nets' = NextPort(n)
  /\ UNCHANGED <<graph, doomed>>

(* The box returns SMX_NET_RETURN.                                         *)
Return(n) ==
  /\ nets[n].pc = "return"
  /\ graph.limit[n] > 0 => nets[n].loops + 1 < graph.limit[n]
  /\ nets' = [At(n, Place(graph, n, "ins", 1)) EXCEPT
                ![n].doneIn = {}, ![n].doneOut = {},
                ![n].loops = IF graph.limit[n] > 0 THEN @ + 1 ELSE @]
  /\ UNCHANGED <<graph, chans, doomed>>

End(n, why) ==
  nets' = [At(n, Place(graph, n, "termIn", 1)) EXCEPT ![n].why = why]

(* The box returns SMX_NET_END.                                            *)
ReturnEnd(n) ==
  /\ nets[n].pc = "return" /\ graph.limit[n] > 0
  /\ End(n, "forced")
  /\ UNCHANGED <<graph, chans, doomed>>

-----------------------------------------------------------------------------
(* smx_net_update_state.                                                   *)

(* Mutant: an input is done although messages are left in it.              *)
LookInBlindly(n) ==
  /\ AtChannel(n, "ins")
  /\ LET ch == chans[Port(n)]
         done == nets[n].port \in Triggers(graph, n) /\ ch.source.state = "END"
     IN  nets' = [NextPort(n) EXCEPT ![n].doneIn =
                    IF done THEN @ \union {nets[n].port} ELSE @]
  /\ UNCHANGED <<graph, chans, doomed>>

(* State and fill are two looks without the mutex.  Once the state is END  *)
(* only this net still changes the fill: they are like one.                *)
LookIn(n) ==
  /\ AtChannel(n, "ins")
  /\ LET ch == chans[Port(n)]
         done == nets[n].port \in Triggers(graph, n)
                 /\ ch.source.state = "END" /\ ch.fifo = <<>>
     IN  nets' = [NextPort(n) EXCEPT ![n].doneIn =
                    IF done THEN @ \union {nets[n].port} ELSE @]
  /\ UNCHANGED <<graph, chans, doomed>>

(* Mutant: the producer's end is looked at.                                *)
LookOutOwnEnd(n) ==
  /\ AtChannel(n, "outs")
  /\ nets' = [NextPort(n) EXCEPT ![n].doneOut =
                IF chans[Port(n)].source.state = "END"
                THEN @ \union {nets[n].port} ELSE @]
  /\ UNCHANGED <<graph, chans, doomed>>

LookOut(n) ==
  /\ AtChannel(n, "outs")
  /\ nets' = [NextPort(n) EXCEPT ![n].doneOut =
                IF chans[Port(n)].sink.state = "END"
                THEN @ \union {nets[n].port} ELSE @]
  /\ UNCHANGED <<graph, chans, doomed>>

InputsDone(n) == Triggers(graph, n) # {}
                 /\ Triggers(graph, n) \subseteq nets[n].doneIn

(* Mutant: an open output does not count.                                  *)
OutputsDoneButOpen(n) ==
  LET connected == {i \in DOMAIN graph.out[n] : graph.out[n][i] # Open}
  IN  connected # {} /\ connected \subseteq nets[n].doneOut

OutputsDone(n) == graph.out[n] # <<>>
                  /\ DOMAIN graph.out[n] \subseteq nets[n].doneOut

GoOn(n) == nets' = [At(n, Place(graph, n, "read", 1)) EXCEPT
                      ![n].got = graph.in[n] = <<>>]

Decide(n) ==
  /\ nets[n].pc = "decide"
  /\ \/ InputsDone(n) /\ End(n, "inputs")
     \/ ~InputsDone(n) /\ OutputsDone(n) /\ End(n, "outputs")
     \/ ~InputsDone(n) /\ ~OutputsDone(n) /\ GoOn(n)
  /\ UNCHANGED <<graph, chans, doomed>>

-----------------------------------------------------------------------------
(* smx_net_terminate.                                                      *)

TermIn(n) ==
  /\ AtChannel(n, "termIn")
  /\ chans' = [chans EXCEPT ![Port(n)] = TerminateSink(@)]
  /\ nets' = NextPort(n)
  /\ UNCHANGED <<graph, doomed>>

TermOut(n) ==
  /\ AtChannel(n, "termOut")
  /\ chans' = [chans EXCEPT ![Port(n)] = TerminateSource(@)]
  /\ nets' = NextPort(n)
  /\ UNCHANGED <<graph, doomed>>

Net(n) == \/ PassOpen(n) \/ Read(n) \/ Write(n) \/ Return(n) \/ ReturnEnd(n)
          \/ LookIn(n) \/ LookOut(n) \/ Decide(n)
          \/ TermIn(n) \/ TermOut(n)

(* smx_net_wait_end for each net.                                          *)
Ended == /\ \A n \in Nets : nets[n].pc = "ended"
         /\ UNCHANGED vars

Next == (\E n \in Nets : Net(n)) \/ Ended

(* The threads run.                                                        *)
Fairness == \A n \in Nets : WF_vars(Net(n))

Spec == Init /\ [][Next]_vars
FairSpec == Spec /\ Fairness

-----------------------------------------------------------------------------
(* Safety.                                                                 *)

Ending(n) == nets[n].pc \in {"termIn", "termOut", "ended"}

(* No net ends without a cause, in whatever order the ends of its          *)
(* neighbours come: a net goes on while one triggering producer or one     *)
(* consumer may, and one with an open output whoever consumes the others.  *)
EndHasCause == \A n \in Nets : Ending(n) => n \in doomed

(* A net that ended because its producers did has read all they wrote to   *)
(* the inputs it waits for, and nothing is written to them any more.       *)
NothingLeftUnread ==
  \A n \in Nets : nets[n].why = "inputs" =>
    \A i \in Triggers(graph, n) :
      /\ chans[graph.in[n][i]].fifo = <<>>
      /\ chans[graph.in[n][i]].source.state = "END"

-----------------------------------------------------------------------------
(* Liveness.                                                               *)

(* The end spreads: every net that has a cause to end does, those with     *)
(* endless boxes too, and nobody blocks for good in a channel whose other  *)
(* end has gone.                                                           *)
EndSpreads == <>[](\A n \in doomed : nets[n].pc = "ended")
=============================================================================
