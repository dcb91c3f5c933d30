------------------------------- MODULE MCSmxNet -------------------------------
(* SmxNet with small networks: the nets of a pipeline, of a fork that is   *)
(* joined again, of a loop and of a chain with an open output, with the    *)
(* causes for which they end.                                              *)
EXTENDS SmxNet, TLC

CONSTANTS c1, c2, c3, c4

Node == 1 .. 4

(* Networks from rows <<in, out>> of the nets and the channel types used.  *)
Wire(rows, types, lengths, limits, disabled) ==
  [in : {[n \in Node |-> rows[n][1]]}, out : {[n \in Node |-> rows[n][2]]},
   type : types, length : {[c \in Channels |-> lengths]},
   limit : limits, disabled : disabled]

Types(sets) == {t \in [Channels -> ChannelType] : \A c \in Channels : t[c] \in sets[c]}
By(a, b, c, d) == (c1 :> a) @@ (c2 :> b) @@ (c3 :> c) @@ (c4 :> d)

Coupled == {"FIFO", "D_FIFO"}
Blocking == {"FIFO"}
Never == <<0, 0, 0, 0>>
After(n, loops) == [Never EXCEPT ![n] = loops]

(* 1 -> 2 -> 3, and 4 looked at by 2 now and then.  The source, the sink   *)
(* or the one in the middle ends, or is disabled.                          *)
Pipeline ==
  LET rows == << << <<>>, <<c1>> >>, << <<c1, c3>>, <<c2>> >>,
                 << <<c2>>, <<>> >>, << <<>>, <<c3>> >> >>
      types == Types(By(Blocking, Blocking, {"FIFO_D"}, Blocking))
  IN  Wire(rows, types, 1, {After(1, 2), After(3, 2), After(2, 1)}, {{}})
      \union Wire(rows, types, 1, {Never}, {{1}, {3}, {4}})

(* 1 -> 2 -> 4 and 1 -> 3 -> 4.                                            *)
Fork ==
  LET rows == << << <<>>, <<c1, c2>> >>, << <<c1>>, <<c3>> >>,
                 << <<c2>>, <<c4>> >>, << <<c3, c4>>, <<>> >> >>
      types == Types(By(Blocking, Blocking, Blocking, Coupled))
  IN  Wire(rows, types, 1, {After(1, 1), After(4, 1)}, {{}})

(* 1 -> 2 -> 3 with an output of 2 that is read back by it through 4, and  *)
(* an open port.                                                           *)
Feedback ==
  LET rows == << << <<>>, <<c1>> >>, << <<c1, c4>>, <<c2, c3>> >>,
                 << <<Open, c2>>, <<>> >>, << <<c3>>, <<Open, c4>> >> >>
      types == Types(By(Blocking, Blocking, Blocking, {"FIFO_D", "D_FIFO_D"}))
  IN  Wire(rows, types, 1, {After(1, 1), After(3, 1)}, {{}})

(* 4 -> 1 -> 2 -> 3, and 4 looked at by 3 now and then; 1 has an open      *)
(* output, which keeps it from ending when 3 and with it 2 have ended.     *)
OpenOutput ==
  LET rows == << << <<c3>>, <<c1, Open>> >>, << <<c1>>, <<c2>> >>,
                 << <<c2, c4>>, <<>> >>, << <<>>, <<c3, c4>> >> >>
      types == Types(By(Blocking, Blocking, Blocking, {"FIFO_D"}))
  IN  Wire(rows, types, 1, {After(3, 1), After(4, 1)}, {{}})

SmallNetworks == Pipeline \union Fork \union Feedback \union OpenOutput
=============================================================================
