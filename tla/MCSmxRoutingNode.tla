-------------------------- MODULE MCSmxRoutingNode --------------------------
(* SmxRoutingNode with the input channels the runs look at.                *)
EXTENDS SmxRoutingNode

KindsOf(types) == [Inputs -> [type : types, length : {1}]]

(* Inputs the routing node can wait for, those with a coupled read end:    *)
(* two that block, and one of each kind.                                   *)
CoupledKinds == {kinds \in KindsOf({"FIFO", "D_FIFO"}) :
                   kinds[0].type = "FIFO"}

(* Inputs with a decoupled read end as well.                               *)
DecoupledKinds == KindsOf({"FIFO", "FIFO_D"})
=============================================================================
