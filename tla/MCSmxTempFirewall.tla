-------------------------- MODULE MCSmxTempFirewall --------------------------
(* SmxTempFirewall with the firewalls the runs look at.                    *)
EXTENDS SmxTempFirewall

KindsOf(inTypes, inLengths, writes) ==
  [inType : inTypes, inLength : inLengths, outLength : {1}, writes : writes]

Simple(writes) == KindsOf({"FIFO_D"}, {1}, {writes})

(* One message each through two of the smallest firewalls.                 *)
OneEach == [Firewalls -> Simple(1)]

(* A stream through the first firewall, with a blocking input that it      *)
(* overfills by one message or an overwriting one, and an output of one    *)
(* message: these channels keep the order.  Nobody uses the other one.     *)
Stream == KindsOf({"FIFO_D"}, {1}, {2}) \union KindsOf({"FIFO_D"}, {2}, {3})
          \union KindsOf({"D_FIFO_D"}, {1}, {3})
Streams == {timer \in [Firewalls -> Stream \union Simple(0)] :
              \A i \in Firewalls : IF i = 0 THEN timer[i] \in Stream
                                            ELSE timer[i] \in Simple(0)}

TwoFirewalls == OneEach \union Streams
=============================================================================
