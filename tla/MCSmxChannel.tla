---------------------------- MODULE MCSmxChannel ----------------------------
(* SmxChannel with the channels the runs look at.                          *)
EXTENDS SmxChannel

ShapesOf(types, lengths, guarded, timeouts) ==
  {s \in [type : types, length : lengths, guarded : guarded,
          readTimeout : timeouts, writeTimeout : timeouts] :
     s.readTimeout = s.writeTimeout}

(* Every channel type with and without a guard.  A timeout may always come *)
(* later than what the thread waits for: these channels do whatever those  *)
(* without timeouts do.                                                    *)
TimedShapes == ShapesOf(ChannelType, {1, 2}, BOOLEAN, {TRUE})

(* For liveness nothing may time out.                                      *)
UntimedShapes == ShapesOf(ChannelType, {1, 2}, BOOLEAN, {FALSE})

(* A lossy channel with space for more than one message.                   *)
LossyShapes == ShapesOf({"D_FIFO"}, {2}, {FALSE}, {FALSE})
=============================================================================
