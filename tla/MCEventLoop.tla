---------------------------- MODULE MCEventLoop ----------------------------
(* EventLoop on two blocks, with a counter that wraps after 2 instead of   *)
(* 2^32 - 1: the intervals are 0 (the whole range), 1 and 2.               *)
EXTENDS EventLoop

MCConfigs ==
    { [interval |-> <<1, 0>>, handled |-> {2}],
      [interval |-> <<2, 1>>, handled |-> {1, 2}],
      [interval |-> <<0, 2>>, handled |-> {1}] }

MCOneConfig == { [interval |-> <<2, 1>>, handled |-> {1}] }

MCSingle == { [interval |-> <<1>>, handled |-> {1}] }

=============================================================================
