--------------------------- MODULE MCFprimeTorquer ---------------------------
(***************************************************************************)
(* FprimeTorquer on small instances: the calls of each run.                *)
(***************************************************************************)
EXTENDS FprimeTorquerProperties

Errors == {1}

Forward  == [PercentOn |-> 100, Direction |-> 1]
Backward == [PercentOn |-> 40, Direction |-> 0]

Plain(op) == [RateGroupCall EXCEPT !.op = op]

All(op, l) == [Plain(op) EXCEPT !.levels = [AllIdle EXCEPT ![1] = l, ![2] = l]]

One(n, l) == [Plain("CONFIG") EXCEPT !.torquerNum = n, !.level = l]

\* Every handler; the levels of those that configure are told apart.
AllCalls ==
  {Plain(op) : op \in Commands \ {"CONFIG", "ALL_CONFIG"}}
    \cup {RateGroupCall, One(0, Backward),
          All("ALL_CONFIG", Forward), All("TORQin", Backward)}

\* What can stand before a DISABLE or an update of telemetry in the queue.
QueueCalls ==
  {Plain("ENABLE"), Plain("DISABLE"), RateGroupCall, All("TORQin", Forward)}

=============================================================================
