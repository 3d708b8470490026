----------------------------- MODULE MCTorquerSim -----------------------------
(***************************************************************************)
(* TorquerSim on a small instance: two torquers simulated and one beyond   *)
(* the configuration; levels of both signs, and one that is refused.       *)
(***************************************************************************)
EXTENDS TorquerSimProperties

Give(t, percent, positive) ==
  [num |-> t, drive |-> [percent |-> percent, positive |-> positive]]

TwoTorquers ==
  {Give(0, 100, TRUE), Give(0, 40, FALSE), Give(0, 101, FALSE),
   Give(1, 40, FALSE), Give(2, 40, TRUE)}

=============================================================================
