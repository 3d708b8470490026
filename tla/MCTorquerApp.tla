---------------------------- MODULE MCTorquerApp ----------------------------
(***************************************************************************)
(* TorquerApp on small instances: the packets of each run.                 *)
(***************************************************************************)
EXTENDS TorquerAppProperties

Errors == {-1}

\* Two levels a ground script may ask for.  A direction of 2 is taken by the
\* hardware for the positive one, and reported as it came.
Forward  == [PercentOn |-> 100, Direction |-> 2]
Backward == [PercentOn |-> 40, Direction |-> 0]

Ground(cc) == [HkRequest EXCEPT !.mid = CMD_MID, !.cc = cc]

ConfigPacket(n, l) == [Ground(CONFIG_CC) EXCEPT !.TrqNum = n, !.level = l]

ConfigAllPacket(ls) == [Ground(CONFIG_ALL_CC) EXCEPT !.levels = ls]

Mixed == [t \in Torquers |-> IF t = 1 THEN Forward ELSE Backward]

\* Commands that reach the torquers, well-formed and not.
DriveInputs ==
  {Ground(ENABLE_CC), Ground(DISABLE_CC),
   ConfigPacket(0, Backward), ConfigPacket(2, Forward), ConfigPacket(3, Forward),
   ConfigAllPacket(Mixed)}

\* Every way a packet is counted: accepted, refused, reset, not counted.
CountInputs ==
  {Ground(NOOP_CC), Ground(RESET_COUNTERS_CC), Ground(ENABLE_CC), Ground(DISABLE_CC),
   ConfigPacket(1, IdleLevel), ConfigPacket(3, IdleLevel), ConfigAllPacket(AllIdle),
   Ground(6), [Ground(NOOP_CC) EXCEPT !.lenOk = FALSE], [HkRequest EXCEPT !.cc = 7]}

\* What can stand before a DISABLE or a housekeeping request in the pipe.
QueueInputs == {Ground(ENABLE_CC), Ground(DISABLE_CC), HkRequest}

=============================================================================
