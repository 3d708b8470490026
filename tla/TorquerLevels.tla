---------------------------- MODULE TorquerLevels ----------------------------
(***************************************************************************)
(* The three torquers, the levels the software is asked for and reports,   *)
(* and what the coils then do.                                             *)
(***************************************************************************)
EXTENDS Integers

Torquers == 0 .. 2   \* trqDevice[3], TrqInfo[3]
Byte     == 0 .. 255

-----------------------------------------------------------------------------
(* What the software asks for, and what the hardware does.                 *)

Level == [PercentOn : Byte, Direction : Byte]  \* as commanded and reported
Drive == [percent : Byte, positive : BOOLEAN]  \* as the coil is driven

IdleLevel == [PercentOn |-> 0, Direction |-> 0]
Off       == [percent |-> 0, positive |-> FALSE]

AllIdle == [t \in Torquers |-> IdleLevel]
AllOff  == [t \in Torquers |-> Off]

\* The uint8_t direction becomes the bool parameter of trq_command.
DriveOf(level) ==
  [percent |-> level.PercentOn, positive |-> level.Direction # 0]

=============================================================================
