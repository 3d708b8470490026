----------------------------- MODULE TorquerBank -----------------------------
(***************************************************************************)
(* What a program that owns torquers promises, whichever of the flight     *)
(* programs it is: it is on or off, it reports a level for each coil, and  *)
(* coils and reports move together, by the five steps below and no others. *)
(*                                                                         *)
(* The programs differ in two respects.  The cFS application comes up off, *)
(* and is switched on by turning every coil off.  The F Prime component    *)
(* and the checkout come up on, over whatever the coils are doing          *)
(* (AutoStart); and the F Prime component can be told a level at a port    *)
(* while it is off (HasPort).                                              *)
(***************************************************************************)
EXTENDS TorquerLevels

CONSTANTS
  Coils,      \* the torquers the program owns, of Torquers
  AutoStart,  \* whether it comes up on: a BOOLEAN
  HasPort     \* whether it takes levels while off: a BOOLEAN

VARIABLES
  on,        \* whether it takes levels
  reported,  \* the level it reports for each coil
  drive      \* what each coil does

vars == <<on, reported, drive>>

TypeOK ==
  /\ on \in BOOLEAN
  /\ reported \in [Coils -> Level]
  /\ drive \in [Coils -> Drive]

NothingReported == [c \in Coils |-> IdleLevel]

Init ==
  /\ on = FALSE
  /\ reported = NothingReported
  /\ drive = [c \in Coils |-> Off]

\* It comes up on.
Start ==
  /\ AutoStart /\ ~on
  /\ on' = TRUE
  /\ reported' = NothingReported
  /\ UNCHANGED drive

\* Every coil was told to turn off, and did.
SwitchOn ==
  /\ ~on
  /\ on' = TRUE
  /\ reported' = NothingReported
  /\ drive' = [c \in Coils |-> Off]

\* Every coil was told to turn off; whichever did, it is off now and reports
\* no level.  A coil that refused goes on unreported.
SwitchOff ==
  /\ on' = FALSE
  /\ reported' = NothingReported
  /\ \A c \in Coils : drive'[c] \in {Off, drive[c]}
  /\ drive' \in [Coils -> Drive]

TakesLevels == on \/ HasPort

\* Some coils were given levels: one that accepted reports its new level, one
\* that did not is left as it was, and so is its report.
Set ==
  /\ TakesLevels
  /\ reported' \in [Coils -> Level]
  /\ drive' \in [Coils -> Drive]
  /\ \A c \in Coils :
       \/ reported'[c] = reported[c] /\ drive'[c] = drive[c]
       \/ drive'[c] = DriveOf(reported'[c])
  /\ UNCHANGED on

\* It ends, perhaps in the middle of one of the above.
End ==
  /\ on' = FALSE
  /\ reported' = NothingReported
  /\ drive' \in [Coils -> Drive]
  /\ TakesLevels \/ \A c \in Coils : drive'[c] \in {Off, drive[c]}

Next == Start \/ SwitchOn \/ SwitchOff \/ Set \/ End

Spec == Init /\ [][Next]_vars

-----------------------------------------------------------------------------

\* While on, it reports what the coils do: so for a program that is off until
\* all its coils are, and takes no level before.
OnIsTrue ==
  ~AutoStart /\ ~HasPort /\ on => \A c \in Coils : drive[c] = DriveOf(reported[c])

=============================================================================
