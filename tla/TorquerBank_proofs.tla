-------------------------- MODULE TorquerBank_proofs --------------------------
(***************************************************************************)
(* What every program that is a bank of torquers inherits.                 *)
(***************************************************************************)
EXTENDS TorquerBank, TLAPS

\* A bank that comes up off, and takes no level while off, reports what its
\* coils do.
THEOREM OnIsTrueHolds == Spec => []OnIsTrue
<1>1. Init => OnIsTrue
  BY DEF Init, OnIsTrue
<1>2. ASSUME OnIsTrue, [Next]_vars
      PROVE  OnIsTrue'
  <2>. SUFFICES ASSUME ~AutoStart, ~HasPort, on', NEW c \in Coils
                PROVE  drive'[c] = DriveOf(reported'[c])
    BY DEF OnIsTrue
  <2>1. CASE SwitchOn
    BY <2>1 DEF SwitchOn, NothingReported, DriveOf, IdleLevel, Off
  <2>2. CASE Set
    BY <1>2, <2>2 DEF Set, OnIsTrue
  <2>3. CASE UNCHANGED vars
    BY <1>2, <2>3 DEF vars, OnIsTrue
  <2>. QED
    BY <1>2, <2>1, <2>2, <2>3 DEF Next, Start, SwitchOff, End
<1>. QED
  BY <1>1, <1>2, PTL DEF Spec

=============================================================================
