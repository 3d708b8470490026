---------------------------- MODULE TorquerDevice ----------------------------
(***************************************************************************)
(* What the two flight programs share: the three magnetic torquers behind  *)
(* the hardware library (hwlib), the one device function                   *)
(* (src/fsw/shared/generic_torquer_device.c), and counters of one byte.    *)
(* There is no state here: a module that owns torquers keeps               *)
(*                                                                         *)
(*   drive : Torquers -> Drive    what the hardware was last told to do    *)
(*   open  : SUBSET Torquers      torquers whose hwlib interface is open   *)
(*                                                                         *)
(* and changes them with the operators below.                              *)
(*                                                                         *)
(* hwlib is not in the repository.  It is modelled from its use: a call    *)
(* returns OS_SUCCESS or an error; after OS_SUCCESS the hardware does what *)
(* was asked; after an error the callers carry on as if nothing had        *)
(* changed, and that is taken as its contract.                             *)
(***************************************************************************)
EXTENDS TorquerLevels

CONSTANTS
  TrqErrors,   \* the error codes trq_command may return
  CounterMod   \* the counters are uint8: 256 in the code

OS_SUCCESS == 0

(***************************************************************************)
(* Three statuses are added up before the sum is compared with OS_SUCCESS  *)
(* (Enable, CONFIG_ALL).  That is a sound test only when error codes       *)
(* cannot cancel, which they cannot when they all have the same sign; the  *)
(* README of the repository documents one code, 1, and the tests use -1.   *)
(***************************************************************************)
ASSUME ErrorAssumption ==
  /\ TrqErrors \subseteq Int \ {OS_SUCCESS}
  /\ \/ \A e \in TrqErrors : e < 0
     \/ \A e \in TrqErrors : e > 0

ASSUME CounterAssumption == CounterMod \in Nat \ {0, 1}

-----------------------------------------------------------------------------
(* The hardware library.                                                   *)

Status   == {OS_SUCCESS} \cup TrqErrors
Statuses == [Torquers -> Status]

\* A torquer whose interface never opened accepts no command.
Possible(res, open) ==
  /\ res \in Statuses
  /\ \A t \in Torquers : res[t] = OS_SUCCESS => t \in open

\* The drives after trq_command was called once for every t in the domain of
\* want, and returned res[t].
TrqCommand(drive, want, res) ==
  [t \in Torquers |-> IF t \in DOMAIN want /\ res[t] = OS_SUCCESS
                      THEN want[t]
                      ELSE drive[t]]

\* The sum of the statuses of one call per torquer.
\* Mutant: the last one is left out.
SumTwo(res) == res[0] + res[1]

Sum(res) == res[0] + res[1] + res[2]

-----------------------------------------------------------------------------
(* GENERIC_TORQUER_Config: the reported level follows the hardware, and    *)
(* only when the hardware accepted the command.                            *)

\* Mutant: the reported level is what was asked for, accepted or not.
ConfigUnchecked(reported, level, status) == level

Config(reported, level, status) ==
  IF status = OS_SUCCESS THEN level ELSE reported

-----------------------------------------------------------------------------
(* Counters.                                                               *)

Counter == 0 .. CounterMod - 1

\* (c + 1) % m for a c below m.
Wrap(c, m) == IF c + 1 = m THEN 0 ELSE c + 1

\* Mutant: the counter outgrows its byte.
IncUnwrapped(c) == c + 1

Inc(c) == Wrap(c, CounterMod)

=============================================================================
