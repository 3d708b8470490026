---------------------------- MODULE CommandService ----------------------------
(***************************************************************************)
(* What the ground sees of the cFS application, and all it sees: commands  *)
(* wait in a queue and are taken in order; one that is accepted moves the  *)
(* count on by one and may change whether the device is enabled; one that  *)
(* is refused does neither; housekeeping, when asked for, reports both as  *)
(* they are.  TorquerApp implements this, the ground scripts rely on it.   *)
(***************************************************************************)
EXTENDS Naturals, Sequences

CONSTANTS
  Depth,      \* how many commands wait at most
  CountMod    \* where the count wraps

ASSUME ServiceAssumption == Depth \in Nat \ {0} /\ CountMod \in Nat \ {0, 1}

\* CONFIG stands for both CONFIG and CONFIG_ALL; BAD for what is always refused.
Ops == {"NOOP", "RESET", "ENABLE", "DISABLE", "CONFIG", "HK", "BAD"}

VARIABLES
  pipe,     \* the commands that wait
  count,    \* the accepted ones
  enabled   \* "DISABLED" or "ENABLED"

svars == <<pipe, count, enabled>>

Report == [count : 0 .. CountMod - 1, enabled : {"DISABLED", "ENABLED"}]

\* The report that is true now.
Now == [count |-> count, enabled |-> enabled]

ServiceTypeOK ==
  /\ pipe \in Seq(Ops) /\ Len(pipe) <= Depth
  /\ Now \in Report

ServiceInit ==
  /\ pipe = <<>>
  /\ count = 0
  /\ enabled = "DISABLED"

\* The count after c.
\* Mutant: it does not wrap.
AfterUnwrapped(c) == c + 1

After(c) == IF c + 1 = CountMod THEN 0 ELSE c + 1

Take(op) == pipe # <<>> /\ Head(pipe) = op /\ pipe' = Tail(pipe)

\* ENABLE is for a disabled device, DISABLE and CONFIG are for an enabled one.
Acceptable(op) ==
  \/ op = "NOOP"
  \/ op = "ENABLE" /\ enabled = "DISABLED"
  \/ op \in {"DISABLE", "CONFIG"} /\ enabled = "ENABLED"

\* The hardware may fail an ENABLE, which counts as accepted all the same.
Accept(op) ==
  /\ Take(op)
  /\ Acceptable(op)
  /\ count' = After(count)
  /\ enabled' \in CASE op = "ENABLE"  -> {"DISABLED", "ENABLED"}
                    [] op = "DISABLE" -> {"DISABLED"}
                    [] OTHER          -> {enabled}

Refuse(op) ==
  /\ Take(op)
  /\ ~Acceptable(op) /\ op \notin {"RESET", "HK"}
  /\ UNCHANGED <<count, enabled>>

Reset ==
  /\ Take("RESET")
  /\ count' = 0
  /\ UNCHANGED enabled

\* The packet p goes out.
SendReport(p) ==
  /\ Take("HK")
  /\ p = Now
  /\ UNCHANGED <<count, enabled>>

Deliver(op) ==
  /\ Len(pipe) < Depth
  /\ pipe' = Append(pipe, op)
  /\ UNCHANGED <<count, enabled>>

\* The application exits or dies.
Leave ==
  /\ pipe' = <<>>
  /\ count' = 0
  /\ enabled' = "DISABLED"

ServiceNext ==
  \/ \E op \in Ops : Accept(op) \/ Refuse(op) \/ Deliver(op)
  \/ Reset
  \/ \E p \in Report : SendReport(p)
  \/ Leave

Service == ServiceInit /\ [][ServiceNext]_svars

=============================================================================
