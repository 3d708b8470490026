------------------------- MODULE GroundCmdProperties -------------------------
(***************************************************************************)
(* What the ground scripts should guarantee, and what a test says of them. *)
(***************************************************************************)
EXTENDS GroundCmd

-----------------------------------------------------------------------------
(* Safety.                                                                 *)

\* A procedure that passes has had its command executed, whatever was lost,
\* whoever asked for housekeeping meanwhile and whether or not the application
\* restarted: if nothing was on its way when it was called, and its command is
\* not the one that wraps the count to 0.
PassedIsExecuted ==
  pc = "passed" /\ quiet /\ tries > 0 /\ target # 0 => done > 0

\* A command is sent again only if it was not executed: so it is executed
\* once, if nobody else asks for housekeeping and the application stays up.
\* Another's packet may have left before the command came; then it is executed
\* again.
ExecutedOnce == quiet /\ calm => done <= 1

\* Even if others ask for housekeeping and the application restarts, it is
\* executed at most as often as this call sent it, so three times at most.
ExecutedAtMostSent == quiet => done <= tries

\* A procedure that passes has seen the device in the state it is to bring
\* about, at some moment since it was called; wrapped or not.
StateWasSeen ==
  pc = "passed" /\ quiet /\ proc \in {"enable", "disable", "safe"} => seen

\* What a procedure judges by is how things are, if nobody else asks for
\* housekeeping and the application stays up: the count is what it should be if
\* and only if the command was executed, so there is no false alarm and no false
\* pass; the second check of confirm_generic_torquer_data, CMD_COUNT > initial,
\* agrees with the first; a DISABLE that was executed is seen.  Unless the count
\* wraps.
VerdictsAreRight ==
  quiet /\ calm /\ pc \in {"check", "confirm"} =>
    /\ tlm = Now
    /\ target # 0 =>
         /\ pc = "check" => (tlm.count >= target <=> done > 0)
         /\ pc = "confirm" /\ proc = "confirm" => tlm.count > initial
         /\ pc = "confirm" /\ proc \in {"disable", "safe"} => tlm.enabled = "DISABLED"

-----------------------------------------------------------------------------
(* Liveness.                                                               *)

\* A procedure is never stuck, whatever comes down or does not: there is always
\* a step that it can take by itself.
ScriptCanStep == pc # "idle" => ENABLED <<Script>>_vars

\* Every procedure comes to an end, however often it has to try.
CallEnds == Running ~> pc \in {"passed", "failed"}

-----------------------------------------------------------------------------
(* What a test says, and the code does not do.                             *)

\* "NOOP, no operation but confirm correct counters increment" (app_test.py:36):
\* generic_torquer_cmd passes only if its command was counted.
NoopConfirmsIncrement ==
  pc = "passed" /\ quiet /\ proc = "noop" => done > 0

=============================================================================
