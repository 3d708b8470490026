------------------------- MODULE TorquerSimProperties -------------------------
(***************************************************************************)
(* What TorquerSim should guarantee; and what a test says of DISABLE.      *)
(***************************************************************************)
EXTENDS TorquerSim

-----------------------------------------------------------------------------
(* Safety.                                                                 *)

Waiting(t) == {i \in DOMAIN net : net[i].num = t}

\* 42 applies to a torquer what the flight software last commanded, or will
\* once the buffer is read: the last datagram for that torquer says so.  Not
\* so if the network lost or overtook that last command, or if its level is
\* one that run() refuses; the flight software checks no level.
LastWord ==
  \A t \in (Simulated \cap Torquers) \ unsure :
    Signed(drive[t]) \in -100 .. 100 =>
      /\ Waiting(t) = {} => mcmd[t] = Signed(drive[t])
      /\ \A i \in Waiting(t) :
           (\A j \in Waiting(t) : j <= i) => net[i].percent = Signed(drive[t])

\* STOP comes from another thread, and is seen at the next test of the loop:
\* at most one more torque is passed on, however many datagrams wait.
StopBoundsTorque == late <= 1

-----------------------------------------------------------------------------
(* Liveness.                                                               *)

\* run() is never stuck while there is a process: every datagram is passed on or
\* refused, and then the loop is tested again.
RunCanStep == pc # "down" => ENABLED <<Run>>_vars

\* A command that is not followed by another one for its torquer, and that
\* reached the buffer, is what 42 applies in the end: whatever else arrives,
\* read or refused, at one datagram per tick.
CatchesUp ==
  \A c \in Commands :
    LET t == c.num
    IN  Accepts(DatagramOf(c)) /\ <>[](running /\ t \notin unsure /\ drive[t] = c.drive)
          => <>[](mcmd[t] = Signed(c.drive))

-----------------------------------------------------------------------------
(* What a test says, and the code does not do.                             *)

\* "Disable sim and confirm device error counts increase" (ast_test.py:30, under
\* "Hardware failure"): while the simulator is disabled, the hardware does not
\* do what it is told.
DisabledDoesNotTorque == [][enabled = "ERROR" => mcmd' = mcmd]_vars

=============================================================================
