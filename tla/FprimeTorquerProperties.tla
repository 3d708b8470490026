----------------------- MODULE FprimeTorquerProperties -----------------------
(***************************************************************************)
(* What FprimeTorquer should guarantee.                                    *)
(***************************************************************************)
EXTENDS FprimeTorquer

-----------------------------------------------------------------------------
(* Safety.                                                                 *)

\* The level kept for a torquer is what the hardware does, enabled or not,
\* for every torquer this process has a hold on.  The exceptions: one that
\* an earlier process left driven and the constructor did not turn off, and
\* one that refused to be turned off by ENABLE or DISABLE.
KnownLevelsAreTrue ==
  \A t \in Torquers :
    source[t] # "unknown" => drive[t] = DriveOf(hk.trqHk[t])

\* A disabled component drives no torquer by a command: whatever is driven
\* came in at TORQin, which is not guarded, or is not known to the process.
DisabledDrivesByPortOnly ==
  hk.DeviceEnabled = "DISABLED" =>
    \A t \in Torquers : source[t] = "command" => drive[t].percent = 0

\* The channels of the command counters and of the enabled state are never
\* behind: every handler that changes one of the three writes it before it
\* returns, which matters since updateTlm never does.
CommandChannelsCurrent ==
  phase = "up" =>
    /\ chan.CommandCount = hk.CommandCount
    /\ chan.CommandErrorCount = hk.CommandErrorCount
    /\ chan.DeviceEnabled \in {"NONE", hk.DeviceEnabled}

\* Device operations counted, as done or failed, are the accepted commands
\* other than NOOP and the TORQin calls, whatever wrapped in between.
PortsBalanced(accepted, done, failed, others) ==
  done + failed - accepted - others \in {-CounterMod, 0, CounterMod}

DeviceCountersBalance ==
  PortsBalanced(hk.CommandCount, hk.DeviceCount, hk.DeviceErrorCount, extra)

\* A torquer is driven at a new level only by TORQin, or by a configuration
\* command on an enabled component, at the level asked for; never by ENABLE,
\* DISABLE, construction, destruction, or a crash outside such a call.
DrivesAsAsked ==
  \A t \in Torquers :
    drive'[t].percent # 0 /\ drive'[t] # drive[t] =>
      /\ phase = "up" /\ queue # <<>>
      /\ call.op = "TORQin" \/ hk.DeviceEnabled = "ENABLED"
      /\ \/ /\ call.op = "CONFIG" /\ call.torquerNum = t
            /\ drive'[t] = DriveOf(call.level)
         \/ /\ call.op \in {"ALL_CONFIG", "TORQin"}
            /\ drive'[t] = DriveOf(call.levels[t])

OnlyAskedDrives == [][DrivesAsAsked]_vars

\* The component is a bank of torquers that comes up on, and that TORQin can
\* give levels while it is off: coils and levels move by its steps alone,
\* whatever construction, destruction, a full queue or a crash do.
Bank == INSTANCE TorquerBank WITH
  Coils     <- Torquers,
  AutoStart <- TRUE,
  HasPort   <- TRUE,
  on        <- phase = "up" /\ hk.DeviceEnabled = "ENABLED",
  reported  <- hk.trqHk

ActsAsBank == Bank!Spec

-----------------------------------------------------------------------------
(* Liveness.                                                               *)

\* The component is never stuck: each call has its handler, which finishes whatever
\* the hardware answers; and the rate group can always call, into a full queue too.
HandlersCanStep ==
  /\ phase = "up" /\ queue # <<>> => ENABLED <<Handlers>>_vars
  /\ phase = "up" => ENABLED <<Invoke(RateGroupCall) \/ Overflow>>_vars

\* A DISABLE in the queue leads to a disabled component, unless the process
\* ends first; it then comes back enabled.
DisableHappens ==
  (\E i \in 1 .. Len(queue) : queue[i].op = "DISABLE") ~>
    (hk.DeviceEnabled = "DISABLED" \/ phase = "down")

\* TORQin changes levels and device counters behind the back of telemetry.
\* The channels catch up, as long as the rate group calls.
Lagging ==
  \/ chan.DeviceCount # hk.DeviceCount
  \/ chan.DeviceErrorCount # hk.DeviceErrorCount
  \/ chan.trqHk # hk.trqHk

TelemetryCatchesUp == Lagging ~> (~Lagging \/ phase = "down")

=============================================================================
