------------------------ MODULE TorquerAppProperties ------------------------
(***************************************************************************)
(* What TorquerApp should guarantee: safety, what a step may do, liveness; *)
(* and two sentences of the source that the code does not live up to.      *)
(***************************************************************************)
EXTENDS TorquerApp

-----------------------------------------------------------------------------
(* Safety.                                                                 *)

\* While the device is reported enabled, what housekeeping says of a torquer
\* is what the hardware does.  Enable must have zeroed all three, CONFIG and
\* CONFIG_ALL must record exactly the commands that were accepted, and the
\* sum of three statuses must not hide a failure.
EnabledTelemetryIsTrue ==
  hk.DeviceEnabled = "ENABLED" =>
    \A t \in Torquers : drive[t] = DriveOf(hk.TrqInfo[t])

\* A disabled device reports no level, whichever way it became disabled: at
\* start-up, by a failed Enable, by Disable.
DisabledReportsIdle ==
  hk.DeviceEnabled = "DISABLED" => hk.TrqInfo = AllIdle

\* With the device disabled, before a restart or after it, a torquer is still
\* driven only if its last command failed or a crash left it so.
DisabledIsUndriven ==
  hk.DeviceEnabled = "DISABLED" =>
    \A t \in Torquers \ suspect : drive[t].percent = 0

\* The device is enabled only with all three interfaces open: AppInit ignores
\* what trq_init returns, Enable must notice.
EnabledNeedsInterfaces ==
  hk.DeviceEnabled = "ENABLED" => open = Torquers

\* An application that has ended, or not yet started, has disabled the device:
\* every way out of the loop goes through Disable, or through a restart that
\* starts disabled.
DormantIsDisabled ==
  phase \in {"boot", "ended"} => hk.DeviceEnabled = "DISABLED"

\* Every accepted command other than NOOP is accounted for by exactly one of
\* the device counters, whatever wrapped in between.  Ground reads a command
\* that failed in the hardware off the difference.
Balanced(accepted, done, failed, others) ==
  done + failed + others - accepted \in {0, CounterMod, 2 * CounterMod}

CountersBalance ==
  Balanced(hk.CommandCount, hk.DeviceCount, hk.DeviceErrorCount, noops)

\* A torquer is driven at a new level only by a CONFIG or CONFIG_ALL that the
\* enabled application is processing, at the level that packet gives it: not
\* by a command meant for another torquer, not by start-up, exit or a crash.
DrivesAsConfigured ==
  \A t \in Torquers :
    drive'[t].percent # 0 /\ drive'[t] # drive[t] =>
      /\ phase = "pend" /\ hk.DeviceEnabled = "ENABLED"
      /\ \/ /\ packet.cc = CONFIG_CC /\ packet.TrqNum = t
            /\ drive'[t] = DriveOf(packet.level)
         \/ /\ packet.cc = CONFIG_ALL_CC
            /\ drive'[t] = DriveOf(packet.levels[t])

OnlyConfigDrives == [][DrivesAsConfigured]_vars

\* A packet the application consumed moved exactly one of the two command
\* counters on by one; only a reset and a served housekeeping request do not
\* count.  No other step of the loop moves them: a packet that a full pipe
\* dropped leaves no trace.  Ground scripts tell acceptance from refusal, and
\* both from loss, this way.
CountsPacket ==
  LET accepted == /\ hk'.CommandCount = Inc(hk.CommandCount)
                  /\ hk'.CommandErrorCount = hk.CommandErrorCount
      refused  == /\ hk'.CommandCount = hk.CommandCount
                  /\ hk'.CommandErrorCount = Inc(hk.CommandErrorCount)
      reset    == /\ packet.mid = CMD_MID /\ packet.cc = RESET_COUNTERS_CC
                  /\ hk'.CommandCount = 0 /\ hk'.CommandErrorCount = 0
      served   == /\ packet.mid = REQ_HK_MID /\ packet.cc = REQ_HK_TLM
                  /\ hk' = hk
      consumed == Len(pipe') < Len(pipe)
  IN  phase \in {"loop", "pend"} /\ phase' # "ended" =>
        IF consumed THEN accepted \/ refused \/ reset \/ served
        ELSE hk' = hk

EveryPacketCounted == [][CountsPacket]_vars

\* A packet that is to reach the hardware is counted by how it ended there: as
\* a device success if and only if no torquer refused, and as a device error
\* if one did, whatever the others answered; and every torquer that did not
\* refuse does what the packet asked of it.  A DISABLE counts a success come
\* what may.
CountsOutcome ==
  LET asked   == CommandsOf(packet)
      refused == suspect' \cap DOMAIN asked
      success == refused = {} \/ packet.cc = DISABLE_CC
      processed == /\ phase = "pend" /\ phase' = "loop"
                   /\ pipe # <<>> /\ pipe' = Tail(pipe)
  IN  processed /\ asked # NoCommands =>
        /\ hk'.DeviceCount # hk.DeviceCount <=> success
        /\ hk'.DeviceErrorCount # hk.DeviceErrorCount <=> ~success
        /\ \A t \in DOMAIN asked \ refused : drive'[t] = asked[t]

OutcomeCounted == [][CountsOutcome]_vars

\* The application is a bank of torquers that comes up off: it is on while the
\* device is enabled, and coils and reported levels move by its steps alone,
\* whatever AppInit, the exit, a crash or a restart do.
Bank == INSTANCE TorquerBank WITH
  Coils     <- Torquers,
  AutoStart <- FALSE,
  HasPort   <- FALSE,
  on        <- hk.DeviceEnabled = "ENABLED",
  reported  <- hk.TrqInfo

ActsAsBank == Bank!Spec

\* What a packet is to the ground.
OpOf(p) ==
  IF p.mid = REQ_HK_MID /\ p.cc = REQ_HK_TLM THEN "HK"
  ELSE IF \/ ~Recognised(p) \/ WrongLength(p)
          \/ p.cc = CONFIG_CC /\ p.TrqNum \notin Torquers THEN "BAD"
  ELSE CASE p.cc = NOOP_CC           -> "NOOP"
         [] p.cc = RESET_COUNTERS_CC -> "RESET"
         [] p.cc = ENABLE_CC         -> "ENABLE"
         [] p.cc = DISABLE_CC        -> "DISABLE"
         [] OTHER                    -> "CONFIG"

\* The application serves commands as the ground scripts expect it to; while it
\* is not in its loop, nobody sees its counters.
Flight == INSTANCE CommandService WITH
  Depth    <- PipeDepth,
  CountMod <- CounterMod,
  pipe     <- [i \in DOMAIN pipe |-> OpOf(pipe[i])],
  count    <- IF phase \in {"boot", "ended"} THEN 0 ELSE hk.CommandCount,
  enabled  <- hk.DeviceEnabled

\* What a housekeeping packet says.
ReportIn(packetHk) ==
  [count |-> packetHk.CommandCount, enabled |-> packetHk.DeviceEnabled]

ServesCommands ==
  /\ Flight!Service
  /\ [][tlm' # tlm => Flight!SendReport(ReportIn(tlm'.hk))]_vars

-----------------------------------------------------------------------------
(* Liveness.                                                               *)

Queued(p) == \E i \in 1 .. Len(pipe) : pipe[i] = p

IsDisable(p) == p.mid = CMD_MID /\ p.cc = DISABLE_CC /\ p.lenOk

\* The hypothesis of the theorems about liveness, which the provers cannot
\* settle: in every state the model has a step where the code has one.  Each
\* packet received has a handler or a refusal, and a request for housekeeping
\* finds room in an empty pipe.
AppCanStep ==
  /\ phase \in {"boot", "loop", "exit"} => ENABLED <<App>>_vars
  /\ phase = "pend" /\ pipe # <<>> => ENABLED <<App>>_vars
  /\ phase = "pend" /\ pipe = <<>> => ENABLED <<Send(HkRequest)>>_vars

\* A DISABLE that made it into the pipe leads to a disabled device, whatever
\* is queued before it, however the hardware answers, and whether or not the
\* application lives to process it.
DisableTakesEffect ==
  (\E p \in Inputs : IsDisable(p) /\ Queued(p)) ~> hk.DeviceEnabled = "DISABLED"

\* A housekeeping request in the pipe leads to a new packet on the bus, unless
\* the application leaves its loop first.
HousekeepingAnswered ==
  \A n \in 0 .. SeqMod - 1 :
    (Queued(HkRequest) /\ tlm.seq = n) ~> (tlm.seq # n \/ phase \in {"exit", "ended"})

\* The application pends forever, so it sees an exit request only after the
\* next packet: the request is honoured if the scheduler sees to it that there
\* is one, by asking for housekeeping again and again.
ExitHonoured == WF_vars(Send(HkRequest)) => (exitReq ~> phase = "ended")

-----------------------------------------------------------------------------
(* What comments in the source say, and the code does not do.              *)

\* "Set to zero" (app.c:520), above a trq_command whose status is dropped:
\* once Disable has run and counted a success, no torquer is driven.
DisableSetsToZero ==
  [][DisableCommand /\ hk'.DeviceCount # hk.DeviceCount => drive' = AllOff]_vars

\* "Disable component, which cleans up the interface, upon exit" (app.c:81),
\* above a trq_close of device 0 alone.
ExitCleansUpInterface == phase = "ended" => open = {}

=============================================================================
