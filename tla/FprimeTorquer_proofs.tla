------------------------- MODULE FprimeTorquer_proofs -------------------------
(***************************************************************************)
(* Proofs about FprimeTorquer, for every set of calls, queue depth and     *)
(* width of the counters.                                                  *)
(***************************************************************************)
EXTENDS FprimeTorquerProperties, TorquerDevice_proofs

-----------------------------------------------------------------------------
(* The inductive invariant: types, and the four safety properties, each of *)
(* which a step keeps with the help of the types alone.                    *)

TorquersInv == KnownLevelsAreTrue /\ DisabledDrivesByPortOnly

IInv == TypeOK /\ TorquersInv /\ CommandChannelsCurrent /\ DeviceCountersBalance

\* What a handler leaves for the invariant to hold after it.
Keeps ==
  /\ hk' \in HkTelemetry /\ chan' \in Channels /\ extra' \in Counter
  /\ drive' \in [Torquers -> Drive] /\ source' \in [Torquers -> Sources]
  /\ TorquersInv' /\ CommandChannelsCurrent' /\ DeviceCountersBalance'

-----------------------------------------------------------------------------
(* Counters.                                                               *)

\* The fields of the packet after a device operation is counted.
LEMMA CountDeviceFields ==
  ASSUME NEW h \in HkTelemetry, NEW ok \in BOOLEAN, NEW levels \in [Torquers -> Level]
  PROVE  /\ CountDevice(ok, h, levels) \in HkTelemetry
         /\ CountDevice(ok, h, levels).trqHk = levels
         /\ CountDevice(ok, h, levels).DeviceEnabled = h.DeviceEnabled
         /\ CountDevice(ok, h, levels).CommandCount = h.CommandCount
         /\ CountDevice(ok, h, levels).DeviceCount
              = IF ok THEN Inc(h.DeviceCount) ELSE h.DeviceCount
         /\ CountDevice(ok, h, levels).DeviceErrorCount
              = IF ok THEN h.DeviceErrorCount ELSE Inc(h.DeviceErrorCount)
  BY IncType DEF CountDevice, HkTelemetry

\* The fields of the packet after a command is counted.
LEMMA CountCommandFields ==
  ASSUME hk \in HkTelemetry
  PROVE  /\ CountCommand \in HkTelemetry
         /\ CountCommand.CommandCount = Inc(hk.CommandCount)
         /\ CountCommand.DeviceCount = hk.DeviceCount
         /\ CountCommand.DeviceErrorCount = hk.DeviceErrorCount
         /\ CountCommand.DeviceEnabled = hk.DeviceEnabled
         /\ CountCommand.trqHk = hk.trqHk
  BY IncType DEF CountCommand, HkTelemetry

\* A device operation counted for a command, or for a port call, and a NOOP
\* counted for none, keep the balance, with any of them wrapping.
LEMMA IncBalances ==
  ASSUME NEW c \in Counter, NEW d \in Counter, NEW e \in Counter, NEW x \in Counter,
         PortsBalanced(c, d, e, x)
  PROVE  /\ PortsBalanced(Inc(c), Inc(d), e, x)
         /\ PortsBalanced(Inc(c), d, Inc(e), x)
         /\ PortsBalanced(c, Inc(d), e, Inc(x))
         /\ PortsBalanced(c, d, Inc(e), Inc(x))
         /\ PortsBalanced(Inc(c), d, e, IF x = 0 THEN CounterMod - 1 ELSE x - 1)
  BY CounterAssumption DEF PortsBalanced, Inc, Wrap, Counter

\* A command that worked the device, done or failed, keeps the balance.
LEMMA CommandBalances ==
  ASSUME TypeOK, DeviceCountersBalance, NEW ok \in BOOLEAN,
         NEW levels \in [Torquers -> Level],
         hk'.CommandCount = CountDevice(ok, CountCommand, levels).CommandCount,
         hk'.DeviceCount = CountDevice(ok, CountCommand, levels).DeviceCount,
         hk'.DeviceErrorCount = CountDevice(ok, CountCommand, levels).DeviceErrorCount,
         extra' = extra
  PROVE  DeviceCountersBalance'
<1>1. CountCommand \in HkTelemetry
  BY CountCommandFields DEF TypeOK
<1>2. hk \in HkTelemetry
  BY DEF TypeOK
<1>3. /\ hk.CommandCount \in Counter /\ hk.DeviceCount \in Counter
      /\ hk.DeviceErrorCount \in Counter /\ extra \in Counter
  BY DEF TypeOK, HkTelemetry
<1>4. /\ hk'.CommandCount = Inc(hk.CommandCount)
      /\ hk'.DeviceCount = IF ok THEN Inc(hk.DeviceCount) ELSE hk.DeviceCount
      /\ hk'.DeviceErrorCount = IF ok THEN hk.DeviceErrorCount
                                      ELSE Inc(hk.DeviceErrorCount)
  BY <1>1, <1>2, CountDeviceFields, CountCommandFields
<1>. QED
  BY <1>3, <1>4, IncBalances DEF DeviceCountersBalance

-----------------------------------------------------------------------------
(* Channels.                                                               *)

\* When all channels are written, the command channels are current.
LEMMA WriteAllKeeps ==
  ASSUME WriteAll, hk' \in HkTelemetry
  PROVE  chan' \in Channels /\ CommandChannelsCurrent'
  BY DEF WriteAll, HkTelemetry, Channels, CommandChannelsCurrent

-----------------------------------------------------------------------------
(* Torquers.                                                               *)

\* An idle level and a drive that is off are the same thing.
LEMMA TurnOffKeeps ==
  ASSUME TypeOK, NEW res \in Statuses, TurnOff(res), hk'.trqHk = AllIdle
  PROVE  /\ drive' \in [Torquers -> Drive] /\ source' \in [Torquers -> Sources]
         /\ TorquersInv'
<1>1. DOMAIN AllOff = Torquers /\ AllOff \in [Torquers -> Drive]
  BY ConstantTypes DEF AllOff
<1>2. drive' \in [Torquers -> Drive]
  BY <1>1, TrqCommandType DEF TurnOff, TypeOK
<1>3. source' \in [Torquers -> Sources]
  BY DEF TurnOff, Sources
<1>4. \A t \in Torquers : source'[t] # "unknown" => drive'[t] = Off
  BY <1>1 DEF TurnOff, TrqCommand, AllOff
<1>5. Off = DriveOf(IdleLevel) /\ Off.percent = 0
  BY DEF Off, DriveOf, IdleLevel
<1>6. KnownLevelsAreTrue'
  BY <1>4, <1>5 DEF KnownLevelsAreTrue, AllIdle
<1>7. DisabledDrivesByPortOnly'
  BY <1>4, <1>5 DEF DisabledDrivesByPortOnly
<1>. QED
  BY <1>2, <1>3, <1>6, <1>7 DEF TorquersInv

\* Levels that follow the accepted commands keep every known level true, and
\* a disabled component without a driving command.
LEMMA ConfigureKeeps ==
  ASSUME TypeOK, TorquersInv,
         NEW who \in {"command", "port"}, NEW res \in Statuses,
         NEW S \in SUBSET Torquers, NEW wanted \in [Torquers -> Level],
         NEW want, want = [t \in S |-> DriveOf(wanted[t])],
         Configure(who, want, res),
         who = "command" => Ready,
         hk'.DeviceEnabled = hk.DeviceEnabled,
         hk'.trqHk = [t \in Torquers |->
                        IF t \in S THEN Config(hk.trqHk[t], wanted[t], res[t])
                                   ELSE hk.trqHk[t]]
  PROVE  /\ drive' \in [Torquers -> Drive] /\ source' \in [Torquers -> Sources]
         /\ TorquersInv'
<1>1. want \in [S -> Drive] /\ DOMAIN want = S
  BY DriveOfType
<1>2. drive' \in [Torquers -> Drive]
  BY <1>1, TrqCommandType DEF Configure, TypeOK
<1>3. source' \in [Torquers -> Sources]
  BY DEF Configure, Sources, TypeOK
<1>4. ASSUME NEW t \in Torquers, t \in S /\ res[t] = OS_SUCCESS
      PROVE  /\ drive'[t] = DriveOf(wanted[t]) /\ source'[t] = who
             /\ hk'.trqHk[t] = wanted[t]
  BY <1>1, <1>4 DEF Configure, TrqCommand, Config
<1>5. ASSUME NEW t \in Torquers, ~(t \in S /\ res[t] = OS_SUCCESS)
      PROVE  /\ drive'[t] = drive[t] /\ source'[t] = source[t]
             /\ hk'.trqHk[t] = hk.trqHk[t]
  BY <1>1, <1>5 DEF Configure, TrqCommand, Config
<1>6. KnownLevelsAreTrue'
  BY <1>4, <1>5 DEF KnownLevelsAreTrue, TorquersInv
<1>7. DisabledDrivesByPortOnly'
  BY <1>4, <1>5 DEF DisabledDrivesByPortOnly, TorquersInv, Ready
<1>. QED
  BY <1>2, <1>3, <1>6, <1>7 DEF TorquersInv

\* A handler that leaves the torquers alone.
LEMMA TorquersAlone ==
  ASSUME TypeOK, TorquersInv, UNCHANGED <<drive, source>>,
         hk'.DeviceEnabled = hk.DeviceEnabled, hk'.trqHk = hk.trqHk
  PROVE  /\ drive' \in [Torquers -> Drive] /\ source' \in [Torquers -> Sources]
         /\ TorquersInv'
  BY DEF TypeOK, TorquersInv, KnownLevelsAreTrue, DisabledDrivesByPortOnly

\* A refused command.
LEMMA RefusalKeeps ==
  ASSUME IInv, CountRefusal, WriteAll, UNCHANGED extra
  PROVE  Keeps
<1>1. /\ hk' \in HkTelemetry
      /\ hk'.DeviceEnabled = hk.DeviceEnabled /\ hk'.trqHk = hk.trqHk
      /\ hk'.CommandCount = hk.CommandCount /\ hk'.DeviceCount = hk.DeviceCount
      /\ hk'.DeviceErrorCount = hk.DeviceErrorCount
  BY IncType DEF IInv, TypeOK, CountRefusal, HkTelemetry
<1>2. DeviceCountersBalance' /\ extra' \in Counter
  BY <1>1 DEF IInv, TypeOK, DeviceCountersBalance
<1>3. UNCHANGED <<drive, source>>
  BY DEF CountRefusal
<1>. QED
  BY <1>1, <1>2, <1>3, WriteAllKeeps, TorquersAlone DEF Keeps, IInv

-----------------------------------------------------------------------------
(* Each handler keeps the invariant.                                       *)

\* NOOP.
LEMMA NoopKeeps == ASSUME IInv, Noop PROVE Keeps
<1>1. /\ hk \in HkTelemetry /\ chan \in Channels /\ extra \in Counter
      /\ hk' = CountCommand
  BY DEF IInv, TypeOK, Noop
<1>2. /\ hk' \in HkTelemetry /\ hk'.CommandCount = Inc(hk.CommandCount)
      /\ hk'.DeviceCount = hk.DeviceCount /\ hk'.DeviceErrorCount = hk.DeviceErrorCount
      /\ hk'.DeviceEnabled = hk.DeviceEnabled /\ hk'.trqHk = hk.trqHk
  BY <1>1, CountCommandFields
<1>3. hk'.CommandErrorCount = hk.CommandErrorCount
  BY <1>1 DEF CountCommand, HkTelemetry
<1>4. chan' \in Channels /\ CommandChannelsCurrent'
  BY <1>1, <1>2, <1>3 DEF Noop, Dispatch, WriteNoop, HkTelemetry, Channels, IInv,
     CommandChannelsCurrent
<1>5. extra' = IF extra = 0 THEN CounterMod - 1 ELSE extra - 1
  BY DEF Noop
<1>6. extra' \in Counter
  BY <1>1, <1>5, CounterAssumption DEF Counter
<1>7. DeviceCountersBalance'
  BY <1>1, <1>2, <1>5, IncBalances DEF IInv, HkTelemetry, DeviceCountersBalance
<1>8. UNCHANGED <<drive, source>>
  BY DEF Noop
<1>. QED
  BY <1>2, <1>4, <1>6, <1>7, <1>8, TorquersAlone DEF Keeps, IInv

\* RESET_COUNTERS.
LEMMA ResetCountersKeeps == ASSUME IInv, ResetCounters PROVE Keeps
<1>1. /\ hk \in HkTelemetry /\ chan \in Channels
      /\ hk' = [hk EXCEPT !.CommandCount = 0, !.CommandErrorCount = 0,
                          !.DeviceCount = 0,  !.DeviceErrorCount = 0]
  BY DEF IInv, TypeOK, ResetCounters
<1>2. /\ hk' \in HkTelemetry
      /\ hk'.CommandCount = 0 /\ hk'.CommandErrorCount = 0
      /\ hk'.DeviceCount = 0 /\ hk'.DeviceErrorCount = 0
      /\ hk'.DeviceEnabled = hk.DeviceEnabled /\ hk'.trqHk = hk.trqHk
  BY <1>1, ConstantTypes DEF HkTelemetry
<1>3. chan' \in Channels /\ CommandChannelsCurrent'
  BY <1>1, <1>2 DEF ResetCounters, Dispatch, WriteCounters, HkTelemetry, Channels,
     IInv, CommandChannelsCurrent
<1>4. extra' = 0 /\ UNCHANGED <<drive, source>>
  BY DEF ResetCounters
<1>5. DeviceCountersBalance' /\ extra' \in Counter
  BY <1>2, <1>4, ConstantTypes, CounterAssumption DEF DeviceCountersBalance, PortsBalanced
<1>. QED
  BY <1>2, <1>3, <1>4, <1>5, TorquersAlone DEF Keeps, IInv

\* ENABLE.
LEMMA EnableKeeps == ASSUME IInv, Enable PROVE Keeps
<1>1. WriteAll /\ UNCHANGED extra /\ TypeOK /\ extra' \in Counter
  BY DEF Enable, IInv, TypeOK
<1>2. CASE CountRefusal
  BY <1>1, <1>2, RefusalKeeps
<1>3. CASE \E res \in Statuses :
             /\ TurnOff(res)
             /\ hk' = [CountDevice(Sum(res) = OS_SUCCESS, CountCommand, AllIdle) EXCEPT
                         !.DeviceEnabled = IF Sum(res) = OS_SUCCESS
                                           THEN "ENABLED" ELSE "DISABLED"]
  <2>1. PICK res \in Statuses :
             /\ TurnOff(res)
             /\ hk' = [CountDevice(Sum(res) = OS_SUCCESS, CountCommand, AllIdle) EXCEPT
                         !.DeviceEnabled = IF Sum(res) = OS_SUCCESS
                                           THEN "ENABLED" ELSE "DISABLED"]
    BY <1>3
  <2>. DEFINE g == CountDevice(Sum(res) = OS_SUCCESS, CountCommand, AllIdle)
  <2>2. g \in HkTelemetry /\ g.trqHk = AllIdle
    BY <1>1, CountDeviceFields, CountCommandFields, ConstantTypes DEF TypeOK
  <2>. HIDE DEF g
  <2>3. /\ hk' \in HkTelemetry /\ hk'.trqHk = AllIdle
        /\ hk'.CommandCount = g.CommandCount /\ hk'.DeviceCount = g.DeviceCount
        /\ hk'.DeviceErrorCount = g.DeviceErrorCount
    BY <2>1, <2>2 DEF HkTelemetry, g
  <2>4. DeviceCountersBalance'
    BY <1>1, <2>3, CommandBalances, ConstantTypes DEF IInv, g
  <2>. QED
    BY <1>1, <2>1, <2>3, <2>4, WriteAllKeeps, TurnOffKeeps DEF Keeps
<1>. QED
  BY <1>2, <1>3 DEF Enable

\* DISABLE.
LEMMA DisableKeeps == ASSUME IInv, Disable PROVE Keeps
<1>1. WriteAll /\ UNCHANGED extra /\ TypeOK /\ extra' \in Counter
  BY DEF Disable, IInv, TypeOK
<1>2. CASE CountRefusal
  BY <1>1, <1>2, RefusalKeeps
<1>3. CASE \E res \in Statuses :
             /\ TurnOff(res)
             /\ hk' = [CountDevice(TRUE, CountCommand, AllIdle) EXCEPT
                         !.DeviceEnabled = "DISABLED"]
  <2>1. PICK res \in Statuses :
             /\ TurnOff(res)
             /\ hk' = [CountDevice(TRUE, CountCommand, AllIdle) EXCEPT
                         !.DeviceEnabled = "DISABLED"]
    BY <1>3
  <2>. DEFINE g == CountDevice(TRUE, CountCommand, AllIdle)
  <2>2. g \in HkTelemetry /\ g.trqHk = AllIdle
    BY <1>1, CountDeviceFields, CountCommandFields, ConstantTypes DEF TypeOK
  <2>. HIDE DEF g
  <2>3. /\ hk' \in HkTelemetry /\ hk'.trqHk = AllIdle
        /\ hk'.CommandCount = g.CommandCount /\ hk'.DeviceCount = g.DeviceCount
        /\ hk'.DeviceErrorCount = g.DeviceErrorCount
    BY <2>1, <2>2 DEF HkTelemetry, g
  <2>4. DeviceCountersBalance'
    BY <1>1, <2>3, CommandBalances, ConstantTypes DEF IInv, g
  <2>. QED
    BY <1>1, <2>1, <2>3, <2>4, WriteAllKeeps, TurnOffKeeps DEF Keeps
<1>. QED
  BY <1>2, <1>3 DEF Disable, AfterDisable

\* The call at the head of a well-formed queue is a call.
LEMMA DispatchType ==
  ASSUME TypeOK, NEW op, Dispatch(op)
  PROVE  /\ call \in Call /\ phase' = "up" /\ open' \in SUBSET Torquers
         /\ queue' \in Seq(Call) /\ Len(queue') <= QueueDepth
  BY ComponentAssumption DEF TypeOK, Dispatch, call

\* ALL_CONFIG.
LEMMA AllConfigKeeps == ASSUME IInv, AllConfig PROVE Keeps
<1>1. WriteAll /\ UNCHANGED extra /\ TypeOK /\ extra' \in Counter
  BY DEF AllConfig, IInv, TypeOK
<1>2. CASE CountRefusal
  BY <1>1, <1>2, RefusalKeeps
<1>3. CASE Ready /\ ~CountRefusal
  <2>1. PICK res \in Statuses :
          /\ Configure("command", AllDrives(call.levels), res)
          /\ hk' = CountDevice(Sum(res) = OS_SUCCESS, CountCommand,
                               Configured(call.levels, res))
    BY <1>3 DEF AllConfig
  <2>2. call.levels \in [Torquers -> Level]
    BY <1>1, DispatchType DEF AllConfig, Call
  <2>3. Configured(call.levels, res) \in [Torquers -> Level]
    BY <1>1, <2>2 DEF Configured, Config, TypeOK, HkTelemetry
  <2>4. (Sum(res) = OS_SUCCESS) \in BOOLEAN
    OBVIOUS
  <2>5. /\ hk' \in HkTelemetry /\ hk'.DeviceEnabled = hk.DeviceEnabled
        /\ hk'.trqHk = Configured(call.levels, res)
    BY <1>1, <2>1, <2>3, <2>4, CountDeviceFields, CountCommandFields DEF TypeOK
  <2>6. DeviceCountersBalance'
    BY <1>1, <2>1, <2>3, <2>4, CommandBalances DEF IInv
  <2>7. /\ drive' \in [Torquers -> Drive] /\ source' \in [Torquers -> Sources]
        /\ TorquersInv'
    BY <1>1, <1>3, <2>1, <2>2, <2>5, ConfigureKeeps DEF AllDrives, Configured, IInv
  <2>. QED
    BY <1>1, <2>5, <2>6, <2>7, WriteAllKeeps DEF Keeps
<1>. QED
  BY <1>2, <1>3 DEF AllConfig

\* GENERIC_TORQUER_CONFIG.
LEMMA ConfigOneKeeps == ASSUME IInv, ConfigOne PROVE Keeps
<1>1. WriteAll /\ UNCHANGED extra /\ TypeOK /\ extra' \in Counter
  BY DEF ConfigOne, IInv, TypeOK
<1>2. CASE CountRefusal
  BY <1>1, <1>2, RefusalKeeps
<1>3. CASE Ready /\ ~CountRefusal
  <2>. DEFINE n == call.torquerNum
              levels(res) == [hk.trqHk EXCEPT ![n] = Config(@, call.level, res[n])]
              wanted == [t \in Torquers |-> call.level]
  <2>1. PICK res \in Statuses :
          /\ Configure("command", [t \in {n} |-> DriveOf(call.level)], res)
          /\ hk' = CountDevice(res[n] = OS_SUCCESS, CountCommand, levels(res))
    BY <1>3 DEF ConfigOne
  <2>2. n \in Torquers /\ call.level \in Level
    BY <1>1, DispatchType DEF ConfigOne, Call
  <2>3. levels(res) \in [Torquers -> Level]
    BY <1>1, <2>2 DEF Config, TypeOK, HkTelemetry
  <2>4. (res[n] = OS_SUCCESS) \in BOOLEAN
    OBVIOUS
  <2>5. /\ hk' \in HkTelemetry /\ hk'.DeviceEnabled = hk.DeviceEnabled
        /\ hk'.trqHk = levels(res)
    BY <1>1, <2>1, <2>3, <2>4, CountDeviceFields, CountCommandFields DEF TypeOK
  <2>6. DeviceCountersBalance'
    BY <1>1, <2>1, <2>3, <2>4, CommandBalances DEF IInv
  <2>7. wanted \in [Torquers -> Level] /\ {n} \in SUBSET Torquers
    BY <2>2
  <2>8. [t \in {n} |-> DriveOf(call.level)] = [t \in {n} |-> DriveOf(wanted[t])]
    BY <2>2
  <2>9. levels(res) = [t \in Torquers |->
                         IF t \in {n} THEN Config(hk.trqHk[t], wanted[t], res[t])
                                      ELSE hk.trqHk[t]]
    BY <1>1, <2>2 DEF TypeOK, HkTelemetry
  <2>. HIDE DEF n, levels, wanted
  <2>10. /\ drive' \in [Torquers -> Drive] /\ source' \in [Torquers -> Sources]
         /\ TorquersInv'
    BY <1>1, <1>3, <2>1, <2>5, <2>7, <2>8, <2>9, ConfigureKeeps DEF IInv
  <2>. QED
    BY <1>1, <2>5, <2>6, <2>10, WriteAllKeeps DEF Keeps
<1>. QED
  BY <1>2, <1>3 DEF ConfigOne

\* TORQin.
LEMMA TORQinKeeps == ASSUME IInv, TORQin PROVE Keeps
<1>1. TypeOK /\ hk \in HkTelemetry /\ extra' = Inc(extra) /\ chan' = chan
  BY DEF TORQin, IInv, TypeOK
<1>2. PICK res \in Statuses :
        /\ Configure("port", AllDrives(call.levels), res)
        /\ hk' = CountDevice(Sum(res) = OS_SUCCESS, hk, Configured(call.levels, res))
  BY DEF TORQin, CountPort
<1>3. call.levels \in [Torquers -> Level]
  BY <1>1, DispatchType DEF TORQin, Call
<1>4. Configured(call.levels, res) \in [Torquers -> Level]
  BY <1>1, <1>3 DEF Configured, Config, HkTelemetry
<1>5. (Sum(res) = OS_SUCCESS) \in BOOLEAN
  OBVIOUS
<1>6. /\ hk' \in HkTelemetry /\ hk'.DeviceEnabled = hk.DeviceEnabled
      /\ hk'.trqHk = Configured(call.levels, res)
      /\ hk'.CommandCount = hk.CommandCount
      /\ hk'.DeviceCount = IF Sum(res) = OS_SUCCESS THEN Inc(hk.DeviceCount)
                           ELSE hk.DeviceCount
      /\ hk'.DeviceErrorCount = IF Sum(res) = OS_SUCCESS THEN hk.DeviceErrorCount
                                ELSE Inc(hk.DeviceErrorCount)
  BY <1>1, <1>2, <1>4, <1>5, CountDeviceFields
<1>7. hk'.CommandErrorCount = hk.CommandErrorCount
  BY <1>1, <1>2 DEF CountDevice, HkTelemetry
<1>8. DeviceCountersBalance'
  <2>1. /\ hk.CommandCount \in Counter /\ hk.DeviceCount \in Counter
        /\ hk.DeviceErrorCount \in Counter /\ extra \in Counter
    BY <1>1 DEF TypeOK, HkTelemetry
  <2>2. CASE Sum(res) = OS_SUCCESS
    <3>1. hk'.DeviceCount = Inc(hk.DeviceCount)
          /\ hk'.DeviceErrorCount = hk.DeviceErrorCount
      BY <1>6, <2>2
    <3>. QED
      BY <1>1, <1>6, <2>1, <3>1, IncBalances DEF IInv, DeviceCountersBalance
  <2>3. CASE Sum(res) # OS_SUCCESS
    <3>1. hk'.DeviceCount = hk.DeviceCount
          /\ hk'.DeviceErrorCount = Inc(hk.DeviceErrorCount)
      BY <1>6, <2>3
    <3>. QED
      BY <1>1, <1>6, <2>1, <3>1, IncBalances DEF IInv, DeviceCountersBalance
  <2>. QED
    BY <2>2, <2>3
<1>9. /\ drive' \in [Torquers -> Drive] /\ source' \in [Torquers -> Sources]
      /\ TorquersInv'
  BY <1>1, <1>2, <1>3, <1>6, ConfigureKeeps DEF AllDrives, Configured, IInv
<1>10. chan' \in Channels /\ CommandChannelsCurrent' /\ extra' \in Counter
  BY <1>1, <1>6, <1>7, IncType DEF IInv, TypeOK, CommandChannelsCurrent, TORQin, Dispatch
<1>. QED
  BY <1>6, <1>8, <1>9, <1>10 DEF Keeps

\* REQUEST_HOUSEKEEPING and updateTlm change telemetry only.
LEMMA TelemetryKeeps ==
  ASSUME IInv, RequestHousekeeping \/ UpdateTlm
  PROVE  Keeps
<1>1. /\ hk \in HkTelemetry /\ chan \in Channels /\ extra \in Counter
      /\ UNCHANGED <<hk, drive, source, extra>>
  BY DEF IInv, TypeOK, RequestHousekeeping, UpdateTlm
<1>2. chan' \in Channels /\ CommandChannelsCurrent'
  <2>1. CASE RequestHousekeeping
    BY <1>1, <2>1, WriteAllKeeps DEF RequestHousekeeping
  <2>2. CASE UpdateTlm
    BY <1>1, <2>2 DEF UpdateTlm, WriteDevice, Dispatch, HkTelemetry, Channels, IInv,
       CommandChannelsCurrent
  <2>. QED
    BY <2>1, <2>2
<1>3. DeviceCountersBalance'
  BY <1>1 DEF IInv, DeviceCountersBalance
<1>. QED
  BY <1>1, <1>2, <1>3, TorquersAlone DEF Keeps, IInv

\* Every handler.
LEMMA HandlersKeep == ASSUME IInv, Handlers PROVE IInv'
<1>1. Keeps
  BY NoopKeeps, ResetCountersKeeps, EnableKeeps, DisableKeeps, AllConfigKeeps,
     ConfigOneKeeps, TORQinKeeps, TelemetryKeeps DEF Handlers
<1>2. PICK op : Dispatch(op)
  BY DEF Handlers, Noop, ResetCounters, Enable, Disable, RequestHousekeeping,
     AllConfig, ConfigOne, TORQin, UpdateTlm
<1>3. TypeOK'
  BY <1>1, <1>2, DispatchType DEF Keeps, IInv, TypeOK
<1>. QED
  BY <1>1, <1>3 DEF Keeps, IInv

-----------------------------------------------------------------------------
(* Construction, the end of the process, and the invariant.                *)

\* The packet and the channels of a component just constructed.
LEMMA ConstructedType ==
  /\ ConstructedHk \in HkTelemetry /\ ConstructedHk \in Channels
  /\ NoChannels \in Channels
  /\ NoChannels.CommandCount = 0 /\ NoChannels.CommandErrorCount = 0
  /\ NoChannels.DeviceEnabled = "NONE"
  BY ConstantTypes DEF ConstructedHk, NoChannels, HkTelemetry, Channels

\* The commands of the step in progress are those of a call, or none.
LEMMA InProgressType ==
  ASSUME TypeOK
  PROVE  /\ DOMAIN InProgress \in SUBSET Torquers
         /\ InProgress \in [DOMAIN InProgress -> Drive]
<1>. DEFINE Fits(f) == DOMAIN f \in SUBSET Torquers /\ f \in [DOMAIN f -> Drive]
<1>1. Fits([t \in {} |-> Off]) /\ Fits(AllOff)
  BY ConstantTypes DEF AllOff
<1>2. ASSUME queue # <<>>
      PROVE  /\ Fits(AllDrives(call.levels))
             /\ Fits([t \in {call.torquerNum} |-> DriveOf(call.level)])
  <2>1. call \in Call
    BY <1>2 DEF TypeOK, call
  <2>2. /\ call.torquerNum \in Torquers /\ call.level \in Level
        /\ call.levels \in [Torquers -> Level]
    BY <2>1 DEF Call
  <2>. QED
    BY <2>2, DriveOfType DEF AllDrives
<1>. HIDE DEF Fits
<1>3. Fits(InProgress)
  BY <1>1, <1>2 DEF InProgress
<1>. QED
  BY <1>3 DEF Fits

\* Nothing is known of the torquers once the process is gone.
LEMMA GoneKeeps ==
  ASSUME Gone, drive' \in [Torquers -> Drive]
  PROVE  IInv'
<1>1. TypeOK'
  BY ConstructedType, ConstantTypes, ComponentAssumption DEF Gone, TypeOK, Sources
<1>2. TorquersInv'
  BY DEF Gone, TorquersInv, KnownLevelsAreTrue, DisabledDrivesByPortOnly
<1>3. CommandChannelsCurrent'
  BY DEF Gone, CommandChannelsCurrent
<1>4. DeviceCountersBalance'
  BY CounterAssumption
     DEF Gone, DeviceCountersBalance, PortsBalanced, ConstructedHk
<1>. QED
  BY <1>1, <1>2, <1>3, <1>4 DEF IInv

\* The process may die between two commands of a call.
LEMMA DieKeeps == ASSUME IInv, Die PROVE IInv'
<1>. DEFINE due == InProgress
<1>. DEFINE S == DOMAIN due
<1>1. S \in SUBSET Torquers /\ due \in [S -> Drive]
  BY InProgressType DEF IInv
<1>2. PICK k \in 0 .. 3, res \in Statuses :
        drive' = TrqCommand(drive, [t \in {u \in DOMAIN due : u < k} |-> due[t]], res)
  BY DEF Die
<1>. HIDE DEF due
<1>3. /\ {u \in S : u < k} \in SUBSET Torquers
      /\ [t \in {u \in DOMAIN due : u < k} |-> due[t]] \in [{u \in S : u < k} -> Drive]
  BY <1>1
<1>4. drive' \in [Torquers -> Drive]
  BY <1>2, <1>3, TrqCommandType DEF IInv, TypeOK
<1>. QED
  BY <1>4, GoneKeeps DEF Die

\* Construction knows the torquers that are off, and no other.
LEMMA ConstructKeeps == ASSUME IInv, Construct PROVE IInv'
<1>1. TypeOK'
  BY ConstructedType, ConstantTypes DEF Construct, IInv, TypeOK, Sources
<1>2. KnownLevelsAreTrue'
  <2>1. ASSUME NEW t \in Torquers, source'[t] # "unknown"
        PROVE  drive'[t] = DriveOf(hk'.trqHk[t])
    BY <2>1 DEF Construct, ConstructedHk, AllIdle, IdleLevel, DriveOf, Off
  <2>. QED
    BY <2>1 DEF KnownLevelsAreTrue
<1>3. DisabledDrivesByPortOnly'
  BY DEF Construct, ConstructedHk, DisabledDrivesByPortOnly
<1>4. CommandChannelsCurrent'
  BY ConstructedType DEF Construct, ConstructedHk, CommandChannelsCurrent
<1>5. DeviceCountersBalance'
  BY CounterAssumption
     DEF Construct, DeviceCountersBalance, PortsBalanced, ConstructedHk
<1>. QED
  BY <1>1, <1>2, <1>3, <1>4, <1>5 DEF IInv, TorquersInv

\* Power-on satisfies the invariant.
LEMMA InitInv == Init => IInv
<1>. SUFFICES ASSUME Init PROVE IInv
  OBVIOUS
<1>1. TypeOK
  BY ConstructedType, ConstantTypes, ComponentAssumption DEF Init, TypeOK, Sources
<1>2. TorquersInv
  BY DEF Init, ConstructedHk, TorquersInv, KnownLevelsAreTrue, DisabledDrivesByPortOnly
<1>3. CommandChannelsCurrent
  BY DEF Init, CommandChannelsCurrent
<1>4. DeviceCountersBalance
  BY CounterAssumption DEF Init, DeviceCountersBalance, PortsBalanced, ConstructedHk
<1>. QED
  BY <1>1, <1>2, <1>3, <1>4 DEF IInv

\* A step that changes nothing, or only the queue.
LEMMA QuietKeeps ==
  ASSUME IInv, UNCHANGED <<phase, hk, chan, open, drive, source, extra>>,
         queue' \in Seq(Call), Len(queue') <= QueueDepth
  PROVE  IInv'
<1>1. TypeOK'
  BY DEF IInv, TypeOK
<1>2. TorquersInv' /\ CommandChannelsCurrent' /\ DeviceCountersBalance'
  BY DEF IInv, TorquersInv, KnownLevelsAreTrue, DisabledDrivesByPortOnly,
     CommandChannelsCurrent, DeviceCountersBalance
<1>. QED
  BY <1>1, <1>2 DEF IInv

\* Every step keeps the invariant.
LEMMA NextInv == ASSUME IInv, [Next]_vars PROVE IInv'
<1>1. CASE Construct
  BY <1>1, ConstructKeeps
<1>2. CASE Handlers
  BY <1>2, HandlersKeep
<1>3. ASSUME NEW c \in Calls, Invoke(c) PROVE IInv'
  <2>1. queue' \in Seq(Call) /\ Len(queue') <= QueueDepth
    BY <1>3, ComponentAssumption DEF Invoke, IInv, TypeOK
  <2>. QED
    BY <1>3, <2>1, QuietKeeps DEF Invoke
<1>4. CASE Overflow \/ Crash
  BY <1>4, DieKeeps DEF Overflow, Crash
<1>5. CASE Destroy
  <2>1. drive' \in [Torquers -> Drive]
    BY <1>5 DEF Destroy, IInv, TypeOK
  <2>. QED
    BY <1>5, <2>1, GoneKeeps DEF Destroy
<1>6. CASE UNCHANGED vars
  <2>1. queue' \in Seq(Call) /\ Len(queue') <= QueueDepth
    BY <1>6 DEF vars, IInv, TypeOK
  <2>. QED
    BY <1>6, <2>1, QuietKeeps DEF vars
<1>. QED
  BY <1>1, <1>2, <1>3, <1>4, <1>5, <1>6 DEF Next

\* The inductive invariant holds in every reachable state.
LEMMA Invariance == Spec => []IInv
<1>1. IInv /\ [Next]_vars => IInv'
  BY NextInv
<1>. QED
  BY InitInv, <1>1, PTL DEF Spec

-----------------------------------------------------------------------------
(* What a step may do to the torquers.                                     *)

\* Turning torquers off drives none of them.
LEMMA TurnOffDrivesNone ==
  ASSUME NEW res, TurnOff(res)
  PROVE  \A t \in Torquers : drive'[t].percent # 0 => drive'[t] = drive[t]
  BY IdleIsOff DEF TurnOff, TrqCommand

\* A call in progress asks for nothing but its own levels, or off.
LEMMA InProgressIsAsked ==
  ASSUME TypeOK, NEW t \in DOMAIN InProgress, InProgress[t].percent # 0
  PROVE  /\ queue # <<>>
         /\ call.op = "TORQin" \/ hk.DeviceEnabled = "ENABLED"
         /\ \/ /\ call.op = "CONFIG" /\ call.torquerNum = t
               /\ InProgress[t] = DriveOf(call.level)
            \/ /\ call.op \in {"ALL_CONFIG", "TORQin"}
               /\ InProgress[t] = DriveOf(call.levels[t])
<1>1. t \in Torquers
  BY InProgressType
<1>2. InProgress # [u \in {} |-> Off] /\ InProgress # AllOff
  BY <1>1, IdleIsOff
<1>3. /\ queue # <<>>
      /\ \/ /\ call.op = "CONFIG" /\ Ready
            /\ InProgress = [u \in {call.torquerNum} |-> DriveOf(call.level)]
         \/ /\ call.op = "ALL_CONFIG" /\ Ready
            /\ InProgress = AllDrives(call.levels)
         \/ /\ call.op = "TORQin"
            /\ InProgress = AllDrives(call.levels)
  BY <1>2 DEF InProgress
<1>. QED
  BY <1>1, <1>3 DEF Ready, AllDrives

\* Every step drives a torquer only as a call asked.
LEMMA StepDrivesAsAsked == ASSUME TypeOK, [Next]_vars PROVE DrivesAsAsked
<1>. SUFFICES ASSUME NEW t \in Torquers,
                     drive'[t].percent # 0, drive'[t] # drive[t]
              PROVE  /\ phase = "up" /\ queue # <<>>
                     /\ call.op = "TORQin" \/ hk.DeviceEnabled = "ENABLED"
                     /\ \/ /\ call.op = "CONFIG" /\ call.torquerNum = t
                           /\ drive'[t] = DriveOf(call.level)
                        \/ /\ call.op \in {"ALL_CONFIG", "TORQin"}
                           /\ drive'[t] = DriveOf(call.levels[t])
  BY DEF DrivesAsAsked
<1>1. drive' # drive
  OBVIOUS
<1>2. CASE AllConfig \/ TORQin
  <2>1. PICK res : Configure("command", AllDrives(call.levels), res)
                   \/ Configure("port", AllDrives(call.levels), res)
    BY <1>1, <1>2 DEF AllConfig, TORQin, CountRefusal
  <2>2. drive'[t] = DriveOf(call.levels[t])
    BY <2>1 DEF Configure, TrqCommand, AllDrives
  <2>. QED
    BY <1>1, <1>2, <2>2 DEF AllConfig, TORQin, CountRefusal, Dispatch, Ready
<1>3. CASE ConfigOne
  <2>1. PICK res : Configure("command",
                             [u \in {call.torquerNum} |-> DriveOf(call.level)], res)
    BY <1>1, <1>3 DEF ConfigOne, CountRefusal
  <2>2. call.torquerNum = t /\ drive'[t] = DriveOf(call.level)
    BY <2>1 DEF Configure, TrqCommand
  <2>. QED
    BY <1>1, <1>3, <2>2 DEF ConfigOne, CountRefusal, Dispatch, Ready
<1>4. CASE Overflow \/ Crash
  <2>1. phase = "up" /\ Die
    BY <1>4 DEF Overflow, Crash
  <2>2. PICK k \in 0 .. 3, res \in Statuses :
          drive' = TrqCommand(drive,
                              [u \in {v \in DOMAIN InProgress : v < k} |-> InProgress[u]],
                              res)
    BY <2>1 DEF Die
  <2>3. t \in DOMAIN InProgress /\ drive'[t] = InProgress[t]
    BY <2>2 DEF TrqCommand
  <2>. QED
    BY <2>1, <2>3, InProgressIsAsked
<1>5. ~Enable /\ ~Disable
  BY <1>1, TurnOffDrivesNone DEF Enable, Disable, CountRefusal
<1>. QED
  BY <1>1, <1>2, <1>3, <1>4, <1>5 DEF Next, Handlers, Construct, Noop, ResetCounters,
     RequestHousekeeping, UpdateTlm, Invoke, Destroy, vars

-----------------------------------------------------------------------------
(* The theorems.                                                           *)

\* Every variable keeps its type, for every instance.
THEOREM TypeCorrect == Spec => []TypeOK
<1>1. IInv => TypeOK
  BY DEF IInv
<1>. QED
  BY Invariance, <1>1, PTL

\* The level kept for a torquer the process has a hold on is what the
\* hardware does, enabled or not.
THEOREM KnownLevelsHold == Spec => []KnownLevelsAreTrue
<1>1. IInv => KnownLevelsAreTrue
  BY DEF IInv, TorquersInv
<1>. QED
  BY Invariance, <1>1, PTL

\* A disabled component drives no torquer by a command.
THEOREM DisabledHolds == Spec => []DisabledDrivesByPortOnly
<1>1. IInv => DisabledDrivesByPortOnly
  BY DEF IInv, TorquersInv
<1>. QED
  BY Invariance, <1>1, PTL

\* The command counters and the enabled state in telemetry are never behind.
THEOREM CommandChannelsHold == Spec => []CommandChannelsCurrent
<1>1. IInv => CommandChannelsCurrent
  BY DEF IInv
<1>. QED
  BY Invariance, <1>1, PTL

\* The device counters account for every accepted command and port call,
\* whatever their width and however often they wrap.
THEOREM DeviceCountersBalanceHolds == Spec => []DeviceCountersBalance
<1>1. IInv => DeviceCountersBalance
  BY DEF IInv
<1>. QED
  BY Invariance, <1>1, PTL

\* Only a call that asks for it drives a coil, and only as asked.
THEOREM OnlyAskedDrivesHolds == Spec => OnlyAskedDrives
<1>1. TypeOK /\ [Next]_vars => [DrivesAsAsked]_vars
  BY StepDrivesAsAsked
<1>. QED
  BY TypeCorrect, <1>1, PTL DEF Spec, OnlyAskedDrives

-----------------------------------------------------------------------------
(* When telemetry is behind.                                               *)

\* Only TORQin makes the device channels fall behind: every other handler that
\* changes what they carry writes it, and construction, the end of a process and
\* a crash leave channels and packet alike.
THEOREM OnlyPortLags ==
  Spec => [][~Lagging /\ Lagging' =>
               phase = "up" /\ queue # <<>> /\ call.op = "TORQin"]_vars
<1>1. ASSUME TypeOK, [Next]_vars, ~Lagging, Lagging'
      PROVE  phase = "up" /\ queue # <<>> /\ call.op = "TORQin"
  <2>. USE DEF Lagging
  <2>1. hk \in HkTelemetry /\ chan \in Channels
    BY <1>1 DEF TypeOK
  <2>2. ~WriteAll
    BY <1>1 DEF WriteAll
  <2>3. ~Noop
    <3>. SUFFICES ASSUME Noop PROVE FALSE
      OBVIOUS
    <3>1. /\ hk'.DeviceCount = hk.DeviceCount /\ hk'.trqHk = hk.trqHk
          /\ hk'.DeviceErrorCount = hk.DeviceErrorCount
      BY <2>1, CountCommandFields DEF Noop
    <3>2. /\ chan'.DeviceCount = chan.DeviceCount /\ chan'.trqHk = chan.trqHk
          /\ chan'.DeviceErrorCount = chan.DeviceErrorCount
      BY <2>1 DEF Noop, WriteNoop, Channels
    <3>. QED
      BY <1>1, <3>1, <3>2
  <2>4. ~ResetCounters
    <3>. SUFFICES ASSUME ResetCounters PROVE FALSE
      OBVIOUS
    <3>1. hk' \in HkTelemetry /\ hk'.trqHk = hk.trqHk
      BY <2>1, ConstantTypes DEF ResetCounters, HkTelemetry
    <3>2. /\ chan'.DeviceCount = hk'.DeviceCount /\ chan'.trqHk = chan.trqHk
          /\ chan'.DeviceErrorCount = hk'.DeviceErrorCount
      BY <3>1 DEF ResetCounters, WriteCounters, HkTelemetry
    <3>. QED
      BY <1>1, <3>1, <3>2
  <2>5. ~UpdateTlm
    BY <1>1, <2>1 DEF UpdateTlm, WriteDevice, Channels
  <2>6. ~Construct /\ ~Gone
    BY <1>1 DEF Construct, Gone, NoChannels, ConstructedHk
  <2>7. ASSUME NEW c \in Calls, Invoke(c) PROVE FALSE
    BY <1>1, <2>7 DEF Invoke
  <2>8. ~UNCHANGED vars
    BY <1>1 DEF vars
  <2>9. TORQin
    BY <1>1, <2>2, <2>3, <2>4, <2>5, <2>6, <2>7, <2>8 DEF Next, Handlers, Enable, Disable,
       RequestHousekeeping, AllConfig, ConfigOne, Overflow, Crash, Die, Destroy
  <2>. QED
    BY <2>9 DEF TORQin, Dispatch
<1>. QED
  BY <1>1, TypeCorrect, PTL DEF Spec

\* A level channel that is not behind carries what the hardware does, for every
\* torquer the process has a hold on, enabled or disabled.
THEOREM ChannelsTellTheTruth ==
  Spec => [](~Lagging =>
               \A t \in Torquers :
                 source[t] # "unknown" => drive[t] = DriveOf(chan.trqHk[t]))
<1>1. KnownLevelsAreTrue => (~Lagging =>
        \A t \in Torquers :
          source[t] # "unknown" => drive[t] = DriveOf(chan.trqHk[t]))
  BY DEF KnownLevelsAreTrue, Lagging
<1>. QED
  BY <1>1, KnownLevelsHold, PTL

-----------------------------------------------------------------------------
(* The component implements TorquerBank.                                   *)

BankStep == Bank!Next \/ UNCHANGED Bank!vars

\* The bank speaks of the same levels.
LEMMA BankLevels ==
  /\ Bank!IdleLevel = IdleLevel /\ Bank!Off = Off
  /\ Bank!Level = Level /\ Bank!Drive = Drive
  /\ \A l : Bank!DriveOf(l) = DriveOf(l)
  /\ Bank!NothingReported = AllIdle
  BY DEF Bank!IdleLevel, Bank!Off, Bank!Level, Bank!Drive, Bank!DriveOf, Bank!Byte,
         Bank!NothingReported, IdleLevel, Off, Level, Drive, DriveOf, Byte, AllIdle

\* A step that leaves the levels, the torquers and the device as they were.
LEMMA QuietBank ==
  ASSUME phase' = phase, drive' = drive, hk'.trqHk = hk.trqHk,
         hk'.DeviceEnabled = hk.DeviceEnabled
  PROVE  BankStep
  BY DEF BankStep, Bank!vars

\* A refused command is such a step.
LEMMA RefusalBank ==
  ASSUME IInv, CountRefusal, phase' = phase
  PROVE  BankStep
<1>1. hk'.trqHk = hk.trqHk /\ hk'.DeviceEnabled = hk.DeviceEnabled /\ drive' = drive
  BY DEF IInv, TypeOK, HkTelemetry, CountRefusal
<1>. QED
  BY <1>1, QuietBank

\* Turning all torquers off turns each one off or leaves it.
LEMMA TurnOffBank ==
  ASSUME NEW res \in Statuses, TurnOff(res)
  PROVE  /\ \A t \in Torquers : drive'[t] \in {Off, drive[t]}
         /\ (\A t \in Torquers : res[t] = OS_SUCCESS) => drive' = AllOff
  BY DEF TurnOff, TrqCommand, AllOff

\* ENABLE and DISABLE switch the bank on or off.
LEMMA SwitchingBank ==
  ASSUME IInv, TypeOK', phase = "up", phase' = "up",
         NEW res \in Statuses, TurnOff(res),
         hk'.trqHk = AllIdle,
         \/ hk'.DeviceEnabled = "DISABLED"
         \/ /\ hk'.DeviceEnabled = "ENABLED" /\ hk.DeviceEnabled = "DISABLED"
            /\ Sum(res) = OS_SUCCESS
  PROVE  BankStep
<1>1. CASE hk'.DeviceEnabled = "DISABLED"
  <2>1. drive' \in [Torquers -> Drive]
    BY DEF TypeOK
  <2>. QED
    BY <1>1, <2>1, TurnOffBank, BankLevels DEF BankStep, Bank!Next, Bank!SwitchOff
<1>2. CASE hk'.DeviceEnabled = "ENABLED"
  <2>1. drive' = AllOff
    BY <1>2, SumIsSuccess, TurnOffBank
  <2>. QED
    BY <1>2, <2>1, BankLevels DEF BankStep, Bank!Next, Bank!SwitchOn, AllOff
<1>. QED
  BY <1>1, <1>2

\* ENABLE.
LEMMA EnableBank == ASSUME IInv, TypeOK', Enable PROVE BankStep
<1>1. phase = "up" /\ phase' = "up"
  BY DEF Enable, Dispatch
<1>2. CASE CountRefusal
  BY <1>1, <1>2, RefusalBank
<1>3. CASE ~CountRefusal
  <2>1. PICK res \in Statuses :
          /\ TurnOff(res)
          /\ hk' = [CountDevice(Sum(res) = OS_SUCCESS, CountCommand, AllIdle) EXCEPT
                      !.DeviceEnabled = IF Sum(res) = OS_SUCCESS
                                        THEN "ENABLED" ELSE "DISABLED"]
    BY <1>3 DEF Enable
  <2>2. hk.DeviceEnabled = "DISABLED"
    BY <1>3 DEF Enable
  <2>. DEFINE g == CountDevice(Sum(res) = OS_SUCCESS, CountCommand, AllIdle)
  <2>3. g \in HkTelemetry /\ g.trqHk = AllIdle
    BY CountDeviceFields, CountCommandFields, ConstantTypes DEF IInv, TypeOK
  <2>. HIDE DEF g
  <2>4. /\ hk'.trqHk = AllIdle
        /\ hk'.DeviceEnabled = IF Sum(res) = OS_SUCCESS THEN "ENABLED" ELSE "DISABLED"
    BY <2>1, <2>3 DEF HkTelemetry, g
  <2>. QED
    BY <1>1, <2>1, <2>2, <2>4, SwitchingBank
<1>. QED
  BY <1>2, <1>3

\* DISABLE.
LEMMA DisableBank == ASSUME IInv, TypeOK', Disable PROVE BankStep
<1>1. phase = "up" /\ phase' = "up"
  BY DEF Disable, Dispatch
<1>2. CASE CountRefusal
  BY <1>1, <1>2, RefusalBank
<1>3. CASE ~CountRefusal
  <2>1. PICK res \in Statuses :
          /\ TurnOff(res)
          /\ hk' = [CountDevice(TRUE, CountCommand, AllIdle) EXCEPT
                      !.DeviceEnabled = "DISABLED"]
    BY <1>3 DEF Disable, AfterDisable
  <2>. DEFINE g == CountDevice(TRUE, CountCommand, AllIdle)
  <2>2. g \in HkTelemetry /\ g.trqHk = AllIdle
    BY CountDeviceFields, CountCommandFields, ConstantTypes DEF IInv, TypeOK
  <2>. HIDE DEF g
  <2>3. hk'.trqHk = AllIdle /\ hk'.DeviceEnabled = "DISABLED"
    BY <2>1, <2>2 DEF HkTelemetry, g
  <2>. QED
    BY <1>1, <2>1, <2>3, SwitchingBank
<1>. QED
  BY <1>2, <1>3

\* Levels that follow the statuses of their commands are set as a bank does,
\* on or, for TORQin, off.
LEMMA ConfigureBank ==
  ASSUME TypeOK, TypeOK', phase' = phase,
         NEW who \in {"command", "port"}, NEW res \in Statuses,
         NEW S \in SUBSET Torquers, NEW wanted \in [Torquers -> Level],
         NEW want, want = [t \in S |-> DriveOf(wanted[t])],
         Configure(who, want, res),
         hk'.DeviceEnabled = hk.DeviceEnabled,
         hk'.trqHk = [t \in Torquers |->
                        IF t \in S THEN Config(hk.trqHk[t], wanted[t], res[t])
                                   ELSE hk.trqHk[t]]
  PROVE  BankStep
<1>1. ASSUME NEW t \in Torquers
      PROVE  \/ hk'.trqHk[t] = hk.trqHk[t] /\ drive'[t] = drive[t]
             \/ drive'[t] = DriveOf(hk'.trqHk[t])
  BY DEF Configure, TrqCommand, Config
<1>2. hk'.trqHk \in [Torquers -> Level] /\ drive' \in [Torquers -> Drive]
  BY DEF TypeOK, HkTelemetry
<1>. QED
  BY <1>1, <1>2, BankLevels DEF BankStep, Bank!Next, Bank!Set, Bank!TakesLevels

\* ALL_CONFIG and TORQin set all the levels.
LEMMA AllDrivesBank ==
  ASSUME IInv, TypeOK', AllConfig \/ TORQin
  PROVE  BankStep
<1>1. phase' = phase /\ TypeOK /\ hk \in HkTelemetry
  BY DEF AllConfig, TORQin, Dispatch, IInv, TypeOK
<1>2. CASE AllConfig /\ CountRefusal
  BY <1>1, <1>2, RefusalBank
<1>3. CASE ~(AllConfig /\ CountRefusal)
  <2>1. PICK res \in Statuses, who \in {"command", "port"},
             h \in {CountCommand, hk} :
          /\ Configure(who, AllDrives(call.levels), res)
          /\ hk' = CountDevice(Sum(res) = OS_SUCCESS, h, Configured(call.levels, res))
    BY <1>3 DEF AllConfig, TORQin, CountPort
  <2>2. call.levels \in [Torquers -> Level]
    BY <1>1, DispatchType DEF AllConfig, TORQin, Call
  <2>3. Configured(call.levels, res) \in [Torquers -> Level]
    BY <1>1, <2>2 DEF Configured, Config, HkTelemetry
  <2>4. (Sum(res) = OS_SUCCESS) \in BOOLEAN
    OBVIOUS
  <2>5. h \in HkTelemetry /\ h.DeviceEnabled = hk.DeviceEnabled
    BY <1>1, CountCommandFields
  <2>6. /\ hk'.DeviceEnabled = hk.DeviceEnabled
        /\ hk'.trqHk = Configured(call.levels, res)
    BY <2>1, <2>3, <2>4, <2>5, CountDeviceFields
  <2>. QED
    BY <1>1, <2>1, <2>2, <2>6, ConfigureBank DEF AllDrives, Configured
<1>. QED
  BY <1>2, <1>3

\* CONFIG sets one.
LEMMA ConfigOneBank == ASSUME IInv, TypeOK', ConfigOne PROVE BankStep
<1>1. phase' = phase /\ TypeOK /\ hk \in HkTelemetry
  BY DEF ConfigOne, Dispatch, IInv, TypeOK
<1>2. CASE CountRefusal
  BY <1>1, <1>2, RefusalBank
<1>3. CASE ~CountRefusal
  <2>. DEFINE n == call.torquerNum
              levels(res) == [hk.trqHk EXCEPT ![n] = Config(@, call.level, res[n])]
              wanted == [t \in Torquers |-> call.level]
  <2>1. PICK res \in Statuses :
          /\ Configure("command", [t \in {n} |-> DriveOf(call.level)], res)
          /\ hk' = CountDevice(res[n] = OS_SUCCESS, CountCommand, levels(res))
    BY <1>3 DEF ConfigOne
  <2>2. n \in Torquers /\ call.level \in Level
    BY <1>1, DispatchType DEF ConfigOne, Call
  <2>3. levels(res) \in [Torquers -> Level] /\ (res[n] = OS_SUCCESS) \in BOOLEAN
    BY <1>1, <2>2 DEF Config, HkTelemetry
  <2>4. hk'.DeviceEnabled = hk.DeviceEnabled /\ hk'.trqHk = levels(res)
    <3>1. CountCommand \in HkTelemetry
          /\ CountCommand.DeviceEnabled = hk.DeviceEnabled
      BY <1>1, CountCommandFields
    <3>. QED
      BY <2>1, <2>3, <3>1, CountDeviceFields
  <2>5. wanted \in [Torquers -> Level] /\ {n} \in SUBSET Torquers
    BY <2>2
  <2>6. [t \in {n} |-> DriveOf(call.level)] = [t \in {n} |-> DriveOf(wanted[t])]
    BY <2>2
  <2>7. levels(res) = [t \in Torquers |->
                         IF t \in {n} THEN Config(hk.trqHk[t], wanted[t], res[t])
                                      ELSE hk.trqHk[t]]
    BY <1>1, <2>2 DEF HkTelemetry
  <2>. HIDE DEF n, levels, wanted
  <2>. QED
    BY <1>1, <2>1, <2>4, <2>5, <2>6, <2>7, ConfigureBank
<1>. QED
  BY <1>2, <1>3

\* Every step of the component is a step of the bank or a stutter.
LEMMA NextBank == ASSUME IInv, [Next]_vars PROVE BankStep
<1>1. IInv' /\ TypeOK'
  BY NextInv DEF IInv
<1>2. CASE Construct
  BY <1>2, BankLevels DEF Construct, ConstructedHk, BankStep, Bank!Next, Bank!Start
<1>3. CASE Noop \/ ResetCounters \/ RequestHousekeeping \/ UpdateTlm
  <2>1. /\ phase' = phase /\ drive' = drive /\ hk'.trqHk = hk.trqHk
        /\ hk'.DeviceEnabled = hk.DeviceEnabled
    BY <1>3 DEF Noop, ResetCounters, RequestHousekeeping, UpdateTlm, Dispatch,
       CountCommand, IInv, TypeOK, HkTelemetry
  <2>. QED
    BY <2>1, QuietBank
<1>4. CASE Overflow \/ Crash \/ Destroy
  <2>1. /\ phase' = "down" /\ hk'.trqHk = AllIdle
        /\ drive' \in [Torquers -> Drive]
    BY <1>1, <1>4 DEF Overflow, Crash, Destroy, Die, Gone, ConstructedHk, TypeOK
  <2>. QED
    BY <2>1, BankLevels DEF BankStep, Bank!Next, Bank!End, Bank!TakesLevels
<1>5. CASE (\E c \in Calls : Invoke(c)) \/ UNCHANGED vars
  BY <1>5, QuietBank DEF Invoke, vars
<1>. QED
  BY <1>1, <1>2, <1>3, <1>4, <1>5, EnableBank, DisableBank, AllDrivesBank,
     ConfigOneBank DEF Next, Handlers

\* Before it is constructed the component is a bank that is off.
LEMMA InitBank == Init => Bank!Init
  BY BankLevels DEF Init, ConstructedHk, Bank!Init, AllOff

\* The component implements the bank of torquers, from power-on through any
\* number of crashes, full queues and constructions.
THEOREM ActsAsBankHolds == Spec => ActsAsBank
<1>1. IInv /\ [Next]_vars => [Bank!Next]_(Bank!vars)
  BY NextBank DEF BankStep
<1>. QED
  BY InitBank, Invariance, <1>1, PTL DEF Spec, ActsAsBank, Bank!Spec

-----------------------------------------------------------------------------
(* DisableHappens and TelemetryCatchesUp.  The theorems take               *)
(* HandlersCanStep as a hypothesis: it is about ENABLED, which only TLC    *)
(* evaluates.  Every call handled brings the ones behind it nearer to the  *)
(* head of the queue; composing such steps with themselves takes them      *)
(* through any queue of up to 1024 calls.                                  *)

\* One of the first k calls in the queue is this operation.
Waits(op, k) == \E i \in 1 .. Len(queue) : i <= k /\ queue[i].op = op

\* What handling it brings about, unless the process ends.
Done(op) ==
  \/ phase = "down"
  \/ op = "DISABLE" /\ hk.DeviceEnabled = "DISABLED"
  \/ op = "updateTlm" /\ ~Lagging

Awaited == {"DISABLE", "updateTlm"}

\* Handling a call takes it off the queue.
LEMMA HandlersDispatch ==
  Handlers => phase = "up" /\ queue # <<>> /\ queue' = Tail(queue)
  BY DEF Handlers, Noop, ResetCounters, Enable, Disable, RequestHousekeeping, AllConfig,
     ConfigOne, TORQin, UpdateTlm, Dispatch

\* The calls behind it move up.
LEMMA WaitsMoveUp ==
  ASSUME TypeOK, Handlers, NEW op, NEW k \in Int, Waits(op, k), call.op # op
  PROVE  Waits(op, k - 1)'
<1>1. PICK i \in 1 .. Len(queue) : i <= k /\ queue[i].op = op
  BY DEF Waits
<1>2. i # 1
  BY <1>1 DEF call, TypeOK
<1>3. queue' = Tail(queue) /\ queue \in Seq(Call)
  BY HandlersDispatch DEF TypeOK
<1>4. i - 1 \in 1 .. Len(queue') /\ queue'[i - 1] = queue[i]
  BY <1>1, <1>2, <1>3
<1>. QED
  BY <1>1, <1>4 DEF Waits

\* A new call is put behind it.
LEMMA WaitsStay ==
  ASSUME TypeOK, NEW op, NEW k \in Int, Waits(op, k), NEW c \in Call,
         queue' = Append(queue, c)
  PROVE  Waits(op, k)'
<1>1. PICK i \in 1 .. Len(queue) : i <= k /\ queue[i].op = op
  BY DEF Waits
<1>2. i \in 1 .. Len(queue') /\ queue'[i] = queue[i]
  BY <1>1 DEF TypeOK
<1>. QED
  BY <1>1, <1>2 DEF Waits

\* A DISABLE or updateTlm that is handled does what it is for.
LEMMA AwaitedWorks ==
  ASSUME TypeOK, Handlers, NEW op \in Awaited, call.op = op
  PROVE  Done(op) \/ Done(op)'
<1>1. CASE op = "DISABLE"
  <2>1. Disable
    BY <1>1 DEF Handlers, Noop, ResetCounters, Enable, RequestHousekeeping, AllConfig,
       ConfigOne, TORQin, UpdateTlm, Dispatch
  <2>2. CASE hk.DeviceEnabled = "ENABLED"
    <3>1. PICK res \in Statuses :
            hk' = [CountDevice(TRUE, CountCommand, AllIdle) EXCEPT
                     !.DeviceEnabled = "DISABLED"]
      BY <2>1, <2>2 DEF Disable, AfterDisable
    <3>2. CountDevice(TRUE, CountCommand, AllIdle) \in HkTelemetry
      BY CountDeviceFields, CountCommandFields, ConstantTypes DEF TypeOK
    <3>3. hk'.DeviceEnabled = "DISABLED"
      BY <3>1, <3>2 DEF HkTelemetry
    <3>. QED
      BY <1>1, <3>3 DEF Done
  <2>. QED
    BY <1>1, <2>2 DEF Done, TypeOK, HkTelemetry
<1>2. CASE op = "updateTlm"
  <2>1. UpdateTlm
    BY <1>2 DEF Handlers, Noop, ResetCounters, Enable, Disable, RequestHousekeeping,
       AllConfig, ConfigOne, TORQin, Dispatch
  <2>2. ~Lagging'
    BY <2>1 DEF UpdateTlm, WriteDevice, Lagging, TypeOK, Channels
  <2>. QED
    BY <1>2, <2>2 DEF Done
<1>. QED
  BY <1>1, <1>2 DEF Awaited

\* How the queue moves while such a call waits.
LEMMA WaitingMoves ==
  ASSUME TypeOK, [Next]_vars, NEW op \in Awaited, NEW k \in Int, Waits(op, k)
  PROVE  /\ Waits(op, k)' \/ Waits(op, k - 1)' \/ Done(op)' \/ Done(op)
         /\ Handlers => Waits(op, k - 1)' \/ Done(op)' \/ Done(op)
<1>1. CASE Handlers
  BY <1>1, WaitsMoveUp, AwaitedWorks
<1>2. CASE Construct
  BY <1>2 DEF Construct, Done
<1>3. ASSUME NEW c \in Calls, Invoke(c) PROVE Waits(op, k)' /\ ~Handlers
  <2>1. Waits(op, k)'
    BY <1>3, WaitsStay, ComponentAssumption DEF Invoke
  <2>2. ~Handlers
    BY <1>3, HandlersDispatch, ComponentAssumption DEF Invoke, TypeOK
  <2>. QED
    BY <2>1, <2>2
<1>4. CASE Overflow \/ Crash \/ Destroy
  BY <1>4 DEF Overflow, Crash, Destroy, Die, Gone, Done
<1>5. CASE UNCHANGED vars
  <2>1. Waits(op, k)'
    BY <1>5 DEF vars, Waits
  <2>2. ~Handlers
    BY <1>5, HandlersDispatch DEF TypeOK, vars
  <2>. QED
    BY <2>1, <2>2
<1>. QED
  BY <1>1, <1>2, <1>3, <1>4, <1>5 DEF Next

\* A call among the first k becomes one among the first j, or does what it is for.
Leads(op, k, j) ==
  Spec /\ []HandlersCanStep => (Waits(op, k) ~> Waits(op, j) \/ Done(op))

\* The place of a call becomes better by one.
LEMMA CallMovesUp ==
  ASSUME NEW op \in Awaited, NEW k \in Int
  PROVE  Leads(op, k, k - 1)
<1>. DEFINE here == Waits(op, k)
            next == Waits(op, k - 1)
            done == Done(op)
            can == ENABLED <<Handlers>>_vars
<1>1. TypeOK /\ [Next]_vars => (here => here' \/ next' \/ done' \/ done)
  BY WaitingMoves
<1>2. TypeOK /\ [Next]_vars /\ <<Handlers>>_vars => (here => next' \/ done' \/ done)
  BY WaitingMoves
<1>3. TypeOK /\ HandlersCanStep => (here => can \/ done)
  BY DEF HandlersCanStep, Waits, Done, TypeOK
<1>. HIDE DEF here, next, done, can
<1>4. Spec /\ []HandlersCanStep => (here ~> next \/ done)
  BY <1>1, <1>2, <1>3, TypeCorrect, PTL DEF Spec, can
<1>. QED
  BY <1>4 DEF Leads, here, next, done

\* Such steps compose.
LEMMA LeadsCompose ==
  ASSUME NEW op, NEW k, NEW j, NEW i, Leads(op, k, j), Leads(op, j, i)
  PROVE  Leads(op, k, i)
  BY PTL DEF Leads

\* From every place to the one n places before it.
LeadsBy(op, n) == \A k \in Int : Leads(op, k, k - n)

\* What holds of n places holds of twice as many.
LEMMA LeadsTwice ==
  ASSUME NEW op, NEW n \in Int, LeadsBy(op, n)
  PROVE  LeadsBy(op, 2 * n)
<1>. SUFFICES ASSUME NEW k \in Int PROVE Leads(op, k, k - 2 * n)
  BY DEF LeadsBy
<1>1. Leads(op, k, k - n) /\ Leads(op, k - n, (k - n) - n)
  BY DEF LeadsBy
<1>2. Leads(op, k, (k - n) - n)
  BY <1>1, LeadsCompose
<1>. QED
  BY <1>2

\* ... and so of 32 times as many.
LEMMA LeadsFar ==
  ASSUME NEW op, NEW n \in Int, LeadsBy(op, n)
  PROVE  LeadsBy(op, 32 * n)
<1>1. LeadsBy(op, 2 * n)
  BY LeadsTwice
<1>2. LeadsBy(op, 4 * n)
  BY <1>1, LeadsTwice
<1>3. LeadsBy(op, 8 * n)
  BY <1>2, LeadsTwice
<1>4. LeadsBy(op, 16 * n)
  BY <1>3, LeadsTwice
<1>. QED
  BY <1>4, LeadsTwice

\* A call that waits in such a queue is handled.
Handled(op) == Spec /\ []HandlersCanStep => (Waits(op, 1024) ~> Done(op))

\* Either of the two is.
LEMMA AwaitedHandled == ASSUME NEW op \in Awaited PROVE Handled(op)
<1>. DEFINE here == Waits(op, 1024)
            none == Waits(op, 0)
            done == Done(op)
<1>1. LeadsBy(op, 1)
  BY CallMovesUp DEF LeadsBy
<1>2. LeadsBy(op, 32)
  BY <1>1, LeadsFar
<1>3. LeadsBy(op, 1024)
  BY <1>2, LeadsFar
<1>4. Leads(op, 1024, 0)
  BY <1>3 DEF LeadsBy
<1>5. Spec /\ []HandlersCanStep => (here ~> none \/ done)
  BY <1>4 DEF Leads
<1>6. ~none
  BY DEF Waits
<1>. HIDE DEF here, none, done
<1>7. Spec /\ []HandlersCanStep => (here ~> done)
  BY <1>5, <1>6, PTL
<1>. QED
  BY <1>7 DEF Handled, here, done

\* A DISABLE in the queue disables the component, if the component is never stuck.
THEOREM DisableHappensHolds ==
  ASSUME QueueDepth <= 1024
  PROVE  Spec /\ []HandlersCanStep => DisableHappens
<1>. DEFINE queued == \E i \in 1 .. Len(queue) : queue[i].op = "DISABLE"
            here == Waits("DISABLE", 1024)
            done == Done("DISABLE")
            goal == hk.DeviceEnabled = "DISABLED" \/ phase = "down"
<1>1. Spec /\ []HandlersCanStep => (here ~> done)
  <2>1. Handled("DISABLE")
    BY AwaitedHandled DEF Awaited
  <2>. QED
    BY <2>1 DEF Handled
<1>2. TypeOK => (queued => here)
  BY ComponentAssumption DEF TypeOK, Waits
<1>3. done => goal
  BY DEF Done
<1>. HIDE DEF queued, here, done, goal
<1>4. Spec /\ []HandlersCanStep => (queued ~> goal)
  BY <1>1, <1>2, <1>3, TypeCorrect, PTL
<1>. QED
  BY <1>4 DEF DisableHappens, queued, goal

\* The channels catch up with the component, if it is never stuck and the rate group
\* calls again and again.
THEOREM TelemetryCatchesUpHolds ==
  ASSUME QueueDepth <= 1024
  PROVE  RateGroupSpec /\ []HandlersCanStep => TelemetryCatchesUp
<1>. DEFINE here == Waits("updateTlm", 1024)
            done == Done("updateTlm")
            goal == ~Lagging \/ phase = "down"
            canCall == ENABLED <<Invoke(RateGroupCall) \/ Overflow>>_vars
<1>1. Spec /\ []HandlersCanStep => (here ~> done)
  <2>1. Handled("updateTlm")
    BY AwaitedHandled DEF Awaited
  <2>. QED
    BY <2>1 DEF Handled
<1>2. TypeOK /\ <<Invoke(RateGroupCall) \/ Overflow>>_vars => here' \/ done'
  <2>1. ASSUME TypeOK, Invoke(RateGroupCall) PROVE here'
    <3>1. Len(queue) + 1 \in 1 .. Len(queue') /\ Len(queue) + 1 <= 1024
      BY <2>1, ComponentAssumption DEF Invoke, TypeOK
    <3>2. queue'[Len(queue) + 1].op = "updateTlm"
      BY <2>1 DEF Invoke, TypeOK, RateGroupCall
    <3>. QED
      BY <3>1, <3>2 DEF Waits
  <2>2. Overflow => done'
    BY DEF Overflow, Die, Gone, Done
  <2>. QED
    BY <2>1, <2>2
<1>3. HandlersCanStep /\ TypeOK => canCall \/ done
  BY DEF HandlersCanStep, TypeOK, Done
<1>4. done <=> goal
  BY DEF Done
<1>. HIDE DEF here, done, goal, canCall
<1>5. RateGroupSpec /\ []HandlersCanStep => (Lagging ~> goal)
  BY <1>1, <1>2, <1>3, <1>4, TypeCorrect, PTL DEF RateGroupSpec, canCall
<1>. QED
  BY <1>5 DEF TelemetryCatchesUp, goal

=============================================================================
