-------------------------- MODULE TorquerApp_proofs --------------------------
(***************************************************************************)
(* Proofs about TorquerApp, for every packet set, pipe depth, counter      *)
(* width and set of same-signed error codes.                               *)
(***************************************************************************)
EXTENDS TorquerAppProperties, TorquerDevice_proofs

-----------------------------------------------------------------------------
(* Facts about the operators of the model.                                 *)

\* The cleared packet has its type.
LEMMA ClearedType == ClearedHk \in HkTelemetry
  BY ConstantTypes DEF ClearedHk, HkTelemetry

\* The housekeeping packet keeps its type through an accepted command.
LEMMA CountedType ==
  ASSUME hk \in HkTelemetry, NEW ok \in BOOLEAN,
         NEW reported \in [Torquers -> Level],
         NEW enabled \in {"DISABLED", "ENABLED"}
  PROVE  Counted(ok, reported, enabled) \in HkTelemetry
  BY IncType DEF Counted, HkTelemetry

\* What CountCommandError does to the types.
LEMMA CountCommandErrorType ==
  ASSUME TypeOK, CountCommandError
  PROVE  hk' \in HkTelemetry /\ drive' \in [Torquers -> Drive]
                             /\ suspect' \in SUBSET Torquers
  BY IncType DEF TypeOK, CountCommandError, HkTelemetry

\* What commanding some torquers does to the types.
LEMMA CommandTorquersType ==
  ASSUME TypeOK, NEW res, NEW S \in SUBSET Torquers, NEW want \in [S -> Drive],
         CommandTorquers(want, res)
  PROVE  drive' \in [Torquers -> Drive] /\ suspect' \in SUBSET Torquers
<1>1. drive' \in [Torquers -> Drive]
  BY TrqCommandType DEF TypeOK, CommandTorquers
<1>2. suspect' \in SUBSET Torquers
  BY DEF TypeOK, CommandTorquers
<1>. QED
  BY <1>1, <1>2

\* Enable keeps the types of what it changes.
LEMMA EnableType ==
  ASSUME TypeOK, Enable
  PROVE  hk' \in HkTelemetry /\ drive' \in [Torquers -> Drive]
                             /\ suspect' \in SUBSET Torquers
<1>1. CASE hk.DeviceEnabled = "DISABLED"
  <2>1. PICK res \in Statuses :
          LET ok == Sum(res) = OS_SUCCESS
          IN  /\ CommandTorquers(AllOff, res)
              /\ hk' = Counted(ok, AllIdle, IF ok THEN "ENABLED" ELSE "DISABLED")
    BY <1>1 DEF Enable, EnableOk
  <2>2. hk' \in HkTelemetry
    BY <2>1, CountedType, ConstantTypes, ClearedType DEF TypeOK
  <2>. QED
    BY <2>1, <2>2, CommandTorquersType, ConstantTypes, ClearedType
<1>2. CASE hk.DeviceEnabled # "DISABLED"
  BY <1>2, CountCommandErrorType DEF Enable, EnableOk
<1>. QED
  BY <1>1, <1>2

\* Disable keeps the types of what it changes.
LEMMA DisableType ==
  ASSUME TypeOK, Disable
  PROVE  hk' \in HkTelemetry /\ drive' \in [Torquers -> Drive]
                             /\ suspect' \in SUBSET Torquers
<1>1. CASE hk.DeviceEnabled = "ENABLED"
  <2>1. PICK res \in Statuses :
          /\ CommandTorquers(AllOff, res)
          /\ hk' = Counted(TRUE, AllIdle, "DISABLED")
    BY <1>1 DEF Disable, DisableCommands, DisableReports
  <2>2. hk' \in HkTelemetry
    BY <2>1, CountedType, ConstantTypes, ClearedType DEF TypeOK
  <2>. QED
    BY <2>1, <2>2, CommandTorquersType, ConstantTypes, ClearedType
<1>2. CASE hk.DeviceEnabled # "ENABLED"
  BY <1>2, CountCommandErrorType DEF Disable, DisableCommands, DisableReports
<1>. QED
  BY <1>1, <1>2

\* Receiving a packet keeps the pipe well-formed, and hands over a packet.
LEMMA ReceiveType ==
  ASSUME TypeOK, Receive
  PROVE  /\ packet \in Packet
         /\ phase' \in Phases /\ runStatus' \in {"RUN", "ERROR"}
         /\ exitReq' \in BOOLEAN /\ open' \in SUBSET Torquers
         /\ pipe' \in Seq(Packet) /\ Len(pipe') <= PipeDepth
  BY AppAssumption DEF TypeOK, Receive, Phases, packet

-----------------------------------------------------------------------------
(* Type correctness.                                                       *)

\* Power-on has the types.
LEMMA InitType == Init => TypeOK
<1>. SUFFICES ASSUME Init PROVE TypeOK
  OBVIOUS
<1>1. 0 \in Counter /\ 0 \in 0 .. SeqMod - 1
  BY AppAssumption, CounterAssumption DEF Counter
<1>2. tlm \in [seq : 0 .. SeqMod - 1, hk : HkTelemetry]
  BY <1>1, ConstantTypes, ClearedType DEF Init
<1>3. pipe \in Seq(Packet) /\ Len(pipe) <= PipeDepth
  BY AppAssumption DEF Init
<1>. QED
  BY <1>1, <1>2, <1>3, ConstantTypes, ClearedType DEF Init, TypeOK, Phases

\* Each handler of a packet keeps the types.
LEMMA HandlersType ==
  ASSUME TypeOK, Handlers
  PROVE  TypeOK'
<1>. USE DEF Command
<1>1. Receive
  BY DEF Handlers, RejectPacket, Noop, ResetCounters, EnableCommand, DisableCommand,
         ConfigCommand, ConfigAllCommand, ReportHousekeeping
<1>2. /\ packet \in Packet
      /\ phase' \in Phases /\ runStatus' \in {"RUN", "ERROR"}
      /\ exitReq' \in BOOLEAN /\ open' \in SUBSET Torquers
      /\ pipe' \in Seq(Packet) /\ Len(pipe') <= PipeDepth
  BY <1>1, ReceiveType
<1>3. /\ packet.level \in Level
      /\ \A t \in Torquers : packet.levels[t] \in Level
  BY <1>2 DEF Packet
<1>4. SUFFICES /\ hk' \in HkTelemetry
               /\ tlm' \in [seq : 0 .. SeqMod - 1, hk : HkTelemetry]
               /\ drive' \in [Torquers -> Drive]
               /\ noops' \in Counter
               /\ suspect' \in SUBSET Torquers
  BY <1>2 DEF TypeOK
<1>5. CASE RejectPacket
  BY <1>5, CountCommandErrorType DEF RejectPacket, TypeOK
<1>6. CASE Noop
  BY <1>6, IncType DEF Noop, TypeOK, HkTelemetry
<1>7. CASE ResetCounters
  <2>1. 0 \in Counter
    BY AppAssumption, CounterAssumption DEF Counter
  <2>. QED
    BY <1>7, <2>1 DEF ResetCounters, TypeOK, HkTelemetry
<1>8. CASE EnableCommand
  BY <1>8, EnableType DEF EnableCommand, TypeOK
<1>9. CASE DisableCommand
  BY <1>9, DisableType DEF DisableCommand, TypeOK
<1>10. CASE ConfigCommand
  <2>1. UNCHANGED <<tlm, noops>>
    BY <1>10 DEF ConfigCommand, Configures
  <2>2. CASE CountCommandError
    BY <2>1, <2>2, CountCommandErrorType DEF TypeOK
  <2>3. CASE ~CountCommandError
    <3>. DEFINE n == packet.TrqNum
    <3>1. n \in Torquers
      BY <1>10, <2>3 DEF ConfigCommand, Configures
    <3>2. PICK res \in Statuses :
            /\ CommandTorquers([t \in {n} |-> DriveOf(packet.level)], res)
            /\ hk' = Counted(res[n] = OS_SUCCESS,
                             [hk.TrqInfo EXCEPT
                                ![n] = Config(@, packet.level, res[n])],
                             "ENABLED")
      BY <1>10, <2>3 DEF ConfigCommand, Configures
    <3>3. [t \in {n} |-> DriveOf(packet.level)] \in [{n} -> Drive]
      BY <1>3, DriveOfType
    <3>4. drive' \in [Torquers -> Drive] /\ suspect' \in SUBSET Torquers
      BY <3>1, <3>2, <3>3, CommandTorquersType
    <3>5. [hk.TrqInfo EXCEPT ![n] = Config(@, packet.level, res[n])]
            \in [Torquers -> Level]
      BY <1>3, <3>1 DEF TypeOK, HkTelemetry, Config
    <3>6. hk' \in HkTelemetry
      BY <3>2, <3>5, CountedType DEF TypeOK
    <3>. QED
      BY <2>1, <3>4, <3>6 DEF TypeOK
  <2>. QED
    BY <2>2, <2>3
<1>11. CASE ConfigAllCommand
  <2>1. UNCHANGED <<tlm, noops>>
    BY <1>11 DEF ConfigAllCommand
  <2>2. CASE CountCommandError
    BY <2>1, <2>2, CountCommandErrorType DEF TypeOK
  <2>3. CASE ~CountCommandError
    <3>1. PICK res \in Statuses :
            /\ CommandTorquers([t \in Torquers |-> DriveOf(packet.levels[t])], res)
            /\ hk' = Counted(Sum(res) = OS_SUCCESS,
                             [t \in Torquers |->
                                Config(hk.TrqInfo[t], packet.levels[t], res[t])],
                             "ENABLED")
      BY <1>11, <2>3 DEF ConfigAllCommand
    <3>2. [t \in Torquers |-> DriveOf(packet.levels[t])] \in [Torquers -> Drive]
      BY <1>3, DriveOfType
    <3>3. drive' \in [Torquers -> Drive] /\ suspect' \in SUBSET Torquers
      BY <3>1, <3>2, CommandTorquersType
    <3>4. [t \in Torquers |-> Config(hk.TrqInfo[t], packet.levels[t], res[t])]
            \in [Torquers -> Level]
      BY <1>3 DEF TypeOK, HkTelemetry, Config
    <3>5. hk' \in HkTelemetry
      BY <3>1, <3>4, CountedType DEF TypeOK
    <3>. QED
      BY <2>1, <3>3, <3>5 DEF TypeOK
  <2>. QED
    BY <2>2, <2>3
<1>12. CASE ReportHousekeeping
  <2>1. Wrap(tlm.seq, SeqMod) \in 0 .. SeqMod - 1
    BY WrapType, AppAssumption DEF TypeOK
  <2>. QED
    BY <1>12, <2>1 DEF ReportHousekeeping, TransmitMsg, TypeOK
<1>. QED
  BY <1>5, <1>6, <1>7, <1>8, <1>9, <1>10, <1>11, <1>12 DEF Handlers

\* What the step in progress asks of the hardware: some torquers, each turned
\* off or given the level that the packet being processed has for it.
LEMMA InProgressType ==
  ASSUME TypeOK
  PROVE  /\ DOMAIN InProgress \in SUBSET Torquers
         /\ InProgress \in [DOMAIN InProgress -> Drive]
<1>. DEFINE Fits(f) == DOMAIN f \in SUBSET Torquers /\ f \in [DOMAIN f -> Drive]
<1>1. Fits(NoCommands) /\ Fits(AllOff)
  BY ConstantTypes, ClearedType DEF NoCommands, AllOff
<1>2. ASSUME phase = "pend", pipe # <<>> PROVE Fits(CommandsOf(packet))
  <2>1. packet \in Packet
    BY <1>2 DEF TypeOK, packet
  <2>2. /\ packet.level \in Level
        /\ \A t \in Torquers : packet.levels[t] \in Level
    BY <2>1 DEF Packet
  <2>3. Fits([t \in Torquers |-> DriveOf(packet.levels[t])])
    BY <2>2, DriveOfType
  <2>4. packet.TrqNum \in Torquers => Fits([t \in {packet.TrqNum} |-> DriveOf(packet.level)])
    BY <2>2, DriveOfType
  <2>. HIDE DEF Fits
  <2>. QED
    BY <1>1, <2>3, <2>4 DEF CommandsOf
<1>. HIDE DEF Fits
<1>3. Fits(InProgress)
  BY <1>1, <1>2 DEF InProgress
<1>. QED
  BY <1>3 DEF Fits

\* Every step keeps the types.
LEMMA NextType ==
  ASSUME TypeOK, [Next]_vars
  PROVE  TypeOK'
<1>1. CASE AppInit
  BY <1>1, ConstantTypes, ClearedType DEF AppInit, TypeOK, Phases, HkTelemetry, ClearedHk
<1>2. CASE AppInitFails
  BY <1>2 DEF AppInitFails, TypeOK, Phases
<1>3. CASE RunLoop
  BY <1>3 DEF RunLoop, TypeOK, Phases
<1>4. CASE Handlers
  BY <1>4, HandlersType
<1>5. CASE ExitApp
  BY <1>5, DisableType, AppAssumption DEF ExitApp, TypeOK, Phases
<1>6. CASE ReceiveError
  BY <1>6 DEF ReceiveError, TypeOK, Phases
<1>7. ASSUME NEW p \in Inputs, Send(p) PROVE TypeOK'
  BY <1>7, AppAssumption DEF Send, Delivered, TypeOK, Phases
<1>8. CASE RequestExit
  BY <1>8 DEF RequestExit, TypeOK, Phases
<1>9. CASE Crash
  <2>1. PICK k \in 0 .. 3, res \in Statuses :
          drive' = TrqCommand(drive,
                              [t \in {u \in DOMAIN InProgress : u < k} |-> InProgress[t]],
                              res)
    BY <1>9 DEF Crash
  <2>. DEFINE S == {u \in DOMAIN InProgress : u < k}
  <2>2. [t \in S |-> InProgress[t]] \in [S -> Drive] /\ S \in SUBSET Torquers
    BY InProgressType
  <2>3. drive' \in [Torquers -> Drive]
    BY <2>1, <2>2, TrqCommandType DEF TypeOK
  <2>. QED
    BY <1>9, <2>3, ConstantTypes, ClearedType, AppAssumption DEF Crash, TypeOK, Phases, HkTelemetry, ClearedHk
<1>10. CASE Restart
  BY <1>10, ConstantTypes, ClearedType DEF Restart, TypeOK, Phases, HkTelemetry, ClearedHk
<1>11. CASE UNCHANGED vars
  BY <1>11 DEF vars, TypeOK
<1>. QED
  BY <1>1, <1>2, <1>3, <1>4, <1>5, <1>6, <1>7, <1>8, <1>9, <1>10, <1>11 DEF Next, App

\* Every variable keeps its type, for every instance.
THEOREM TypeCorrect == Spec => []TypeOK
<1>1. TypeOK /\ [Next]_vars => TypeOK'
  BY NextType
<1>. QED
  BY InitType, <1>1, PTL DEF Spec

-----------------------------------------------------------------------------
(* What a step may do to the torquers.                                     *)

\* Turning torquers off drives none of them.
LEMMA AllOffDrivesNone ==
  ASSUME NEW res, CommandTorquers(AllOff, res)
  PROVE  \A t \in Torquers : drive'[t].percent # 0 => drive'[t] = drive[t]
  BY IdleIsOff DEF CommandTorquers, TrqCommand

\* Neither does Enable, nor Disable.
LEMMA SwitchingDrivesNone ==
  ASSUME Enable \/ Disable
  PROVE  \A t \in Torquers : drive'[t].percent # 0 => drive'[t] = drive[t]
  BY AllOffDrivesNone DEF Enable, Disable, DisableCommands, CountCommandError

\* A step in progress asks for nothing but levels of the packet at hand, and
\* turns off the rest of what it asks for.
LEMMA InProgressIsConfigured ==
  ASSUME NEW t \in DOMAIN InProgress, InProgress[t].percent # 0, TypeOK
  PROVE  /\ phase = "pend" /\ hk.DeviceEnabled = "ENABLED"
         /\ \/ /\ packet.cc = CONFIG_CC /\ packet.TrqNum = t
               /\ InProgress[t] = DriveOf(packet.level)
            \/ /\ packet.cc = CONFIG_ALL_CC
               /\ InProgress[t] = DriveOf(packet.levels[t])
<1>1. t \in Torquers
  BY InProgressType
<1>2. InProgress # NoCommands /\ InProgress # AllOff
  BY <1>1, IdleIsOff DEF NoCommands
<1>3. phase = "pend" /\ pipe # <<>> /\ InProgress = CommandsOf(packet)
  BY <1>2 DEF InProgress
<1>4. hk.DeviceEnabled = "ENABLED"
  BY <1>2, <1>3 DEF CommandsOf
<1>5. \/ /\ packet.cc = CONFIG_CC
         /\ InProgress = [u \in {packet.TrqNum} |-> DriveOf(packet.level)]
      \/ /\ packet.cc = CONFIG_ALL_CC
         /\ InProgress = [u \in Torquers |-> DriveOf(packet.levels[u])]
  BY <1>2, <1>3 DEF CommandsOf
<1>. QED
  BY <1>1, <1>3, <1>4, <1>5

\* Every step drives a torquer only as a packet configured it.
LEMMA StepDrivesAsConfigured ==
  ASSUME TypeOK, [Next]_vars
  PROVE  DrivesAsConfigured
<1>. SUFFICES ASSUME NEW t \in Torquers,
                     drive'[t].percent # 0, drive'[t] # drive[t]
              PROVE  /\ phase = "pend" /\ hk.DeviceEnabled = "ENABLED"
                     /\ \/ /\ packet.cc = CONFIG_CC /\ packet.TrqNum = t
                           /\ drive'[t] = DriveOf(packet.level)
                        \/ /\ packet.cc = CONFIG_ALL_CC
                           /\ drive'[t] = DriveOf(packet.levels[t])
  BY DEF DrivesAsConfigured
<1>1. drive' # drive
  OBVIOUS
<1>2. CASE ConfigCommand
  BY <1>2, <1>1 DEF ConfigCommand, Configures, Command, Receive, CountCommandError,
     CommandTorquers, TrqCommand
<1>3. CASE ConfigAllCommand
  BY <1>3, <1>1 DEF ConfigAllCommand, Command, Receive, CountCommandError,
     CommandTorquers, TrqCommand
<1>4. CASE Crash
  <2>1. PICK k \in 0 .. 3, res \in Statuses :
          drive' = TrqCommand(drive,
                              [u \in {v \in DOMAIN InProgress : v < k} |-> InProgress[u]],
                              res)
    BY <1>4 DEF Crash
  <2>2. t \in DOMAIN InProgress /\ drive'[t] = InProgress[t]
    BY <2>1 DEF TrqCommand
  <2>. QED
    BY <2>2, InProgressIsConfigured
<1>5. ~EnableCommand /\ ~DisableCommand /\ ~ExitApp
  BY SwitchingDrivesNone DEF EnableCommand, DisableCommand, ExitApp
<1>. QED
  BY <1>1, <1>2, <1>3, <1>4, <1>5 DEF Next, App, Handlers, AppInit, AppInitFails,
     RunLoop, RejectPacket, Noop, ResetCounters, ReportHousekeeping, ReceiveError,
     CountCommandError, Send, RequestExit, Restart, vars

-----------------------------------------------------------------------------
(* The inductive invariant.  DeviceInv is the part about the torquers,     *)
(* CountersBalance the part about the counters.  DormantIsDisabled is what *)
(* makes it inductive: AppInit and Restart clear the housekeeping packet,  *)
(* and only because the device was disabled before them is no torquer      *)
(* outside suspect left driven behind it.                                  *)

DeviceInv ==
  /\ EnabledTelemetryIsTrue
  /\ DisabledReportsIdle
  /\ DisabledIsUndriven
  /\ EnabledNeedsInterfaces

IInv == TypeOK /\ DeviceInv /\ CountersBalance /\ DormantIsDisabled

\* The fields of the housekeeping packet after an accepted command.
LEMMA CountedFields ==
  ASSUME hk \in HkTelemetry, NEW ok, NEW reported, NEW enabled,
         hk' = Counted(ok, reported, enabled)
  PROVE  /\ hk'.CommandErrorCount = hk.CommandErrorCount
         /\ hk'.CommandCount = Inc(hk.CommandCount)
         /\ ok  => /\ hk'.DeviceCount = Inc(hk.DeviceCount)
                   /\ hk'.DeviceErrorCount = hk.DeviceErrorCount
         /\ ~ok => /\ hk'.DeviceCount = hk.DeviceCount
                   /\ hk'.DeviceErrorCount = Inc(hk.DeviceErrorCount)
         /\ hk'.TrqInfo = reported
         /\ hk'.DeviceEnabled = enabled
  BY DEF Counted, HkTelemetry

\* A refused command changes one field of the packet, and no torquer.
LEMMA CommandErrorFields ==
  ASSUME hk \in HkTelemetry, CountCommandError
  PROVE  /\ hk'.CommandErrorCount = Inc(hk.CommandErrorCount)
         /\ hk'.CommandCount = hk.CommandCount
         /\ hk'.DeviceCount = hk.DeviceCount
         /\ hk'.DeviceErrorCount = hk.DeviceErrorCount
         /\ hk'.TrqInfo = hk.TrqInfo
         /\ hk'.DeviceEnabled = hk.DeviceEnabled
         /\ drive' = drive
         /\ suspect' = suspect
  BY DEF CountCommandError, HkTelemetry

\* Adding one to the accepted and to one of the other counters, with either
\* or both wrapping, keeps the balance.
LEMMA IncBalances ==
  ASSUME NEW c \in Counter, NEW d \in Counter, NEW e \in Counter, NEW n \in Counter,
         Balanced(c, d, e, n)
  PROVE  /\ Balanced(Inc(c), Inc(d), e, n)
         /\ Balanced(Inc(c), d, Inc(e), n)
         /\ Balanced(Inc(c), d, e, Inc(n))
  BY CounterAssumption DEF Balanced, Inc, Wrap, Counter

\* Cleared counters balance.
LEMMA ZeroBalances == Balanced(0, 0, 0, 0)
  BY CounterAssumption DEF Balanced

\* An accepted command moves CommandCount and one device counter on.
LEMMA CountedBalances ==
  ASSUME TypeOK, CountersBalance, noops' = noops,
         NEW ok \in BOOLEAN, NEW reported, NEW enabled,
         hk' = Counted(ok, reported, enabled)
  PROVE  CountersBalance'
  BY CountedFields, IncBalances DEF TypeOK, HkTelemetry, CountersBalance

\* A refused command leaves the balance alone.
LEMMA CommandErrorBalances ==
  ASSUME TypeOK, CountersBalance, noops' = noops, CountCommandError
  PROVE  CountersBalance'
  BY CommandErrorFields DEF TypeOK, CountersBalance

\* NOOP moves CommandCount and the history variable on.
LEMMA NoopBalances ==
  ASSUME TypeOK, CountersBalance, Noop
  PROVE  CountersBalance'
  BY IncBalances DEF Noop, TypeOK, HkTelemetry, CountersBalance

-----------------------------------------------------------------------------
(* The torquers.                                                           *)

\* Turning all three off turns off each one that is not suspect afterwards.
LEMMA AllOffWorks ==
  ASSUME TypeOK, NEW res \in Statuses, CommandTorquers(AllOff, res)
  PROVE  \A t \in Torquers : res[t] = OS_SUCCESS \/ t \notin suspect' =>
                               drive'[t] = AllOff[t]
<1>1. DOMAIN AllOff = Torquers
  BY DEF AllOff
<1>2. \A t \in Torquers : res[t] # OS_SUCCESS => t \in suspect'
  BY <1>1 DEF CommandTorquers
<1>3. \A t \in Torquers : res[t] = OS_SUCCESS => drive'[t] = AllOff[t]
  BY <1>1 DEF CommandTorquers, TrqCommand
<1>. QED
  BY <1>2, <1>3

\* A refused command keeps the invariant.
LEMMA CommandErrorKeeps ==
  ASSUME TypeOK, DeviceInv, CountCommandError, open' = open
  PROVE  DeviceInv'
  BY CommandErrorFields DEF TypeOK, DeviceInv, EnabledTelemetryIsTrue,
     DisabledReportsIdle, DisabledIsUndriven, EnabledNeedsInterfaces

\* Enable keeps the invariant: its sum is OS_SUCCESS only if all three torquers
\* were turned off, and then all three interfaces are open.
LEMMA EnableKeeps ==
  ASSUME IInv, Enable, open' = open, noops' = noops
  PROVE  DeviceInv' /\ CountersBalance'
<1>1. CASE hk.DeviceEnabled = "ENABLED"
  BY <1>1, CommandErrorKeeps, CommandErrorBalances DEF Enable, EnableOk, IInv
<1>2. CASE hk.DeviceEnabled = "DISABLED"
  <2>. DEFINE ok(res) == Sum(res) = OS_SUCCESS
  <2>1. PICK res \in Statuses :
          /\ Possible(res, open)
          /\ CommandTorquers(AllOff, res)
          /\ hk' = Counted(ok(res), AllIdle, IF ok(res) THEN "ENABLED" ELSE "DISABLED")
    BY <1>2 DEF Enable, EnableOk
  <2>2. ok(res) \in BOOLEAN
    OBVIOUS
  <2>3. /\ hk'.TrqInfo = AllIdle
        /\ hk'.DeviceEnabled = IF ok(res) THEN "ENABLED" ELSE "DISABLED"
    BY <2>1, CountedFields DEF IInv, TypeOK
  <2>4. CountersBalance'
    BY <2>1, <2>2, CountedBalances DEF IInv
  <2>5. ok(res) => \A t \in Torquers : res[t] = OS_SUCCESS
    BY SumIsSuccess
  <2>6. ok(res) => open = Torquers
    BY <2>1, <2>5 DEF Possible, IInv, TypeOK
  <2>7. EnabledTelemetryIsTrue'
    BY <2>1, <2>3, <2>5, AllOffWorks, IdleIsOff DEF EnabledTelemetryIsTrue, IInv
  <2>8. DisabledIsUndriven'
    BY <2>1, AllOffWorks, IdleIsOff DEF DisabledIsUndriven, IInv
  <2>9. DisabledReportsIdle' /\ EnabledNeedsInterfaces'
    BY <2>3, <2>6 DEF DisabledReportsIdle, EnabledNeedsInterfaces
  <2>. QED
    BY <2>4, <2>7, <2>8, <2>9 DEF DeviceInv
<1>. QED
  BY <1>1, <1>2 DEF IInv, TypeOK, HkTelemetry

\* Disable needs no assumption on the interfaces: it ends disabled.
LEMMA DisableKeeps ==
  ASSUME IInv, Disable, noops' = noops
  PROVE  DeviceInv' /\ CountersBalance' /\ hk'.DeviceEnabled = "DISABLED"
<1>1. CASE hk.DeviceEnabled = "DISABLED"
  <2>1. CountCommandError
    BY <1>1 DEF Disable, DisableCommands, DisableReports
  <2>2. hk'.DeviceEnabled = "DISABLED"
    BY <1>1, <2>1, CommandErrorFields DEF IInv, TypeOK
  <2>3. DeviceInv'
    BY <1>1, <2>1, <2>2, CommandErrorFields DEF IInv, TypeOK, DeviceInv,
       EnabledTelemetryIsTrue, DisabledReportsIdle, DisabledIsUndriven,
       EnabledNeedsInterfaces
  <2>. QED
    BY <2>1, <2>2, <2>3, CommandErrorBalances DEF IInv
<1>2. CASE hk.DeviceEnabled = "ENABLED"
  <2>1. PICK res \in Statuses :
          /\ CommandTorquers(AllOff, res)
          /\ hk' = Counted(TRUE, AllIdle, "DISABLED")
    BY <1>2 DEF Disable, DisableCommands, DisableReports
  <2>2. hk'.TrqInfo = AllIdle /\ hk'.DeviceEnabled = "DISABLED"
    BY <2>1, CountedFields DEF IInv, TypeOK
  <2>3. CountersBalance'
    BY <2>1, CountedBalances DEF IInv
  <2>4. DisabledIsUndriven'
    BY <2>1, AllOffWorks, IdleIsOff DEF DisabledIsUndriven, IInv
  <2>. QED
    BY <2>2, <2>3, <2>4 DEF DeviceInv, EnabledTelemetryIsTrue,
       DisabledReportsIdle, EnabledNeedsInterfaces
<1>. QED
  BY <1>1, <1>2 DEF IInv, TypeOK, HkTelemetry

\* CONFIG keeps the invariant: the level of one torquer follows its status.
LEMMA ConfigKeeps ==
  ASSUME IInv, ConfigCommand
  PROVE  DeviceInv' /\ CountersBalance'
<1>1. noops' = noops /\ open' = open /\ packet \in Packet
  BY ReceiveType DEF ConfigCommand, Command, Receive, IInv
<1>2. CASE CountCommandError
  BY <1>1, <1>2, CommandErrorKeeps, CommandErrorBalances DEF IInv
<1>3. CASE ~CountCommandError
  <2>. DEFINE n == packet.TrqNum
              want == [t \in {n} |-> DriveOf(packet.level)]
              info(res) == [hk.TrqInfo EXCEPT ![n] = Config(@, packet.level, res[n])]
  <2>1. n \in Torquers /\ hk.DeviceEnabled = "ENABLED"
    BY <1>3 DEF ConfigCommand, Configures
  <2>2. PICK res \in Statuses :
          /\ CommandTorquers(want, res)
          /\ hk' = Counted(res[n] = OS_SUCCESS, info(res), "ENABLED")
    BY <1>3 DEF ConfigCommand, Configures
  <2>3. (res[n] = OS_SUCCESS) \in BOOLEAN
    OBVIOUS
  <2>4. hk'.TrqInfo = info(res) /\ hk'.DeviceEnabled = "ENABLED"
    BY <2>2, CountedFields DEF IInv, TypeOK
  <2>5. CountersBalance'
    BY <1>1, <2>2, <2>3, CountedBalances DEF IInv
  <2>6. ASSUME NEW t \in Torquers
        PROVE  drive'[t] = DriveOf(hk'.TrqInfo[t])
    <3>1. drive[t] = DriveOf(hk.TrqInfo[t])
      BY <2>1 DEF IInv, DeviceInv, EnabledTelemetryIsTrue
    <3>2. drive'[t] = IF t = n /\ res[t] = OS_SUCCESS THEN want[t] ELSE drive[t]
      BY <2>2 DEF CommandTorquers, TrqCommand
    <3>3. hk'.TrqInfo[t] = IF t = n /\ res[t] = OS_SUCCESS
                           THEN packet.level ELSE hk.TrqInfo[t]
      BY <2>4 DEF Config, IInv, TypeOK, HkTelemetry
    <3>. QED
      BY <3>1, <3>2, <3>3
  <2>. QED
    BY <1>1, <2>1, <2>4, <2>5, <2>6 DEF IInv, DeviceInv, EnabledTelemetryIsTrue,
       DisabledReportsIdle, DisabledIsUndriven, EnabledNeedsInterfaces
<1>. QED
  BY <1>2, <1>3

\* CONFIG_ALL keeps the invariant: each level follows its own status.
LEMMA ConfigAllKeeps ==
  ASSUME IInv, ConfigAllCommand
  PROVE  DeviceInv' /\ CountersBalance'
<1>1. noops' = noops /\ open' = open /\ packet \in Packet
  BY ReceiveType DEF ConfigAllCommand, Command, Receive, IInv
<1>2. CASE CountCommandError
  BY <1>1, <1>2, CommandErrorKeeps, CommandErrorBalances DEF IInv
<1>3. CASE ~CountCommandError
  <2>. DEFINE want == [t \in Torquers |-> DriveOf(packet.levels[t])]
              info(res) == [t \in Torquers |->
                              Config(hk.TrqInfo[t], packet.levels[t], res[t])]
  <2>1. hk.DeviceEnabled = "ENABLED"
    BY <1>3 DEF ConfigAllCommand
  <2>2. PICK res \in Statuses :
          /\ CommandTorquers(want, res)
          /\ hk' = Counted(Sum(res) = OS_SUCCESS, info(res), "ENABLED")
    BY <1>3 DEF ConfigAllCommand
  <2>3. (Sum(res) = OS_SUCCESS) \in BOOLEAN
    OBVIOUS
  <2>4. hk'.TrqInfo = info(res) /\ hk'.DeviceEnabled = "ENABLED"
    BY <2>2, CountedFields DEF IInv, TypeOK
  <2>5. CountersBalance'
    BY <1>1, <2>2, <2>3, CountedBalances DEF IInv
  <2>6. ASSUME NEW t \in Torquers
        PROVE  drive'[t] = DriveOf(hk'.TrqInfo[t])
    <3>1. drive[t] = DriveOf(hk.TrqInfo[t])
      BY <2>1 DEF IInv, DeviceInv, EnabledTelemetryIsTrue
    <3>2. drive'[t] = IF res[t] = OS_SUCCESS THEN want[t] ELSE drive[t]
      BY <2>2 DEF CommandTorquers, TrqCommand
    <3>3. hk'.TrqInfo[t] = IF res[t] = OS_SUCCESS
                           THEN packet.levels[t] ELSE hk.TrqInfo[t]
      BY <2>4 DEF Config
    <3>. QED
      BY <3>1, <3>2, <3>3
  <2>. QED
    BY <1>1, <2>1, <2>4, <2>5, <2>6 DEF IInv, DeviceInv, EnabledTelemetryIsTrue,
       DisabledReportsIdle, DisabledIsUndriven, EnabledNeedsInterfaces
<1>. QED
  BY <1>2, <1>3

-----------------------------------------------------------------------------
(* The invariant holds initially and every step keeps it.                  *)

\* Cleared housekeeping satisfies everything it is part of, if the torquers
\* left running are suspect.
LEMMA ClearedKeeps ==
  ASSUME TypeOK', hk' = ClearedHk, noops' = 0,
         \A t \in Torquers \ suspect' : drive'[t].percent = 0
  PROVE  DeviceInv' /\ CountersBalance'
<1>1. DeviceInv'
  BY DEF ClearedHk, DeviceInv, EnabledTelemetryIsTrue, DisabledReportsIdle,
         DisabledIsUndriven, EnabledNeedsInterfaces
<1>2. CountersBalance'
  BY ZeroBalances DEF ClearedHk, CountersBalance
<1>. QED
  BY <1>1, <1>2

\* Power-on satisfies the invariant.
LEMMA InitInv == Init => IInv
<1>. SUFFICES ASSUME Init PROVE IInv
  OBVIOUS
<1>1. TypeOK
  BY InitType
<1>2. DeviceInv
  BY IdleIsOff DEF Init, ClearedHk, DeviceInv, EnabledTelemetryIsTrue,
     DisabledReportsIdle, DisabledIsUndriven, EnabledNeedsInterfaces
<1>3. CountersBalance
  BY ZeroBalances DEF Init, ClearedHk, CountersBalance
<1>. QED
  BY <1>1, <1>2, <1>3 DEF Init, ClearedHk, IInv, DormantIsDisabled

\* A step that changes none of the variables the invariant is about.
LEMMA QuietKeeps ==
  ASSUME IInv, UNCHANGED <<hk, open, drive, noops, suspect>>
  PROVE  DeviceInv' /\ CountersBalance'
  BY DEF IInv, DeviceInv, EnabledTelemetryIsTrue, DisabledReportsIdle,
     DisabledIsUndriven, EnabledNeedsInterfaces, CountersBalance

\* Each handler of a packet keeps the invariant.
LEMMA HandlersKeep ==
  ASSUME IInv, Handlers
  PROVE  DeviceInv' /\ CountersBalance'
<1>1. CASE RejectPacket
  BY <1>1, CommandErrorKeeps, CommandErrorBalances DEF RejectPacket, Receive, IInv
<1>2. CASE Noop
  <2>1. /\ hk'.TrqInfo = hk.TrqInfo /\ hk'.DeviceEnabled = hk.DeviceEnabled
        /\ UNCHANGED <<open, drive, suspect>>
    BY <1>2 DEF Noop, Command, Receive, IInv, TypeOK, HkTelemetry
  <2>2. DeviceInv'
    BY <2>1 DEF IInv, DeviceInv, EnabledTelemetryIsTrue, DisabledReportsIdle,
       DisabledIsUndriven, EnabledNeedsInterfaces
  <2>. QED
    BY <1>2, <2>2, NoopBalances DEF IInv
<1>3. CASE ResetCounters
  <2>1. /\ hk'.TrqInfo = hk.TrqInfo /\ hk'.DeviceEnabled = hk.DeviceEnabled
        /\ hk'.CommandCount = 0 /\ hk'.DeviceCount = 0 /\ hk'.DeviceErrorCount = 0
        /\ noops' = 0
        /\ UNCHANGED <<open, drive, suspect>>
    BY <1>3 DEF ResetCounters, Command, Receive, IInv, TypeOK, HkTelemetry
  <2>2. DeviceInv'
    BY <2>1 DEF IInv, DeviceInv, EnabledTelemetryIsTrue, DisabledReportsIdle,
       DisabledIsUndriven, EnabledNeedsInterfaces
  <2>3. CountersBalance'
    BY <2>1, ZeroBalances DEF CountersBalance
  <2>. QED
    BY <2>2, <2>3
<1>4. CASE EnableCommand
  BY <1>4, EnableKeeps DEF EnableCommand, Command, Receive
<1>5. CASE DisableCommand
  BY <1>5, DisableKeeps DEF DisableCommand
<1>6. CASE ConfigCommand
  BY <1>6, ConfigKeeps
<1>7. CASE ConfigAllCommand
  BY <1>7, ConfigAllKeeps
<1>8. CASE ReportHousekeeping
  BY <1>8, QuietKeeps DEF ReportHousekeeping, Receive
<1>. QED
  BY <1>1, <1>2, <1>3, <1>4, <1>5, <1>6, <1>7, <1>8 DEF Handlers

\* Every step keeps the invariant.
LEMMA NextInv ==
  ASSUME IInv, [Next]_vars
  PROVE  IInv'
<1>1. TypeOK'
  BY NextType DEF IInv
<1>2. DormantIsDisabled'
  <2>1. CASE Handlers
    BY <2>1 DEF Handlers, RejectPacket, Noop, ResetCounters, EnableCommand,
       DisableCommand, ConfigCommand, ConfigAllCommand, ReportHousekeeping,
       Command, Receive, DormantIsDisabled
  <2>2. CASE ExitApp
    BY <2>2, DisableKeeps DEF ExitApp, DormantIsDisabled
  <2>. QED
    BY <2>1, <2>2 DEF Next, App, AppInit, AppInitFails, RunLoop, ReceiveError, Send,
       RequestExit, Crash, Restart, vars, ClearedHk, IInv, DormantIsDisabled
<1>. SUFFICES DeviceInv' /\ CountersBalance'
  BY <1>1, <1>2 DEF IInv
<1>3. CASE AppInit
  BY <1>1, <1>3, ClearedKeeps DEF AppInit, IInv, DeviceInv, DisabledIsUndriven,
     DormantIsDisabled
<1>4. CASE AppInitFails \/ RunLoop \/ ReceiveError \/ RequestExit \/ UNCHANGED vars
  BY <1>4, QuietKeeps DEF AppInitFails, RunLoop, ReceiveError, RequestExit, vars
<1>5. CASE Handlers
  BY <1>5, HandlersKeep
<1>6. CASE ExitApp
  BY <1>6, DisableKeeps DEF ExitApp
<1>7. ASSUME NEW p \in Inputs, Send(p) PROVE DeviceInv' /\ CountersBalance'
  BY <1>7, QuietKeeps DEF Send
<1>8. CASE Crash
  <2>1. ASSUME NEW t \in Torquers \ suspect' PROVE drive'[t].percent = 0
    <3>1. hk.DeviceEnabled = "DISABLED" /\ t \notin suspect
      BY <1>8 DEF Crash, IInv, TypeOK, HkTelemetry
    <3>2. drive[t].percent = 0
      BY <3>1 DEF IInv, DeviceInv, DisabledIsUndriven
    <3>3. DrivesAsConfigured
      BY StepDrivesAsConfigured DEF IInv
    <3>. QED
      BY <3>1, <3>2, <3>3 DEF DrivesAsConfigured
  <2>. QED
    BY <1>1, <1>8, <2>1, ClearedKeeps DEF Crash
<1>9. CASE Restart
  BY <1>1, <1>9, ClearedKeeps DEF Restart, IInv, DeviceInv, DisabledIsUndriven,
     DormantIsDisabled
<1>. QED
  BY <1>3, <1>4, <1>5, <1>6, <1>7, <1>8, <1>9 DEF Next, App

\* The inductive invariant holds in every reachable state.
LEMMA Invariance == Spec => []IInv
<1>1. IInv /\ [Next]_vars => IInv'
  BY NextInv
<1>. QED
  BY InitInv, <1>1, PTL DEF Spec

-----------------------------------------------------------------------------
(* The theorems.                                                           *)

\* What housekeeping says of an enabled device is what the hardware does.
THEOREM EnabledTelemetryHolds == Spec => []EnabledTelemetryIsTrue
<1>1. IInv => EnabledTelemetryIsTrue
  BY DEF IInv, DeviceInv
<1>. QED
  BY Invariance, <1>1, PTL

\* Disabled, however it came to be, the device reports no level.
THEOREM DisabledReportsHolds == Spec => []DisabledReportsIdle
<1>1. IInv => DisabledReportsIdle
  BY DEF IInv, DeviceInv
<1>. QED
  BY Invariance, <1>1, PTL

\* Disabled, it drives no torquer but those whose last command failed or was
\* cut short by a crash.
THEOREM DisabledHolds == Spec => []DisabledIsUndriven
<1>1. IInv => DisabledIsUndriven
  BY DEF IInv, DeviceInv
<1>. QED
  BY Invariance, <1>1, PTL

\* The device is enabled only through three open interfaces.
THEOREM EnabledNeedsInterfacesHolds == Spec => []EnabledNeedsInterfaces
<1>1. IInv => EnabledNeedsInterfaces
  BY DEF IInv, DeviceInv
<1>. QED
  BY Invariance, <1>1, PTL

\* It is enabled only while the application runs.
THEOREM EnabledOnlyWhileRunning == Spec => []DormantIsDisabled
<1>1. IInv => DormantIsDisabled
  BY DEF IInv
<1>. QED
  BY Invariance, <1>1, PTL

\* The command counter and the device counters stay in balance, whatever
\* their width and however often they wrap.
THEOREM CountersBalanceHolds == Spec => []CountersBalance
<1>1. IInv => CountersBalance
  BY DEF IInv
<1>. QED
  BY Invariance, <1>1, PTL

-----------------------------------------------------------------------------
(* The theorems about steps.                                               *)

\* Only an enabled application processing CONFIG or CONFIG_ALL drives a coil.
THEOREM OnlyConfigDrivesHolds == Spec => OnlyConfigDrives
<1>1. TypeOK /\ [Next]_vars => [DrivesAsConfigured]_vars
  BY StepDrivesAsConfigured
<1>. QED
  BY TypeCorrect, <1>1, PTL DEF Spec, OnlyConfigDrives

\* Every step that consumes a packet counts it once.
LEMMA StepCountsPacket ==
  ASSUME TypeOK, [Next]_vars
  PROVE  CountsPacket
<1>. DEFINE Once == \/ /\ hk'.CommandCount = Inc(hk.CommandCount)
                       /\ hk'.CommandErrorCount = hk.CommandErrorCount
                    \/ /\ hk'.CommandCount = hk.CommandCount
                       /\ hk'.CommandErrorCount = Inc(hk.CommandErrorCount)
                    \/ /\ packet.mid = CMD_MID /\ packet.cc = RESET_COUNTERS_CC
                       /\ hk'.CommandCount = 0 /\ hk'.CommandErrorCount = 0
                    \/ /\ packet.mid = REQ_HK_MID /\ packet.cc = REQ_HK_TLM
                       /\ hk' = hk
<1>. SUFFICES ASSUME phase \in {"loop", "pend"}, phase' # "ended"
              PROVE  IF Len(pipe') < Len(pipe) THEN Once ELSE hk' = hk
  BY DEF CountsPacket
<1>1. ASSUME ~(Len(pipe') < Len(pipe)) PROVE hk' = hk
  <2>1. ~Receive
    BY <1>1 DEF Receive, TypeOK
  <2>2. ~Handlers
    BY <2>1 DEF Handlers, RejectPacket, Noop, ResetCounters, EnableCommand,
       DisableCommand, ConfigCommand, ConfigAllCommand, ReportHousekeeping, Command
  <2>. QED
    BY <2>2 DEF Next, App, AppInit, AppInitFails, RunLoop, ExitApp, ReceiveError, Send,
       RequestExit, Crash, Restart, vars
<1>. SUFFICES ASSUME Len(pipe') < Len(pipe) PROVE Once
  BY <1>1
<1>2. hk \in HkTelemetry /\ pipe' # pipe
  BY DEF TypeOK
<1>3. CASE Noop \/ ResetCounters \/ ReportHousekeeping
  BY <1>2, <1>3 DEF Noop, ResetCounters, ReportHousekeeping, Command, HkTelemetry
<1>4. CASE CountCommandError
  BY <1>2, <1>4, CommandErrorFields
<1>5. ASSUME NEW ok, NEW reported, NEW enabled, hk' = Counted(ok, reported, enabled)
      PROVE  /\ hk'.CommandCount = Inc(hk.CommandCount)
             /\ hk'.CommandErrorCount = hk.CommandErrorCount
  BY <1>2, <1>5, CountedFields
<1>6. CASE EnableCommand \/ DisableCommand \/ ConfigCommand \/ ConfigAllCommand
  <2>1. CASE EnableCommand
    BY <1>4, <1>5, <2>1 DEF EnableCommand, Enable
  <2>2. CASE DisableCommand
    BY <1>4, <1>5, <2>2 DEF DisableCommand, Disable
  <2>3. CASE ConfigCommand
    <3>1. CASE ~CountCommandError
      <4>1. PICK res \in Statuses :
              hk' = Counted(res[packet.TrqNum] = OS_SUCCESS,
                            [hk.TrqInfo EXCEPT ![packet.TrqNum] =
                               Config(@, packet.level, res[packet.TrqNum])],
                            "ENABLED")
        BY <2>3, <3>1 DEF ConfigCommand, Configures
      <4>. QED
        BY <1>5, <4>1
    <3>. QED
      BY <1>4, <3>1
  <2>4. CASE ConfigAllCommand
    <3>1. CASE ~CountCommandError
      <4>1. PICK res \in Statuses :
              hk' = Counted(Sum(res) = OS_SUCCESS,
                            [t \in Torquers |->
                               Config(hk.TrqInfo[t], packet.levels[t], res[t])],
                            "ENABLED")
        BY <2>4, <3>1 DEF ConfigAllCommand
      <4>. QED
        BY <1>5, <4>1
    <3>. QED
      BY <1>4, <3>1
  <2>. QED
    BY <1>6, <2>1, <2>2, <2>3, <2>4
<1>7. ASSUME NEW p \in Inputs PROVE ~Send(p)
  BY <1>2, AppAssumption DEF Send, Delivered, TypeOK
<1>. QED
  BY <1>2, <1>3, <1>4, <1>6, <1>7 DEF Next, App, Handlers, AppInit, AppInitFails,
     RunLoop, RejectPacket, ExitApp, ReceiveError, RequestExit, Crash, Restart, vars

\* Every packet consumed is counted once, as accepted or as refused, and no
\* other step of the loop counts.
THEOREM EveryPacketCountedHolds == Spec => EveryPacketCounted
<1>1. TypeOK /\ [Next]_vars => [CountsPacket]_vars
  BY StepCountsPacket
<1>. QED
  BY TypeCorrect, <1>1, PTL DEF Spec, EveryPacketCounted

-----------------------------------------------------------------------------
(* What the device counters say of the hardware.                           *)

\* Commanding torquers: those that refuse are suspect, the others do as asked.
LEMMA CommandedAreTold ==
  ASSUME NEW want, DOMAIN want \in SUBSET Torquers, NEW res \in Statuses,
         CommandTorquers(want, res)
  PROVE  /\ suspect' \cap DOMAIN want = {t \in DOMAIN want : res[t] # OS_SUCCESS}
         /\ \A t \in DOMAIN want \ suspect' : drive'[t] = want[t]
<1>1. \A t \in DOMAIN want : t \in suspect' <=> res[t] # OS_SUCCESS
  BY DEF CommandTorquers
<1>2. \A t \in DOMAIN want : res[t] = OS_SUCCESS => drive'[t] = want[t]
  BY DEF CommandTorquers, TrqCommand
<1>. QED
  BY <1>1, <1>2

\* An accepted command moves exactly one of the two device counters.
LEMMA CountedMoves ==
  ASSUME hk \in HkTelemetry, NEW ok \in BOOLEAN, NEW reported, NEW enabled,
         hk' = Counted(ok, reported, enabled)
  PROVE  /\ hk'.DeviceCount # hk.DeviceCount <=> ok
         /\ hk'.DeviceErrorCount # hk.DeviceErrorCount <=> ~ok
<1>1. \A c \in Counter : Inc(c) # c
  BY CounterAssumption DEF Inc, Wrap, Counter
<1>. QED
  BY <1>1, CountedFields DEF HkTelemetry

\* The sum is OS_SUCCESS if and only if every status is.
LEMMA SumTells ==
  ASSUME NEW res \in Statuses
  PROVE  Sum(res) = OS_SUCCESS <=> {t \in Torquers : res[t] # OS_SUCCESS} = {}
<1>1. (\A t \in Torquers : res[t] = OS_SUCCESS) => Sum(res) = OS_SUCCESS
  BY DEF Sum, OS_SUCCESS, Torquers
<1>. QED
  BY <1>1, SumIsSuccess

\* A packet that asks the hardware for something has one of four codes, and
\* the device is in the state that its handler asks for.
LEMMA AskingPackets ==
  ASSUME CommandsOf(packet) # NoCommands
  PROVE  /\ packet.mid = CMD_MID /\ packet.lenOk
         /\ \/ /\ packet.cc = ENABLE_CC /\ hk.DeviceEnabled # "ENABLED"
               /\ CommandsOf(packet) = AllOff
            \/ /\ packet.cc = DISABLE_CC /\ hk.DeviceEnabled = "ENABLED"
               /\ CommandsOf(packet) = AllOff
            \/ /\ packet.cc = CONFIG_CC /\ hk.DeviceEnabled = "ENABLED"
               /\ packet.TrqNum \in Torquers
               /\ CommandsOf(packet) = [t \in {packet.TrqNum} |-> DriveOf(packet.level)]
            \/ /\ packet.cc = CONFIG_ALL_CC /\ hk.DeviceEnabled = "ENABLED"
               /\ CommandsOf(packet) = [t \in Torquers |-> DriveOf(packet.levels[t])]
  BY DEF CommandsOf

\* Every step that processes such a packet counts how it ended.
LEMMA StepCountsOutcome ==
  ASSUME TypeOK, [Next]_vars
  PROVE  CountsOutcome
<1>. DEFINE asked   == CommandsOf(packet)
            refused == suspect' \cap DOMAIN asked
            Right   == /\ hk'.DeviceCount # hk.DeviceCount
                            <=> refused = {} \/ packet.cc = DISABLE_CC
                       /\ hk'.DeviceErrorCount # hk.DeviceErrorCount
                            <=> ~(refused = {} \/ packet.cc = DISABLE_CC)
                       /\ \A t \in DOMAIN asked \ refused : drive'[t] = asked[t]
<1>. SUFFICES ASSUME phase = "pend", phase' = "loop", pipe # <<>>, pipe' = Tail(pipe),
                     asked # NoCommands
              PROVE  Right
  BY DEF CountsOutcome
<1>1. hk \in HkTelemetry /\ pipe' # pipe
  BY DEF TypeOK
<1>. HIDE DEF Right
<1>2. DOMAIN AllOff = Torquers
  BY DEF AllOff
<1>3. CASE EnableCommand
  <2>1. packet.cc = ENABLE_CC
    BY <1>3 DEF EnableCommand, Command
  <2>2. hk.DeviceEnabled # "ENABLED" /\ asked = AllOff /\ packet.cc # DISABLE_CC
    BY <2>1, AskingPackets DEF ENABLE_CC, DISABLE_CC, CONFIG_CC, CONFIG_ALL_CC
  <2>3. PICK res \in Statuses :
          /\ CommandTorquers(AllOff, res)
          /\ hk' = Counted(Sum(res) = OS_SUCCESS, AllIdle,
                           IF Sum(res) = OS_SUCCESS THEN "ENABLED" ELSE "DISABLED")
    BY <1>3, <2>2 DEF EnableCommand, Enable, EnableOk
  <2>4. /\ refused = {t \in DOMAIN AllOff : res[t] # OS_SUCCESS}
        /\ \A t \in DOMAIN AllOff \ suspect' : drive'[t] = AllOff[t]
    BY <1>2, <2>2, <2>3, CommandedAreTold
  <2>5. /\ hk'.DeviceCount # hk.DeviceCount <=> Sum(res) = OS_SUCCESS
        /\ hk'.DeviceErrorCount # hk.DeviceErrorCount <=> ~(Sum(res) = OS_SUCCESS)
    <3>1. (Sum(res) = OS_SUCCESS) \in BOOLEAN
      OBVIOUS
    <3>. QED
      BY <1>1, <2>3, <3>1, CountedMoves
  <2>6. Sum(res) = OS_SUCCESS <=> {t \in Torquers : res[t] # OS_SUCCESS} = {}
    BY <2>3, SumTells
  <2>. QED
    BY <1>2, <2>2, <2>4, <2>5, <2>6 DEF Right
<1>4. CASE DisableCommand
  <2>1. packet.cc = DISABLE_CC
    BY <1>4 DEF DisableCommand, Command
  <2>2. hk.DeviceEnabled = "ENABLED" /\ asked = AllOff
    BY <2>1, AskingPackets DEF ENABLE_CC, DISABLE_CC, CONFIG_CC, CONFIG_ALL_CC
  <2>3. PICK res \in Statuses :
          /\ CommandTorquers(AllOff, res)
          /\ hk' = Counted(TRUE, AllIdle, "DISABLED")
    BY <1>4, <2>2 DEF DisableCommand, Disable, DisableCommands, DisableReports
  <2>4. /\ refused = {t \in DOMAIN AllOff : res[t] # OS_SUCCESS}
        /\ \A t \in DOMAIN AllOff \ suspect' : drive'[t] = AllOff[t]
    BY <1>2, <2>2, <2>3, CommandedAreTold
  <2>5. /\ hk'.DeviceCount # hk.DeviceCount <=> TRUE
        /\ hk'.DeviceErrorCount # hk.DeviceErrorCount <=> ~(TRUE)
    <3>1. (TRUE) \in BOOLEAN
      OBVIOUS
    <3>. QED
      BY <1>1, <2>3, <3>1, CountedMoves
  <2>. QED
    BY <1>2, <2>1, <2>2, <2>4, <2>5 DEF Right
<1>5. CASE ConfigCommand
  <2>. DEFINE n == packet.TrqNum
              want == [t \in {n} |-> DriveOf(packet.level)]
  <2>1. packet.cc = CONFIG_CC
    BY <1>5 DEF ConfigCommand, Command
  <2>2. /\ hk.DeviceEnabled = "ENABLED" /\ n \in Torquers /\ asked = want
        /\ packet.cc # DISABLE_CC
    BY <2>1, AskingPackets DEF ENABLE_CC, DISABLE_CC, CONFIG_CC, CONFIG_ALL_CC
  <2>3. PICK res \in Statuses :
          /\ CommandTorquers(want, res)
          /\ hk' = Counted(res[n] = OS_SUCCESS,
                           [hk.TrqInfo EXCEPT ![n] = Config(@, packet.level, res[n])],
                           "ENABLED")
    BY <1>5, <2>2 DEF ConfigCommand, Configures
  <2>4. /\ refused = {t \in DOMAIN want : res[t] # OS_SUCCESS}
        /\ \A t \in DOMAIN want \ suspect' : drive'[t] = want[t]
    BY <1>2, <2>2, <2>3, CommandedAreTold
  <2>5. /\ hk'.DeviceCount # hk.DeviceCount <=> res[n] = OS_SUCCESS
        /\ hk'.DeviceErrorCount # hk.DeviceErrorCount <=> ~(res[n] = OS_SUCCESS)
    <3>1. (res[n] = OS_SUCCESS) \in BOOLEAN
      OBVIOUS
    <3>. QED
      BY <1>1, <2>3, <3>1, CountedMoves
  <2>6. res[n] = OS_SUCCESS <=> {t \in DOMAIN want : res[t] # OS_SUCCESS} = {}
    OBVIOUS
  <2>. QED
    BY <1>2, <2>2, <2>4, <2>5, <2>6 DEF Right
<1>6. CASE ConfigAllCommand
  <2>. DEFINE want == [t \in Torquers |-> DriveOf(packet.levels[t])]
  <2>1. packet.cc = CONFIG_ALL_CC
    BY <1>6 DEF ConfigAllCommand, Command
  <2>2. hk.DeviceEnabled = "ENABLED" /\ asked = want /\ packet.cc # DISABLE_CC
    BY <2>1, AskingPackets DEF ENABLE_CC, DISABLE_CC, CONFIG_CC, CONFIG_ALL_CC
  <2>3. PICK res \in Statuses :
          /\ CommandTorquers(want, res)
          /\ hk' = Counted(Sum(res) = OS_SUCCESS,
                           [t \in Torquers |->
                              Config(hk.TrqInfo[t], packet.levels[t], res[t])],
                           "ENABLED")
    BY <1>6, <2>2 DEF ConfigAllCommand
  <2>4. /\ refused = {t \in DOMAIN want : res[t] # OS_SUCCESS}
        /\ \A t \in DOMAIN want \ suspect' : drive'[t] = want[t]
    BY <1>2, <2>2, <2>3, CommandedAreTold
  <2>5. /\ hk'.DeviceCount # hk.DeviceCount <=> Sum(res) = OS_SUCCESS
        /\ hk'.DeviceErrorCount # hk.DeviceErrorCount <=> ~(Sum(res) = OS_SUCCESS)
    <3>1. (Sum(res) = OS_SUCCESS) \in BOOLEAN
      OBVIOUS
    <3>. QED
      BY <1>1, <2>3, <3>1, CountedMoves
  <2>6. Sum(res) = OS_SUCCESS <=> {t \in Torquers : res[t] # OS_SUCCESS} = {}
    BY <2>3, SumTells
  <2>. QED
    BY <1>2, <2>2, <2>4, <2>5, <2>6 DEF Right
<1>7. ~RejectPacket /\ ~Noop /\ ~ResetCounters /\ ~ReportHousekeeping
  BY AskingPackets DEF RejectPacket, Noop, ResetCounters, ReportHousekeeping, Command,
     Recognised, WrongLength, CommandCodes, CMD_MID, REQ_HK_MID, NOOP_CC,
     RESET_COUNTERS_CC, ENABLE_CC, DISABLE_CC, CONFIG_CC, CONFIG_ALL_CC
<1>8. ~AppInit /\ ~AppInitFails /\ ~RunLoop /\ ~ExitApp /\ ~Crash /\ ~Restart
  BY DEF AppInit, AppInitFails, RunLoop, ExitApp, Crash, Restart
<1>9. ~ReceiveError /\ ~RequestExit /\ ~UNCHANGED vars
  BY <1>1 DEF ReceiveError, RequestExit, vars
<1>10. ASSUME NEW p \in Inputs PROVE ~Send(p)
  BY DEF Send
<1>. QED
  BY <1>3, <1>4, <1>5, <1>6, <1>7, <1>8, <1>9, <1>10 DEF Next, App, Handlers

\* The device counters tell how each packet ended in the hardware.
THEOREM OutcomeCountedHolds == Spec => OutcomeCounted
<1>1. TypeOK /\ [Next]_vars => [CountsOutcome]_vars
  BY StepCountsOutcome
<1>. QED
  BY TypeCorrect, <1>1, PTL DEF Spec, OutcomeCounted

-----------------------------------------------------------------------------
(* The application implements TorquerBank: each of its steps is a step of  *)
(* the bank, or leaves what the bank is made of alone.                     *)

BankStep == Bank!Next \/ UNCHANGED Bank!vars

\* The bank speaks of the same levels.
LEMMA BankLevels ==
  /\ Bank!IdleLevel = IdleLevel /\ Bank!Off = Off
  /\ Bank!Level = Level /\ Bank!Drive = Drive
  /\ \A l : Bank!DriveOf(l) = DriveOf(l)
  BY DEF Bank!IdleLevel, Bank!Off, Bank!Level, Bank!Drive, Bank!DriveOf, Bank!Byte,
         IdleLevel, Off, Level, Drive, DriveOf, Byte

\* A step that leaves the levels, the torquers and the device as they were.
LEMMA QuietBank ==
  ASSUME drive' = drive, hk'.TrqInfo = hk.TrqInfo,
         hk'.DeviceEnabled = hk.DeviceEnabled
  PROVE  BankStep
  BY DEF BankStep, Bank!vars

\* A refused command is such a step.
LEMMA CommandErrorBank ==
  ASSUME TypeOK, CountCommandError
  PROVE  BankStep
  BY CommandErrorFields, QuietBank DEF TypeOK

\* Turning all three torquers off turns each one off or leaves it.
LEMMA AllOffBank ==
  ASSUME NEW res, CommandTorquers(AllOff, res)
  PROVE  /\ \A t \in Torquers : drive'[t] \in {Off, drive[t]}
         /\ (\A t \in Torquers : res[t] = OS_SUCCESS) => drive' = AllOff
  BY DEF CommandTorquers, TrqCommand, AllOff

\* Enable switches the bank on if all three torquers were turned off, and
\* switches it off, which it was, if one was not.
LEMMA EnableBank ==
  ASSUME IInv, Enable
  PROVE  BankStep
<1>1. CASE hk.DeviceEnabled = "ENABLED"
  BY <1>1, CommandErrorBank DEF Enable, IInv
<1>2. CASE hk.DeviceEnabled = "DISABLED"
  <2>. DEFINE ok(res) == Sum(res) = OS_SUCCESS
  <2>1. PICK res \in Statuses :
          /\ CommandTorquers(AllOff, res)
          /\ hk' = Counted(ok(res), AllIdle, IF ok(res) THEN "ENABLED" ELSE "DISABLED")
    BY <1>2 DEF Enable, EnableOk
  <2>2. /\ hk'.TrqInfo = AllIdle
        /\ hk'.DeviceEnabled = IF ok(res) THEN "ENABLED" ELSE "DISABLED"
    BY <2>1, CountedFields DEF IInv, TypeOK
  <2>3. drive' \in [Torquers -> Drive]
    BY EnableType DEF IInv
  <2>4. CASE ok(res)
    <3>1. drive' = AllOff
      BY <2>1, <2>4, SumIsSuccess, AllOffBank
    <3>. QED
      BY <1>2, <2>2, <2>4, <3>1, BankLevels
      DEF BankStep, Bank!Next, Bank!SwitchOn, Bank!NothingReported, AllIdle, AllOff
  <2>5. CASE ~ok(res)
    BY <2>1, <2>2, <2>3, <2>5, AllOffBank, BankLevels
    DEF BankStep, Bank!Next, Bank!SwitchOff, Bank!NothingReported, AllIdle
  <2>. QED
    BY <2>4, <2>5
<1>. QED
  BY <1>1, <1>2 DEF IInv, TypeOK, HkTelemetry

\* Disable switches the bank off, whatever the torquers answer.
LEMMA DisableBank ==
  ASSUME IInv, Disable
  PROVE  BankStep
<1>1. CASE hk.DeviceEnabled = "DISABLED"
  BY <1>1, CommandErrorBank DEF Disable, IInv
<1>2. CASE hk.DeviceEnabled = "ENABLED"
  <2>1. PICK res \in Statuses :
          /\ CommandTorquers(AllOff, res)
          /\ hk' = Counted(TRUE, AllIdle, "DISABLED")
    BY <1>2 DEF Disable, DisableCommands, DisableReports
  <2>2. hk'.TrqInfo = AllIdle /\ hk'.DeviceEnabled = "DISABLED"
    BY <2>1, CountedFields DEF IInv, TypeOK
  <2>3. drive' \in [Torquers -> Drive]
    BY DisableType DEF IInv
  <2>. QED
    BY <2>1, <2>2, <2>3, AllOffBank, BankLevels
    DEF BankStep, Bank!Next, Bank!SwitchOff, Bank!NothingReported, AllIdle
<1>. QED
  BY <1>1, <1>2 DEF IInv, TypeOK, HkTelemetry

\* Levels that follow the statuses of their commands are set as a bank does.
LEMMA SetBank ==
  ASSUME TypeOK, TypeOK', hk.DeviceEnabled = "ENABLED", hk'.DeviceEnabled = "ENABLED",
         \A t \in Torquers : \/ hk'.TrqInfo[t] = hk.TrqInfo[t] /\ drive'[t] = drive[t]
                             \/ drive'[t] = DriveOf(hk'.TrqInfo[t])
  PROVE  BankStep
  BY BankLevels DEF BankStep, Bank!Next, Bank!Set, Bank!TakesLevels, TypeOK, HkTelemetry

\* CONFIG sets one level.
LEMMA ConfigBank ==
  ASSUME IInv, TypeOK', ConfigCommand
  PROVE  BankStep
<1>1. CASE CountCommandError
  BY <1>1, CommandErrorBank DEF IInv
<1>2. CASE ~CountCommandError
  <2>1. packet.TrqNum \in Torquers /\ hk.DeviceEnabled = "ENABLED"
    BY <1>2 DEF ConfigCommand, Configures
  <2>2. hk'.DeviceEnabled = "ENABLED"
    BY <1>2, <2>1 DEF ConfigCommand, Configures, Counted, IInv, TypeOK, HkTelemetry
  <2>3. EnabledTelemetryIsTrue'
    BY ConfigKeeps DEF DeviceInv
  <2>. QED
    BY <2>1, <2>2, <2>3, SetBank DEF IInv, EnabledTelemetryIsTrue
<1>. QED
  BY <1>1, <1>2

\* CONFIG_ALL sets three.
LEMMA ConfigAllBank ==
  ASSUME IInv, TypeOK', ConfigAllCommand
  PROVE  BankStep
<1>1. CASE CountCommandError
  BY <1>1, CommandErrorBank DEF IInv
<1>2. CASE ~CountCommandError
  <2>1. hk.DeviceEnabled = "ENABLED"
    BY <1>2 DEF ConfigAllCommand
  <2>2. hk'.DeviceEnabled = "ENABLED"
    BY <1>2, <2>1 DEF ConfigAllCommand, Counted, IInv, TypeOK, HkTelemetry
  <2>3. EnabledTelemetryIsTrue'
    BY ConfigAllKeeps DEF DeviceInv
  <2>. QED
    BY <2>1, <2>2, <2>3, SetBank DEF IInv, EnabledTelemetryIsTrue
<1>. QED
  BY <1>1, <1>2

\* A crash ends the bank: while it was on, in the middle of anything; while it
\* was off, at most in the middle of turning torquers off.
LEMMA CrashBank ==
  ASSUME IInv, TypeOK', Crash
  PROVE  BankStep
<1>1. hk'.DeviceEnabled = "DISABLED" /\ hk'.TrqInfo = AllIdle
  BY DEF Crash, ClearedHk
<1>2. ASSUME hk.DeviceEnabled # "ENABLED", NEW t \in Torquers
      PROVE  drive'[t] \in {Off, drive[t]}
  <2>1. PICK k \in 0 .. 3, res \in Statuses :
          drive' = TrqCommand(drive,
                              [u \in {v \in DOMAIN InProgress : v < k} |-> InProgress[u]],
                              res)
    BY DEF Crash
  <2>2. InProgress \in {NoCommands, AllOff}
    BY <1>2 DEF InProgress, CommandsOf
  <2>3. t \in DOMAIN InProgress => InProgress[t] = Off
    BY <2>2 DEF NoCommands, AllOff
  <2>. QED
    BY <2>1, <2>3 DEF TrqCommand
<1>3. drive' \in [Torquers -> Drive]
  BY DEF TypeOK
<1>. QED
  BY <1>1, <1>2, <1>3, BankLevels
  DEF BankStep, Bank!Next, Bank!End, Bank!NothingReported, Bank!TakesLevels, AllIdle

\* Start-up and restart clear a housekeeping packet that said nothing.
LEMMA ClearingBank ==
  ASSUME IInv, phase \in {"boot", "ended"}, hk' = ClearedHk, drive' = drive
  PROVE  BankStep
<1>1. hk.DeviceEnabled = "DISABLED" /\ hk.TrqInfo = AllIdle
  BY DEF IInv, DormantIsDisabled, DeviceInv, DisabledReportsIdle
<1>. QED
  BY <1>1, QuietBank DEF ClearedHk

\* Every step of the application is a step of the bank or a stutter.
LEMMA NextBank ==
  ASSUME IInv, [Next]_vars
  PROVE  BankStep
<1>1. TypeOK'
  BY NextType DEF IInv
<1>2. CASE Noop \/ ResetCounters \/ ReportHousekeeping
  <2>1. /\ drive' = drive /\ hk'.TrqInfo = hk.TrqInfo
        /\ hk'.DeviceEnabled = hk.DeviceEnabled
    BY <1>2 DEF Noop, ResetCounters, ReportHousekeeping, IInv, TypeOK, HkTelemetry
  <2>. QED
    BY <2>1, QuietBank
<1>3. CASE RejectPacket
  BY <1>3, CommandErrorBank DEF RejectPacket, IInv
<1>4. CASE EnableCommand
  BY <1>4, EnableBank DEF EnableCommand
<1>5. CASE DisableCommand \/ ExitApp
  BY <1>5, DisableBank DEF DisableCommand, ExitApp
<1>6. CASE ConfigCommand \/ ConfigAllCommand
  BY <1>1, <1>6, ConfigBank, ConfigAllBank
<1>7. CASE Crash
  BY <1>1, <1>7, CrashBank
<1>8. CASE AppInit \/ Restart
  BY <1>8, ClearingBank DEF AppInit, Restart
<1>9. CASE \/ AppInitFails \/ RunLoop \/ ReceiveError \/ RequestExit
           \/ (\E p \in Inputs : Send(p)) \/ UNCHANGED vars
  BY <1>9, QuietBank DEF AppInitFails, RunLoop, ReceiveError, RequestExit, Send, vars
<1>. QED
  BY <1>2, <1>3, <1>4, <1>5, <1>6, <1>7, <1>8, <1>9 DEF Next, App, Handlers

\* Power-on is a bank that is off.
LEMMA InitBank == Init => Bank!Init
  BY BankLevels DEF Init, ClearedHk, Bank!Init, Bank!NothingReported, AllIdle, AllOff

\* The application implements the bank of torquers, from power-on through any
\* number of crashes and restarts.
THEOREM ActsAsBankHolds == Spec => ActsAsBank
<1>1. IInv /\ [Next]_vars => [Bank!Next]_(Bank!vars)
  BY NextBank DEF BankStep
<1>. QED
  BY InitBank, Invariance, <1>1, PTL DEF Spec, ActsAsBank, Bank!Spec

\* The bank's theorems are about the application too.
Laws == INSTANCE TorquerBank_proofs WITH
  Coils     <- Torquers,
  AutoStart <- FALSE,
  HasPort   <- FALSE,
  on        <- hk.DeviceEnabled = "ENABLED",
  reported  <- hk.TrqInfo

\* To be a bank of torquers that comes up off is to report, while enabled, what
\* the hardware does: TorquerBank is not too weak for its most important promise,
\* and whatever program implements it in this way need not prove it again.
THEOREM BankReportsTruth == ActsAsBank => []EnabledTelemetryIsTrue
<1>1. Laws!OnIsTrue => EnabledTelemetryIsTrue
  BY DEF Laws!OnIsTrue, EnabledTelemetryIsTrue, Laws!DriveOf, DriveOf
<1>2. Bank!Init => Laws!Init
  BY DEF Bank!Init, Laws!Init, Bank!NothingReported, Laws!NothingReported,
     Bank!IdleLevel, Laws!IdleLevel, Bank!Off, Laws!Off
<1>3. [Bank!Next]_(Bank!vars) => [Laws!Next]_(Laws!vars)
  <2>. USE DEF Bank!NothingReported, Laws!NothingReported, Bank!IdleLevel,
       Laws!IdleLevel, Bank!Off, Laws!Off, Bank!Level, Laws!Level, Bank!Drive,
       Laws!Drive, Bank!DriveOf, Laws!DriveOf, Bank!Byte, Laws!Byte
  <2>1. Bank!Start \/ Bank!SwitchOn => Laws!Start \/ Laws!SwitchOn
    BY DEF Bank!Start, Laws!Start, Bank!SwitchOn, Laws!SwitchOn
  <2>2. Bank!SwitchOff => Laws!SwitchOff
    BY DEF Bank!SwitchOff, Laws!SwitchOff
  <2>3. Bank!Set => Laws!Set
    BY DEF Bank!Set, Laws!Set, Bank!TakesLevels, Laws!TakesLevels
  <2>4. Bank!End => Laws!End
    BY DEF Bank!End, Laws!End, Bank!TakesLevels, Laws!TakesLevels
  <2>5. UNCHANGED Bank!vars => UNCHANGED Laws!vars
    BY DEF Bank!vars, Laws!vars
  <2>. QED
    BY <2>1, <2>2, <2>3, <2>4, <2>5 DEF Bank!Next, Laws!Next
<1>. QED
  BY <1>1, <1>2, <1>3, Laws!OnIsTrueHolds, PTL DEF ActsAsBank, Bank!Spec, Laws!Spec

-----------------------------------------------------------------------------
(* What a Disable leaves behind, and what an exit does.                    *)

\* Disable turns off the torquers whose command succeeds: the comment "Set to
\* zero" (app.c:520) holds of exactly those that are not suspect afterwards.
THEOREM DisableTurnsOffUnlessSuspect ==
  Spec => [][DisableCommand /\ hk'.DeviceCount # hk.DeviceCount =>
               \A t \in Torquers \ suspect' : drive'[t] = Off]_vars
<1>1. ASSUME TypeOK, DisableCommand, hk'.DeviceCount # hk.DeviceCount
      PROVE  \A t \in Torquers \ suspect' : drive'[t] = Off
  <2>1. ~CountCommandError
    BY <1>1, CommandErrorFields DEF TypeOK
  <2>2. PICK res \in Statuses : CommandTorquers(AllOff, res)
    BY <1>1, <2>1 DEF DisableCommand, Disable, DisableCommands
  <2>. QED
    BY <1>1, <2>2, AllOffWorks DEF AllOff
<1>. QED
  BY <1>1, TypeCorrect, PTL DEF Spec

\* A torquer that a Disable, a failed Enable or a crash left driven stays so:
\* while the device is disabled nothing reaches the torquers but an ENABLE,
\* processed or cut short by a crash, and it turns them off.  A second DISABLE,
\* an exit or a restart does not.
THEOREM OnlyEnableRecovers ==
  Spec => [][hk.DeviceEnabled = "DISABLED" /\ drive' # drive =>
               /\ phase = "pend" /\ pipe # <<>>
               /\ packet.mid = CMD_MID /\ packet.cc = ENABLE_CC /\ packet.lenOk
               /\ \A t \in Torquers : drive'[t] \in {Off, drive[t]}]_vars
<1>1. ASSUME TypeOK, [Next]_vars, hk.DeviceEnabled = "DISABLED", drive' # drive
      PROVE  /\ phase = "pend" /\ pipe # <<>>
             /\ packet.mid = CMD_MID /\ packet.cc = ENABLE_CC /\ packet.lenOk
             /\ \A t \in Torquers : drive'[t] \in {Off, drive[t]}
  <2>1. CASE EnableCommand
    <3>1. PICK res \in Statuses : CommandTorquers(AllOff, res)
      BY <1>1, <2>1 DEF EnableCommand, Enable
    <3>. QED
      BY <2>1, <3>1, AllOffBank DEF EnableCommand, Command, Receive
  <2>2. CASE Crash
    <3>1. PICK k \in 0 .. 3, res \in Statuses :
            drive' = TrqCommand(drive,
                                [u \in {v \in DOMAIN InProgress : v < k} |-> InProgress[u]],
                                res)
      BY <2>2 DEF Crash
    <3>2. InProgress # NoCommands
      <4>. SUFFICES ASSUME DOMAIN InProgress = {} PROVE FALSE
        BY DEF NoCommands
      <4>1. drive' = [t \in Torquers |-> drive[t]]
        BY <3>1 DEF TrqCommand
      <4>. QED
        BY <1>1, <4>1 DEF TypeOK
    <3>3. phase = "pend" /\ pipe # <<>> /\ InProgress = CommandsOf(packet)
      BY <1>1, <3>2 DEF InProgress
    <3>4. /\ packet.mid = CMD_MID /\ packet.cc = ENABLE_CC /\ packet.lenOk
          /\ InProgress = AllOff
      BY <1>1, <3>2, <3>3 DEF CommandsOf
    <3>5. \A t \in Torquers : drive'[t] \in {Off, drive[t]}
      BY <3>1, <3>4 DEF TrqCommand, AllOff
    <3>. QED
      BY <3>3, <3>4, <3>5
  <2>3. CASE DisableCommand \/ ExitApp \/ ConfigCommand \/ ConfigAllCommand
    <3>1. CountCommandError
      BY <1>1, <2>3 DEF DisableCommand, ExitApp, Disable, ConfigCommand, Configures,
         ConfigAllCommand
    <3>. QED
      BY <1>1, <3>1 DEF CountCommandError
  <2>. QED
    BY <1>1, <2>1, <2>2, <2>3 DEF Next, App, Handlers, AppInit, AppInitFails, RunLoop,
       RejectPacket, Noop, ResetCounters, ReportHousekeeping, ReceiveError,
       CountCommandError, Send, RequestExit, Restart, vars
<1>. QED
  BY <1>1, TypeCorrect, PTL DEF Spec

\* What the application leaves behind when it has ended, by an exit or a crash:
\* the interface of torquer 0 is closed, which is as much as the clean-up does,
\* and only suspect torquers are driven.
THEOREM EndedLeavesSuspects ==
  Spec => [](phase = "ended" =>
               /\ 0 \notin open
               /\ \A t \in Torquers \ suspect : drive[t].percent = 0)
<1>. DEFINE Closed == phase = "ended" => 0 \notin open
<1>1. Init => Closed
  BY DEF Init
<1>2. Closed /\ [Next]_vars => Closed'
  BY DEF Next, App, Handlers, AppInit, AppInitFails, RunLoop, RejectPacket, Noop,
     ResetCounters, EnableCommand, DisableCommand, ConfigCommand, ConfigAllCommand,
     ReportHousekeeping, Command, Receive, ExitApp, ReceiveError, Send, RequestExit,
     Crash, Restart, vars
<1>3. Closed /\ DormantIsDisabled /\ DisabledIsUndriven =>
        (phase = "ended" =>
           /\ 0 \notin open
           /\ \A t \in Torquers \ suspect : drive[t].percent = 0)
  BY DEF DormantIsDisabled, DisabledIsUndriven
<1>. QED
  BY <1>1, <1>2, <1>3, EnabledOnlyWhileRunning, DisabledHolds, PTL DEF Spec

-----------------------------------------------------------------------------
(* What a housekeeping packet says.                                        *)

\* A packet that goes out tells the truth about the torquers at that moment,
\* whatever failed before: all of it if it says ENABLED; if it says DISABLED,
\* that no torquer is driven but suspect ones.
THEOREM PacketsTellTheTruth ==
  Spec => [][tlm' # tlm =>
               /\ tlm'.hk.DeviceEnabled = "ENABLED" =>
                    \A t \in Torquers : drive[t] = DriveOf(tlm'.hk.TrqInfo[t])
               /\ tlm'.hk.DeviceEnabled = "DISABLED" =>
                    /\ tlm'.hk.TrqInfo = AllIdle
                    /\ \A t \in Torquers \ suspect : drive[t].percent = 0]_vars
<1>1. ASSUME IInv, [Next]_vars, tlm' # tlm
      PROVE  /\ tlm'.hk.DeviceEnabled = "ENABLED" =>
                  \A t \in Torquers : drive[t] = DriveOf(tlm'.hk.TrqInfo[t])
             /\ tlm'.hk.DeviceEnabled = "DISABLED" =>
                  /\ tlm'.hk.TrqInfo = AllIdle
                  /\ \A t \in Torquers \ suspect : drive[t].percent = 0
  <2>1. ReportHousekeeping
    BY <1>1 DEF Next, App, Handlers, AppInit, AppInitFails, RunLoop, RejectPacket, Noop,
       ResetCounters, EnableCommand, DisableCommand, ConfigCommand, ConfigAllCommand,
       ExitApp, ReceiveError, Send, RequestExit, Crash, Restart, vars
  <2>2. tlm'.hk = hk
    BY <2>1 DEF ReportHousekeeping, TransmitMsg
  <2>. QED
    BY <1>1, <2>2 DEF IInv, DeviceInv, EnabledTelemetryIsTrue, DisabledReportsIdle,
       DisabledIsUndriven
<1>. QED
  BY <1>1, Invariance, PTL DEF Spec

-----------------------------------------------------------------------------
(* What AppCanStep, below, rests on, for every packet there can be; that   *)
(* the provers know nothing of ENABLED leaves the rest of it to TLC.       *)

\* A packet at the head of the pipe is refused, or is a request, or has one of
\* the six function codes; and the hardware has an answer to its commands, whichever
\* interfaces are open, if there is an error at all that it can answer with.
LEMMA EveryPacketHasItsCase ==
  ASSUME TypeOK, pipe # <<>>, TrqErrors # {}
  PROVE  /\ \/ ~Recognised(packet) \/ WrongLength(packet)
            \/ packet.mid = REQ_HK_MID /\ packet.cc = REQ_HK_TLM
            \/ /\ packet.mid = CMD_MID /\ packet.lenOk
               /\ packet.cc \in {NOOP_CC, RESET_COUNTERS_CC, ENABLE_CC, DISABLE_CC,
                                 CONFIG_CC, CONFIG_ALL_CC}
         /\ \E res \in Statuses : Possible(res, open)
<1>1. packet \in Packet
  BY DEF TypeOK, packet
<1>2. packet.cc \in CommandCodes =>
        packet.cc \in {NOOP_CC, RESET_COUNTERS_CC, ENABLE_CC, DISABLE_CC,
                      CONFIG_CC, CONFIG_ALL_CC}
  BY <1>1 DEF CommandCodes, Packet, NOOP_CC, RESET_COUNTERS_CC, ENABLE_CC, DISABLE_CC,
     CONFIG_CC, CONFIG_ALL_CC
<1>3. \E res \in Statuses : Possible(res, open)
  <2>1. PICK e \in TrqErrors : e # OS_SUCCESS
    BY ErrorAssumption
  <2>. DEFINE res == [t \in Torquers |-> IF t \in open THEN OS_SUCCESS ELSE e]
  <2>2. res \in Statuses
    BY <2>1 DEF Statuses, Status
  <2>3. Possible(res, open)
    BY <2>1, <2>2 DEF Possible
  <2>. QED
    BY <2>2, <2>3
<1>. QED
  BY <1>1, <1>2, <1>3 DEF Recognised, WrongLength, Packet

-----------------------------------------------------------------------------
(* Liveness.  The theorems take AppCanStep as a hypothesis: it is about    *)
(* ENABLED, which only TLC evaluates.  Weak fairness of App does the rest. *)
(*                                                                         *)
(* ExitHonoured.  Once the executive has asked, the loop is not entered    *)
(* again, so the application moves through these places in this order.     *)

Leaving(p) == exitReq /\ phase = p

Idling == Leaving("pend") /\ pipe = <<>>

Serving == Leaving("pend") /\ pipe # <<>>

Leaves == phase = "exit"

Ended == phase = "ended"

\* Handling a packet is receiving it.
LEMMA HandlersReceive == Handlers => Receive
  BY DEF Handlers, RejectPacket, Noop, ResetCounters, EnableCommand, DisableCommand,
     ConfigCommand, ConfigAllCommand, ReportHousekeeping, Command

\* What a step of the application, and the request for housekeeping, move on.
LEMMA LeavingMoves ==
  ASSUME TypeOK, [Next]_vars
  PROVE  /\ Leaving("boot") => Leaving("boot")' \/ Leaving("loop")' \/ Ended'
         /\ Idling => Idling' \/ Serving' \/ Leaving("loop")' \/ Ended'
         /\ Serving => Serving' \/ Leaving("loop")' \/ Ended'
         /\ Leaving("loop") => Leaving("loop")' \/ Leaving("exit")' \/ Ended'
         /\ Leaving("exit") => Leaving("exit")' \/ Ended'
<1>. USE DEF Leaving, Idling, Serving, Ended
<1>1. CASE AppInit \/ AppInitFails
  BY <1>1 DEF AppInit, AppInitFails
<1>2. CASE RunLoop
  BY <1>2 DEF RunLoop, RunsOn
<1>3. CASE Receive
  BY <1>3 DEF Receive
<1>4. CASE ExitApp \/ Crash \/ ReceiveError \/ Restart \/ UNCHANGED vars
  BY <1>4 DEF ExitApp, Crash, ReceiveError, Restart, vars
<1>5. CASE RequestExit
  BY <1>5 DEF RequestExit
<1>6. ASSUME NEW p \in Inputs, Send(p)
      PROVE  UNCHANGED <<phase, exitReq>> /\ (pipe # <<>> => pipe' # <<>>)
  BY <1>6 DEF Send, Delivered, TypeOK
<1>. QED
  BY <1>1, <1>2, <1>3, <1>4, <1>5, <1>6, HandlersReceive DEF Next, App

\* A step of the application changes its place.
LEMMA AppMoves ==
  ASSUME <<App>>_vars
  PROVE  phase' # phase
  BY HandlersReceive DEF App, AppInit, AppInitFails, RunLoop, Receive, ExitApp

\* A request to exit is honoured, if the application is never stuck.
THEOREM ExitHonouredHolds == Spec /\ []AppCanStep => ExitHonoured
<1>. DEFINE boot == Leaving("boot")
            loop == Leaving("loop")
            exit == Leaving("exit")
            can == ENABLED <<App>>_vars
            canAsk == ENABLED <<Send(HkRequest)>>_vars
<1>1. TypeOK /\ [Next]_vars =>
        /\ boot => boot' \/ loop' \/ Ended'
        /\ Idling => Idling' \/ Serving' \/ loop' \/ Ended'
        /\ Serving => Serving' \/ loop' \/ Ended'
        /\ loop => loop' \/ exit' \/ Ended'
        /\ exit => exit' \/ Ended'
  BY LeavingMoves
<1>2. <<App>>_vars =>
        (boot => ~boot') /\ (Serving => ~Serving') /\ (loop => ~loop') /\ (exit => ~exit')
  BY AppMoves DEF Leaving, Serving
<1>3. TypeOK /\ <<Send(HkRequest)>>_vars => (Idling => ~Idling')
  BY AppAssumption DEF Send, Delivered, Idling, Leaving, TypeOK
<1>4. AppCanStep => (boot \/ Serving \/ loop \/ exit => can) /\ (Idling => canAsk)
  BY DEF AppCanStep, Leaving, Serving, Idling
<1>5. TypeOK => (exitReq => boot \/ Idling \/ Serving \/ loop \/ exit \/ Ended)
  BY DEF TypeOK, Phases, Leaving, Serving, Idling, Ended
<1>6. Ended <=> phase = "ended"
  BY DEF Ended
<1>. HIDE DEF boot, loop, exit, can, canAsk
<1>. QED
  BY <1>1, <1>2, <1>3, <1>4, <1>5, <1>6, TypeCorrect, PTL DEF Spec, ExitHonoured, can, canAsk

-----------------------------------------------------------------------------
(* DisableTakesEffect and HousekeepingAnswered.  A packet that waits among *)
(* the first k of the pipe is at last processed, or is among the first     *)
(* k - 1, or the loop is over.  Composing such steps with themselves takes *)
(* them through a pipe of 32, GENERIC_TORQUER_PIPE_DEPTH of the code.      *)

\* One of the first k packets in the pipe belongs to S.
Waits(S, k) == \E i \in 1 .. Len(pipe) : i <= k /\ pipe[i] \in S

\* ... and the application is at this place, with this status.
Place(S, k, p) == Waits(S, k) /\ phase = p

Looping(S, k, status) == Place(S, k, "loop") /\ runStatus = status

\* What is received is not what waited, or the rest has moved up.
LEMMA WaitsMoveUp ==
  ASSUME TypeOK, Receive, NEW S, NEW k \in Int, Waits(S, k), packet \notin S
  PROVE  Waits(S, k - 1)'
<1>1. PICK i \in 1 .. Len(pipe) : i <= k /\ pipe[i] \in S
  BY DEF Waits
<1>2. i # 1
  BY <1>1 DEF packet, TypeOK
<1>3. pipe' = Tail(pipe) /\ pipe \in Seq(Packet)
  BY DEF Receive, TypeOK
<1>4. i - 1 \in 1 .. Len(pipe') /\ pipe'[i - 1] = pipe[i]
  BY <1>1, <1>2, <1>3
<1>. QED
  BY <1>1, <1>4 DEF Waits

\* What arrives is put behind what waits.
LEMMA WaitsStay ==
  ASSUME TypeOK, NEW S, NEW k \in Int, Waits(S, k),
         pipe' = pipe \/ \E p \in Packet : pipe' = Append(pipe, p)
  PROVE  Waits(S, k)'
<1>1. PICK i \in 1 .. Len(pipe) : i <= k /\ pipe[i] \in S
  BY DEF Waits
<1>2. i \in 1 .. Len(pipe') /\ pipe'[i] = pipe[i]
  BY <1>1 DEF TypeOK
<1>. QED
  BY <1>1, <1>2 DEF Waits

\* How the application moves while such a packet waits.
LEMMA WaitingMoves ==
  ASSUME TypeOK, [Next]_vars, NEW S, NEW k \in Int
  PROVE  /\ Place(S, k, "boot") => Place(S, k, "boot")' \/ Place(S, k, "loop")' \/ Ended'
         /\ Looping(S, k, "RUN") =>
              Looping(S, k, "RUN")' \/ Place(S, k, "pend")' \/ Leaves' \/ Ended'
         /\ Place(S, k, "pend") =>
              \/ Place(S, k, "pend")' \/ Waits(S, k - 1)' \/ Looping(S, k, "ERROR")' \/ Ended'
              \/ Handlers /\ packet \in S
         /\ Looping(S, k, "ERROR") => Looping(S, k, "ERROR")' \/ Leaves' \/ Ended'
<1>. SUFFICES ASSUME Waits(S, k)
              PROVE  /\ phase = "boot" => Place(S, k, "boot")' \/ Place(S, k, "loop")' \/ Ended'
                     /\ phase = "loop" /\ runStatus = "RUN" =>
                          Looping(S, k, "RUN")' \/ Place(S, k, "pend")' \/ Leaves' \/ Ended'
                     /\ phase = "pend" =>
                          \/ Place(S, k, "pend")' \/ Waits(S, k - 1)'
                          \/ Looping(S, k, "ERROR")' \/ Ended'
                          \/ Handlers /\ packet \in S
                     /\ phase = "loop" /\ runStatus = "ERROR" =>
                          Looping(S, k, "ERROR")' \/ Leaves' \/ Ended'
  BY DEF Place, Looping
<1>. USE DEF Place, Looping, Leaves, Ended
<1>1. pipe' = pipe => Waits(S, k)'
  BY WaitsStay
<1>2. CASE AppInit \/ AppInitFails \/ ReceiveError \/ RequestExit \/ UNCHANGED vars
  BY <1>1, <1>2 DEF AppInit, AppInitFails, ReceiveError, RequestExit, vars
<1>3. CASE RunLoop
  BY <1>1, <1>3 DEF RunLoop, RunsOn
<1>4. CASE Handlers
  BY <1>4, HandlersReceive, WaitsMoveUp DEF Receive
<1>5. CASE ExitApp \/ Crash \/ Restart
  BY <1>5 DEF ExitApp, Crash, Restart
<1>6. ASSUME NEW p \in Inputs, Send(p)
      PROVE  Waits(S, k)' /\ UNCHANGED <<phase, runStatus>>
  BY <1>6, WaitsStay, AppAssumption DEF Send, Delivered
<1>. QED
  BY <1>2, <1>3, <1>4, <1>5, <1>6 DEF Next, App

\* Where a waiting packet can find the application.
LEMMA WaitingPlaces ==
  ASSUME TypeOK, NEW S, NEW k
  PROVE  Waits(S, k) => \/ Place(S, k, "boot") \/ Looping(S, k, "RUN") \/ Place(S, k, "pend")
                        \/ Looping(S, k, "ERROR") \/ Leaves \/ Ended
  BY DEF TypeOK, Phases, Place, Looping, Leaves, Ended

\* With a packet in the pipe the application can move.
LEMMA WaitingCan ==
  ASSUME AppCanStep, NEW S, NEW k,
         Place(S, k, "boot") \/ Place(S, k, "loop") \/ Place(S, k, "pend") \/ Leaves
  PROVE  ENABLED <<App>>_vars
<1>1. phase \in {"boot", "loop", "exit"} \/ (phase = "pend" /\ pipe # <<>>)
  BY DEF Place, Waits, Leaves
<1>. QED
  BY <1>1 DEF AppCanStep

DisablePackets == {p \in Packet : IsDisable(p)}

Disabled == hk.DeviceEnabled = "DISABLED"

\* A DISABLE among the first k becomes one among the first j, or takes effect.
DisableLeads(k, j) ==
  Spec /\ []AppCanStep =>
    (Waits(DisablePackets, k) ~> Waits(DisablePackets, j) \/ Disabled)

\* A DISABLE that is handled takes effect.
LEMMA DisableWorks ==
  ASSUME IInv, Handlers, packet \in DisablePackets
  PROVE  Disabled'
<1>1. packet.mid = CMD_MID /\ packet.cc = DISABLE_CC /\ packet.lenOk
  BY DEF DisablePackets, IsDisable
<1>2. DisableCommand
  BY <1>1 DEF Handlers, RejectPacket, Recognised, WrongLength, CommandCodes, Noop,
     ResetCounters, EnableCommand, ConfigCommand, ConfigAllCommand, ReportHousekeeping,
     Command, NOOP_CC, RESET_COUNTERS_CC, ENABLE_CC, DISABLE_CC, CONFIG_CC, CONFIG_ALL_CC,
     CMD_MID, REQ_HK_MID
<1>. QED
  BY <1>2, DisableKeeps DEF DisableCommand, Disabled

\* The place of a DISABLE becomes better by one.
LEMMA DisableMovesUp == ASSUME NEW k \in Int PROVE DisableLeads(k, k - 1)
<1>. DEFINE S == DisablePackets
            here == Waits(S, k)
            next == Waits(S, k - 1)
            boot == Place(S, k, "boot")
            loop == Looping(S, k, "RUN")
            pend == Place(S, k, "pend")
            last == Looping(S, k, "ERROR")
            can == ENABLED <<App>>_vars
<1>1. IInv /\ [Next]_vars =>
        /\ loop => loop' \/ pend' \/ Leaves' \/ Disabled'
        /\ pend => pend' \/ next' \/ last' \/ Disabled'
        /\ last => last' \/ Leaves' \/ Disabled'
        /\ Leaves => Leaves' \/ Disabled'
  <2>. SUFFICES ASSUME IInv, [Next]_vars
                PROVE  /\ loop => loop' \/ pend' \/ Leaves' \/ Disabled'
                       /\ pend => pend' \/ next' \/ last' \/ Disabled'
                       /\ last => last' \/ Leaves' \/ Disabled'
                       /\ Leaves => Leaves' \/ Disabled'
    OBVIOUS
  <2>1. Ended' => Disabled'
    BY NextInv DEF IInv, DormantIsDisabled, Ended, Disabled
  <2>2. Handlers /\ packet \in S => Disabled'
    BY DisableWorks
  <2>3. Leaves => Leaves' \/ Disabled'
    <3>1. CASE ExitApp
      BY <3>1, DisableKeeps DEF ExitApp, Disabled
    <3>. QED
      BY <2>1, <3>1, HandlersReceive DEF Next, App, Leaves, Ended, AppInit, AppInitFails,
         RunLoop, Receive, ReceiveError, Send, RequestExit, Crash, Restart, vars
  <2>. QED
    BY <2>1, <2>2, <2>3, WaitingMoves DEF IInv
<1>2. <<App>>_vars => /\ loop => ~loop'
                      /\ pend => ~pend'
                      /\ last => ~last'
                      /\ Leaves => ~Leaves'
  BY AppMoves DEF Looping, Place, Leaves
<1>3. AppCanStep => (loop \/ pend \/ last \/ Leaves => can)
  BY WaitingCan DEF Looping
<1>4. IInv => (here => loop \/ pend \/ last \/ Leaves \/ Disabled)
  BY WaitingPlaces DEF Place, Ended, IInv, DormantIsDisabled, Disabled
<1>. HIDE DEF here, next, boot, loop, pend, last, can
<1>5. Spec /\ []AppCanStep => (here ~> next \/ Disabled)
  BY <1>1, <1>2, <1>3, <1>4, Invariance, PTL DEF Spec, can
<1>. QED
  BY <1>5 DEF DisableLeads, here, next

\* Such steps compose.
LEMMA DisableComposes ==
  ASSUME NEW k, NEW j, NEW i, DisableLeads(k, j), DisableLeads(j, i)
  PROVE  DisableLeads(k, i)
  BY PTL DEF DisableLeads

\* From every place to the one n places before it.
DisableLeadsBy(n) == \A k \in Int : DisableLeads(k, k - n)

\* What holds of one place holds of twice as many.
LEMMA DisableLeadsTwice ==
  ASSUME NEW n \in Int, DisableLeadsBy(n)
  PROVE  DisableLeadsBy(2 * n)
<1>. SUFFICES ASSUME NEW k \in Int PROVE DisableLeads(k, k - 2 * n)
  BY DEF DisableLeadsBy
<1>1. DisableLeads(k, k - n) /\ DisableLeads(k - n, (k - n) - n)
  BY DEF DisableLeadsBy
<1>2. DisableLeads(k, (k - n) - n)
  BY <1>1, DisableComposes
<1>. QED
  BY <1>2

\* A DISABLE in the pipe takes effect, if the application is never stuck and the pipe
\* is no deeper than the code makes it.
THEOREM DisableTakesEffectHolds ==
  ASSUME PipeDepth <= 32
  PROVE  Spec /\ []AppCanStep => DisableTakesEffect
<1>. DEFINE queued == \E p \in Inputs : IsDisable(p) /\ Queued(p)
            front == Waits(DisablePackets, 32)
            none == Waits(DisablePackets, 0)
<1>1. DisableLeadsBy(1)
  BY DisableMovesUp DEF DisableLeadsBy
<1>2. DisableLeadsBy(2)
  BY <1>1, DisableLeadsTwice
<1>3. DisableLeadsBy(4)
  BY <1>2, DisableLeadsTwice
<1>4. DisableLeadsBy(8)
  BY <1>3, DisableLeadsTwice
<1>5. DisableLeadsBy(16)
  BY <1>4, DisableLeadsTwice
<1>6. DisableLeadsBy(32)
  BY <1>5, DisableLeadsTwice
<1>7. DisableLeads(32, 0)
  BY <1>6 DEF DisableLeadsBy
<1>8. Spec /\ []AppCanStep => (front ~> none \/ Disabled)
  BY <1>7 DEF DisableLeads
<1>9. TypeOK => (queued => front)
  BY AppAssumption DEF TypeOK, Queued, Waits, DisablePackets
<1>10. ~none
  BY DEF Waits
<1>. HIDE DEF queued, front, none
<1>11. Spec /\ []AppCanStep => (queued ~> Disabled)
  BY <1>8, <1>9, <1>10, TypeCorrect, PTL
<1>. QED
  BY <1>11 DEF queued, Disabled, DisableTakesEffect

\* The last packet on the bus is not number n any more, or the loop is over.
Answered(n) == tlm.seq # n \/ phase \in {"exit", "ended"}

\* A request among the first k becomes one among the first j, or is answered.
RequestLeads(n, k, j) ==
  Spec /\ []AppCanStep =>
    (Waits({HkRequest}, k) ~> Waits({HkRequest}, j) \/ Answered(n))

\* A request that is handled is answered.
LEMMA RequestWorks ==
  ASSUME TypeOK, Handlers, packet = HkRequest, NEW n
  PROVE  Answered(n) \/ Answered(n)'
<1>1. packet.mid = REQ_HK_MID /\ packet.cc = REQ_HK_TLM
  BY DEF HkRequest
<1>2. TransmitMsg
  BY <1>1 DEF Handlers, RejectPacket, Recognised, WrongLength, Noop, ResetCounters,
     EnableCommand, DisableCommand, ConfigCommand, ConfigAllCommand, ReportHousekeeping,
     Command, CMD_MID, REQ_HK_MID
<1>. QED
  BY <1>2, AppAssumption DEF TransmitMsg, Wrap, Answered, TypeOK

\* The place of a request becomes better by one.
LEMMA RequestMovesUp == ASSUME NEW n, NEW k \in Int PROVE RequestLeads(n, k, k - 1)
<1>. DEFINE S == {HkRequest}
            here == Waits(S, k)
            next == Waits(S, k - 1)
            boot == Place(S, k, "boot")
            loop == Looping(S, k, "RUN")
            pend == Place(S, k, "pend")
            last == Looping(S, k, "ERROR")
            done == Answered(n)
            can == ENABLED <<App>>_vars
<1>1. TypeOK /\ [Next]_vars =>
        /\ boot => boot' \/ loop' \/ last' \/ done'
        /\ loop => loop' \/ pend' \/ done'
        /\ pend => pend' \/ next' \/ last' \/ done' \/ done
        /\ last => last' \/ done'
  <2>. SUFFICES ASSUME TypeOK, [Next]_vars
                PROVE  /\ boot => boot' \/ loop' \/ last' \/ done'
                       /\ loop => loop' \/ pend' \/ done'
                       /\ pend => pend' \/ next' \/ last' \/ done' \/ done
                       /\ last => last' \/ done'
    OBVIOUS
  <2>1. (Ended \/ Leaves)' => done'
    BY DEF Ended, Leaves, Answered
  <2>2. Handlers /\ packet \in S => done' \/ done
    BY RequestWorks
  <2>3. Place(S, k, "loop")' => loop' \/ last'
    BY NextType DEF Looping, TypeOK
  <2>. QED
    BY <2>1, <2>2, <2>3, WaitingMoves
<1>2. <<App>>_vars => /\ boot => ~boot'
                      /\ loop => ~loop'
                      /\ pend => ~pend'
                      /\ last => ~last'
  BY AppMoves DEF Looping, Place
<1>3. AppCanStep => (boot \/ loop \/ pend \/ last => can)
  BY WaitingCan DEF Looping
<1>4. TypeOK => (here => boot \/ loop \/ pend \/ last \/ done)
  BY WaitingPlaces DEF Ended, Leaves, Answered
<1>. HIDE DEF here, next, boot, loop, pend, last, done, can
<1>5. Spec /\ []AppCanStep => (here ~> next \/ done)
  BY <1>1, <1>2, <1>3, <1>4, TypeCorrect, PTL DEF Spec, can
<1>. QED
  BY <1>5 DEF RequestLeads, here, next, done

\* Such steps compose.
LEMMA RequestComposes ==
  ASSUME NEW n, NEW k, NEW j, NEW i, RequestLeads(n, k, j), RequestLeads(n, j, i)
  PROVE  RequestLeads(n, k, i)
  BY PTL DEF RequestLeads

\* From every place to the one m places before it.
RequestLeadsBy(n, m) == \A k \in Int : RequestLeads(n, k, k - m)

\* What holds of one place holds of twice as many.
LEMMA RequestLeadsTwice ==
  ASSUME NEW n, NEW m \in Int, RequestLeadsBy(n, m)
  PROVE  RequestLeadsBy(n, 2 * m)
<1>. SUFFICES ASSUME NEW k \in Int PROVE RequestLeads(n, k, k - 2 * m)
  BY DEF RequestLeadsBy
<1>1. RequestLeads(n, k, k - m) /\ RequestLeads(n, k - m, (k - m) - m)
  BY DEF RequestLeadsBy
<1>2. RequestLeads(n, k, (k - m) - m)
  BY <1>1, RequestComposes
<1>. QED
  BY <1>2

\* One request is answered.
RequestEnds(n) ==
  Spec /\ []AppCanStep => ((Queued(HkRequest) /\ tlm.seq = n) ~> Answered(n))

\* Every one is.
LEMMA RequestsEnd ==
  ASSUME PipeDepth <= 32, NEW n
  PROVE  RequestEnds(n)
<1>. DEFINE queued == Queued(HkRequest) /\ tlm.seq = n
            front == Waits({HkRequest}, 32)
            none == Waits({HkRequest}, 0)
            done == Answered(n)
<1>1. RequestLeadsBy(n, 1)
  BY RequestMovesUp DEF RequestLeadsBy
<1>2. RequestLeadsBy(n, 2)
  BY <1>1, RequestLeadsTwice
<1>3. RequestLeadsBy(n, 4)
  BY <1>2, RequestLeadsTwice
<1>4. RequestLeadsBy(n, 8)
  BY <1>3, RequestLeadsTwice
<1>5. RequestLeadsBy(n, 16)
  BY <1>4, RequestLeadsTwice
<1>6. RequestLeadsBy(n, 32)
  BY <1>5, RequestLeadsTwice
<1>7. RequestLeads(n, 32, 0)
  BY <1>6 DEF RequestLeadsBy
<1>8. Spec /\ []AppCanStep => (front ~> none \/ done)
  BY <1>7 DEF RequestLeads
<1>9. TypeOK => (queued => front)
  BY AppAssumption DEF TypeOK, Queued, Waits
<1>10. ~none
  BY DEF Waits
<1>. HIDE DEF queued, front, none, done
<1>11. Spec /\ []AppCanStep => (queued ~> done)
  BY <1>8, <1>9, <1>10, TypeCorrect, PTL
<1>. QED
  BY <1>11 DEF queued, done, RequestEnds

\* A housekeeping request in the pipe is answered, if the application is never stuck
\* and the pipe is no deeper than the code makes it.
THEOREM HousekeepingAnsweredHolds ==
  ASSUME PipeDepth <= 32
  PROVE  Spec /\ []AppCanStep => HousekeepingAnswered
<1>1. \A n \in 0 .. SeqMod - 1 : RequestEnds(n)
  BY RequestsEnd
<1>. QED
  BY <1>1 DEF RequestEnds, Answered, HousekeepingAnswered

=============================================================================
