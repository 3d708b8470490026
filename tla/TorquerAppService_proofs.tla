---------------------- MODULE TorquerAppService_proofs ----------------------
(***************************************************************************)
(* TorquerApp implements CommandService, the view of it that the ground    *)
(* scripts are modelled against: for every packet set, pipe depth and      *)
(* counter width.                                                          *)
(***************************************************************************)
EXTENDS TorquerApp_proofs

-----------------------------------------------------------------------------
(* The pipe, as the ground sees it.                                        *)

\* What a queue of packets is to the ground.
OpsOf(s) == [i \in DOMAIN s |-> OpOf(s[i])]

\* Every packet is something to the ground.
LEMMA OpType == ASSUME NEW p PROVE OpOf(p) \in Flight!Ops
  BY DEF OpOf, Flight!Ops

\* The view is a queue of the same length.
LEMMA OpsType ==
  ASSUME NEW s \in Seq(Packet)
  PROVE  OpsOf(s) \in Seq(Flight!Ops) /\ Len(OpsOf(s)) = Len(s)
  BY OpType DEF OpsOf

\* Its first command is that of the first packet, and the rest that of the rest.
LEMMA OpsTake ==
  ASSUME NEW s \in Seq(Packet), s # <<>>
  PROVE  /\ OpsOf(s) # <<>> /\ Head(OpsOf(s)) = OpOf(Head(s))
         /\ OpsOf(Tail(s)) = Tail(OpsOf(s))
  BY OpsType DEF OpsOf

\* A packet appended is a command appended.
LEMMA OpsAppend ==
  ASSUME NEW s \in Seq(Packet), NEW p \in Packet
  PROVE  OpsOf(Append(s, p)) = Append(OpsOf(s), OpOf(p))
  BY OpsType DEF OpsOf

-----------------------------------------------------------------------------
(* The invariant.  Between a restart and AppInit the counters are clear,   *)
(* so nobody can tell whether AppInit was cut short.                       *)

BootIsCleared == phase = "boot" => hk.CommandCount = 0

SInv == IInv /\ BootIsCleared

\* The invariant holds in every reachable state.
LEMMA ServiceInvariance == Spec => []SInv
<1>1. Init => BootIsCleared
  BY DEF Init, ClearedHk, BootIsCleared
<1>2. ASSUME BootIsCleared, [Next]_vars PROVE BootIsCleared'
  <2>1. CASE phase' = "boot" /\ phase # "boot"
    <3>1. Restart
      BY <1>2, <2>1 DEF Next, App, AppInit, AppInitFails, RunLoop, Handlers,
         RejectPacket, Noop, ResetCounters, EnableCommand, DisableCommand,
         ConfigCommand, ConfigAllCommand, ReportHousekeeping, Command, Receive,
         ExitApp, ReceiveError, Send, RequestExit, Crash, vars
    <3>. QED
      BY <3>1 DEF Restart, ClearedHk, BootIsCleared
  <2>2. CASE phase' = "boot" /\ phase = "boot"
    <3>1. UNCHANGED hk
      BY <1>2, <2>2 DEF Next, App, AppInit, AppInitFails, RunLoop, Handlers,
         RejectPacket, Noop, ResetCounters, EnableCommand, DisableCommand,
         ConfigCommand, ConfigAllCommand, ReportHousekeeping, Command, Receive,
         ExitApp, ReceiveError, Send, RequestExit, Crash, Restart, vars
    <3>. QED
      BY <1>2, <2>2, <3>1 DEF BootIsCleared
  <2>. QED
    BY <2>1, <2>2 DEF BootIsCleared
<1>3. Spec => []BootIsCleared
  BY <1>1, <1>2, PTL DEF Spec
<1>. QED
  BY <1>3, Invariance, PTL DEF SInv

-----------------------------------------------------------------------------
(* Each step is a step of the service, or one the ground does not see.     *)

ServiceStep == Flight!ServiceNext \/ UNCHANGED Flight!svars

\* The count the ground would see.
SeenCount == IF phase \in {"boot", "ended"} THEN 0 ELSE hk.CommandCount

\* A step that changes nothing the ground sees.
LEMMA QuietService ==
  ASSUME pipe' = pipe, hk'.DeviceEnabled = hk.DeviceEnabled, SeenCount' = SeenCount
  PROVE  ServiceStep
  BY DEF ServiceStep, SeenCount, Flight!svars

\* Receiving a packet takes its command off the queue.
LEMMA TakeService ==
  ASSUME TypeOK, Receive
  PROVE  /\ Flight!Take(OpOf(packet))
         /\ phase = "pend" /\ phase' = "loop"
<1>1. pipe \in Seq(Packet) /\ pipe # <<>> /\ pipe' = Tail(pipe)
  BY DEF TypeOK, Receive
<1>2. /\ OpsOf(pipe) # <<>> /\ Head(OpsOf(pipe)) = OpOf(packet)
      /\ OpsOf(pipe') = Tail(OpsOf(pipe))
  BY <1>1, OpsTake DEF packet
<1>. QED
  BY <1>2 DEF Flight!Take, OpsOf, Receive

\* An accepted command is counted, and may change the state of the device.
LEMMA AcceptService ==
  ASSUME TypeOK, Receive, NEW op, op = OpOf(packet), Flight!Acceptable(op),
         hk'.CommandCount = Inc(hk.CommandCount),
         hk'.DeviceEnabled \in CASE op = "ENABLE"  -> {"DISABLED", "ENABLED"}
                                 [] op = "DISABLE" -> {"DISABLED"}
                                 [] OTHER          -> {hk.DeviceEnabled}
  PROVE  ServiceStep
<1>1. Flight!Accept(op)
  BY TakeService DEF Flight!Accept, Flight!After, Inc, Wrap
<1>. QED
  BY <1>1, OpType DEF ServiceStep, Flight!ServiceNext

\* A refused one does neither.
LEMMA RefuseService ==
  ASSUME TypeOK, Receive, CountCommandError,
         ~Flight!Acceptable(OpOf(packet)), OpOf(packet) \notin {"RESET", "HK"}
  PROVE  ServiceStep
<1>1. /\ hk'.CommandCount = hk.CommandCount
      /\ hk'.DeviceEnabled = hk.DeviceEnabled
  BY CommandErrorFields DEF TypeOK
<1>2. Flight!Refuse(OpOf(packet))
  BY <1>1, TakeService DEF Flight!Refuse
<1>. QED
  BY <1>2, OpType DEF ServiceStep, Flight!ServiceNext

\* What a ground command is to the ground, by its code.
LEMMA CommandOps ==
  ASSUME TypeOK, NEW cc, Command(cc)
  PROVE  /\ TypeOK /\ Receive
         /\ cc = NOOP_CC           => OpOf(packet) = "NOOP"
         /\ cc = RESET_COUNTERS_CC => OpOf(packet) = "RESET"
         /\ cc = ENABLE_CC         => OpOf(packet) = "ENABLE"
         /\ cc = DISABLE_CC        => OpOf(packet) = "DISABLE"
         /\ cc = CONFIG_CC         => OpOf(packet) = IF packet.TrqNum \in Torquers
                                                     THEN "CONFIG" ELSE "BAD"
         /\ cc = CONFIG_ALL_CC     => OpOf(packet) = "CONFIG"
  BY DEF Command, OpOf, Recognised, WrongLength, CommandCodes, CMD_MID, REQ_HK_MID,
         NOOP_CC, RESET_COUNTERS_CC, ENABLE_CC, DISABLE_CC, CONFIG_CC, CONFIG_ALL_CC

\* ENABLE is for a disabled device, and may leave it disabled.
LEMMA EnableService == ASSUME TypeOK, EnableCommand PROVE ServiceStep
<1>1. Receive /\ OpOf(packet) = "ENABLE" /\ hk \in HkTelemetry
  BY CommandOps DEF EnableCommand, TypeOK
<1>2. CASE hk.DeviceEnabled = "ENABLED"
  BY <1>1, <1>2, RefuseService DEF EnableCommand, Enable, Flight!Acceptable
<1>3. CASE hk.DeviceEnabled = "DISABLED"
  <2>1. PICK res \in Statuses, enabled \in {"DISABLED", "ENABLED"} :
          hk' = Counted(EnableOk(res), AllIdle, enabled)
    BY <1>3 DEF EnableCommand, Enable
  <2>2. hk'.CommandCount = Inc(hk.CommandCount) /\ hk'.DeviceEnabled = enabled
    BY <1>1, <2>1, CountedFields
  <2>. QED
    BY <1>1, <1>3, <2>2, AcceptService DEF Flight!Acceptable
<1>. QED
  BY <1>1, <1>2, <1>3 DEF HkTelemetry

\* DISABLE is for an enabled one, and leaves it disabled.
LEMMA DisableService == ASSUME TypeOK, DisableCommand PROVE ServiceStep
<1>1. Receive /\ OpOf(packet) = "DISABLE" /\ hk \in HkTelemetry
  BY CommandOps DEF DisableCommand, TypeOK
<1>2. CASE hk.DeviceEnabled = "DISABLED"
  BY <1>1, <1>2, RefuseService DEF DisableCommand, Disable, Flight!Acceptable
<1>3. CASE hk.DeviceEnabled = "ENABLED"
  <2>1. hk' = Counted(TRUE, AllIdle, "DISABLED")
    BY <1>3 DEF DisableCommand, Disable, DisableReports
  <2>2. hk'.CommandCount = Inc(hk.CommandCount) /\ hk'.DeviceEnabled = "DISABLED"
    BY <1>1, <2>1, CountedFields
  <2>. QED
    BY <1>1, <1>3, <2>2, AcceptService DEF Flight!Acceptable
<1>. QED
  BY <1>1, <1>2, <1>3 DEF HkTelemetry

\* CONFIG is for an enabled one, and for one of its torquers.
LEMMA ConfigService == ASSUME TypeOK, ConfigCommand PROVE ServiceStep
<1>1. /\ Receive /\ hk \in HkTelemetry
      /\ OpOf(packet) = IF packet.TrqNum \in Torquers THEN "CONFIG" ELSE "BAD"
  BY CommandOps DEF ConfigCommand, TypeOK
<1>2. CASE ~Configures(packet.TrqNum)
  BY <1>1, <1>2, RefuseService DEF ConfigCommand, Configures, Flight!Acceptable
<1>3. CASE Configures(packet.TrqNum)
  <2>1. /\ hk'.CommandCount = Inc(hk.CommandCount)
        /\ hk'.DeviceEnabled = hk.DeviceEnabled
    BY <1>1, <1>3 DEF ConfigCommand, Counted, HkTelemetry
  <2>. QED
    BY <1>1, <1>3, <2>1, AcceptService DEF Configures, Flight!Acceptable
<1>. QED
  BY <1>2, <1>3

\* CONFIG_ALL is for an enabled one.
LEMMA ConfigAllService == ASSUME TypeOK, ConfigAllCommand PROVE ServiceStep
<1>1. Receive /\ hk \in HkTelemetry /\ OpOf(packet) = "CONFIG"
  BY CommandOps DEF ConfigAllCommand, TypeOK
<1>2. CASE hk.DeviceEnabled = "DISABLED"
  BY <1>1, <1>2, RefuseService DEF ConfigAllCommand, Flight!Acceptable
<1>3. CASE hk.DeviceEnabled = "ENABLED"
  <2>1. /\ hk'.CommandCount = Inc(hk.CommandCount)
        /\ hk'.DeviceEnabled = hk.DeviceEnabled
    BY <1>1, <1>3 DEF ConfigAllCommand, Counted, HkTelemetry
  <2>. QED
    BY <1>1, <1>3, <2>1, AcceptService DEF Flight!Acceptable
<1>. QED
  BY <1>1, <1>2, <1>3 DEF HkTelemetry

\* NOOP is accepted, a reset clears the count.
LEMMA CounterService == ASSUME TypeOK, Noop \/ ResetCounters PROVE ServiceStep
<1>1. Receive /\ hk \in HkTelemetry
  BY DEF Noop, ResetCounters, Command, TypeOK
<1>2. CASE Noop
  <2>1. /\ hk'.CommandCount = Inc(hk.CommandCount)
        /\ hk'.DeviceEnabled = hk.DeviceEnabled /\ OpOf(packet) = "NOOP"
    BY <1>1, <1>2, CommandOps DEF Noop, HkTelemetry
  <2>. QED
    BY <1>1, <2>1, AcceptService DEF Flight!Acceptable
<1>3. CASE ResetCounters
  <2>1. /\ hk'.CommandCount = 0
        /\ hk'.DeviceEnabled = hk.DeviceEnabled /\ OpOf(packet) = "RESET"
    BY <1>1, <1>3, CommandOps DEF ResetCounters, HkTelemetry
  <2>2. Flight!Reset
    BY <1>1, <2>1, TakeService DEF Flight!Reset
  <2>. QED
    BY <2>2 DEF ServiceStep, Flight!ServiceNext
<1>. QED
  BY <1>2, <1>3

\* A packet for which there is no case, or of the wrong length, is refused.
LEMMA RejectService == ASSUME TypeOK, RejectPacket PROVE ServiceStep
<1>1. OpOf(packet) = "BAD"
  BY DEF RejectPacket, OpOf, Recognised, WrongLength, CMD_MID, REQ_HK_MID
<1>. QED
  BY <1>1, RefuseService DEF RejectPacket, Flight!Acceptable

\* Housekeeping reports what the ground may know, as it is.
LEMMA ReportService ==
  ASSUME TypeOK, ReportHousekeeping
  PROVE  Flight!SendReport(ReportIn(tlm'.hk)) /\ ServiceStep
<1>1. /\ Receive /\ OpOf(packet) = "HK" /\ hk' = hk /\ tlm'.hk = hk
      /\ hk \in HkTelemetry
  BY DEF ReportHousekeeping, OpOf, TransmitMsg, TypeOK, packet
<1>2. ReportIn(tlm'.hk) = Flight!Now
  BY <1>1, TakeService DEF ReportIn, Flight!Now
<1>3. Flight!SendReport(ReportIn(tlm'.hk))
  BY <1>1, <1>2, TakeService DEF Flight!SendReport
<1>4. ReportIn(tlm'.hk) \in Flight!Report
  BY <1>1 DEF ReportIn, Flight!Report, HkTelemetry, Counter
<1>. QED
  BY <1>3, <1>4 DEF ServiceStep, Flight!ServiceNext

\* Each handler is a step of the service.
LEMMA HandlersService == ASSUME TypeOK, Handlers PROVE ServiceStep
  BY EnableService, DisableService, ConfigService, ConfigAllService, CounterService,
     RejectService, ReportService DEF Handlers

\* A packet that reaches the pipe is a command delivered.
LEMMA SendService == ASSUME TypeOK, NEW p \in Inputs, Send(p) PROVE ServiceStep
<1>1. p \in Packet /\ pipe \in Seq(Packet)
  BY AppAssumption DEF TypeOK
<1>2. CASE Len(pipe) < PipeDepth
  <2>1. Len(OpsOf(pipe)) = Len(pipe) /\ OpsOf(pipe') = Append(OpsOf(pipe), OpOf(p))
    BY <1>1, <1>2, OpsType, OpsAppend DEF Send, Delivered
  <2>2. Flight!Deliver(OpOf(p))
    BY <1>2, <2>1 DEF Flight!Deliver, OpsOf, Send
  <2>. QED
    BY <2>2, OpType DEF ServiceStep, Flight!ServiceNext
<1>3. CASE ~(Len(pipe) < PipeDepth)
  BY <1>3, QuietService DEF Send, Delivered, SeenCount
<1>. QED
  BY <1>2, <1>3

\* When the application ends its queue and its counts are gone.
LEMMA EndService == ASSUME IInv, ExitApp \/ Crash PROVE ServiceStep
<1>1. phase' = "ended" /\ pipe' = <<>>
  BY DEF ExitApp, Crash
<1>2. hk'.DeviceEnabled = "DISABLED"
  BY DisableKeeps DEF ExitApp, Crash, ClearedHk
<1>3. OpsOf(pipe') = <<>>
  BY <1>1 DEF OpsOf
<1>4. Flight!Leave
  BY <1>1, <1>2, <1>3 DEF Flight!Leave, OpsOf
<1>. QED
  BY <1>4 DEF ServiceStep, Flight!ServiceNext

\* Start-up and restart change nothing the ground sees.
LEMMA StartService ==
  ASSUME SInv, AppInit \/ AppInitFails \/ Restart
  PROVE  ServiceStep
<1>1. hk.DeviceEnabled = "DISABLED" /\ pipe' = pipe
  BY DEF SInv, IInv, DormantIsDisabled, AppInit, AppInitFails, Restart
<1>2. hk'.DeviceEnabled = "DISABLED" /\ SeenCount' = SeenCount
  BY <1>1 DEF SInv, BootIsCleared, AppInit, AppInitFails, Restart, ClearedHk, SeenCount
<1>. QED
  BY <1>1, <1>2, QuietService

\* Every step is a step of the service, or one the ground does not see.
LEMMA NextService == ASSUME SInv, [Next]_vars PROVE ServiceStep
<1>1. TypeOK /\ IInv
  BY DEF SInv, IInv
<1>2. CASE RunLoop \/ ReceiveError \/ RequestExit \/ UNCHANGED vars
  BY <1>2, QuietService DEF RunLoop, ReceiveError, RequestExit, vars, SeenCount
<1>. QED
  BY <1>1, <1>2, HandlersService, SendService, EndService, StartService DEF Next, App

\* A packet that goes out reports the truth, and answers a request.
LEMMA NextReports ==
  ASSUME SInv, [Next]_vars, tlm' # tlm
  PROVE  Flight!SendReport(ReportIn(tlm'.hk))
<1>1. ReportHousekeeping
  BY DEF Next, App, AppInit, AppInitFails, RunLoop, Handlers, RejectPacket, Noop,
     ResetCounters, EnableCommand, DisableCommand, ConfigCommand, ConfigAllCommand,
     ExitApp, ReceiveError, Send, RequestExit, Crash, Restart, vars
<1>. QED
  BY <1>1, ReportService DEF SInv, IInv

\* The application serves commands as the ground scripts expect it to: what is
\* shown of them holds with this application in place of the service.
THEOREM ServesCommandsHolds == Spec => ServesCommands
<1>1. Init => Flight!ServiceInit
  BY DEF Init, ClearedHk, Flight!ServiceInit
<1>2. SInv /\ [Next]_vars => [Flight!ServiceNext]_(Flight!svars)
  BY NextService DEF ServiceStep
<1>3. SInv /\ [Next]_vars => [tlm' # tlm => Flight!SendReport(ReportIn(tlm'.hk))]_vars
  BY NextReports
<1>. QED
  BY ServiceInvariance, <1>1, <1>2, <1>3, PTL DEF Spec, ServesCommands, Flight!Service

=============================================================================
