------------------------------ MODULE TorquerApp ------------------------------
(***************************************************************************)
(* The cFS application GENERIC_TORQUER                                     *)
(* (src/fsw/cfs/src/generic_torquer_app.c): start-up, the main loop that   *)
(* pends on the command pipe, one action per ground command, housekeeping, *)
(* exit; and its surroundings: the software bus that fills the pipe, the   *)
(* executive that asks the application to exit or restarts it, and the     *)
(* failures that stop it at any point.                                     *)
(*                                                                         *)
(* Processing one packet is one step, as one task does it; a crash may     *)
(* fall between the hardware commands of that step (Crash).                *)
(***************************************************************************)
EXTENDS TorquerDevice, Sequences

CONSTANTS
  Inputs,      \* the packets the software bus may deliver
  PipeDepth,   \* GENERIC_TORQUER_PIPE_DEPTH, 32 in the code
  SeqMod       \* the CCSDS sequence count of a packet: 16384

CMD_MID    == "CMD_MID"
REQ_HK_MID == "REQ_HK_MID"

NOOP_CC           == 0
RESET_COUNTERS_CC == 1
ENABLE_CC         == 2
DISABLE_CC        == 3
CONFIG_CC         == 4
CONFIG_ALL_CC     == 5
REQ_HK_TLM        == 0

CommandCodes == NOOP_CC .. CONFIG_ALL_CC

\* A packet: its message ID and function code, whether its length is the one
\* its code calls for, and the payloads of CONFIG and CONFIG_ALL.
Packet == [mid    : {CMD_MID, REQ_HK_MID, "OTHER_MID"},
           cc     : 0 .. 127,
           lenOk  : BOOLEAN,
           TrqNum : Byte,
           level  : Level,
           levels : [Torquers -> Level]]

ASSUME AppAssumption ==
  /\ Inputs \subseteq Packet
  /\ PipeDepth \in Nat \ {0}
  /\ SeqMod \in Nat \ {0, 1}

HkTelemetry == [CommandErrorCount : Counter,
                CommandCount      : Counter,
                DeviceErrorCount  : Counter,
                DeviceCount       : Counter,
                DeviceEnabled     : {"DISABLED", "ENABLED"},
                TrqInfo           : [Torquers -> Level]]

\* The packet as the zeroed application data holds it.
ClearedHk == [CommandErrorCount |-> 0,
              CommandCount      |-> 0,
              DeviceErrorCount  |-> 0,
              DeviceCount       |-> 0,
              DeviceEnabled     |-> "DISABLED",
              TrqInfo           |-> AllIdle]

VARIABLES
  phase,      \* where AppMain is
  runStatus,  \* RunStatus: "RUN" or "ERROR"
  exitReq,    \* the executive wants the application to exit
  pipe,       \* the command pipe
  hk,         \* HkTelemetryPkt
  tlm,        \* the last housekeeping packet on the bus, with its count
  open,       \* torquers whose interface is open
  drive,      \* what the hardware does
  noops,      \* history: NOOPs counted since the counters were cleared
  suspect     \* history: torquers whose last command failed, or that an
              \* application killed while enabled left behind

vars == <<phase, runStatus, exitReq, pipe, hk, tlm, open, drive, noops, suspect>>

Phases == {"boot",    \* AppInit
           "loop",    \* about to call CFE_ES_RunLoop
           "pend",    \* in CFE_SB_ReceiveBuffer, or processing what it got
           "exit",    \* the loop is over, the clean-up is next
           "ended"}   \* after CFE_ES_ExitApp, or dead

TypeOK ==
  /\ phase \in Phases
  /\ runStatus \in {"RUN", "ERROR"}
  /\ exitReq \in BOOLEAN
  /\ pipe \in Seq(Packet) /\ Len(pipe) <= PipeDepth
  /\ hk \in HkTelemetry
  /\ tlm \in [seq : 0 .. SeqMod - 1, hk : HkTelemetry]
  /\ open \in SUBSET Torquers
  /\ drive \in [Torquers -> Drive]
  /\ noops \in Counter
  /\ suspect \in SUBSET Torquers

\* Power-on: the torquers are off and the application is about to start.
Init ==
  /\ phase = "boot"
  /\ runStatus = "RUN"
  /\ exitReq = FALSE
  /\ pipe = <<>>
  /\ hk = ClearedHk
  /\ tlm = [seq |-> 0, hk |-> ClearedHk]
  /\ open = {}
  /\ drive = AllOff
  /\ noops = 0
  /\ suspect = {}

-----------------------------------------------------------------------------
(* Start-up.                                                               *)

\* AppInit past its subscriptions: counters and reported levels cleared, the
\* device marked disabled, trq_init called for each torquer with its status
\* ignored.  Only then may the start-up event fail to be sent, and that makes
\* AppMain record an error although everything is in place.
AppInit ==
  /\ phase = "boot"
  /\ phase' = "loop"
  /\ runStatus' \in {"RUN", "ERROR"}
  /\ hk' = ClearedHk
  /\ noops' = 0
  /\ open' \in SUBSET Torquers
  /\ UNCHANGED <<exitReq, pipe, tlm, drive, suspect>>

\* AppInit returns early: registration, pipe or a subscription failed.
AppInitFails ==
  /\ phase = "boot"
  /\ phase' = "loop"
  /\ runStatus' = "ERROR"
  /\ UNCHANGED <<exitReq, pipe, hk, tlm, open, drive, noops, suspect>>

-----------------------------------------------------------------------------
(* The main loop.                                                          *)

\* What CFE_ES_RunLoop returns: no error was recorded, no exit is requested.
\* Mutant: exit requests are not looked at.
RunsOnUnlessError == runStatus = "RUN"

RunsOn == runStatus = "RUN" /\ ~exitReq

RunLoop ==
  /\ phase = "loop"
  /\ phase' = IF RunsOn THEN "pend" ELSE "exit"
  /\ UNCHANGED <<runStatus, exitReq, pipe, hk, tlm, open, drive, noops, suspect>>

\* CFE_SB_ReceiveBuffer fails: exit the application in error.
ReceiveError ==
  /\ phase = "pend"
  /\ phase' = "loop"
  /\ runStatus' = "ERROR"
  /\ UNCHANGED <<exitReq, pipe, hk, tlm, open, drive, noops, suspect>>

packet == Head(pipe)

\* CFE_SB_ReceiveBuffer delivers the oldest packet of the pipe; the handlers
\* below say what it does to the rest.
Receive ==
  /\ phase = "pend"
  /\ pipe # <<>>
  /\ phase' = "loop"
  /\ pipe' = Tail(pipe)
  /\ UNCHANGED <<runStatus, exitReq, open>>

-----------------------------------------------------------------------------
(* Counting and commanding.                                                *)

\* Mutant: the error counter stays at its largest value.
CountErrorSaturating ==
  /\ hk' = [hk EXCEPT !.CommandErrorCount = IF Inc(@) = 0 THEN @ ELSE Inc(@)]
  /\ UNCHANGED <<drive, suspect>>

CountCommandError ==
  /\ hk' = [hk EXCEPT !.CommandErrorCount = Inc(@)]
  /\ UNCHANGED <<drive, suspect>>

\* Mutant: a hardware failure is not counted.
CountedSuccess(ok, reported, enabled) ==
  [hk EXCEPT !.CommandCount  = Inc(@),
             !.DeviceCount   = IF ok THEN Inc(@) ELSE @,
             !.TrqInfo       = reported,
             !.DeviceEnabled = enabled]

\* hk after an accepted command that left `reported` in TrqInfo and `enabled`
\* in DeviceEnabled, and on whose hardware calls the verdict is `ok`.
Counted(ok, reported, enabled) ==
  [hk EXCEPT !.CommandCount     = Inc(@),
             !.DeviceCount      = IF ok THEN Inc(@) ELSE @,
             !.DeviceErrorCount = IF ok THEN @ ELSE Inc(@),
             !.TrqInfo          = reported,
             !.DeviceEnabled    = enabled]

\* The torquers in the domain of want are commanded and answer res.
CommandTorquers(want, res) ==
  /\ drive' = TrqCommand(drive, want, res)
  /\ suspect' = (suspect \ DOMAIN want)
                  \cup {t \in DOMAIN want : res[t] # OS_SUCCESS}

\* Enable judges its three commands by the sum of their statuses.
\* Mutant: it does not look at them.
EnableOkAlways(res) == TRUE

EnableOk(res) == Sum(res) = OS_SUCCESS

\* GENERIC_TORQUER_Enable
Enable ==
  \/ /\ hk.DeviceEnabled = "DISABLED"
     /\ \E res \in Statuses :
          LET ok == EnableOk(res)
          IN  /\ Possible(res, open)
              /\ CommandTorquers(AllOff, res)
              /\ hk' = Counted(ok, AllIdle, IF ok THEN "ENABLED" ELSE "DISABLED")
  \/ /\ hk.DeviceEnabled = "ENABLED"
     /\ CountCommandError

\* What the loop of Disable asks of the hardware, and what it reports.
\* Mutant: the loop stops one torquer early.
DisableCommandsTwo == [t \in 0 .. 1 |-> Off]

DisableCommands == AllOff

\* Mutant: the reported levels stay as they were.
DisableReportsLast == hk.TrqInfo

DisableReports == AllIdle

\* GENERIC_TORQUER_Disable: what the hardware answers is not looked at.
Disable ==
  \/ /\ hk.DeviceEnabled = "ENABLED"
     /\ \E res \in Statuses :
          /\ Possible(res, open)
          /\ CommandTorquers(DisableCommands, res)
          /\ hk' = Counted(TRUE, DisableReports, "DISABLED")
  \/ /\ hk.DeviceEnabled = "DISABLED"
     /\ CountCommandError

-----------------------------------------------------------------------------
(* Ground commands.                                                        *)

\* The switches on message ID and function code have a case for p.
\* Mutant: there is no case for DISABLE.
RecognisedButDisable(p) ==
  \/ p.mid = CMD_MID /\ p.cc \in CommandCodes \ {DISABLE_CC}
  \/ p.mid = REQ_HK_MID /\ p.cc = REQ_HK_TLM

Recognised(p) ==
  \/ p.mid = CMD_MID /\ p.cc \in CommandCodes
  \/ p.mid = REQ_HK_MID /\ p.cc = REQ_HK_TLM

\* VerifyCmdLength; a housekeeping request is not checked.
WrongLength(p) == p.mid = CMD_MID /\ ~p.lenOk

\* The packet received is a well-formed ground command with this code.
Command(cc) ==
  /\ Receive
  /\ packet.mid = CMD_MID
  /\ packet.cc = cc
  /\ packet.lenOk

RejectPacket ==
  /\ Receive
  /\ ~Recognised(packet) \/ WrongLength(packet)
  /\ CountCommandError
  /\ UNCHANGED <<tlm, noops>>

Noop ==
  /\ Command(NOOP_CC)
  /\ hk' = [hk EXCEPT !.CommandCount = Inc(@)]
  /\ noops' = Inc(noops)
  /\ UNCHANGED <<tlm, drive, suspect>>

ResetCounters ==
  /\ Command(RESET_COUNTERS_CC)
  /\ hk' = [hk EXCEPT !.CommandErrorCount = 0, !.CommandCount = 0,
                      !.DeviceErrorCount = 0,  !.DeviceCount = 0]
  /\ noops' = 0
  /\ UNCHANGED <<tlm, drive, suspect>>

EnableCommand  == Command(ENABLE_CC)  /\ Enable  /\ UNCHANGED <<tlm, noops>>

DisableCommand == Command(DISABLE_CC) /\ Disable /\ UNCHANGED <<tlm, noops>>

\* The conditions on CONFIG: the device is enabled, and there is such a torquer.
\* Mutant: CONFIG does not ask whether the device is enabled.
ConfiguresAnytime(n) == n \in Torquers

Configures(n) == hk.DeviceEnabled = "ENABLED" /\ n \in Torquers

\* CONFIG: one torquer, while enabled and if there is such a torquer.
ConfigCommand ==
  /\ Command(CONFIG_CC)
  /\ \/ /\ Configures(packet.TrqNum)
        /\ \E res \in Statuses :
             LET n == packet.TrqNum
             IN  /\ Possible(res, open)
                 /\ CommandTorquers([t \in {n} |-> DriveOf(packet.level)], res)
                 /\ hk' = Counted(res[n] = OS_SUCCESS,
                                  [hk.TrqInfo EXCEPT
                                     ![n] = Config(@, packet.level, res[n])],
                                  hk.DeviceEnabled)
     \/ /\ ~Configures(packet.TrqNum)
        /\ CountCommandError
  /\ UNCHANGED <<tlm, noops>>

\* CONFIG_ALL: all three are commanded whatever the others answer, and the
\* statuses are added up.
ConfigAllCommand ==
  /\ Command(CONFIG_ALL_CC)
  /\ \/ /\ hk.DeviceEnabled = "ENABLED"
        /\ \E res \in Statuses :
             /\ Possible(res, open)
             /\ CommandTorquers([t \in Torquers |-> DriveOf(packet.levels[t])], res)
             /\ hk' = Counted(Sum(res) = OS_SUCCESS,
                              [t \in Torquers |->
                                 Config(hk.TrqInfo[t], packet.levels[t], res[t])],
                              hk.DeviceEnabled)
     \/ /\ hk.DeviceEnabled = "DISABLED"
        /\ CountCommandError
  /\ UNCHANGED <<tlm, noops>>

\* CFE_SB_TransmitMsg: the packet goes out as it stands, with the next count.
\* Mutant: the packet is sent before it is filled in.
TransmitLast == tlm' = [tlm EXCEPT !.seq = Wrap(@, SeqMod)]

\* Mutant: only while the device is enabled.
TransmitIfEnabled ==
  tlm' = IF hk.DeviceEnabled = "ENABLED"
         THEN [seq |-> Wrap(tlm.seq, SeqMod), hk |-> hk] ELSE tlm

TransmitMsg == tlm' = [seq |-> Wrap(tlm.seq, SeqMod), hk |-> hk]

ReportHousekeeping ==
  /\ Receive
  /\ packet.mid = REQ_HK_MID
  /\ packet.cc = REQ_HK_TLM
  /\ TransmitMsg
  /\ UNCHANGED <<hk, drive, noops, suspect>>

-----------------------------------------------------------------------------
(* Exit.                                                                   *)

\* Mutant: the clean-up closes without disabling.
ExitClosing ==
  /\ phase = "exit"
  /\ phase' = "ended"
  /\ open' = open \ {0}
  /\ pipe' = <<>>
  /\ UNCHANGED <<runStatus, exitReq, hk, tlm, drive, noops, suspect>>

\* After the loop: Disable, then trq_close for device 0, then ExitApp, which
\* also deletes the pipe.
ExitApp ==
  /\ phase = "exit"
  /\ phase' = "ended"
  /\ Disable
  /\ open' = open \ {0}
  /\ pipe' = <<>>
  /\ UNCHANGED <<runStatus, exitReq, tlm, noops>>

-----------------------------------------------------------------------------
(* The surroundings: software bus, executive, failures.                    *)

\* A packet reaches the pipe, or is dropped because the pipe is full.
Delivered(p) == IF Len(pipe) < PipeDepth THEN Append(pipe, p) ELSE pipe

Send(p) ==
  /\ phase \in {"loop", "pend"}
  /\ pipe' = Delivered(p)
  /\ UNCHANGED <<phase, runStatus, exitReq, hk, tlm, open, drive, noops, suspect>>

RequestExit ==
  /\ phase \in {"boot", "loop", "pend"}
  /\ exitReq' = TRUE
  /\ UNCHANGED <<phase, runStatus, pipe, hk, tlm, open, drive, noops, suspect>>

\* What the step in progress asks of the hardware: the commands of the packet
\* being processed, or of the Disable of the clean-up; none otherwise.
NoCommands == [t \in {} |-> Off]

CommandsOf(p) ==
  LET ready == hk.DeviceEnabled = "ENABLED"
  IN  IF p.mid # CMD_MID \/ ~p.lenOk THEN NoCommands
      ELSE CASE p.cc = ENABLE_CC /\ ~ready     -> AllOff
             [] p.cc = DISABLE_CC /\ ready     -> AllOff
             [] p.cc = CONFIG_CC /\ ready /\ p.TrqNum \in Torquers
                                               -> [t \in {p.TrqNum} |-> DriveOf(p.level)]
             [] p.cc = CONFIG_ALL_CC /\ ready  -> [t \in Torquers |-> DriveOf(p.levels[t])]
             [] OTHER                          -> NoCommands

InProgress ==
  CASE phase = "pend" /\ pipe # <<>>                     -> CommandsOf(packet)
    [] phase = "exit" /\ hk.DeviceEnabled = "ENABLED"    -> AllOff
    [] OTHER                                             -> NoCommands

\* The application is killed, after the first k torquers were commanded: its
\* memory and its open interfaces are lost, what the hardware does is not.
Crash ==
  /\ phase # "ended"
  /\ phase' = "ended"
  /\ \E k \in 0 .. 3, res \in Statuses :
       LET want == [t \in {u \in DOMAIN InProgress : u < k} |-> InProgress[t]]
       IN  /\ Possible(res, open)
           /\ drive' = TrqCommand(drive, want, res)
  /\ suspect' = IF hk.DeviceEnabled = "ENABLED" THEN Torquers ELSE suspect
  /\ hk' = ClearedHk
  /\ noops' = 0
  /\ open' = {}
  /\ pipe' = <<>>
  /\ UNCHANGED <<runStatus, exitReq, tlm>>

\* The executive loads the application again, with its data zeroed.
Restart ==
  /\ phase = "ended"
  /\ phase' = "boot"
  /\ runStatus' = "RUN"
  /\ exitReq' = FALSE
  /\ hk' = ClearedHk
  /\ noops' = 0
  /\ open' = {}
  /\ UNCHANGED <<pipe, tlm, drive, suspect>>

-----------------------------------------------------------------------------

Handlers ==
  \/ RejectPacket
  \/ Noop
  \/ ResetCounters
  \/ EnableCommand
  \/ DisableCommand
  \/ ConfigCommand
  \/ ConfigAllCommand
  \/ ReportHousekeeping

App == AppInit \/ AppInitFails \/ RunLoop \/ Handlers \/ ExitApp

Next ==
  \/ App
  \/ ReceiveError
  \/ \E p \in Inputs : Send(p)
  \/ RequestExit
  \/ Crash
  \/ Restart

\* The application task runs whenever it can; nothing else has to happen.
Spec == Init /\ [][Next]_vars /\ WF_vars(App)

\* What the scheduler sends to ask for housekeeping.
HkRequest ==
  [mid |-> REQ_HK_MID, cc |-> REQ_HK_TLM, lenOk |-> TRUE,
   TrqNum |-> 0, level |-> IdleLevel, levels |-> AllIdle]

===========================================================================
