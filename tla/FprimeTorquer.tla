---------------------------- MODULE FprimeTorquer ----------------------------
(***************************************************************************)
(* The F Prime component Generic_torquer                                   *)
(* (src/fsw/fprime/torquer_src/Generic_torquer.cpp): an active component,  *)
(* whose one thread takes calls off a queue: seven commands, the port      *)
(* TORQin on which an attitude controller sets all torquers, and the port  *)
(* updateTlm on which a rate group asks for telemetry.  Telemetry goes out *)
(* channel by channel, and each handler chooses which ones to write.       *)
(*                                                                         *)
(* One call is one step; the process may die between the hardware commands *)
(* of that step (Die).  Commands are always answered OK, whatever happened *)
(* to them, so the answers are left out.                                   *)
(***************************************************************************)
EXTENDS TorquerDevice, Sequences

CONSTANTS
  Calls,       \* the calls other components may make
  QueueDepth   \* the depth of the component's queue

Commands == {"NOOP", "RESET_COUNTERS", "ENABLE", "DISABLE",
             "REQUEST_HOUSEKEEPING", "ALL_CONFIG", "CONFIG"}

\* A call: one of the commands or ports, with the arguments of CONFIG (short
\* for GENERIC_TORQUER_CONFIG), and those of ALL_CONFIG and TORQin.
Call == [op         : Commands \cup {"TORQin", "updateTlm"},
         torquerNum : Torquers,
         level      : Level,
         levels     : [Torquers -> Level]]

ASSUME ComponentAssumption ==
  /\ Calls \subseteq Call
  /\ QueueDepth \in Nat \ {0}

\* HkTelemetryPkt, without the hwlib devices.
HkTelemetry == [CommandCount      : Counter,
                CommandErrorCount : Counter,
                DeviceCount       : Counter,
                DeviceErrorCount  : Counter,
                DeviceEnabled     : {"DISABLED", "ENABLED"},
                trqHk             : [Torquers -> Level]]

\* The channels carry the same values, or what a receiver starts from.
Channels == [CommandCount      : Counter,
             CommandErrorCount : Counter,
             DeviceCount       : Counter,
             DeviceErrorCount  : Counter,
             DeviceEnabled     : {"NONE", "DISABLED", "ENABLED"},
             trqHk             : [Torquers -> Level]]

\* What the constructor leaves behind: the device is enabled.
ConstructedHk == [CommandCount      |-> 0,
                  CommandErrorCount |-> 0,
                  DeviceCount       |-> 0,
                  DeviceErrorCount  |-> 0,
                  DeviceEnabled     |-> "ENABLED",
                  trqHk             |-> AllIdle]

NoChannels == [ConstructedHk EXCEPT !.DeviceEnabled = "NONE"]

VARIABLES
  phase,   \* whether the component exists: "down" or "up"
  queue,   \* its calls, oldest first
  hk,      \* HkTelemetryPkt
  chan,    \* the telemetry channels as last written
  open,    \* torquers whose interface is open
  drive,   \* what the hardware does
  source,  \* history: who gave a torquer its present drive
  extra    \* history: TORQin calls less NOOPs, modulo the counters

vars == <<phase, queue, hk, chan, open, drive, source, extra>>

\* A command, the port, or none that this process knows of: an earlier
\* process, or a command that should have turned it off and failed.
Sources == {"command", "port", "unknown"}

TypeOK ==
  /\ phase \in {"down", "up"}
  /\ queue \in Seq(Call) /\ Len(queue) <= QueueDepth
  /\ hk \in HkTelemetry
  /\ chan \in Channels
  /\ open \in SUBSET Torquers
  /\ drive \in [Torquers -> Drive]
  /\ source \in [Torquers -> Sources]
  /\ extra \in Counter

Init ==
  /\ phase = "down"
  /\ queue = <<>>
  /\ hk = ConstructedHk
  /\ chan = NoChannels
  /\ open = {}
  /\ drive = AllOff
  /\ source = [t \in Torquers |-> "unknown"]
  /\ extra = 0

-----------------------------------------------------------------------------
(* Construction.                                                           *)

\* The levels are cleared and the device marked enabled, whatever trq_init
\* answers, and with no torquer commanded.  The channel DeviceEnabled is
\* written too, to no effect if the telemetry port is not connected yet.
Construct ==
  /\ phase = "down"
  /\ phase' = "up"
  /\ hk' = ConstructedHk
  /\ chan' \in {NoChannels, ConstructedHk}
  /\ open' \in SUBSET Torquers
  /\ source' = [t \in Torquers |-> IF drive[t] = Off THEN "command" ELSE "unknown"]
  /\ extra' = 0
  /\ UNCHANGED <<queue, drive>>

-----------------------------------------------------------------------------
(* Telemetry.                                                              *)

\* All eleven channels.
WriteAll == chan' = hk'

\* What NOOP writes.
WriteNoop ==
  chan' = [chan EXCEPT !.CommandCount = hk'.CommandCount,
                       !.DeviceEnabled = hk'.DeviceEnabled]

\* Mutant: the counter of refused commands is left out.
WriteCountersButErrors ==
  chan' = [hk' EXCEPT !.CommandErrorCount = chan.CommandErrorCount,
                      !.DeviceEnabled = chan.DeviceEnabled,
                      !.trqHk = chan.trqHk]

\* What RESET_COUNTERS writes.
WriteCounters ==
  chan' = [hk' EXCEPT !.DeviceEnabled = chan.DeviceEnabled, !.trqHk = chan.trqHk]

\* What updateTlm writes: neither the command counters nor the enabled state.
\* Mutant: the levels are left out as well.
WriteDeviceCounters ==
  chan' = [chan EXCEPT !.DeviceCount = hk'.DeviceCount,
                       !.DeviceErrorCount = hk'.DeviceErrorCount]

WriteDevice ==
  chan' = [chan EXCEPT !.DeviceCount = hk'.DeviceCount,
                       !.DeviceErrorCount = hk'.DeviceErrorCount,
                       !.trqHk = hk'.trqHk]

-----------------------------------------------------------------------------
(* Handlers.                                                               *)

call == Head(queue)

Dispatch(op) ==
  /\ phase = "up"
  /\ queue # <<>>
  /\ call.op = op
  /\ queue' = Tail(queue)
  /\ UNCHANGED <<phase, open>>

CountDevice(ok, counted, levels) ==
  [counted EXCEPT !.DeviceCount      = IF ok THEN Inc(@) ELSE @,
                  !.DeviceErrorCount = IF ok THEN @ ELSE Inc(@),
                  !.trqHk            = levels]

CountCommand == [hk EXCEPT !.CommandCount = Inc(@)]

CountRefusal ==
  /\ hk' = [hk EXCEPT !.CommandErrorCount = Inc(@)]
  /\ UNCHANGED <<drive, source>>

\* All torquers are turned off, and answer res.
\* Mutant: the loop starts at torquer 1.
TurnOffLastTwo(res) ==
  LET want == [t \in 1 .. 2 |-> Off]
  IN  /\ drive' = TrqCommand(drive, want, res)
      /\ source' = [t \in Torquers |-> IF res[t] = OS_SUCCESS THEN "command" ELSE "unknown"]

TurnOff(res) ==
  /\ drive' = TrqCommand(drive, AllOff, res)
  /\ source' = [t \in Torquers |-> IF res[t] = OS_SUCCESS THEN "command" ELSE "unknown"]

\* The torquers in the domain of want are given a level by `who`.
Configure(who, want, res) ==
  /\ drive' = TrqCommand(drive, want, res)
  /\ source' = [t \in Torquers |-> IF t \in DOMAIN want /\ res[t] = OS_SUCCESS
                                   THEN who ELSE source[t]]

Noop ==
  /\ Dispatch("NOOP")
  /\ hk' = CountCommand
  /\ extra' = IF extra = 0 THEN CounterMod - 1 ELSE extra - 1
  /\ WriteNoop
  /\ UNCHANGED <<drive, source>>

ResetCounters ==
  /\ Dispatch("RESET_COUNTERS")
  /\ hk' = [hk EXCEPT !.CommandCount = 0, !.CommandErrorCount = 0,
                      !.DeviceCount = 0,  !.DeviceErrorCount = 0]
  /\ extra' = 0
  /\ WriteCounters
  /\ UNCHANGED <<drive, source>>

Enable ==
  /\ Dispatch("ENABLE")
  /\ \/ /\ hk.DeviceEnabled = "DISABLED"
        /\ \E res \in Statuses :
             LET ok == Sum(res) = OS_SUCCESS
             IN  /\ Possible(res, open)
                 /\ TurnOff(res)
                 /\ hk' = [CountDevice(ok, CountCommand, AllIdle) EXCEPT
                             !.DeviceEnabled = IF ok THEN "ENABLED" ELSE "DISABLED"]
     \/ /\ hk.DeviceEnabled = "ENABLED"
        /\ CountRefusal
  /\ WriteAll
  /\ UNCHANGED extra

\* What the hardware answers is not looked at.
\* Mutant: the component stays enabled if a torquer refuses.
AfterDisableChecked(res) == IF Sum(res) = OS_SUCCESS THEN "DISABLED" ELSE "ENABLED"

AfterDisable(res) == "DISABLED"

Disable ==
  /\ Dispatch("DISABLE")
  /\ \/ /\ hk.DeviceEnabled = "ENABLED"
        /\ \E res \in Statuses :
             /\ Possible(res, open)
             /\ TurnOff(res)
             /\ hk' = [CountDevice(TRUE, CountCommand, AllIdle) EXCEPT
                         !.DeviceEnabled = AfterDisable(res)]
     \/ /\ hk.DeviceEnabled = "DISABLED"
        /\ CountRefusal
  /\ WriteAll
  /\ UNCHANGED extra

RequestHousekeeping ==
  /\ Dispatch("REQUEST_HOUSEKEEPING")
  /\ UNCHANGED <<hk, drive, source, extra>>
  /\ WriteAll

\* The levels after `wanted` were asked of all three torquers.
Configured(wanted, res) ==
  [t \in Torquers |-> Config(hk.trqHk[t], wanted[t], res[t])]

\* Mutant: in the reverse order.
AllDrivesReversed(wanted) == [t \in Torquers |-> DriveOf(wanted[2 - t])]

AllDrives(wanted) == [t \in Torquers |-> DriveOf(wanted[t])]

\* Mutant: the configuration commands do not ask whether the device is enabled.
ReadyAlways == TRUE

Ready == hk.DeviceEnabled = "ENABLED"

AllConfig ==
  /\ Dispatch("ALL_CONFIG")
  /\ \/ /\ Ready
        /\ \E res \in Statuses :
             /\ Possible(res, open)
             /\ Configure("command", AllDrives(call.levels), res)
             /\ hk' = CountDevice(Sum(res) = OS_SUCCESS, CountCommand,
                                  Configured(call.levels, res))
     \/ /\ ~Ready
        /\ CountRefusal
  /\ WriteAll
  /\ UNCHANGED extra

ConfigOne ==
  /\ Dispatch("CONFIG")
  /\ \/ /\ Ready
        /\ \E res \in Statuses :
             LET n == call.torquerNum
             IN  /\ Possible(res, open)
                 /\ Configure("command", [t \in {n} |-> DriveOf(call.level)], res)
                 /\ hk' = CountDevice(res[n] = OS_SUCCESS, CountCommand,
                                      [hk.trqHk EXCEPT
                                         ![n] = Config(@, call.level, res[n])])
     \/ /\ ~Ready
        /\ CountRefusal
  /\ WriteAll
  /\ UNCHANGED extra

\* TORQin does not ask whether the device is enabled, counts no command, and
\* writes no channel.
\* Mutant: it counts its success only.
CountPortSuccess(ok, levels) ==
  [hk EXCEPT !.DeviceCount = IF ok THEN Inc(@) ELSE @, !.trqHk = levels]

CountPort(ok, levels) == CountDevice(ok, hk, levels)

TORQin ==
  /\ Dispatch("TORQin")
  /\ \E res \in Statuses :
       /\ Possible(res, open)
       /\ Configure("port", AllDrives(call.levels), res)
       /\ hk' = CountPort(Sum(res) = OS_SUCCESS, Configured(call.levels, res))
  /\ extra' = Inc(extra)
  /\ UNCHANGED chan

UpdateTlm ==
  /\ Dispatch("updateTlm")
  /\ UNCHANGED <<hk, drive, source, extra>>
  /\ WriteDevice

-----------------------------------------------------------------------------
(* The surroundings: other components, and the end of the process.         *)

\* Nothing of the component is left; the hardware stays as it is.
Gone ==
  /\ phase' = "down"
  /\ queue' = <<>>
  /\ hk' = ConstructedHk
  /\ chan' = NoChannels
  /\ open' = {}
  /\ source' = [t \in Torquers |-> "unknown"]
  /\ extra' = 0

\* What the call being handled asks of the hardware.
InProgress ==
  IF queue = <<>>
  THEN [t \in {} |-> Off]
  ELSE CASE call.op = "ENABLE" /\ ~Ready   -> AllOff
         [] call.op = "DISABLE" /\ Ready   -> AllOff
         [] call.op = "CONFIG" /\ Ready    -> [t \in {call.torquerNum} |-> DriveOf(call.level)]
         [] call.op = "ALL_CONFIG" /\ Ready -> AllDrives(call.levels)
         [] call.op = "TORQin"             -> AllDrives(call.levels)
         [] OTHER                          -> [t \in {} |-> Off]

\* The process dies, after the first k torquers were commanded.
Die ==
  /\ Gone
  /\ LET due == InProgress
     IN  \E k \in 0 .. 3, res \in Statuses :
           /\ Possible(res, open)
           /\ drive' = TrqCommand(drive, [t \in {u \in DOMAIN due : u < k} |-> due[t]], res)

Crash == phase = "up" /\ Die

\* The destructor closes the interfaces, and commands nothing.
Destroy ==
  /\ phase = "up"
  /\ Gone
  /\ UNCHANGED drive

\* Another component calls.
Invoke(c) ==
  /\ phase = "up"
  /\ Len(queue) < QueueDepth
  /\ queue' = Append(queue, c)
  /\ UNCHANGED <<phase, hk, chan, open, drive, source, extra>>

\* Another component calls, and the queue is full.  The calls are declared
\* async, with nothing said of this case: F Prime then asserts.
Overflow ==
  /\ phase = "up"
  /\ Len(queue) = QueueDepth
  /\ Die

-----------------------------------------------------------------------------

Handlers ==
  \/ Noop
  \/ ResetCounters
  \/ Enable
  \/ Disable
  \/ RequestHousekeeping
  \/ AllConfig
  \/ ConfigOne
  \/ TORQin
  \/ UpdateTlm

Next ==
  \/ Construct
  \/ Handlers
  \/ \E c \in Calls : Invoke(c)
  \/ Overflow
  \/ Crash
  \/ Destroy

\* The component's thread runs whenever it can.
Spec == Init /\ [][Next]_vars /\ WF_vars(Handlers)

\* The rate group also calls again and again.
RateGroupCall ==
  [op |-> "updateTlm", torquerNum |-> 0, level |-> IdleLevel, levels |-> AllIdle]

RateGroupSpec == Spec /\ WF_vars(Invoke(RateGroupCall) \/ Overflow)

=============================================================================
