# Generic torquer: a TLA+ model

TLA+ models of the NOS3 Generic Torquer component: the flight software that
switches three magnetic torquers on and off and sets their levels, and what
surrounds it. TLC checks the models on small instances; TLAPS proves the
safety properties and the refinements for every instance, and the liveness
properties from the fact that no component is ever stuck.

## 1. The system

```
 ground scripts --cmd/tlm--> software bus --pipe--> cFS app --\
 (gsw)                       (cFE)                  (fsw/cfs)  \
                                                                hwlib --UDP--> simulator --> 42
 other F Prime components --ports, commands--> F Prime -------/  (external)    (sim)
                                               component
                                               (fsw/fprime)
```

| Component | State it keeps | Operations | Talks to |
|---|---|---|---|
| Device layer, `fsw/shared` | none; works on a telemetry entry and an hwlib device | `GENERIC_TORQUER_Config` | hwlib `trq_command` |
| cFS application, `fsw/cfs/src` | `RunStatus`, the housekeeping packet (four uint8 counters, enabled flag, level of each torquer), three hwlib devices, the command pipe | init, main loop, NOOP, RESET, ENABLE, DISABLE, CONFIG, CONFIG_ALL, housekeeping request, exit | software bus, executive, hwlib |
| F Prime component, `fsw/fprime` | the same counters, flag and levels; a message queue; telemetry channels | seven commands, `TORQin`, `updateTlm`, constructor, destructor | its queue, telemetry, hwlib |
| Simulator, `sim` | a UDP socket, `_enabled`, `_keep_running`, the connection to 42 | `run` loop, `command_callback` in the command bus thread | hwlib by UDP, 42 by TCP, the command bus |
| Ground library and scripts, `gsw` | the last housekeeping packet, the count aimed at | send a command up to three times, ask for housekeeping, compare counters | software bus over a lossy link |
| Standalone checkout, `fsw/standalone` | the console line, the level of torquer 0 | parse, command a torquer | hwlib |

What is hard about it:

* the hardware can refuse any command, and the software only keeps a copy of
  what it was told: three torquers are commanded one after the other and any of
  them may fail (Enable, Disable, CONFIG_ALL);
* the application can be killed between two of those commands. The coil keeps
  its current, the restarted application knows nothing of it;
* `trq_init` may fail at start-up and its status is ignored;
* in the F Prime component a controller sets all torquers through `TORQin`, which
  asks nothing of the enabled flag, between the commands of ground; each handler
  writes its own choice of telemetry channels; a full queue ends the process;
* the task pends forever on its pipe, so an exit request waits for a packet;
  the pipe is of limited depth and drops what does not fit;
* the counters are bytes that wrap one by one, and ground judges success by
  their differences, over a link that loses and delays, from packets that may
  have been asked for by somebody else, sending again what may have arrived;
* the simulator reads one datagram per tick, and is told to stop by another
  thread;
* the checkout does not notice the end of its input.

What makes each component correct:

* device layer: the reported level changes exactly when the hardware accepted;
* cFS application: enabled means telemetry is true and all interfaces are
  there; disabled means undriven as far as the hardware obeys; nothing but
  CONFIG and CONFIG_ALL drives a coil; every packet counts once; the pipe is
  served; an exit request is honoured;
* F Prime component: the levels kept are true of every torquer the process has
  a hold on; disabled means that no command drives a torquer (`TORQin` is
  outside the guard); telemetry channels follow the state, each in its time;
* simulator: what 42 applies is what was last commanded, for each torquer, or
  will be; STOP stops it;
* ground: a procedure that passes had its command executed, once, and has seen
  the device as it should be; every procedure ends;
* checkout: what it prints is what the coil does; it commands nothing by itself.

## 2. The modules

| Module | What it is |
|---|---|
| `TorquerLevels` | levels as asked for and reported, drives as the coils have them |
| `TorquerDevice` | no state: what hwlib answers and does, `Config`, the byte counters |
| `TorquerBank` | abstract: what a program that owns torquers does to them |
| `CommandService` | abstract: what a program does with commands from the ground |
| `TorquerApp` | the cFS application and its surroundings; implements both |
| `FprimeTorquer` | the F Prime component and its surroundings; implements `TorquerBank` |
| `Checkout` | the console program; implements `TorquerBank` |
| `TorquerSim` | the simulator, between the flight software's datagrams and 42 |
| `GroundCmd` | the ground procedures, at work on `CommandService` |
| `*Properties` | the properties of each of these five state machines |
| `MC*` | the inputs of their runs |
| `*_proofs` | lemmas and theorems; `TorquerAppService_proofs` has the second refinement of `TorquerApp` |

How they fit together:

```
   GroundCmd --extends--> CommandService <--implements-- TorquerApp --implements--> TorquerBank
                                                                    FprimeTorquer --^   ^
                                                                                Checkout-'
   TorquerSim: its commands are the Drive that TorquerApp, FprimeTorquer and Checkout give
```

### TorquerDevice

A torquer is *driven* with a percentage and a sign, and *reported* with two
bytes; `DriveOf` is the conversion the call makes (`uint8_t` to `bool`, so a
direction of 2 is positive, and is reported as 2). `TrqCommand(drive, want,
res)` is `trq_command` called once for every torquer of `want`, answering
`res`. hwlib is not in the repository. What is assumed of it: a refused command
has not changed the hardware, an accepted one did as asked, and a torquer whose
interface never opened refuses. `ErrorAssumption` says that error codes have
one sign; Enable and CONFIG_ALL add three of them up before comparing with
`OS_SUCCESS`, and the repository's README documents the single code 1. Codes
that cancel in the sum are therefore outside the model, and no property here
speaks of them: whether hwlib has such codes cannot be told from the
repository. The
counters count modulo `CounterMod`, 256 in the code.
`TorquerLevels` holds the part of this that needs no constants.

### TorquerApp

| State | In the code |
|---|---|
| `phase` | where `TORQUER_AppMain` is |
| `runStatus` | `RunStatus` |
| `pipe` | the command pipe, oldest packet first |
| `hk` | `HkTelemetryPkt` |
| `tlm` | the last packet given to `CFE_SB_TransmitMsg`, with the CCSDS count the bus stamps on it |
| `open` | the torquers `trq_init` opened and `trq_close` did not close |
| `drive` | what the hardware does |
| `exitReq` | the executive's request, seen by `CFE_ES_RunLoop` |
| `noops`, `suspect` | history, read by properties only: NOOPs counted since the counters were cleared; torquers whose last command failed, or that an application killed while enabled left behind |

| Action | In the code |
|---|---|
| `AppInit`, `AppInitFails` | `AppInit` to its end, its early returns |
| `RunLoop`, `ReceiveError` | the condition of the loop, a failed `CFE_SB_ReceiveBuffer` |
| `Noop` ... `ConfigAllCommand` | `ReceiveBuffer`, the two switches, and one ground command with all that it calls |
| `RejectPacket` | both default cases of the codes, the one of the message ID, and `VerifyCmdLength` when it fails |
| `ReportHousekeeping` | the housekeeping request |
| `ExitApp` | everything after the loop |
| `Send` | another application sends a packet to the pipe; a full pipe drops it |
| `RequestExit`, `Crash`, `Restart` | the executive and its failures |

One packet is one step, because one task processes it and shares nothing while
it does. What can fall between the three hardware commands of such a step is a
crash, and `Crash` contains that: it performs the first k of them (`InProgress`
says which are due), and then everything in memory is lost and `drive` stays.
A packet abstracts the bytes of the message: `lenOk` stands for the comparison
of `VerifyCmdLength`, and the values keep their width of a byte. Events, time
stamps, the performance log and the constant `TorquerPeriod` are left out.

### FprimeTorquer

| State | In the code |
|---|---|
| `phase` | whether the component is constructed |
| `queue` | the message queue of the active component, with the arguments of each call |
| `hk` | `HkTelemetryPkt`, without the hwlib devices |
| `chan` | what was last written to each of the eleven channels; the flag starts as `"NONE"`, never written |
| `open`, `drive` | as in `TorquerApp` |
| `source`, `extra` | history, read by properties only: who gave each torquer its drive, and `TORQin` calls less NOOPs since the counters were cleared |

| Action | In the code |
|---|---|
| `Construct`, `Destroy` | the constructor, the destructor |
| `Noop` ... `ConfigOne` | the seven command handlers; `CONFIG` is `GENERIC_TORQUER_CONFIG` |
| `TORQin`, `UpdateTlm` | the two port handlers |
| `Invoke` | another component calls a port or sends a command |
| `Overflow` | it does so when the queue is full. The calls are declared `async` with no policy for that, and F Prime's default is to assert |
| `Crash` | the process is killed |

The component's one thread takes a call off the queue and runs its handler
before it takes another, so a call is a step. As in `TorquerApp`, the process
may die between the hardware commands of that step (`Die`). That holds of
`Overflow` too, since the assertion fails in the thread of the caller.

Where it differs from the cFS application, and the model with it:

* it starts *enabled*, whatever `trq_init` answered (`Generic_torquer.cpp:59`),
  with zero levels and without turning a torquer off. Every restart does that
  again, so a component that was disabled comes back enabled;
* `TORQin` does not look at the flag (line 353), so "disabled" does not mean
  undriven, and what is driven while disabled is driven by the port;
* the destructor closes all three interfaces, and turns nothing off (line 65);
* telemetry goes out in channels. NOOP, RESET_COUNTERS and `updateTlm` write
  some of them, `TORQin` none, the other handlers all eleven;
* commands are answered OK whatever happened to them. An answer that never
  varies carries no information and is left out, as events are.

The constructor writes the channel `DeviceEnabled`; whether the telemetry port
is connected by then is for the topology, which is not in the repository, so
both are allowed. `torquerNum` is an enumeration, so F Prime refuses any other
value before the handler, and a CONFIG of torquer 3 does not exist here.

### TorquerBank and CommandService

Two abstract specifications say what the programs have in common, each seen
from one side.

`TorquerBank` is the side of the coils: the program is on or off, it reports a
level per coil, and reports and coils move together by `Start`, `SwitchOn`,
`SwitchOff`, `Set` and `End`. A coil that refuses keeps what it had, in the
coil and in the report. The three programs are instances with different
constants: whether they come up on (`AutoStart`), and whether there is a way
around the switch (`HasPort`). In each `*Properties` module, `Bank` gives the
refinement mapping and `ActsAsBank` the claim. For the cFS application "on" is
`DeviceEnabled`; for F Prime it is that too, while a component is constructed;
for the checkout it is being in the loop. What the mapping shows beyond the
invariants of each program: no step, of start-up, exit, crash or reset either,
changes a report without its coil or a coil without its report, other than as
one of these five.

`CommandService` is the side of the ground: commands wait in a queue and are
taken in order; an accepted one moves the count on by one and may switch the
device; a refused one does neither; a report says both as they are. `Flight`
in `TorquerAppProperties` gives the mapping, by which any packet of wrong
length, code, ID or torquer is `"BAD"`, and `ServesCommands` the claim. Its
second part says that a packet is sent by no step but the report, with what is
true then. While the application is down nobody sees its count, and the mapping
takes it for 0. This is what makes `GroundCmd` say something about the flight
software: its flight side is not a second model of it, but a specification
that the model was shown to implement.

### TorquerSim

| State | In the code |
|---|---|
| `pc` | where `run()` is: at the test of its loop, in its body, after it; no process |
| `running`, `enabled` | `_keep_running`, `_enabled` |
| `net` | the receive buffer of the socket |
| `mcmd` | in 42, which is external: the moment it applies, in percent of the largest |
| `drive` | the last command for which hwlib reported success |
| `unsure`, `late` | history: torquers whose last command the network did not deliver in order; torques passed on after STOP |

| Action | In the code |
|---|---|
| `Construct`, `Destroy` | constructor and destructor |
| `EnterBody`, `LeaveLoop`, `Receive` | the test of `run()`'s loop; its body; the close behind it |
| `Enable`, `Disable`, `Stop` | `command_callback`, in the thread of the command bus |
| `Arrive`, `Lose`, `Overtake`, `Stray` | a `trq_command` and what UDP makes of its datagram; a datagram of somebody else |
| `Die` | the process is killed |

The test of the loop and its body are two steps, so that the callback can fall
between them. `_keep_running` is a `bool` of the base class, whose source is
not here; its write is taken to be one step, seen by the next test. The scaling
with `_max_trq` is the same factor on both sides and is left out; the levels
refused are not. hwlib is taken to send a datagram whenever `trq_command`
succeeds, with the sign of the direction.

### GroundCmd

| State | In the code |
|---|---|
| `pipe`, `count`, `enabled` | the flight side, from `CommandService` |
| `air` | housekeeping packets on their way down |
| `tlm` | what `tlm(...)` and `check(...)` read: the last packet |
| `proc`, `pc` | the procedure, and its next statement |
| `tries`, `target`, `initial` | how often it sent the command; `count` in `generic_torquer_cmd`; `cmd_cnt_initial` |
| `quiet`, `calm`, `done`, `seen` | history of one call, read by properties only |

| Action | In the code |
|---|---|
| `Call`, `Return` | a procedure is called, and is over |
| `Send`, `Ask`, `Wait`, `Look`, `CheckCount`, `Confirm` | the statements of `generic_torquer_cmd` and `get_generic_torquer_hk`, and the checks of their callers |
| `StartCommand` | `generic_torquer_cmd` begins for `safe` and `confirm`: it reads `CMD_COUNT` for itself, and another packet may have come down since `Look` read the state or the count |
| `TimeOut` | `wait_check_packet` gives up, which fails the procedure |
| `ComeDown` | a packet arrives, asked for by whoever |
| `Execute`, `Answer`, `Restart`, `OthersAsk` | the flight side |

A command or a request may be lost on its way up (`Uplink`), a packet on its
way down. `quiet` is what must be assumed for anything to follow from a count:
when the procedure was called, nothing was on its way, and the packet it works
out its target from was current. `calm` adds that since then nobody else asked for
housekeeping, and the application stayed up. The ground compares `CMD_COUNT >=
target` and resends on `CMD_COUNT # target`, and so does the model.

### Checkout

| State | In the code |
|---|---|
| `phase` | where `main` is |
| `buf`, `eof` | `input_buf`; whether `fgets` fails from now on |
| `trqHk`, `drive` | `trqHk`; what the coil does |
| `fresh`, `known` | history: `buf` was never read into; what the coil does is known |

A line is what `get_command` and `atoi` make of it. `ReadLine` and `ReadEnd` are one
turn of the loop with and without a line: `fgets` leaves the buffer alone at
the end of the input, and `strtok` has cut the line there to its first token,
so that the turn repeats the command without arguments. The buffer starts
uninitialised, as any line.

## 3. The runs

The cFS runs use one negative error code and the F Prime runs one positive.
Under `ErrorAssumption` the sums only show whether any of three calls failed, so
a second code of the same sign adds nothing; one of the other sign is excluded
by the assumption.

| Run | Question | Instance |
|---|---|---|
| `drive` | what the hardware does, is reported and counted to do, and who changes it | six commands: ENABLE, DISABLE, CONFIG of torquers 0, 2 and of a torquer 3 that does not exist, CONFIG_ALL with mixed levels; pipe of 1; counters modulo 2 |
| `count` | the four counters as they wrap, and packets that are dropped | every way to be accepted, refused, reset or not counted; pipe of 1; counters modulo 3 |
| `queue` | what is in the pipe is acted on | ENABLE, DISABLE, housekeeping in any order; pipe of 2 |
| `fprime` | what the hardware does, is kept and told to do, and who changes it; the counters and channels | all nine handlers; ALL_CONFIG and `TORQin` with different levels per torquer; queue of 1; counters modulo 2 |
| `fprime_queue` | what is queued is acted on, telemetry catches up | ENABLE, DISABLE, `TORQin`, `updateTlm` in any order; queue of 2 |
| `checkout` | what is printed, what happens at the end of the input | seven lines: two torques, one of them out of a byte's range, one short of an argument, and every other kind |
| `sim` | what 42 applies, and when it stops | two torquers simulated and a third commanded; levels of both signs and one of 101; buffer of 3 |
| `ground` | what passing means, and how often is commanded | all five procedures; queue of 2, one packet on its way down; counts modulo 4 |
| `disable_sets_to_zero` | finding 1 | as `drive` |
| `exit_cleans_up` | finding 2 | as `queue` with a pipe of 1 |
| `sim_disable` | finding 3 | as `sim` |
| `ground_wrap` | finding 4 | as `ground` |

Why the bounds are enough. In `drive` a packet's effect does not depend on
what is queued behind it, so a pipe of one lets the same commands arrive in
every order; two levels that differ in percent and sign, on two torquers and on
all three, tell a mixed-up torquer or field from a right one. In `count` a
modulus of 3 is the smallest at which a counter can be one behind, equal or one
ahead without two of these being the same; the theorem does away with the
bound. In `queue` a pipe of two is the smallest where a packet waits behind
another and a third is dropped. Sequence counts are taken modulo 2, which is
enough to see that a new packet went out. The F Prime runs follow the same
reasoning: a queue of one gives every order of the calls, a queue of two lets a
DISABLE wait behind an ENABLE and overflow at the third call. In `fprime`
the balance is checked modulo 2 only, where an error of two cancels; the
theorem holds for every modulus.

In `sim` three places let two datagrams for a torquer wait, one overtake the
other, and a refused one stand between them. In `ground` a queue of two holds
the command and the request, and another's request in place of one of them; a
count modulo 4 is wide enough for three executions of one command to differ,
and wraps. One packet at a time comes down in the run; with two, the invariants
of the proofs were checked as well, and the theorems hold for any number.

Fairness. In `TorquerApp`, `Spec` assumes weak fairness of the application's
own steps only (`App`: the task is scheduled), never of packets, exit requests,
failures or restarts. `ExitHonoured` needs more, and says so itself: *if* the
scheduler keeps sending housekeeping requests, as cFS's scheduler does. Without
that it is false, since the task pends with no timeout (`CFE_SB_PEND_FOREVER`).

In `FprimeTorquer`, `Spec` assumes weak fairness of the handlers: the
component's thread runs while there is a call. `RateGroupSpec` adds that the
rate group goes on calling `updateTlm`, which is what a rate group does; if the
queue is full, that call is an `Overflow`. Without it `TelemetryCatchesUp` is
false. Both F Prime liveness properties allow the process to end instead,
by a crash, the destructor or an overflow.

In `TorquerSim` it is the thread of `run()` that is scheduled, and nothing is
assumed of the network: `CatchesUp` is about commands that did reach the
buffer. In `GroundCmd` it is the script that goes on, and a wait that ends by
its timeout; nothing is assumed of the link or of the flight software.

No system stops: an ended program can be started again and a procedure
called again, so deadlock is checked in every run.

### Properties

* `EnabledTelemetryIsTrue`, `DisabledReportsIdle`: the copy in housekeeping
  against the hardware, in the two states of the device.
* `DisabledIsUndriven`: the strongest thing that can be said of a disabled
  device. The exception is `suspect`: a refused command, or a crash while
  enabled.
* `EnabledNeedsInterfaces`, `DormantIsDisabled`: the enabled flag against the
  interfaces and against the life cycle.
* `OnlyConfigDrives`: an action property; what may drive a coil.
* `CountersBalance`, `EveryPacketCounted`: the arithmetic ground relies on. The
  second is an action property: a packet that is consumed moves one command
  counter, and a step of the loop that consumes none moves no counter, so a
  packet dropped by a full pipe leaves no trace.
* `OutcomeCounted`: an action property; what the device counters say of the
  hardware. A packet that reaches the torquers counts as a device success if and
  only if none refused, as an error if and only if one did, and every torquer
  that did not refuse does as asked. DISABLE, which counts a success whatever
  happens, is the exception that finding 1 is about.
* `ActsAsBank`, `ServesCommands`: the two refinements.
* `DisableTakesEffect`, `HousekeepingAnswered`, `ExitHonoured`: liveness.

For the F Prime component:

* `KnownLevelsAreTrue`: the levels kept against the hardware, enabled or not,
  whoever set them. The exceptions are torquers an earlier process left driven
  and those that refused to be turned off by ENABLE or DISABLE;
* `DisabledDrivesByPortOnly`: what the flag does promise here;
* `OnlyAskedDrives`: an action property; what may drive a coil;
* `CommandChannelsCurrent`: the channels `updateTlm` leaves out are never
  behind, because every other handler that changes them writes them;
* `DeviceCountersBalance`: the device counters against accepted commands and
  port calls;
* `ActsAsBank`: the refinement;
* `DisableHappens`, `TelemetryCatchesUp`: liveness.

For the other three:

* `HkIsTrue`, `SilentAtEnd`, `ActsAsBank`: the checkout's print against its
  coil; that the loop that goes on for ever at the end of the input does
  nothing to it; the refinement;
* `LastWord`: 42 against the flight software, with what waits in the buffer in
  between; `StopBoundsTorque`: one torque at most after STOP; `CatchesUp`:
  liveness of the same;
* `PassedIsExecuted`, `StateWasSeen`: what a procedure that passes has shown;
  they need `quiet` and not `calm`, so restarts and others' packets do not
  break them. `ExecutedOnce` and `VerdictsAreRight` need both: a packet that another
  asked for may leave before the command arrives, show the old count, and have
  the command sent again. `VerdictsAreRight` is about the moment a procedure
  judges: the packet that it reads is how things are, the count is as aimed if
  and only if the command was executed, so there is neither a false alarm nor a
  false pass, the second check of `confirm` agrees with the first, and an
  executed DISABLE is seen, all unless the count wraps. `ExecutedAtMostSent` needs `quiet` only: whatever
  others do, a procedure's command is executed at most once per try.
  `CallEnds`: liveness.

### Findings

1. `DisableSetsToZero`. `GENERIC_TORQUER_Disable` drops the status of
   `trq_command` (`generic_torquer_app.c:521`, under the comment "Set to zero"),
   then counts a success and reports a disabled device with zero levels. TLC
   shows a torquer still driven. A second DISABLE is refused as "already
   disabled"; only a later ENABLE turns the coil off. How far this goes is
   proved: `DisableTurnsOffUnlessSuspect` (only torquers whose command failed
   are left driven) and `OnlyEnableRecovers` (nothing else reaches a torquer
   while the device is disabled).
2. `ExitCleansUpInterface`. The comment at `generic_torquer_app.c:81` says that
   disabling on exit "cleans up the interface"; `trq_close` is called for
   torquer 0 only, the other two stay open. The TODO at line 85 shows that the
   place of the call is provisional. What does hold at the end is proved by
   `EndedLeavesSuspects`: interface 0 is closed, and only suspect torquers are
   driven.

3. `DisabledDoesNotTorque`. The simulator's DISABLE sets `_enabled`
   (`generic_torquer_hardware_model.cpp:172`), which nothing reads. The script
   `generic_torquer_ast_test.py:30` says "Disable sim and confirm device error
   counts increase", under "Hardware failure". A disabled simulator torques as
   before, and the flight software could not tell.
4. `NoopConfirmsIncrement`. After a count of 255 the procedure aims at 0, and
   `check CMD_COUNT >= 0` (`generic_torquer_lib.py:51`) holds whatever comes.
   `generic_torquer_app_test.py:36` says "NOOP, no operation but confirm correct
   counters increment"; at the wrap a NOOP that was lost three times passes.
   `FalsePassIsTheWrap` proves that it is only there: a procedure passes with
   its command unexecuted only if the count wraps, or if it is
   `safe_generic_torquer` and needed no command.

## 4. The proofs

Every safety property and refinement is proved from the assumptions on the
constants that its module names, and no others: any set of packets, calls,
lines or commands, any depth and any width. The liveness properties have two
hypotheses more, given below. Each of the five programs has its
`TypeCorrect`; the table lists two of them.

| Module | Theorem | Property |
|---|---|---|
| `TorquerApp_proofs` | `TypeCorrect` | `TypeOK` |
| | `EnabledTelemetryHolds` | `EnabledTelemetryIsTrue` |
| | `DisabledReportsHolds`, `DisabledHolds` | `DisabledReportsIdle`, `DisabledIsUndriven` |
| | `EnabledNeedsInterfacesHolds`, `EnabledOnlyWhileRunning` | `EnabledNeedsInterfaces`, `DormantIsDisabled` |
| | `CountersBalanceHolds` | `CountersBalance` |
| | `OnlyConfigDrivesHolds` | `OnlyConfigDrives` |
| | `EveryPacketCountedHolds`, `OutcomeCountedHolds` | `EveryPacketCounted`, `OutcomeCounted` |
| | `ActsAsBankHolds` | `ActsAsBank` |
| | `DisableTakesEffectHolds`, `HousekeepingAnsweredHolds`, `ExitHonouredHolds` | `DisableTakesEffect`, `HousekeepingAnswered`, `ExitHonoured` |
| `TorquerAppService_proofs` | `ServesCommandsHolds` | `ServesCommands` |
| `FprimeTorquer_proofs` | `TypeCorrect` | `TypeOK` |
| | `KnownLevelsHold` | `KnownLevelsAreTrue` |
| | `DisabledHolds` | `DisabledDrivesByPortOnly` |
| | `CommandChannelsHold` | `CommandChannelsCurrent` |
| | `DeviceCountersBalanceHolds` | `DeviceCountersBalance` |
| | `OnlyAskedDrivesHolds` | `OnlyAskedDrives` |
| | `ActsAsBankHolds` | `ActsAsBank` |
| | `DisableHappensHolds`, `TelemetryCatchesUpHolds` | `DisableHappens`, `TelemetryCatchesUp` |
| `TorquerBank_proofs` | `OnIsTrueHolds` | `OnIsTrue`, of the abstract bank |
| `Checkout_proofs` | `HkIsTrueHolds`, `SilentAtEndHolds`, `ActsAsBankHolds` | `HkIsTrue`, `SilentAtEnd`, `ActsAsBank` |
| `TorquerSim_proofs` | `StopBounds`, `LastWordHolds` | `StopBoundsTorque`, `LastWord` |
| | `CatchesUpHolds` | `CatchesUp` |
| `GroundCmd_proofs` | `PassedIsExecutedHolds`, `StateWasSeenHolds` | `PassedIsExecuted`, `StateWasSeen` |
| | `ExecutedOnceHolds`, `VerdictsAreRightHolds` | `ExecutedOnce`, `VerdictsAreRight` |
| | `ExecutedAtMostSentHolds`, `CallEndsHolds` | `ExecutedAtMostSent`, `CallEnds` |
| | `FlightSideIsService` | `Service`, of `CommandService` |

Other theorems say more than a run does: how far a finding goes, what makes a
claim untrue and what makes it true again. None is a property of a run. TLC
checked each statement on the instances of the runs before it was proved.

| Module | Theorem | What it says |
|---|---|---|
| `TorquerApp_proofs` | `DisableTurnsOffUnlessSuspect` | a counted Disable turns off every torquer that is not suspect afterwards |
| | `OnlyEnableRecovers` | while the device is disabled only an ENABLE, processed or cut short by a crash, changes what a torquer does, and it turns torquers off |
| | `EndedLeavesSuspects` | after an exit or a crash interface 0 is closed, and only suspect torquers are driven |
| | `PacketsTellTheTruth` | each packet is true when it goes out: every level if it says ENABLED; idle, and nothing driven but suspects, if it says DISABLED |
| | `BankReportsTruth` | what implements `TorquerBank` has `EnabledTelemetryIsTrue`: the abstract specification is strong enough |
| `FprimeTorquer_proofs` | `OnlyPortLags` | only `TORQin` makes the device channels fall behind |
| | `ChannelsTellTheTruth` | while they are not behind, they carry what the hardware does |
| `GroundCmd_proofs` | `FalsePassIsTheWrap` | a pass without execution is the wrap, or a `safe` that had nothing to send |

**TorquerApp.** `IInv` is `TypeOK`, the four device invariants, the balance of
the counters, and `DormantIsDisabled`. None of the device invariants is
inductive alone: `AppInit` may leave any interface closed, so
`EnabledNeedsInterfaces` survives it only because a device that boots is
disabled, which is `DormantIsDisabled`; the telemetry of an enabled device is
right after Enable only because the device was idle in telemetry before. The
lemma `SumIsSuccess` is where `ErrorAssumption` is used: a sum of statuses of one
sign is `OS_SUCCESS` only if all are. With it, Enable reports success only when
all three torquers were turned off, and then all three interfaces are open.
`OutcomeCounted` rests on the same lemma in the other direction: `SumTells` says
that the sum shows a refusal whichever torquer it was, `CommandedAreTold` that what
each torquer answered is what `suspect` keeps of it, and `AskingPackets` which of
the packets reach the hardware at all.
`CountedBalances` and its neighbours reduce the balance to arithmetic on `Inc`.

The refinements are step simulations under `IInv`: each action of the
application is a step of the abstract specification or leaves its variables
alone. For `TorquerBank`, `SwitchOn` needs `SumIsSuccess` once more, and a failed
Enable is a `SwitchOff`. For `CommandService` the work is in the queue, which
the mapping turns element by element into operations, and in the cases of
`OpOf`: each handler's guard settles what its packet is to the ground.
`OnIsTrueHolds` is about the bank alone; `BankReportsTruth` instantiates it, with
its proof, at the application, and so derives from `ActsAsBank` what
`EnabledTelemetryHolds` shows of the application directly.

`OnlyEnableRecovers` is a case split over what may change `drive`: every handler but
Enable counts an error first when the device is disabled, and of the crashes
only one within an ENABLE has commands in progress. `EndedLeavesSuspects` and
`PacketsTellTheTruth` follow from the device invariants, at the two moments at
which somebody else depends on them.

**FprimeTorquer.** `IInv` is `TypeOK` and the four invariants. Each is inductive
given the types, and the proof follows the handlers: `Keeps` collects what a
handler must leave, one lemma per handler shows it, and `HandlersKeep` adds the
queue. Two lemmas carry it. `ConfigureKeeps`: if levels change exactly where
commands were accepted, known levels stay true, for one torquer and for three,
from a command or from the port. `IncBalances`: one more operation, done or
failed, commanded or called, keeps the counters in balance wherever any of them
wraps. No sum of statuses is needed here, so `ErrorAssumption` is not either:
the properties do not depend on whether ENABLE succeeded. The end of the process
(`GoneKeeps`) and `ConstructKeeps` show why `source` starts as "unknown" for
what was found driven. `OnlyPortLags` goes through the handlers once more: each
writes what it changes, except `TORQin`, which writes nothing; so the lag that
`TelemetryCatchesUp` is about has one source, and `ChannelsTellTheTruth` says
what the channels are worth outside it.

**Checkout.** `HkIsTrue` is inductive with the types. `SilentAtEnd` needs one
fact more: a buffer that was read into torques no longer.

**TorquerSim.** `LastWord` is inductive with the types: the last datagram of a
torquer is the one to become its moment, and the datagrams before it cannot be
the last. `StopBoundsTorque` needs that none was passed on late while the
loop runs, or is in a body that it entered before.

**GroundCmd.** Three invariants, each about one call that found everything quiet.
`SeenInv`: as long as the device was not in the state aimed at, no packet says
so. `AskInv` and `TryInv`: while a procedure only asks, counts can only drop,
by a restart, so that the packet it aims from has the highest one there is;
from then on, until its command is accepted, every count on the way stays below
the target, so that no count can pass the check. That argument fails exactly if
the target is 0. `LoneInv`: a procedure on its own has at most one command and
one request on their way, in this order, or else one packet, which tells the
truth. It has three parts: `LoneShape` is what may be on its way in which statement,
`LoneCounts` relates the counts on the way to the target, and `LoneReports`, which
`VerdictsAreRight` needs, says that a packet on its way or just read is how
things are. `AimInv`, that the count to be seen is worked out before the first
try and only then, serves them all. `UnsentInv`, that only `safe_generic_torquer` passes without a
command, completes `FalsePassIsTheWrap`.

`SentInv`, for `ExecutedAtMostSent`, numbers the tries: the copies of the command
that wait in the pipe have numbers that rise, above those of the executed ones and
not above that of the last one sent. `FlightSideIsService` shows that the
flight side in `GroundCmd` takes only steps of `CommandService`. With
`ServesCommandsHolds` of the application, the two models meet at one interface,
and nothing in between is left to their wording.

### Liveness

A liveness proof needs three things: that a step can be taken, that every other
step keeps the claim waiting, and that the fair step brings it nearer. The
provers treat `ENABLED` as a constant they know nothing of, so the first is a
state predicate and a hypothesis of each theorem, `Spec /\ []AppCanStep =>
...`; the other two are proved, with WF and PTL.

| Predicate | What it says | Why it holds |
|---|---|---|
| `AppCanStep` | the application has a step outside `pend`, and within it for every packet; a request finds room in an empty pipe | `EveryPacketHasItsCase` proves for every packet what there is to it apart from `ENABLED`: the handlers follow a `switch` with defaults |
| `HandlersCanStep` | a call in the queue has its handler; the rate group can call | each operation has one handler, whose guard is only that it is at the head; a call has `Invoke` if there is room and `Overflow` if not |
| `RunCanStep` | `run()` has a step while there is a process | `EnterBody` and `LeaveLoop` have complementary guards, the body has none |
| `ScriptCanStep` | a procedure has a step until it is over | each statement has its action; `Wait` and `TimeOut` complement each other |

These predicates say of the models that their guards leave no case over, as
the code's `switch` statements and branches leave none; they say nothing of the
code, and are in no run. TLC has checked each on the runs that have
the liveness properties, where it holds, and it can be added to the INVARIANTS of
these files at any time. A model that got stuck would show in the liveness
properties of the same runs. For `AppCanStep`, the lemma `EveryPacketHasItsCase`
shows for all constants that no packet is left over: it is refused, or is a
request, or has one of the six function codes, and the hardware has an answer.
The hypothesis `TrqErrors # {}` of the lemma is one that `ErrorAssumption` does
not make: with no error code there is no answer from a closed interface.
hwlib has such codes, so `AppCanStep` is not asked of a program without them.

The provers have no induction over a number of steps of time, only over
states, so how far a packet is from the head must be a number known
beforehand. Each proof shows that an element at place `k` moves to a smaller
place, then that two such results compose, and doubles: 1, 2, 4, and so on.
This is why three of the specifications are given a depth. `PipeDepth <= 32` is
`GENERIC_TORQUER_PIPE_DEPTH` (`generic_torquer_app.h:27`), the depth the code
has. The depth of the F Prime queue is set by the topology and the buffer of the
simulator by the operating system, neither in the repository: 1024 is well
beyond the first and is a guess for the second; each doubling is one more step
of a lemma.

* `ExitHonouredHolds` needs no depth: the scheduler's request, or any other
  packet, brings the task from pending to the packet, from there to the test of
  the loop, and that to the exit. A restart starts over with nothing requested.
* `DisableTakesEffectHolds`: a DISABLE waits at place `k` until the packet before it
  is received, and if the application ends first, the next one starts
  disabled. Received, it disables or finds the device disabled.
* `HousekeepingAnsweredHolds`: the same for a request, by the sequence count of the
  last packet; or the application leaves its loop.
* `DisableHappensHolds` and `TelemetryCatchesUpHolds` share the queue argument
  (`Handled`): every call in the queue comes to be handled, or the process
  ends. For the second, the rate group's call is what comes to be in the queue, and
  the handlers before it may close the lag or leave it.
* `CatchesUpHolds` takes from `LastWord` that the last datagram of the torquer is
  the one of its last command. It stays the last while no command follows, so
  once everything up to it is read 42 has its moment, and no later datagram is
  for this torquer.
* `CallEndsHolds` goes through the statements of one try, then through the tries
  that are left, of which `TypeOK` allows three.

What is only model-checked: the four predicates above, depths
beyond the bounds of five of the liveness theorems, and of course the four findings.

## 5. Not modelled

* Of the ground scripts: the second half of `confirm_generic_torquer_data`,
  which does for CONFIG_ALL what the first does for CONFIG and then compares
  the device counters; the loops of the tests around the procedures; the Ruby
  version of the library, which is the same program. The commands to the
  simulator are in `TorquerSim`, from anybody at any time.
* Of the simulator: HELP and STATUS=X, which change nothing (HELP lists
  STATUS=X, and the callback answers it with INVALID COMMAND); the connections
  to the command bus and to 42; what `close` in the destructor does to a
  descriptor that `run()` has closed, which depends on who else opens files;
  what `sscanf` reads behind a datagram without a NUL, which depends on hwlib.
* Of the checkout: what is printed, lines longer than `input_buf` and tokens
  longer than `MAX_INPUT_TOKEN_SIZE`.
* hwlib, cFE, F Prime and 42 are not in the repository. The actions that stand
  for them are marked as external, and assume what is said above.
* The ground databases (layout only), the unit tests and stubs (read as
  evidence of what hwlib may answer), build files and configuration.

What is left to do: a composition of `GroundCmd` with `TorquerApp` itself, in
place of `CommandService`, would check nothing that the refinement does not,
and is not planned. A second procedure running beside the first, and the
`confirm` of the device counters, are what would come next.
