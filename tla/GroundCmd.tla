------------------------------ MODULE GroundCmd ------------------------------
(***************************************************************************)
(* The library of ground scripts                                           *)
(* (src/gsw/GENERIC_TORQUER/lib/generic_torquer_lib.py) at work on the     *)
(* flight application, as CommandService says it behaves: a procedure      *)
(* sends a command, asks for housekeeping, waits for a packet, and sends   *)
(* the command again if the packet does not show its count.                *)
(*                                                                         *)
(* Commands and packets may be lost, and packets take time; other          *)
(* requesters ask for housekeeping too; the application may restart.       *)
(***************************************************************************)
EXTENDS CommandService

CONSTANT AirDepth   \* how many packets are on their way down at most

ASSUME GroundAssumption == AirDepth \in Nat \ {0}

\* generic_torquer_cmd of NOOP, enable_, disable_, safe_generic_torquer, and
\* the first half of confirm_generic_torquer_data; its second half is the same.
Procedures == {"noop", "enable", "disable", "safe", "confirm"}

\* What a procedure commands.
OpFor(p) ==
  CASE p = "noop"    -> "NOOP"
    [] p = "enable"  -> "ENABLE"
    [] p = "confirm" -> "CONFIG"
    [] OTHER         -> "DISABLE"

VARIABLES
  air,      \* housekeeping packets on their way down
  tlm,      \* the last one that came down
  proc,     \* the procedure called
  pc,       \* where it is
  tries,    \* commands sent so far; 0 while it only asks for housekeeping
  target,   \* the count the command should lead to
  initial,  \* cmd_cnt_initial
  quiet,    \* history: when it was called nothing was on its way, up or down,
            \* and tlm, if it read it, was up to date
  calm,     \* history: since then nobody else asked for housekeeping, and the
            \* application did not restart
  done,     \* history: how often its command was accepted since then
  seen      \* history: the device was in the state to bring about since then

ground == <<proc, pc, tries, target, initial>>
past   == <<quiet, calm, done, seen>>  \* left as they are while not quiet
vars   == <<svars, air, tlm, ground, past>>

\* The history counts this far: one more than the code ever gets to.
MaxDone == 4

Steps == {"idle",     \* no procedure is running
          "send",     \* about to send the command
          "ask",      \* about to ask for housekeeping
          "asked",    \* about to wait for a packet
          "wait",     \* in wait_check_packet
          "look",     \* a packet came
          "aim",      \* about to work out the count to be seen
          "check",    \* about to check that CMD_COUNT >= count
          "confirm",  \* about to check what it is all for
          "passed",
          "failed"}

TypeOK ==
  /\ ServiceTypeOK
  /\ air \in Seq(Report) /\ Len(air) <= AirDepth
  /\ tlm \in Report
  /\ proc \in Procedures
  /\ pc \in Steps
  /\ tries \in 0 .. 3
  /\ target \in 0 .. CountMod - 1
  /\ initial \in 0 .. CountMod - 1
  /\ quiet \in BOOLEAN
  /\ calm \in BOOLEAN
  /\ done \in 0 .. MaxDone
  /\ seen \in BOOLEAN

Init ==
  /\ ServiceInit
  /\ air = <<>>
  /\ tlm = [count |-> 0, enabled |-> "DISABLED"]
  /\ proc = "noop"
  /\ pc = "idle"
  /\ tries = 0
  /\ target = 0
  /\ initial = 0
  /\ quiet = FALSE
  /\ calm = FALSE
  /\ done = 0
  /\ seen = FALSE

Running == pc \notin {"idle", "passed", "failed"}

\* The state that enable, disable and safe are to bring about.
Goal(p) == CASE p = "enable"             -> {"ENABLED"}
             [] p \in {"disable", "safe"} -> {"DISABLED"}
             [] OTHER                    -> {}

Sees == seen' = (seen \/ (quiet /\ enabled' \in Goal(proc)))

-----------------------------------------------------------------------------
(* The flight side, and the way down.                                      *)

\* The application takes a command.
Execute ==
  /\ \E op \in Ops :
       /\ Accept(op) \/ Refuse(op)
       /\ done' = IF quiet /\ Acceptable(op) /\ op = OpFor(proc) /\ done < MaxDone
                  THEN done + 1 ELSE done
  /\ Sees
  /\ UNCHANGED <<air, tlm, ground, quiet, calm>>

\* It answers a request; the packet may be lost.
Answer ==
  /\ SendReport(Now)
  /\ \/ Len(air) < AirDepth /\ air' = Append(air, Now)
     \/ UNCHANGED air
  /\ UNCHANGED <<tlm, ground, past>>

Restart ==
  /\ Leave
  /\ calm' = FALSE
  /\ Sees
  /\ UNCHANGED <<air, tlm, ground, quiet, done>>

\* Another requester of housekeeping.
OthersAsk ==
  /\ Deliver("HK")
  /\ calm' = FALSE
  /\ UNCHANGED <<air, tlm, ground, quiet, done, seen>>

\* A packet comes down: it is the current one from now on, and the one that a
\* procedure waits for, whoever asked for it.
ComeDown ==
  /\ air # <<>>
  /\ tlm' = Head(air)
  /\ air' = Tail(air)
  /\ pc' = IF pc = "wait" THEN "look" ELSE pc
  /\ UNCHANGED <<svars, proc, tries, target, initial, past>>

-----------------------------------------------------------------------------
(* The procedures.                                                         *)

\* generic_torquer_cmd works out the count its command should lead to.
\* Mutant: it is the count there is.
AimLow == target' = tlm.count

Aim == target' = After(tlm.count)

Call(p) ==
  /\ pc = "idle"
  /\ proc' = p
  /\ \/ /\ p \in {"safe", "confirm"}
        /\ pc' = "ask" /\ tries' = 0 /\ target' = 0
     \/ /\ p \notin {"safe", "confirm"}
        /\ pc' = "send" /\ tries' = 1 /\ Aim
  /\ initial' = 0
  /\ quiet' = /\ pipe = <<>> /\ air = <<>>
              /\ p \in {"safe", "confirm"} \/ tlm.count = count
  /\ calm' = quiet'
  /\ done' = 0
  /\ seen' = (quiet' /\ enabled \in Goal(p))
  /\ UNCHANGED <<svars, air, tlm>>

\* cmd: the packet reaches the application, or is lost.
Uplink(op) == Deliver(op) \/ UNCHANGED svars

Send ==
  /\ pc = "send"
  /\ pc' = "ask"
  /\ Uplink(OpFor(proc))
  /\ UNCHANGED <<air, tlm, proc, tries, target, initial, past>>

\* get_generic_torquer_hk: a request, and then, from when wait_check_packet has
\* begun, a wait for one more packet.
Ask ==
  /\ pc = "ask"
  /\ pc' = "asked"
  /\ Uplink("HK")
  /\ UNCHANGED <<air, tlm, proc, tries, target, initial, past>>

\* Mutant: any packet will do, the last one too.
DoNotWait == "look"

BeginWait == "wait"

Wait ==
  /\ pc = "asked"
  /\ pc' = BeginWait
  /\ UNCHANGED <<svars, air, tlm, proc, tries, target, initial, past>>

TimeOut ==
  /\ pc = "wait"
  /\ pc' = "failed"
  /\ UNCHANGED <<svars, air, tlm, proc, tries, target, initial, past>>

\* The command is sent again unless the count is what it should be.
\* Mutant: it is sent again whatever the count.
AgainAnyway == tries \in 1 .. 2

Again == tries \in 1 .. 2 /\ tlm.count # target

\* Mutant: the third time is not the last.
CountTries == IF tries < 2 THEN tries + 1 ELSE tries

NextTry == tries + 1

Look ==
  /\ pc = "look"
  /\ \/ /\ tries = 0 /\ proc = "safe" /\ tlm.enabled = "DISABLED"
        /\ pc' = "passed"
        /\ UNCHANGED <<tries, target, initial>>
     \/ /\ tries = 0 /\ ~(proc = "safe" /\ tlm.enabled = "DISABLED")
        /\ pc' = "aim"
        /\ initial' = IF proc = "confirm" THEN tlm.count ELSE 0
        /\ UNCHANGED <<tries, target>>
     \/ /\ Again
        /\ pc' = "send" /\ tries' = NextTry
        /\ UNCHANGED <<target, initial>>
     \/ /\ tries > 0 /\ ~Again
        /\ pc' = "check"
        /\ UNCHANGED <<tries, target, initial>>
  /\ UNCHANGED <<svars, air, tlm, proc, past>>

\* safe and confirm now call generic_torquer_cmd, which reads CMD_COUNT for
\* itself: another packet may have come down since.
StartCommand ==
  /\ pc = "aim"
  /\ pc' = "send" /\ tries' = 1 /\ Aim
  /\ UNCHANGED <<svars, air, tlm, proc, initial, past>>

\* check CMD_COUNT >= count
CheckCount ==
  /\ pc = "check"
  /\ pc' = IF tlm.count < target THEN "failed"
           ELSE IF proc = "noop" THEN "passed" ELSE "confirm"
  /\ UNCHANGED <<svars, air, tlm, proc, tries, target, initial, past>>

Confirm ==
  /\ pc = "confirm"
  /\ \/ /\ proc # "confirm"
        /\ pc' = IF tlm.enabled \in Goal(proc) THEN "passed" ELSE "failed"
     \/ /\ proc = "confirm"
        /\ pc' = IF tlm.count > initial THEN "passed" ELSE "failed"
  /\ UNCHANGED <<svars, air, tlm, proc, tries, target, initial, past>>

\* The procedure is over; the histories are about one call.
Return ==
  /\ pc \in {"passed", "failed"}
  /\ pc' = "idle"
  /\ proc' = "noop" /\ tries' = 0 /\ target' = 0 /\ initial' = 0
  /\ quiet' = FALSE /\ calm' = FALSE /\ done' = 0 /\ seen' = FALSE
  /\ UNCHANGED <<svars, air, tlm>>

Script ==
  \/ Send \/ Ask \/ Wait \/ TimeOut \/ Look \/ StartCommand
  \/ CheckCount \/ Confirm \/ Return

-----------------------------------------------------------------------------

Next ==
  \/ Execute
  \/ Answer
  \/ Restart
  \/ OthersAsk
  \/ ComeDown
  \/ \E p \in Procedures : Call(p)
  \/ Script

\* A script goes on; what it waits for it waits for no longer than a timeout.
Spec == Init /\ [][Next]_vars /\ WF_vars(Script)

=============================================================================
