------------------------------ MODULE TorquerSim ------------------------------
(***************************************************************************)
(* The simulator of the torquers                                           *)
(* (src/sim/src/generic_torquer_hardware_model.cpp): a loop that reads one *)
(* UDP datagram per tick, "number percent", and passes it on to the        *)
(* dynamics simulator 42 as a magnetic moment; and a callback, in a thread *)
(* of the command bus, for operators.                                      *)
(*                                                                         *)
(* Around it: the flight software, whose trq_command succeeds once hwlib   *)
(* has sent its datagram, arrive or not; a network that loses datagrams    *)
(* and lets one overtake another; the end and the restart of the process,  *)
(* which 42 survives.                                                      *)
(***************************************************************************)
EXTENDS TorquerLevels, Sequences

CONSTANTS
  NumMtbs,    \* num-mtbs of the configuration: the torquers simulated
  Commands,   \* the commands the flight software may give
  BufferSize  \* datagrams the receive buffer of the socket holds

Command == [num : Torquers, drive : Drive]

ASSUME SimAssumption ==
  /\ NumMtbs \in Nat
  /\ Commands \subseteq Command
  /\ BufferSize \in Nat \ {0}

Simulated == 0 .. NumMtbs - 1

\* In percent of the torquer's largest moment, positive or negative.
Signed(d) == IF d.positive THEN d.percent ELSE -d.percent

\* A datagram, or text that is none: that has no torquer's number.
Datagram == [num : Int, percent : Int]
Garbled  == [num |-> -1, percent |-> 0]

VARIABLES
  pc,       \* where run() is: "top" of its loop, in the "body", after the
            \* "close"; or "down", without a process
  running,  \* _keep_running
  enabled,  \* _enabled: "SUCCESS" or "ERROR"
  net,      \* datagrams in the receive buffer
  mcmd,     \* the moment 42 applies for each torquer
  drive,    \* the last command hwlib accepted for each torquer
  unsure,   \* history: torquers whose last command never reached the buffer,
            \* was overtaken there, or was lost with it
  late      \* history: torques passed on after STOP

vars == <<pc, running, enabled, net, mcmd, drive, unsure, late>>

TypeOK ==
  /\ pc \in {"top", "body", "closed", "down"}
  /\ running \in BOOLEAN
  /\ enabled \in {"SUCCESS", "ERROR"}
  /\ net \in Seq(Datagram) /\ Len(net) <= BufferSize
  /\ mcmd \in [Simulated -> -100 .. 100]
  /\ drive \in [Torquers -> Drive]
  /\ unsure \in SUBSET Torquers
  /\ late \in Nat

Init ==
  /\ pc = "down"
  /\ running = FALSE
  /\ enabled = "SUCCESS"
  /\ net = <<>>
  /\ mcmd = [t \in Simulated |-> 0]
  /\ drive = AllOff
  /\ unsure = {}
  /\ late = 0

-----------------------------------------------------------------------------
(* The process: its constructor, its loop, its end.                        *)

\* The socket is bound and does not block.  If that fails the constructor
\* throws, and there is still no process.
Construct ==
  /\ pc = "down"
  /\ pc' = "top"
  /\ running' = TRUE
  /\ enabled' = "SUCCESS"
  /\ late' = 0
  /\ UNCHANGED <<net, mcmd, drive, unsure>>

\* What the socket held is lost when it is closed.
LoseBuffer ==
  /\ net' = <<>>
  /\ unsure' = unsure \cup {t \in Torquers : \E i \in DOMAIN net : net[i].num = t}

\* The condition of the loop.
\* Mutant: STOP is not looked at.
LoopsForever == TRUE

LoopsOn == running

EnterBody ==
  /\ pc = "top"
  /\ LoopsOn
  /\ pc' = "body"
  /\ UNCHANGED <<running, enabled, net, mcmd, drive, unsure, late>>

LeaveLoop ==
  /\ pc = "top"
  /\ ~LoopsOn
  /\ pc' = "closed"
  /\ LoseBuffer
  /\ UNCHANGED <<running, enabled, mcmd, drive, late>>

\* Which datagrams are passed on to 42.
\* Mutant: the level is not checked.
AcceptsAnyLevel(dg) == dg.num \in Simulated

Accepts(dg) == dg.num \in Simulated /\ dg.percent \in -100 .. 100

\* cmd_torque.
\* Mutant: the direction is lost on the way.
TorqueUnsigned(dg) ==
  [mcmd EXCEPT ![dg.num] = IF dg.percent < 0 THEN -dg.percent ELSE dg.percent]

Torque(dg) == [mcmd EXCEPT ![dg.num] = dg.percent]

\* What recvfrom leaves in the buffer.
\* Mutant: it leaves what is not accepted.
LeavesRefused == IF Accepts(Head(net)) THEN Tail(net) ELSE net

Leaves == Tail(net)

\* The body of the loop: one datagram, or none, and then a tick of sleep.
Receive ==
  /\ pc = "body"
  /\ pc' = "top"
  /\ \/ /\ net = <<>>
        /\ UNCHANGED <<net, mcmd, late>>
     \/ /\ net # <<>> /\ ~Accepts(Head(net))
        /\ net' = Leaves
        /\ UNCHANGED <<mcmd, late>>
     \/ /\ net # <<>> /\ Accepts(Head(net))
        /\ net' = Leaves
        /\ mcmd' = Torque(Head(net))
        /\ late' = IF running THEN late ELSE late + 1
  /\ UNCHANGED <<running, enabled, drive, unsure>>

\* After run() the destructor; it has the socket closed once more.
Destroy ==
  /\ pc = "closed"
  /\ pc' = "down"
  /\ UNCHANGED <<running, enabled, net, mcmd, drive, unsure, late>>

\* The process is killed.
Die ==
  /\ pc # "down"
  /\ pc' = "down"
  /\ running' = FALSE
  /\ LoseBuffer
  /\ UNCHANGED <<enabled, mcmd, drive, late>>

-----------------------------------------------------------------------------
(* command_callback, at any moment of the process.                         *)

Callback == pc # "down" /\ UNCHANGED <<pc, net, mcmd, drive, unsure, late>>

Enable  == Callback /\ enabled' = "SUCCESS" /\ UNCHANGED running

Disable == Callback /\ enabled' = "ERROR" /\ UNCHANGED running

Stop    == Callback /\ running' = FALSE /\ UNCHANGED enabled

-----------------------------------------------------------------------------
(* The flight software and the network.                                    *)

HasRoom == pc \in {"top", "body"} /\ Len(net) < BufferSize

DatagramOf(c) == [num |-> c.num, percent |-> Signed(c.drive)]

\* trq_command succeeds.
TrqCommand(c) ==
  /\ drive' = [drive EXCEPT ![c.num] = c.drive]
  /\ UNCHANGED <<pc, running, enabled, mcmd, late>>

Arrive(c) ==
  /\ TrqCommand(c)
  /\ HasRoom
  /\ net' = Append(net, DatagramOf(c))
  /\ unsure' = unsure \ {c.num}

\* Nobody listens, the buffer is full, or the network loses it.
Lose(c) ==
  /\ TrqCommand(c)
  /\ unsure' = unsure \cup {c.num}
  /\ UNCHANGED net

\* The datagram overtakes the one before it, for the same torquer.
Overtake(c) ==
  /\ TrqCommand(c)
  /\ HasRoom
  /\ net # <<>> /\ net[Len(net)].num = c.num
  /\ net' = Append([net EXCEPT ![Len(net)] = DatagramOf(c)], net[Len(net)])
  /\ unsure' = unsure \cup {c.num}

\* The port is open to everybody.
Stray ==
  /\ HasRoom
  /\ net' = Append(net, Garbled)
  /\ UNCHANGED <<pc, running, enabled, mcmd, drive, unsure, late>>

-----------------------------------------------------------------------------

Run == EnterBody \/ LeaveLoop \/ Receive \/ Destroy

Next ==
  \/ Construct
  \/ Run
  \/ Die
  \/ Enable
  \/ Disable
  \/ Stop
  \/ \E c \in Commands : Arrive(c) \/ Lose(c) \/ Overtake(c)
  \/ Stray

\* The thread of run() is scheduled.
Spec == Init /\ [][Next]_vars /\ WF_vars(Run)

=============================================================================
