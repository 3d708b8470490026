------------------------------- MODULE Checkout -------------------------------
(***************************************************************************)
(* The checkout program (src/fsw/standalone/generic_torquer_checkout.c):   *)
(* it owns torquer 0, and does what is typed, line by line, until a line   *)
(* says exit.  At the end of the input fgets leaves in the buffer what     *)
(* strtok made of the last line, and the program takes that for a line.    *)
(***************************************************************************)
EXTENDS TorquerDevice, Sequences

CONSTANT Lines   \* what may be typed

\* What get_command makes of the first token of a line; a blank line has none.
\* The tokens after it, as atoi reads them.
Line == [cmd  : {"blank", "help", "exit", "hk", "torque", "unknown"},
         args : Seq(Int)]

ASSUME CheckoutAssumption == Lines \subseteq Line

VARIABLES
  phase,  \* "off", in the "loop", or past it and about to "close"
  eof,    \* the input is over
  buf,    \* input_buf
  trqHk,  \* the level it reports
  drive,  \* what the coil does
  fresh,  \* history: no line was read yet, buf is what the stack held
  known   \* history: the coil was off at the start, or accepted a command

vars == <<phase, eof, buf, trqHk, drive, fresh, known>>

TypeOK ==
  /\ phase \in {"off", "loop", "close"}
  /\ eof \in BOOLEAN
  /\ buf \in Line
  /\ trqHk \in Level
  /\ drive \in Drive
  /\ fresh \in BOOLEAN
  /\ known \in BOOLEAN

Blank == [cmd |-> "blank", args |-> <<>>]

Init ==
  /\ phase = "off"
  /\ eof = FALSE
  /\ buf = Blank
  /\ trqHk = IdleLevel
  /\ drive = Off
  /\ fresh = TRUE
  /\ known = FALSE

-----------------------------------------------------------------------------

\* main up to its loop, which is skipped if trq_init fails.  input_buf is not
\* initialised: it may look like any line.
Launch ==
  /\ phase = "off"
  /\ phase' \in {"loop", "close"}
  /\ eof' = FALSE
  /\ buf' \in Lines \cup {Blank}
  /\ fresh' = TRUE
  /\ trqHk' = IdleLevel
  /\ known' = (drive = Off)
  /\ UNCHANGED drive

\* What strtok leaves of a line: its first token.
\* Mutant: the line is left whole.
Whole(line) == line

Cut(line) == [line EXCEPT !.args = <<>>]

\* The arguments of torque: to uint32_t, and then to uint8_t.
\* Mutant: they are not cut to a byte.
AskedUncut(line) == [PercentOn |-> line.args[1], Direction |-> line.args[2]]

Asked(line) == [PercentOn |-> line.args[1] % 256, Direction |-> line.args[2] % 256]

\* check_number_arguments
Torques(line) == line.cmd = "torque" /\ Len(line.args) = 2

\* process_command.  help, hk and a command it does not know only print.
\* Mutant: the level is recorded before the hardware has answered.
ProcessUnchecked(line) ==
  /\ phase' = IF line.cmd = "exit" THEN "close" ELSE "loop"
  /\ \/ /\ ~Torques(line)
        /\ UNCHANGED <<trqHk, drive, known>>
     \/ /\ Torques(line)
        /\ trqHk' = Asked(line)
        /\ \E status \in Status :
             /\ drive' = IF status = OS_SUCCESS THEN DriveOf(Asked(line)) ELSE drive
             /\ known' = (known \/ status = OS_SUCCESS)

Process(line) ==
  /\ phase' = IF line.cmd = "exit" THEN "close" ELSE "loop"
  /\ \/ /\ ~Torques(line)
        /\ UNCHANGED <<trqHk, drive, known>>
     \/ /\ Torques(line)
        /\ \E status \in Status :
             /\ trqHk' = Config(trqHk, Asked(line), status)
             /\ drive' = IF status = OS_SUCCESS THEN DriveOf(Asked(line)) ELSE drive
             /\ known' = (known \/ status = OS_SUCCESS)

\* One turn of the loop, with a line typed.
ReadLine ==
  /\ phase = "loop"
  /\ ~eof
  /\ \E line \in Lines : Process(line) /\ buf' = Cut(line)
  /\ fresh' = FALSE
  /\ UNCHANGED eof

\* One turn of the loop at the end of the input, which nothing looks at.
ReadEnd ==
  /\ phase = "loop"
  /\ eof' = TRUE
  /\ Process(buf)
  /\ buf' = Cut(buf)
  /\ UNCHANGED fresh

\* After the loop: trq_close, which commands nothing.
Close ==
  /\ phase = "close"
  /\ phase' = "off"
  /\ trqHk' = IdleLevel
  /\ UNCHANGED <<eof, buf, drive, fresh, known>>

\* The lines the turn in progress may be about.
InHand ==
  IF phase = "close" THEN {}
  ELSE IF eof THEN {buf} ELSE Lines \cup {buf}

\* The process is killed, perhaps between a command to the coil and its record.
Kill ==
  /\ phase # "off"
  /\ phase' = "off"
  /\ trqHk' = IdleLevel
  /\ drive' \in {drive} \cup {DriveOf(Asked(line)) : line \in {l \in InHand : Torques(l)}}
  /\ UNCHANGED <<eof, buf, fresh, known>>

Next == Launch \/ ReadLine \/ ReadEnd \/ Close \/ Kill

Spec == Init /\ [][Next]_vars

=============================================================================
