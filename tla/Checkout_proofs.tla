--------------------------- MODULE Checkout_proofs ---------------------------
(***************************************************************************)
(* Proofs about Checkout, for every set of lines that may be typed and     *)
(* every set of error codes.                                               *)
(***************************************************************************)
EXTENDS CheckoutProperties, TorquerDevice_proofs

-----------------------------------------------------------------------------
(* Lines.                                                                  *)

\* Whatever numbers are typed, what is asked for is a level.
LEMMA AskedType ==
  ASSUME NEW line \in Line, Torques(line)
  PROVE  Asked(line) \in Level
<1>1. line.args[1] \in Int /\ line.args[2] \in Int
  BY DEF Line, Torques
<1>. QED
  BY <1>1 DEF Asked, Level, Byte

\* A line that was cut is a line, and asks for no torque.
LEMMA CutAsksNothing ==
  ASSUME NEW line \in Line
  PROVE  Cut(line) \in Line /\ ~Torques(Cut(line))
<1>1. Cut(line).args = <<>> /\ Cut(line) \in Line
  <2>1. <<>> \in Seq(Int)
    OBVIOUS
  <2>. QED
    BY <2>1 DEF Line, Cut
<1>2. Len(<<>>) # 2
  OBVIOUS
<1>. QED
  BY <1>1, <1>2 DEF Torques

\* A blank line asks for none either.
LEMMA BlankType == Blank \in Line
  BY DEF Blank, Line

-----------------------------------------------------------------------------
(* The inductive invariant: what was read is cut, and cannot torque again. *)

Consumed == ~fresh => ~Torques(buf)

IInv == TypeOK /\ HkIsTrue /\ Consumed

\* What a line in hand does to the level and the coil.
LEMMA ProcessKeeps ==
  ASSUME IInv, NEW line \in Line, Process(line), phase = "loop"
  PROVE  /\ phase' \in {"loop", "close"}
         /\ trqHk' \in Level /\ drive' \in Drive /\ known' \in BOOLEAN
         /\ HkIsTrue'
         /\ \/ trqHk' = trqHk /\ drive' = drive
            \/ drive' = DriveOf(trqHk')
         /\ ~Torques(line) => UNCHANGED <<trqHk, drive>>
<1>1. phase' \in {"loop", "close"}
  BY DEF Process
<1>2. CASE ~Torques(line)
  BY <1>1, <1>2 DEF Process, IInv, TypeOK, HkIsTrue
<1>3. CASE Torques(line)
  <2>1. PICK status \in Status :
          /\ trqHk' = Config(trqHk, Asked(line), status)
          /\ drive' = IF status = OS_SUCCESS THEN DriveOf(Asked(line)) ELSE drive
          /\ known' = (known \/ status = OS_SUCCESS)
    BY <1>3 DEF Process
  <2>2. Asked(line) \in Level /\ DriveOf(Asked(line)) \in Drive
    BY <1>3, AskedType, DriveOfType
  <2>. QED
    BY <1>1, <1>3, <2>1, <2>2 DEF Config, IInv, TypeOK, HkIsTrue
<1>. QED
  BY <1>2, <1>3

\* A line typed.
LEMMA ReadLineKeeps == ASSUME IInv, ReadLine PROVE IInv'
<1>1. PICK line \in Lines : Process(line) /\ buf' = Cut(line)
  BY DEF ReadLine
<1>2. line \in Line /\ buf' \in Line /\ ~Torques(buf')
  BY <1>1, CheckoutAssumption, CutAsksNothing
<1>3. phase = "loop" /\ fresh' = FALSE /\ eof' = eof
  BY DEF ReadLine
<1>. QED
  BY <1>1, <1>2, <1>3, ProcessKeeps DEF IInv, TypeOK, Consumed

\* The end of the input, once more.
LEMMA ReadEndKeeps == ASSUME IInv, ReadEnd PROVE IInv'
<1>1. buf \in Line /\ phase = "loop" /\ Process(buf) /\ buf' = Cut(buf)
      /\ eof' = TRUE /\ fresh' = fresh
  BY DEF ReadEnd, IInv, TypeOK
<1>2. buf' \in Line /\ ~Torques(buf')
  BY <1>1, CutAsksNothing
<1>. QED
  BY <1>1, <1>2, ProcessKeeps DEF IInv, TypeOK, Consumed

\* A command cut short is a command of a line in hand.
LEMMA KillType == ASSUME IInv, Kill PROVE drive' \in Drive
<1>1. \A line \in InHand : line \in Line
  BY CheckoutAssumption DEF InHand, IInv, TypeOK
<1>. QED
  BY <1>1, AskedType, DriveOfType DEF Kill, IInv, TypeOK

\* Every step keeps the invariant.
LEMMA NextInv == ASSUME IInv, [Next]_vars PROVE IInv'
<1>1. CASE Launch
  <2>1. buf' \in Line
    BY <1>1, CheckoutAssumption, BlankType DEF Launch
  <2>2. HkIsTrue'
    BY <1>1 DEF Launch, HkIsTrue, DriveOf, IdleLevel, Off
  <2>. QED
    BY <1>1, <2>1, <2>2, ConstantTypes DEF Launch, IInv, TypeOK, Consumed
<1>2. CASE ReadLine \/ ReadEnd
  BY <1>2, ReadLineKeeps, ReadEndKeeps
<1>3. CASE Close
  BY <1>3, ConstantTypes DEF Close, IInv, TypeOK, HkIsTrue, Consumed
<1>4. CASE Kill
  <2>1. drive' \in Drive
    BY <1>4, KillType
  <2>. QED
    BY <1>4, <2>1, ConstantTypes DEF Kill, IInv, TypeOK, HkIsTrue, Consumed
<1>5. CASE UNCHANGED vars
  BY <1>5 DEF vars, IInv, TypeOK, HkIsTrue, Consumed
<1>. QED
  BY <1>1, <1>2, <1>3, <1>4, <1>5 DEF Next

\* The invariant holds in every reachable state.
LEMMA Invariance == Spec => []IInv
<1>1. Init => IInv
  BY ConstantTypes, BlankType DEF Init, IInv, TypeOK, HkIsTrue, Consumed
<1>2. IInv /\ [Next]_vars => IInv'
  BY NextInv
<1>. QED
  BY <1>1, <1>2, PTL DEF Spec

-----------------------------------------------------------------------------
(* The theorems.                                                           *)

\* Every variable keeps its type: what does not fit into a byte is cut to one.
THEOREM TypeCorrect == Spec => []TypeOK
<1>1. IInv => TypeOK
  BY DEF IInv
<1>. QED
  BY Invariance, <1>1, PTL

\* What hk prints is what the coil does.
THEOREM HkIsTrueHolds == Spec => []HkIsTrue
<1>1. IInv => HkIsTrue
  BY DEF IInv
<1>. QED
  BY Invariance, <1>1, PTL

\* At the end of the input the program goes round on a line that was cut.
LEMMA StepSilent == ASSUME IInv, [Next]_vars PROVE Silent
<1>. SUFFICES ASSUME eof', ~fresh
              PROVE  /\ drive' = drive
                     /\ phase' # "off" => trqHk' = trqHk
  BY DEF Silent
<1>1. ~Torques(buf) /\ buf \in Line
  BY DEF IInv, Consumed, TypeOK
<1>2. CASE ReadEnd
  BY <1>1, <1>2, ProcessKeeps DEF ReadEnd
<1>3. CASE Kill
  BY <1>1, <1>3 DEF Kill, InHand
<1>4. CASE Close \/ UNCHANGED vars
  BY <1>4 DEF Close, vars
<1>. QED
  BY <1>2, <1>3, <1>4 DEF Next, Launch, ReadLine

\* Once a line was read, the end of the input commands the coil no more.
THEOREM SilentAtEndHolds == Spec => SilentAtEnd
<1>1. IInv /\ [Next]_vars => [Silent]_vars
  BY StepSilent
<1>. QED
  BY Invariance, <1>1, PTL DEF Spec, SilentAtEnd

-----------------------------------------------------------------------------
(* The checkout implements TorquerBank, with one coil.                     *)

BankStep == Bank!Next \/ UNCHANGED Bank!vars

\* The bank speaks of the same levels.
LEMMA BankLevels ==
  /\ Bank!IdleLevel = IdleLevel /\ Bank!Off = Off
  /\ Bank!Level = Level /\ Bank!Drive = Drive
  /\ \A l : Bank!DriveOf(l) = DriveOf(l)
  BY DEF Bank!IdleLevel, Bank!Off, Bank!Level, Bank!Drive, Bank!DriveOf, Bank!Byte,
         IdleLevel, Off, Level, Drive, DriveOf, Byte

\* A turn of the loop sets the level of the coil, or leaves it.
LEMMA ProcessBank ==
  ASSUME IInv, NEW line \in Line, Process(line), phase = "loop", phase' = "loop"
  PROVE  BankStep
<1>1. /\ trqHk' \in Level /\ drive' \in Drive
      /\ \/ trqHk' = trqHk /\ drive' = drive
         \/ drive' = DriveOf(trqHk')
  BY ProcessKeeps
<1>. QED
  BY <1>1, BankLevels DEF BankStep, Bank!Next, Bank!Set, Bank!TakesLevels

\* The turn that reads exit ends the bank.
LEMMA EndBank ==
  ASSUME IInv, phase = "loop", phase' # "loop", drive' \in Drive
  PROVE  BankStep
  BY BankLevels DEF BankStep, Bank!Next, Bank!End, Bank!TakesLevels, Bank!NothingReported

\* Every step is a step of the bank or a stutter.
LEMMA NextBank == ASSUME IInv, [Next]_vars PROVE BankStep
<1>1. drive' \in Drive
  BY NextInv DEF IInv, TypeOK
<1>2. CASE Launch
  BY <1>2, BankLevels
  DEF Launch, BankStep, Bank!Next, Bank!Start, Bank!NothingReported, Bank!vars
<1>3. CASE ReadLine \/ ReadEnd
  <2>1. PICK line \in Line : Process(line)
    BY <1>3, CheckoutAssumption DEF ReadLine, ReadEnd, IInv, TypeOK
  <2>. QED
    BY <1>1, <1>3, <2>1, ProcessBank, EndBank DEF ReadLine, ReadEnd
<1>4. CASE Kill
  <2>1. CASE phase = "loop"
    BY <1>1, <1>4, <2>1, EndBank DEF Kill
  <2>2. CASE phase # "loop"
    BY <1>4, <2>2 DEF Kill, InHand, IInv, TypeOK, BankStep, Bank!vars
  <2>. QED
    BY <2>1, <2>2
<1>5. CASE Close \/ UNCHANGED vars
  BY <1>5 DEF Close, vars, BankStep, Bank!vars
<1>. QED
  BY <1>2, <1>3, <1>4, <1>5 DEF Next

\* The checkout implements a bank of one torquer.
THEOREM ActsAsBankHolds == Spec => ActsAsBank
<1>1. Init => Bank!Init
  BY BankLevels DEF Init, Bank!Init, Bank!NothingReported
<1>2. IInv /\ [Next]_vars => [Bank!Next]_(Bank!vars)
  BY NextBank DEF BankStep
<1>. QED
  BY <1>1, <1>2, Invariance, PTL DEF Spec, ActsAsBank, Bank!Spec

=============================================================================
