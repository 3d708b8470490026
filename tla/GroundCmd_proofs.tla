--------------------------- MODULE GroundCmd_proofs ---------------------------
(***************************************************************************)
(* Proofs about GroundCmd, for any depth of the queue, any width of the    *)
(* count, and any number of packets on their way down.                     *)
(***************************************************************************)
EXTENDS GroundCmdProperties, TLAPS, SequenceTheorems

-----------------------------------------------------------------------------
(* Type correctness.                                                       *)

\* The report of a well-typed service, and the count after a count.
LEMMA ServiceType ==
  /\ ServiceTypeOK => Now \in Report
  /\ \A c \in 0 .. CountMod - 1 : After(c) \in 0 .. CountMod - 1
  /\ 0 \in 0 .. CountMod - 1
  BY ServiceAssumption DEF ServiceTypeOK, After

\* The count and the state, as the report has them.
LEMMA NowType ==
  ASSUME ServiceTypeOK
  PROVE  count \in 0 .. CountMod - 1 /\ enabled \in {"DISABLED", "ENABLED"}
  BY DEF ServiceTypeOK, Now, Report

\* What a procedure commands is a command.
LEMMA OpForType ==
  ASSUME NEW p \in Procedures
  PROVE  OpFor(p) \in {"NOOP", "ENABLE", "DISABLE", "CONFIG"}
  BY DEF Procedures, OpFor

\* Taking a command leaves a queue.
LEMMA TakeType ==
  ASSUME ServiceTypeOK, NEW op, Take(op)
  PROVE  pipe' \in Seq(Ops) /\ Len(pipe') <= Depth
  BY ServiceAssumption DEF ServiceTypeOK, Take

\* Each step of the service that a step of the ground is made of keeps its types.
LEMMA AcceptType == ASSUME ServiceTypeOK, NEW op, Accept(op) PROVE ServiceTypeOK'
<1>1. count' \in 0 .. CountMod - 1
  BY ServiceType, NowType DEF Accept
<1>2. enabled' \in {"DISABLED", "ENABLED"}
  BY NowType DEF Accept
<1>3. pipe' \in Seq(Ops) /\ Len(pipe') <= Depth
  BY TakeType DEF Accept
<1>. QED
  BY <1>1, <1>2, <1>3 DEF ServiceTypeOK, Now, Report

\* So does a refusal.
LEMMA RefuseType == ASSUME ServiceTypeOK, NEW op, Refuse(op) PROVE ServiceTypeOK'
<1>1. pipe' \in Seq(Ops) /\ Len(pipe') <= Depth
  BY TakeType DEF Refuse
<1>. QED
  BY <1>1, NowType DEF Refuse, ServiceTypeOK, Now, Report

\* So does a report.
LEMMA SendReportType ==
  ASSUME ServiceTypeOK, NEW p, SendReport(p)
  PROVE  ServiceTypeOK'
<1>1. pipe' \in Seq(Ops) /\ Len(pipe') <= Depth
  BY TakeType DEF SendReport
<1>. QED
  BY <1>1, NowType DEF SendReport, ServiceTypeOK, Now, Report

\* So does an arrival.
LEMMA DeliverType ==
  ASSUME ServiceTypeOK, NEW op \in Ops, Deliver(op)
  PROVE  ServiceTypeOK'
<1>1. pipe' \in Seq(Ops) /\ Len(pipe') <= Depth
  BY ServiceAssumption DEF ServiceTypeOK, Deliver
<1>. QED
  BY <1>1, NowType DEF Deliver, ServiceTypeOK, Now, Report

\* So does the end of the application.
LEMMA LeaveType == ASSUME ServiceTypeOK, Leave PROVE ServiceTypeOK'
<1>1. pipe' \in Seq(Ops) /\ Len(pipe') <= Depth
  BY ServiceAssumption DEF Leave
<1>. QED
  BY <1>1, ServiceType DEF Leave, ServiceTypeOK, Now, Report

\* A command that is sent up arrives or does not.
LEMMA UplinkType ==
  ASSUME ServiceTypeOK, NEW op \in Ops, Uplink(op)
  PROVE  ServiceTypeOK'
<1>1. CASE Deliver(op)
  BY <1>1, DeliverType
<1>2. CASE UNCHANGED svars
  BY <1>2 DEF svars, ServiceTypeOK, Now, Report
<1>. QED
  BY <1>1, <1>2 DEF Uplink

\* The packet at the head of those on their way down.
LEMMA AirType ==
  ASSUME TypeOK, air # <<>>
  PROVE  /\ Head(air) = air[1] /\ Head(air) \in Report
         /\ Tail(air) \in Seq(Report) /\ Len(Tail(air)) = Len(air) - 1
         /\ Len(air) \in Nat /\ Len(air) >= 1
         /\ \A i \in 1 .. Len(air) - 1 : Tail(air)[i] = air[i + 1]
  BY DEF TypeOK

\* Every step keeps the types.
LEMMA NextType == ASSUME TypeOK, [Next]_vars PROVE TypeOK'
<1>. USE DEF ground, past
<1>1. CASE Execute
  <2>1. PICK op \in Ops :
          /\ Accept(op) \/ Refuse(op)
          /\ done' = IF quiet /\ Acceptable(op) /\ op = OpFor(proc) /\ done < MaxDone
                     THEN done + 1 ELSE done
    BY <1>1 DEF Execute
  <2>2. ServiceTypeOK'
    BY <2>1, AcceptType, RefuseType DEF TypeOK
  <2>3. done' \in 0 .. MaxDone
    BY <2>1 DEF TypeOK, MaxDone
  <2>4. seen' \in BOOLEAN
    BY <1>1 DEF Execute, Sees, TypeOK
  <2>. QED
    BY <1>1, <2>2, <2>3, <2>4 DEF Execute, TypeOK
<1>2. CASE Answer
  <2>1. ServiceTypeOK'
    BY <1>2, SendReportType DEF Answer, TypeOK
  <2>2. air' \in Seq(Report) /\ Len(air') <= AirDepth
    <3>1. air \in Seq(Report) /\ Len(air) <= AirDepth /\ Now \in Report
      BY ServiceType DEF TypeOK
    <3>2. CASE Len(air) < AirDepth /\ air' = Append(air, Now)
      BY <3>1, <3>2, GroundAssumption
    <3>3. CASE UNCHANGED air
      BY <3>1, <3>3
    <3>. QED
      BY <1>2, <3>2, <3>3 DEF Answer
  <2>. QED
    BY <1>2, <2>1, <2>2 DEF Answer, TypeOK
<1>3. CASE Restart
  <2>1. ServiceTypeOK' /\ seen' \in BOOLEAN
    BY <1>3, LeaveType DEF Restart, Sees, TypeOK
  <2>. QED
    BY <1>3, <2>1 DEF Restart, TypeOK
<1>4. CASE OthersAsk
  <2>1. ServiceTypeOK'
    BY <1>4, DeliverType DEF OthersAsk, TypeOK, Ops
  <2>. QED
    BY <1>4, <2>1 DEF OthersAsk, TypeOK
<1>5. CASE ComeDown
  <2>1. ServiceTypeOK'
    BY <1>5 DEF ComeDown, svars, TypeOK, ServiceTypeOK, Now, Report
  <2>2. /\ air' \in Seq(Report) /\ Len(air') <= AirDepth
        /\ tlm' \in Report /\ pc' \in Steps
    BY <1>5, AirType, GroundAssumption DEF ComeDown, TypeOK, Steps
  <2>. QED
    BY <1>5, <2>1, <2>2 DEF ComeDown, TypeOK
<1>6. ASSUME NEW p \in Procedures, Call(p) PROVE TypeOK'
  <2>1. ServiceTypeOK' /\ After(tlm.count) \in 0 .. CountMod - 1
    BY <1>6, ServiceType DEF Call, svars, TypeOK, ServiceTypeOK, Now, Report
  <2>2. /\ pc' \in Steps /\ tries' \in 0 .. 3 /\ target' \in 0 .. CountMod - 1
        /\ initial' \in 0 .. CountMod - 1
    BY <1>6, <2>1, ServiceType DEF Call, Aim, Steps
  <2>3. quiet' \in BOOLEAN /\ calm' \in BOOLEAN /\ seen' \in BOOLEAN
    BY <1>6 DEF Call
  <2>4. done' \in 0 .. MaxDone
    BY <1>6 DEF Call, MaxDone
  <2>. QED
    BY <1>6, <2>1, <2>2, <2>3, <2>4 DEF Call, TypeOK
<1>7. CASE Send
  <2>1. ServiceTypeOK'
    BY <1>7, UplinkType, OpForType DEF Send, TypeOK, Ops
  <2>. QED
    BY <1>7, <2>1 DEF Send, TypeOK, Steps
<1>8. CASE Ask
  <2>1. ServiceTypeOK'
    BY <1>8, UplinkType DEF Ask, TypeOK, Ops
  <2>. QED
    BY <1>8, <2>1 DEF Ask, TypeOK, Steps
<1>9. CASE Wait \/ TimeOut \/ CheckCount \/ Confirm
  <2>1. ServiceTypeOK'
    BY <1>9 DEF Wait, TimeOut, CheckCount, Confirm, svars, TypeOK, ServiceTypeOK,
       Now, Report
  <2>2. pc' \in Steps
    BY <1>9 DEF Wait, BeginWait, TimeOut, CheckCount, Confirm, Steps
  <2>. QED
    BY <1>9, <2>1, <2>2 DEF Wait, TimeOut, CheckCount, Confirm, TypeOK
<1>10. CASE Look
  <2>1. ServiceTypeOK' /\ tlm.count \in 0 .. CountMod - 1
    BY <1>10 DEF Look, svars, TypeOK, ServiceTypeOK, Now, Report
  <2>2. /\ pc' \in Steps /\ tries' \in 0 .. 3 /\ target' \in 0 .. CountMod - 1
        /\ initial' \in 0 .. CountMod - 1
    <3>1. /\ tries \in 0 .. 3 /\ target \in 0 .. CountMod - 1
          /\ initial \in 0 .. CountMod - 1 /\ After(tlm.count) \in 0 .. CountMod - 1
      BY <2>1, ServiceType DEF TypeOK
    <3>2. CASE pc' = "passed" /\ UNCHANGED <<tries, target, initial>>
      BY <3>1, <3>2 DEF Steps
    <3>3. CASE /\ pc' = "aim" /\ UNCHANGED <<tries, target>>
               /\ initial' = IF proc = "confirm" THEN tlm.count ELSE 0
      BY <2>1, <3>1, <3>3, ServiceType DEF Steps
    <3>4. CASE Again /\ pc' = "send" /\ tries' = NextTry /\ UNCHANGED <<target, initial>>
      BY <3>1, <3>4 DEF Steps, Again, NextTry
    <3>5. CASE pc' = "check" /\ UNCHANGED <<tries, target, initial>>
      BY <3>1, <3>5 DEF Steps
    <3>. QED
      BY <1>10, <3>2, <3>3, <3>4, <3>5 DEF Look
  <2>. QED
    BY <1>10, <2>1, <2>2 DEF Look, TypeOK
<1>11. CASE Return
  <2>1. ServiceTypeOK'
    BY <1>11 DEF Return, svars, TypeOK, ServiceTypeOK, Now, Report
  <2>2. /\ pc' \in Steps /\ proc' \in Procedures /\ tries' \in 0 .. 3
        /\ target' \in 0 .. CountMod - 1 /\ initial' \in 0 .. CountMod - 1
    BY <1>11, ServiceType DEF Return, Steps, Procedures
  <2>3. quiet' \in BOOLEAN /\ calm' \in BOOLEAN /\ seen' \in BOOLEAN
    BY <1>11, Zenon DEF Return
  <2>4. done' \in 0 .. MaxDone
    BY <1>11 DEF Return, MaxDone
  <2>. QED
    BY <1>11, <2>1, <2>2, <2>3, <2>4 DEF Return, TypeOK
<1>12. CASE StartCommand
  <2>1. ServiceTypeOK' /\ After(tlm.count) \in 0 .. CountMod - 1
    BY <1>12, ServiceType
    DEF StartCommand, svars, TypeOK, ServiceTypeOK, Now, Report
  <2>2. pc' \in Steps /\ tries' \in 0 .. 3 /\ target' \in 0 .. CountMod - 1
    BY <1>12, <2>1 DEF StartCommand, Aim, Steps
  <2>. QED
    BY <1>12, <2>1, <2>2 DEF StartCommand, TypeOK
<1>13. CASE UNCHANGED vars
  BY <1>13 DEF vars, svars, TypeOK, ServiceTypeOK, Now, Report
<1>. QED
  BY <1>1, <1>2, <1>3, <1>4, <1>5, <1>6, <1>7, <1>8, <1>9, <1>10, <1>11, <1>12,
     <1>13
  DEF Next, Script

\* Nothing is on its way at the start.
LEMMA InitType == Init => TypeOK
<1>. SUFFICES ASSUME Init PROVE TypeOK
  OBVIOUS
<1>1. ServiceTypeOK
  BY ServiceType, ServiceAssumption DEF Init, ServiceInit, ServiceTypeOK, Now, Report
<1>2. tlm \in Report /\ air \in Seq(Report) /\ Len(air) <= AirDepth
  BY ServiceType, GroundAssumption DEF Init, Report
<1>3. /\ pc \in Steps /\ proc \in Procedures /\ tries \in 0 .. 3
      /\ target \in 0 .. CountMod - 1 /\ initial \in 0 .. CountMod - 1
  BY ServiceType DEF Init, Steps, Procedures
<1>4. quiet \in BOOLEAN /\ calm \in BOOLEAN /\ seen \in BOOLEAN
  BY Zenon DEF Init
<1>5. done \in 0 .. MaxDone
  BY DEF Init, MaxDone
<1>. QED
  BY <1>1, <1>2, <1>3, <1>4, <1>5 DEF TypeOK

\* Every variable keeps its type: at most three tries, counts in their range.
THEOREM TypeCorrect == Spec => []TypeOK
<1>1. TypeOK /\ [Next]_vars => TypeOK'
  BY NextType
<1>. QED
  BY InitType, <1>1, PTL DEF Spec

\* A procedure works out its count before its first try, and only then.
AimInv == pc = "aim" => tries = 0

\* So it is, from the start on and after every step.
LEMMA AimAlways == Spec => []AimInv
<1>1. Init => AimInv
  BY DEF Init, AimInv
<1>2. AimInv /\ [Next]_vars => AimInv'
  <2>. SUFFICES ASSUME AimInv, [Next]_vars PROVE AimInv'
    OBVIOUS
  <2>. USE DEF ground, AimInv
  <2>1. CASE Execute \/ Answer \/ Restart \/ OthersAsk \/ UNCHANGED vars
    <3>1. UNCHANGED <<pc, tries>>
      BY <2>1, Zenon DEF Execute, Answer, Restart, OthersAsk, vars
    <3>. QED
      BY <3>1
  <2>2. CASE ComeDown
    BY <2>2 DEF ComeDown
  <2>3. ASSUME NEW p \in Procedures, Call(p) PROVE AimInv'
    BY <2>3 DEF Call
  <2>4. CASE Script
    BY <2>4 DEF Script, Send, Ask, Wait, BeginWait, TimeOut, Look, StartCommand,
       CheckCount, Confirm, Return
  <2>. QED
    BY <2>1, <2>2, <2>3, <2>4 DEF Next
<1>. QED
  BY <1>1, <1>2, PTL DEF Spec

-----------------------------------------------------------------------------
(* StateWasSeen: as long as the device has not been in the state to bring  *)
(* about, no packet says that it was, neither those on their way down nor  *)
(* the one that a procedure has just received.                             *)

SeenInv ==
  quiet /\ ~seen =>
    /\ enabled \notin Goal(proc)
    /\ \A i \in 1 .. Len(air) : air[i].enabled \notin Goal(proc)
    /\ pc \in {"look", "check", "confirm"} => tlm.enabled \notin Goal(proc)
    /\ pc = "passed" => proc \notin {"enable", "disable", "safe"}

\* What is on its way down after an answer: the report too, unless it is lost.
LEMMA AnswerAir ==
  ASSUME TypeOK, Answer
  PROVE  \/ air' = air
         \/ /\ Len(air') = Len(air) + 1 /\ air'[Len(air) + 1] = Now
            /\ \A i \in 1 .. Len(air) : air'[i] = air[i]
<1>1. air \in Seq(Report) /\ Now \in Report
  BY ServiceType DEF TypeOK
<1>2. CASE air' = Append(air, Now)
  BY <1>1, <1>2
<1>3. CASE UNCHANGED air
  BY <1>3
<1>. QED
  BY <1>2, <1>3 DEF Answer

\* Every step keeps it.
LEMMA SeenStep == ASSUME TypeOK, SeenInv, [Next]_vars PROVE SeenInv'
<1>. USE DEF ground, past
<1>1. CASE Execute
  <2>. SUFFICES ASSUME quiet', ~seen' PROVE SeenInv'
    BY DEF SeenInv
  <2>1. quiet /\ ~seen /\ enabled' \notin Goal(proc)
    BY <1>1, Zenon DEF Execute, Sees
  <2>. QED
    BY <1>1, <2>1 DEF Execute, SeenInv
<1>2. CASE Answer
  <2>. SUFFICES ASSUME quiet', ~seen' PROVE SeenInv'
    BY DEF SeenInv
  <2>1. /\ quiet /\ ~seen /\ Now.enabled = enabled
        /\ UNCHANGED <<enabled, tlm, proc, pc>>
    BY <1>2 DEF Answer, SendReport, Now
  <2>2. \A i \in 1 .. Len(air') : air'[i].enabled \notin Goal(proc)
    BY <1>2, <2>1, AnswerAir DEF SeenInv, TypeOK
  <2>. QED
    BY <2>1, <2>2 DEF SeenInv
<1>3. CASE Restart
  <2>. SUFFICES ASSUME quiet', ~seen' PROVE SeenInv'
    BY DEF SeenInv
  <2>1. quiet /\ ~seen /\ enabled' \notin Goal(proc)
    BY <1>3, Zenon DEF Restart, Sees
  <2>. QED
    BY <1>3, <2>1 DEF Restart, SeenInv
<1>4. CASE OthersAsk
  BY <1>4 DEF OthersAsk, Deliver, SeenInv
<1>5. CASE ComeDown
  BY <1>5, AirType DEF ComeDown, svars, SeenInv
<1>6. ASSUME NEW p \in Procedures, Call(p) PROVE SeenInv'
  <2>1. quiet' => air' = <<>>
    BY <1>6 DEF Call
  <2>2. quiet' /\ ~seen' => enabled' \notin Goal(proc')
    BY <1>6, Zenon DEF Call, svars
  <2>3. pc' \in {"ask", "send"}
    BY <1>6 DEF Call
  <2>. QED
    BY <2>1, <2>2, <2>3 DEF SeenInv
<1>7. CASE Send
  BY <1>7 DEF Send, Uplink, Deliver, svars, SeenInv
<1>8. CASE Ask
  BY <1>8 DEF Ask, Uplink, Deliver, svars, SeenInv
<1>9. CASE Wait \/ TimeOut
  BY <1>9 DEF Wait, BeginWait, TimeOut, svars, SeenInv
<1>10. CASE Look
  <2>1. /\ UNCHANGED <<svars, air, tlm, proc, quiet, seen>> /\ pc = "look"
    BY <1>10 DEF Look
  <2>2. pc' = "passed" => proc = "safe" /\ tlm.enabled = "DISABLED"
    BY <1>10 DEF Look
  <2>3. proc = "safe" => "DISABLED" \in Goal(proc)
    BY DEF Goal
  <2>. QED
    BY <2>1, <2>2, <2>3 DEF SeenInv, svars
<1>11. CASE CheckCount
  BY <1>11 DEF CheckCount, svars, SeenInv
<1>12. CASE Confirm
  BY <1>12 DEF Confirm, svars, SeenInv
<1>13. CASE Return
  BY <1>13, Zenon DEF Return, SeenInv
<1>14. CASE StartCommand
  BY <1>14 DEF StartCommand, svars, SeenInv
<1>15. CASE UNCHANGED vars
  BY <1>15 DEF vars, svars, SeenInv
<1>. QED
  BY <1>1, <1>2, <1>3, <1>4, <1>5, <1>6, <1>7, <1>8, <1>9, <1>10, <1>11, <1>12,
     <1>13, <1>14, <1>15
  DEF Next, Script

\* A procedure that passes has seen the device in the state it is to bring
\* about, whatever was lost, whoever else asked for packets, and whether or not
\* the application restarted.
THEOREM StateWasSeenHolds == Spec => []StateWasSeen
<1>1. Init => SeenInv
  BY Zenon DEF Init, SeenInv
<1>2. TypeOK /\ SeenInv /\ [Next]_vars => SeenInv'
  BY SeenStep
<1>3. SeenInv => StateWasSeen
  BY Zenon DEF SeenInv, StateWasSeen
<1>. QED
  BY <1>1, <1>2, <1>3, TypeCorrect, PTL DEF Spec

-----------------------------------------------------------------------------
(* PassedIsExecuted: while a procedure only asks for housekeeping, counts  *)
(* only get lower, so that the one it aims from is the highest of those    *)
(* that may still come; from then on, as long as its command has not been  *)
(* accepted, every count there is stays below the one it aims at.          *)

AskInv ==
  quiet /\ tries = 0 =>
    /\ done = 0
    /\ pc \in {"ask", "asked", "wait", "look", "aim", "passed", "failed"}
    /\ \A i \in 1 .. Len(pipe) : pipe[i] = "HK"
    /\ \A i \in 1 .. Len(air) : count <= air[i].count
    /\ \A i, j \in 1 .. Len(air) : i < j => air[j].count <= air[i].count
    /\ pc \in {"look", "aim"} => /\ count <= tlm.count
                               /\ \A i \in 1 .. Len(air) : air[i].count <= tlm.count

\* No count is as high as the target.
Below ==
  /\ count < target
  /\ tlm.count < target
  /\ \A i \in 1 .. Len(air) : air[i].count < target
  /\ pc \notin {"confirm", "passed"}

TryInv ==
  quiet /\ tries > 0 =>
    /\ \A i \in 1 .. Len(pipe) : pipe[i] \in {OpFor(proc), "HK"}
    /\ target # 0 /\ done = 0 => Below

\* The counts are numbers, those of the packets too.
LEMMA CountsAreNat ==
  ASSUME TypeOK
  PROVE  /\ count \in Nat /\ tlm.count \in Nat /\ target \in Nat
         /\ \A i \in 1 .. Len(air) : air[i].count \in Nat
         /\ Len(air) \in Nat /\ Len(pipe) \in Nat /\ Now.count = count
<1>1. air \in Seq(Report) /\ tlm \in Report /\ Now \in Report
  BY ServiceType DEF TypeOK
<1>2. \A r \in Report : r.count \in Nat
  BY ServiceAssumption DEF Report
<1>3. \A i \in 1 .. Len(air) : air[i] \in Report
  BY <1>1
<1>4. target \in Nat /\ Now.count = count /\ Len(pipe) \in Nat
  BY ServiceAssumption DEF TypeOK, Now, ServiceTypeOK
<1>. QED
  BY <1>1, <1>2, <1>3, <1>4

\* What the queue holds after a command is taken, and after one arrives.
LEMMA PipeAfter ==
  ASSUME TypeOK
  PROVE  /\ \A op : Take(op) =>
              /\ Len(pipe) >= 1 /\ pipe[1] = op /\ Len(pipe') = Len(pipe) - 1
              /\ \A i \in 1 .. Len(pipe') : pipe'[i] = pipe[i + 1]
         /\ \A op \in Ops : Deliver(op) =>
              /\ Len(pipe') = Len(pipe) + 1 /\ pipe'[Len(pipe) + 1] = op
              /\ \A i \in 1 .. Len(pipe) : pipe'[i] = pipe[i]
<1>1. pipe \in Seq(Ops)
  BY DEF TypeOK, ServiceTypeOK
<1>2. ASSUME NEW op, Take(op)
      PROVE  /\ Len(pipe) >= 1 /\ pipe[1] = op /\ Len(pipe') = Len(pipe) - 1
             /\ \A i \in 1 .. Len(pipe') : pipe'[i] = pipe[i + 1]
  BY <1>1, <1>2 DEF Take
<1>3. ASSUME NEW op \in Ops, Deliver(op)
      PROVE  /\ Len(pipe') = Len(pipe) + 1 /\ pipe'[Len(pipe) + 1] = op
             /\ \A i \in 1 .. Len(pipe) : pipe'[i] = pipe[i]
  BY <1>1, <1>3 DEF Deliver
<1>. QED
  BY <1>2, <1>3

\* While a procedure only asks, its steps and those of the flight side keep
\* AskInv.
LEMMA AskStep == ASSUME TypeOK, AskInv, [Next]_vars PROVE AskInv'
<1>. USE DEF ground, past
<1>1. CASE Execute
  <2>. SUFFICES ASSUME quiet', tries' = 0 PROVE AskInv'
    BY DEF AskInv
  <2>1. quiet /\ tries = 0
    BY <1>1 DEF Execute
  <2>2. PICK op \in Ops :
          /\ Accept(op) \/ Refuse(op)
          /\ done' = IF quiet /\ Acceptable(op) /\ op = OpFor(proc) /\ done < MaxDone
                     THEN done + 1 ELSE done
    BY <1>1 DEF Execute
  <2>3. Take(op) /\ op # "HK"
    BY <2>2 DEF Accept, Refuse, Acceptable
  <2>4. Len(pipe) \in Nat /\ Len(pipe) >= 1 /\ pipe[1] = op
    BY <2>3, PipeAfter, CountsAreNat
  <2>. QED
    BY <2>1, <2>3, <2>4 DEF AskInv
<1>2. CASE Answer
  <2>. SUFFICES ASSUME quiet', tries' = 0 PROVE AskInv'
    BY DEF AskInv
  <2>1. quiet /\ tries = 0 /\ Take("HK") /\ UNCHANGED <<count, tlm, pc, done>>
    BY <1>2 DEF Answer, SendReport
  <2>2. \A i \in 1 .. Len(pipe') : pipe'[i] = "HK"
    <3>1. \A i \in 1 .. Len(pipe) : pipe[i] = "HK"
      BY <2>1 DEF AskInv
    <3>. QED
      BY <2>1, <3>1, PipeAfter, CountsAreNat
  <2>3. \A i \in 1 .. Len(air') : count <= air'[i].count
    BY <1>2, <2>1, AnswerAir, CountsAreNat DEF AskInv
  <2>4. \A i, j \in 1 .. Len(air') : i < j => air'[j].count <= air'[i].count
    BY <1>2, <2>1, AnswerAir, CountsAreNat DEF AskInv
  <2>5. pc \in {"look", "aim"} => \A i \in 1 .. Len(air') : air'[i].count <= tlm.count
    BY <1>2, <2>1, AnswerAir, CountsAreNat DEF AskInv
  <2>. QED
    BY <2>1, <2>2, <2>3, <2>4, <2>5 DEF AskInv
<1>3. CASE Restart
  <2>. SUFFICES ASSUME quiet', tries' = 0 PROVE AskInv'
    BY DEF AskInv
  <2>1. /\ quiet /\ tries = 0 /\ Len(pipe') = 0 /\ count' = 0
        /\ UNCHANGED <<air, tlm, pc, done>>
    BY <1>3 DEF Restart, Leave
  <2>. QED
    BY <2>1, CountsAreNat DEF AskInv
<1>4. CASE OthersAsk
  BY <1>4, PipeAfter, CountsAreNat DEF OthersAsk, Deliver, Ops, AskInv
<1>5. CASE ComeDown
  <2>. SUFFICES ASSUME quiet', tries' = 0 PROVE AskInv'
    BY DEF AskInv
  <2>1. /\ quiet /\ tries = 0 /\ UNCHANGED <<pipe, count, done>>
        /\ tlm' = air[1] /\ Len(air') = Len(air) - 1 /\ Len(air) >= 1
        /\ \A i \in 1 .. Len(air') : air'[i] = air[i + 1]
    BY <1>5, AirType, CountsAreNat DEF ComeDown, svars
  <2>2. pc' \in {"ask", "asked", "wait", "look", "aim", "passed", "failed"}
    BY <1>5, <2>1 DEF ComeDown, AskInv
  <2>3. /\ \A i \in 1 .. Len(air) : count <= air[i].count
        /\ \A i, j \in 1 .. Len(air) : i < j => air[j].count <= air[i].count
        /\ done = 0 /\ \A i \in 1 .. Len(pipe) : pipe[i] = "HK"
        /\ Len(air) \in Nat /\ 1 \in 1 .. Len(air)
    BY <2>1, CountsAreNat DEF AskInv
  <2>4. \A i \in 1 .. Len(air') : air'[i] = air[i + 1] /\ i + 1 \in 1 .. Len(air) /\ 1 < i + 1
    BY <2>1, <2>3
  <2>5. \A i \in 1 .. Len(air') : count <= air'[i].count /\ air'[i].count <= tlm'.count
    BY <2>1, <2>3, <2>4
  <2>6. ASSUME NEW i \in 1 .. Len(air'), NEW j \in 1 .. Len(air'), i < j
        PROVE  air'[j].count <= air'[i].count
    BY <2>3, <2>4, <2>6
  <2>. QED
    BY <2>1, <2>2, <2>3, <2>5, <2>6 DEF AskInv
<1>6. ASSUME NEW p \in Procedures, Call(p) PROVE AskInv'
  <2>1. quiet' => Len(air') = 0 /\ Len(pipe') = 0
    BY <1>6 DEF Call, svars
  <2>2. done' = 0 /\ (tries' = 0 => pc' = "ask")
    BY <1>6 DEF Call
  <2>. QED
    BY <2>1, <2>2 DEF AskInv
<1>7. CASE Send
  BY <1>7 DEF Send, AskInv
<1>8. CASE Ask
  BY <1>8, PipeAfter, CountsAreNat DEF Ask, Uplink, Deliver, svars, Ops, AskInv
<1>9. CASE Wait \/ TimeOut
  BY <1>9 DEF Wait, BeginWait, TimeOut, svars, AskInv
<1>10. CASE Look
  <2>1. tries' = 0 => tries = 0 /\ pc = "look" /\ pc' \in {"passed", "aim"}
    BY <1>10 DEF Look, Again, NextTry, TypeOK
  <2>2. UNCHANGED <<pipe, count, air, tlm, quiet, done>>
    BY <1>10 DEF Look, svars
  <2>. QED
    BY <2>1, <2>2 DEF AskInv
<1>11. CASE CheckCount \/ Confirm
  BY <1>11 DEF CheckCount, Confirm, AskInv
<1>12. CASE Return
  BY <1>12, Zenon DEF Return, AskInv
<1>13. CASE StartCommand
  BY <1>13 DEF StartCommand, AskInv
<1>14. CASE UNCHANGED vars
  BY <1>14 DEF vars, svars, AskInv
<1>. QED
  BY <1>1, <1>2, <1>3, <1>4, <1>5, <1>6, <1>7, <1>8, <1>9, <1>10, <1>11, <1>12,
     <1>13, <1>14
  DEF Next, Script

\* The count after a count is the next one or 0; no command asks for packets,
\* and only the one that the procedure sends is accepted from its queue.
LEMMA Facts ==
  /\ \A c \in Nat : After(c) # 0 => After(c) = c + 1
  /\ \A p \in Procedures : OpFor(p) # "HK"
  /\ ~Acceptable("HK")
  BY DEF After, Procedures, OpFor, Acceptable

\* So do the steps of a procedure that has sent its command.
LEMMA TryStep ==
  ASSUME TypeOK, AimInv, AskInv, TryInv, [Next]_vars
  PROVE  TryInv'
<1>. USE DEF ground, past
<1>1. CASE Execute
  <2>. SUFFICES ASSUME quiet', tries' > 0 PROVE TryInv'
    BY DEF TryInv
  <2>1. quiet /\ tries > 0 /\ UNCHANGED <<air, tlm, proc, pc, tries, target>>
    BY <1>1 DEF Execute
  <2>2. PICK op \in Ops :
          /\ Accept(op) \/ Refuse(op)
          /\ done' = IF quiet /\ Acceptable(op) /\ op = OpFor(proc) /\ done < MaxDone
                     THEN done + 1 ELSE done
    BY <1>1 DEF Execute
  <2>3. Take(op)
    BY <2>2 DEF Accept, Refuse
  <2>4. Len(pipe) \in Nat /\ Len(pipe) >= 1 /\ pipe[1] = op
    BY <2>3, PipeAfter, CountsAreNat
  <2>5. op \in {OpFor(proc), "HK"}
    BY <2>1, <2>4 DEF TryInv
  <2>6. \A i \in 1 .. Len(pipe') : pipe'[i] \in {OpFor(proc), "HK"}
    BY <2>1, <2>3, PipeAfter, CountsAreNat DEF TryInv
  <2>7. CASE Accept(op)
    <3>1. Acceptable(op) /\ op = OpFor(proc)
      BY <2>5, <2>7, Facts DEF Accept
    <3>2. done' # 0
      BY <2>1, <2>2, <3>1 DEF TypeOK, MaxDone
    <3>. QED
      BY <2>1, <2>6, <3>2 DEF TryInv
  <2>8. CASE Refuse(op)
    <3>1. UNCHANGED count /\ ~Acceptable(op)
      BY <2>8 DEF Refuse
    <3>2. done' = done
      BY <2>2, <3>1
    <3>. QED
      BY <2>1, <2>6, <3>1, <3>2 DEF TryInv, Below
  <2>. QED
    BY <2>2, <2>7, <2>8
<1>2. CASE Answer
  <2>. SUFFICES ASSUME quiet', tries' > 0 PROVE TryInv'
    BY DEF TryInv
  <2>1. /\ quiet /\ tries > 0 /\ Take("HK")
        /\ UNCHANGED <<count, tlm, proc, pc, tries, target, done>>
    BY <1>2 DEF Answer, SendReport
  <2>2. \A i \in 1 .. Len(pipe') : pipe'[i] \in {OpFor(proc), "HK"}
    BY <2>1, PipeAfter, CountsAreNat DEF TryInv
  <2>3. ASSUME target # 0, done = 0
        PROVE  \A i \in 1 .. Len(air') : air'[i].count < target
    BY <1>2, <2>1, <2>3, AnswerAir, CountsAreNat DEF TryInv, Below
  <2>. QED
    BY <2>1, <2>2, <2>3 DEF TryInv, Below
<1>3. CASE Restart
  <2>. SUFFICES ASSUME quiet', tries' > 0 PROVE TryInv'
    BY DEF TryInv
  <2>1. /\ quiet /\ tries > 0 /\ Len(pipe') = 0 /\ count' = 0
        /\ UNCHANGED <<air, tlm, proc, pc, tries, target, done>>
    BY <1>3 DEF Restart, Leave
  <2>2. target # 0 => 0 < target
    BY CountsAreNat
  <2>. QED
    BY <2>1, <2>2 DEF TryInv, Below
<1>4. CASE OthersAsk
  BY <1>4, PipeAfter, CountsAreNat DEF OthersAsk, Deliver, Ops, TryInv, Below
<1>5. CASE ComeDown
  <2>. SUFFICES ASSUME quiet', tries' > 0 PROVE TryInv'
    BY DEF TryInv
  <2>1. /\ quiet /\ tries > 0
        /\ UNCHANGED <<pipe, count, proc, tries, target, done>>
        /\ tlm' = air[1] /\ Len(air') = Len(air) - 1 /\ Len(air) >= 1
        /\ \A i \in 1 .. Len(air') : air'[i] = air[i + 1]
    BY <1>5, AirType, CountsAreNat DEF ComeDown, svars
  <2>2. pc' = pc \/ pc' = "look"
    BY <1>5 DEF ComeDown
  <2>3. ASSUME target # 0, done = 0
        PROVE  Below'
    <3>1. Below /\ Len(air) \in Nat /\ 1 \in 1 .. Len(air)
      BY <2>1, <2>3, CountsAreNat DEF TryInv
    <3>2. \A i \in 1 .. Len(air') : air'[i] = air[i + 1] /\ i + 1 \in 1 .. Len(air)
      BY <2>1, <3>1
    <3>3. tlm'.count < target' /\ \A i \in 1 .. Len(air') : air'[i].count < target'
      BY <2>1, <3>1, <3>2 DEF Below
    <3>. QED
      BY <2>1, <2>2, <3>1, <3>3 DEF Below
  <2>. QED
    BY <2>1, <2>3 DEF TryInv
<1>6. ASSUME NEW p \in Procedures, Call(p) PROVE TryInv'
  <2>. SUFFICES ASSUME quiet', tries' > 0 PROVE TryInv'
    BY DEF TryInv
  <2>1. p \notin {"safe", "confirm"} /\ pc' = "send" /\ target' = After(tlm.count)
    BY <1>6 DEF Call, Aim
  <2>2. /\ pipe = <<>> /\ air = <<>> /\ tlm.count = count
        /\ UNCHANGED <<pipe, air, count, tlm>>
    BY <1>6, <2>1 DEF Call, svars
  <2>3. target' # 0 => Below'
    BY <2>1, <2>2, Facts, CountsAreNat DEF Below
  <2>. QED
    BY <2>2, <2>3 DEF TryInv
<1>7. CASE Send
  <2>. SUFFICES ASSUME quiet', tries' > 0 PROVE TryInv'
    BY DEF TryInv
  <2>1. /\ quiet /\ tries > 0 /\ pc' = "ask"
        /\ UNCHANGED <<count, air, tlm, proc, tries, target, done>>
    BY <1>7 DEF Send, Uplink, Deliver, svars
  <2>2. OpFor(proc) \in Ops
    BY OpForType DEF TypeOK, Ops
  <2>3. \A i \in 1 .. Len(pipe') : pipe'[i] \in {OpFor(proc), "HK"}
    <3>1. CASE Deliver(OpFor(proc))
      BY <2>1, <2>2, <3>1, PipeAfter, CountsAreNat DEF TryInv
    <3>2. CASE UNCHANGED svars
      BY <2>1, <3>2 DEF TryInv, svars
    <3>. QED
      BY <1>7, <3>1, <3>2 DEF Send, Uplink
  <2>. QED
    BY <2>1, <2>3 DEF TryInv, Below
<1>8. CASE Ask
  <2>. SUFFICES ASSUME quiet', tries' > 0 PROVE TryInv'
    BY DEF TryInv
  <2>1. /\ quiet /\ tries > 0 /\ pc' = "asked"
        /\ UNCHANGED <<count, air, tlm, proc, tries, target, done>>
    BY <1>8 DEF Ask, Uplink, Deliver, svars
  <2>2. \A i \in 1 .. Len(pipe') : pipe'[i] \in {OpFor(proc), "HK"}
    <3>1. CASE Deliver("HK")
      BY <2>1, <3>1, PipeAfter, CountsAreNat DEF TryInv, Ops
    <3>2. CASE UNCHANGED svars
      BY <2>1, <3>2 DEF TryInv, svars
    <3>. QED
      BY <1>8, <3>1, <3>2 DEF Ask, Uplink
  <2>. QED
    BY <2>1, <2>2 DEF TryInv, Below
<1>9. CASE Wait \/ TimeOut
  BY <1>9 DEF Wait, BeginWait, TimeOut, svars, TryInv, Below
<1>10. CASE Look
  <2>. SUFFICES ASSUME quiet', tries' > 0 PROVE TryInv'
    BY DEF TryInv
  <2>1. UNCHANGED <<pipe, count, air, tlm, proc, quiet, done>> /\ pc = "look"
    BY <1>10 DEF Look, svars
  <2>2. tries > 0 /\ pc' \in {"send", "check"} /\ target' = target
    BY <1>10 DEF Look, Again, TypeOK
  <2>. QED
    BY <2>1, <2>2 DEF TryInv, Below
<1>11. CASE CheckCount
  <2>1. Below => pc' = "failed"
    BY <1>11 DEF CheckCount, Below
  <2>. QED
    BY <1>11, <2>1 DEF CheckCount, svars, TryInv, Below
<1>12. CASE Confirm
  BY <1>12 DEF Confirm, svars, TryInv, Below
<1>13. CASE Return
  BY <1>13, Zenon DEF Return, TryInv
<1>14. CASE StartCommand
  <2>. SUFFICES ASSUME quiet' PROVE TryInv'
    BY DEF TryInv
  <2>1. /\ quiet /\ pc = "aim" /\ tries = 0
        /\ pc' = "send" /\ target' = After(tlm.count)
        /\ UNCHANGED <<pipe, count, air, tlm, proc, done>>
    BY <1>14 DEF StartCommand, Aim, AimInv, svars
  <2>2. count <= tlm.count /\ \A i \in 1 .. Len(air) : air[i].count <= tlm.count
    BY <2>1 DEF AskInv
  <2>3. target' # 0 => Below'
    BY <2>1, <2>2, Facts, CountsAreNat DEF Below
  <2>. QED
    BY <2>1, <2>3 DEF AskInv, TryInv
<1>15. CASE UNCHANGED vars
  BY <1>15 DEF vars, svars, TryInv, Below
<1>. QED
  BY <1>1, <1>2, <1>3, <1>4, <1>5, <1>6, <1>7, <1>8, <1>9, <1>10, <1>11, <1>12,
     <1>13, <1>14, <1>15
  DEF Next, Script

\* A procedure that passes has had its command executed: the count it has seen
\* cannot be anyone else's, late or early, unless it is the one that wraps.
THEOREM PassedIsExecutedHolds == Spec => []PassedIsExecuted
<1>1. Init => AskInv /\ TryInv
  <2>1. Init => ~quiet
    BY Zenon DEF Init
  <2>. QED
    BY <2>1 DEF AskInv, TryInv
<1>2. TypeOK /\ AimInv /\ AskInv /\ TryInv /\ [Next]_vars => (AskInv /\ TryInv)'
  BY AskStep, TryStep
<1>3. TypeOK /\ TryInv => PassedIsExecuted
  BY DEF TypeOK, TryInv, Below, PassedIsExecuted
<1>. QED
  BY <1>1, <1>2, <1>3, TypeCorrect, AimAlways, PTL DEF Spec

\* Only safe_generic_torquer passes without having sent a command.
UnsentInv ==
  /\ pc \in {"send", "check", "confirm"} => tries > 0
  /\ pc = "passed" /\ tries = 0 => proc = "safe"

\* So it is, from the start on and after every step.
LEMMA UnsentAlways == Spec => []UnsentInv
<1>1. Init => UnsentInv
  BY DEF Init, UnsentInv
<1>2. TypeOK /\ UnsentInv /\ [Next]_vars => UnsentInv'
  <2>. SUFFICES ASSUME TypeOK, UnsentInv, [Next]_vars PROVE UnsentInv'
    OBVIOUS
  <2>. USE DEF ground, past, UnsentInv
  <2>1. CASE Execute \/ Answer \/ Restart \/ OthersAsk
    <3>1. UNCHANGED <<pc, tries, proc>>
      BY <2>1, Zenon DEF Execute, Answer, Restart, OthersAsk
    <3>. QED
      BY <3>1
  <2>2. CASE ComeDown
    BY <2>2 DEF ComeDown
  <2>3. ASSUME NEW p \in Procedures, Call(p) PROVE UnsentInv'
    BY <2>3 DEF Call
  <2>4. CASE Send \/ Ask \/ Wait \/ TimeOut
    <3>1. pc' \in {"ask", "asked", "wait", "failed"}
      BY <2>4 DEF Send, Ask, Wait, BeginWait, TimeOut
    <3>. QED
      BY <3>1
  <2>5. CASE Look
    BY <2>5 DEF Look, Again, NextTry, TypeOK
  <2>6. CASE CheckCount \/ Confirm
    BY <2>6 DEF CheckCount, Confirm
  <2>7. CASE Return
    BY <2>7 DEF Return
  <2>8. CASE StartCommand
    BY <2>8 DEF StartCommand
  <2>9. CASE UNCHANGED vars
    BY <2>9 DEF vars
  <2>. QED
    BY <2>1, <2>2, <2>3, <2>4, <2>5, <2>6, <2>7, <2>8, <2>9 DEF Next, Script
<1>. QED
  BY <1>1, <1>2, TypeCorrect, PTL DEF Spec

\* The only ways for a procedure to pass and its command not to be executed: the
\* command wraps the count to 0, or it is safe_generic_torquer, which sent none
\* because it saw the device disabled.  The first is why
\* NoopConfirmsIncrement does not hold.
THEOREM FalsePassIsTheWrap ==
  Spec => [](pc = "passed" /\ quiet /\ done = 0 =>
               \/ tries > 0 /\ target = 0
               \/ tries = 0 /\ proc = "safe" /\ seen)
<1>1. /\ TypeOK /\ PassedIsExecuted /\ StateWasSeen /\ UnsentInv
      => (pc = "passed" /\ quiet /\ done = 0 =>
            \/ tries > 0 /\ target = 0
            \/ tries = 0 /\ proc = "safe" /\ seen)
  BY DEF TypeOK, PassedIsExecuted, StateWasSeen, UnsentInv
<1>. QED
  BY <1>1, TypeCorrect, PassedIsExecutedHolds, StateWasSeenHolds, UnsentAlways, PTL

-----------------------------------------------------------------------------
(* ExecutedOnce and VerdictsAreRight: if nobody else asks for housekeeping *)
(* and the application stays up, a procedure has at most one command and   *)
(* one request on their way up, the packet on its way down answers that    *)
(* request, and so it reports whether the command was executed.            *)

LoneShape ==
  /\ pc # "idle"
  /\ pipe \in {<<>>, <<OpFor(proc)>>, <<"HK">>, <<OpFor(proc), "HK">>}
  /\ air = <<>> \/ (pipe = <<>> /\ Len(air) = 1)
  /\ pc \in {"send", "look", "aim", "check", "confirm", "passed"} =>
       pipe = <<>> /\ air = <<>>
  /\ pc = "ask" => air = <<>> /\ pipe \in {<<>>, <<OpFor(proc)>>}
  /\ tries = 0 => pipe \in {<<>>, <<"HK">>} /\ pc \notin {"send", "check", "confirm"}

LoneCounts ==
  /\ \A i \in 1 .. Len(air) : air[i].count = count
  /\ pc \in {"look", "aim", "check", "confirm"} => tlm.count = count
  /\ pc = "aim" /\ proc = "confirm" => initial = count
  /\ tries = 0 => done = 0
  /\ tries > 0 => \/ done = 0 /\ target = After(count)
                  \/ /\ done = 1 /\ target = count
                     /\ pipe \in {<<>>, <<"HK">>} /\ pc # "send"
  /\ tries > 0 /\ proc = "confirm" => target = After(initial)
  /\ pc = "confirm" => target <= tlm.count

LoneReports ==
  /\ \A i \in 1 .. Len(air) : air[i] = Now
  /\ pc \in {"look", "aim", "check", "confirm"} => tlm = Now
  /\ done > 0 /\ OpFor(proc) = "DISABLE" => enabled = "DISABLED"

LoneInv == quiet /\ calm => LoneShape /\ LoneCounts /\ LoneReports

\* Queues of at most one command and one request.
LEMMA Tuples ==
  ASSUME NEW op
  PROVE  /\ <<op>> # <<>> /\ Head(<<op>>) = op /\ Tail(<<op>>) = <<>>
         /\ <<op, "HK">> # <<>> /\ <<op, "HK">> # <<op>> /\ <<op, "HK">> # <<"HK">>
         /\ Head(<<op, "HK">>) = op /\ Tail(<<op, "HK">>) = <<"HK">>
         /\ Append(<<>>, op) = <<op>> /\ Append(<<op>>, "HK") = <<op, "HK">>
<1>1. <<op>> # <<>> /\ Head(<<op>>) = op /\ Tail(<<op>>) = <<>>
  OBVIOUS
<1>2. Len(<<op, "HK">>) = 2 /\ Len(<<op>>) = 1 /\ Len(<<"HK">>) = 1 /\ Len(<<>>) = 0
  OBVIOUS
<1>3. <<op, "HK">> # <<>> /\ <<op, "HK">> # <<op>> /\ <<op, "HK">> # <<"HK">>
  BY <1>2
<1>4. Head(<<op, "HK">>) = op
  OBVIOUS
<1>5. Tail(<<op, "HK">>) = <<"HK">>
  OBVIOUS
<1>6. Append(<<>>, op) = <<op>>
  OBVIOUS
<1>7. Append(<<op>>, "HK") = <<op, "HK">>
  <2>1. <<op>> \in Seq({op, "HK"}) /\ <<op, "HK">> \in Seq({op, "HK"})
    OBVIOUS
  <2>2. /\ Append(<<op>>, "HK") \in Seq({op, "HK"}) /\ Len(Append(<<op>>, "HK")) = 2
        /\ Append(<<op>>, "HK")[1] = op /\ Append(<<op>>, "HK")[2] = "HK"
    BY <2>1, <1>2
  <2>3. <<op, "HK">>[1] = op /\ <<op, "HK">>[2] = "HK"
    OBVIOUS
  <2>4. \A i \in 1 .. 2 : Append(<<op>>, "HK")[i] = <<op, "HK">>[i]
    BY <2>2, <2>3
  <2>. QED
    BY <2>1, <2>2, <2>4, <1>2, SeqEqual
<1>. QED
  BY <1>1, <1>3, <1>4, <1>5, <1>6, <1>7

\* What is taken from such a queue is the command, or the last request.
LEMMA LoneTake ==
  ASSUME TypeOK, LoneShape, NEW op, Take(op)
  PROVE  /\ air = <<>> /\ pc \in {"ask", "asked", "wait", "failed"}
         /\ op # "HK" => /\ op = OpFor(proc) /\ tries > 0
                         /\ pipe' \in {<<>>, <<"HK">>}
                         /\ pc = "ask" => pipe' = <<>>
                         /\ pipe \notin {<<>>, <<"HK">>}
         /\ op = "HK" => pipe' = <<>> /\ pipe = <<"HK">> /\ pc # "ask"
<1>1. OpFor(proc) # "HK" /\ pipe # <<>> /\ Head(pipe) = op /\ pipe' = Tail(pipe)
  BY Facts DEF TypeOK, Take
<1>2. air = <<>> /\ pc \in {"ask", "asked", "wait", "failed"}
  BY <1>1 DEF LoneShape, TypeOK, Steps
<1>3. CASE pipe = <<OpFor(proc)>>
  <2>1. op = OpFor(proc) /\ pipe' = <<>> /\ pipe # <<"HK">>
    BY <1>1, <1>3, Tuples
  <2>2. tries # 0
    BY <1>1, <2>1 DEF LoneShape
  <2>. QED
    BY <1>1, <1>2, <2>1, <2>2 DEF TypeOK
<1>4. CASE pipe = <<"HK">>
  <2>1. op = "HK" /\ pipe' = <<>>
    BY <1>1, <1>4, Tuples
  <2>2. pc # "ask"
    <3>1. <<"HK">> # <<OpFor(proc)>> /\ <<"HK">> # <<>>
      BY <1>1, Tuples
    <3>. QED
      BY <1>4, <3>1 DEF LoneShape
  <2>. QED
    BY <1>2, <1>4, <2>1, <2>2
<1>5. CASE pipe = <<OpFor(proc), "HK">>
  <2>1. op = OpFor(proc) /\ pipe' = <<"HK">>
    BY <1>1, <1>5, Tuples
  <2>2. pipe \notin {<<>>, <<"HK">>} /\ pipe # <<OpFor(proc)>>
    BY <1>1, <1>5, Tuples
  <2>3. tries # 0 /\ pc # "ask"
    BY <1>1, <2>2 DEF LoneShape
  <2>4. tries > 0 /\ op # "HK"
    BY <1>1, <2>1, <2>3 DEF TypeOK
  <2>. QED
    BY <1>2, <2>1, <2>2, <2>3, <2>4, Zenon
<1>. QED
  BY <1>1, <1>3, <1>4, <1>5 DEF LoneShape

\* A step after which the procedure is still on its own keeps the shape of what
\* is on its way.
LEMMA LoneShapeStep ==
  ASSUME TypeOK, LoneInv, [Next]_vars, quiet', calm'
  PROVE  LoneShape'
<1>. USE DEF ground, past
<1>0. OpFor(proc) # "HK"
  BY Facts DEF TypeOK
<1>1. CASE Execute
  <2>1. LoneShape /\ UNCHANGED <<air, proc, pc, tries>>
    BY <1>1, Zenon DEF Execute, LoneInv
  <2>2. PICK o \in Ops : Accept(o) \/ Refuse(o)
    BY <1>1 DEF Execute
  <2>3. Take(o) /\ o # "HK"
    BY <2>2 DEF Accept, Refuse, Acceptable
  <2>4. /\ air = <<>> /\ pc \in {"ask", "asked", "wait", "failed"} /\ tries > 0
        /\ pipe' \in {<<>>, <<"HK">>} /\ (pc = "ask" => pipe' = <<>>)
    BY <2>1, <2>3, LoneTake
  <2>. QED
    BY <2>1, <2>4 DEF LoneShape
<1>2. CASE Answer
  <2>1. LoneShape /\ UNCHANGED <<proc, pc, tries>> /\ Take("HK")
    BY <1>2, Zenon DEF Answer, SendReport, LoneInv
  <2>2. air = <<>> /\ pc \in {"asked", "wait", "failed"} /\ pipe' = <<>>
    BY <2>1, LoneTake
  <2>3. air' = <<>> \/ air' = <<Now>>
    BY <1>2, <2>2, Tuples DEF Answer
  <2>4. air' = <<>> \/ Len(air') = 1
    BY <2>3
  <2>. QED
    BY <2>1, <2>2, <2>4 DEF LoneShape
<1>3. CASE Restart \/ OthersAsk
  BY <1>3, Zenon DEF Restart, OthersAsk
<1>4. CASE ComeDown
  <2>1. LoneShape /\ UNCHANGED <<pipe, proc, tries>> /\ air # <<>>
    BY <1>4, Zenon DEF ComeDown, LoneInv, svars
  <2>2. Len(air) = 1 /\ pipe = <<>> /\ pc \in {"asked", "wait", "failed"}
    BY <2>1 DEF LoneShape, TypeOK, Steps
  <2>3. air' = <<>>
    BY <1>4, <2>1, <2>2, AirType, EmptySeq DEF ComeDown, TypeOK
  <2>4. pc' \in {"asked", "failed", "look"}
    BY <1>4, <2>2 DEF ComeDown
  <2>. QED
    BY <2>1, <2>2, <2>3, <2>4 DEF LoneShape
<1>5. ASSUME NEW p \in Procedures, Call(p) PROVE LoneShape'
  <2>1. pipe' = <<>> /\ air' = <<>>
    BY <1>5 DEF Call, svars
  <2>2. pc' \in {"ask", "send"} /\ (tries' = 0 => pc' = "ask")
    BY <1>5 DEF Call
  <2>. QED
    BY <2>1, <2>2 DEF LoneShape
<1>6. CASE Send
  <2>1. /\ LoneShape /\ UNCHANGED <<air, proc, tries>> /\ pc = "send" /\ pc' = "ask"
    BY <1>6, Zenon DEF Send, LoneInv
  <2>2. pipe = <<>> /\ air = <<>> /\ tries # 0
    BY <2>1 DEF LoneShape
  <2>3. pipe' = <<>> \/ pipe' = <<OpFor(proc)>>
    BY <1>6, <2>2, Tuples DEF Send, Uplink, Deliver, svars
  <2>. QED
    BY <2>1, <2>2, <2>3 DEF LoneShape
<1>7. CASE Ask
  <2>1. /\ LoneShape /\ UNCHANGED <<air, proc, tries>> /\ pc = "ask" /\ pc' = "asked"
    BY <1>7, Zenon DEF Ask, LoneInv
  <2>2. /\ air = <<>> /\ pipe \in {<<>>, <<OpFor(proc)>>}
        /\ tries = 0 => pipe \in {<<>>, <<"HK">>}
    BY <2>1 DEF LoneShape
  <2>3. pipe' = pipe \/ pipe' = Append(pipe, "HK")
    BY <1>7 DEF Ask, Uplink, Deliver, svars
  <2>4. CASE pipe = <<>>
    <3>1. pipe' = <<>> \/ pipe' = <<"HK">>
      BY <2>3, <2>4, Tuples
    <3>. QED
      BY <2>1, <2>2, <3>1 DEF LoneShape
  <2>5. CASE pipe = <<OpFor(proc)>>
    <3>1. pipe' = <<OpFor(proc)>> \/ pipe' = <<OpFor(proc), "HK">>
      BY <2>3, <2>5, Tuples
    <3>2. pipe # <<"HK">> /\ pipe # <<>>
      BY <1>0, <2>5, Tuples
    <3>3. tries # 0
      BY <2>2, <3>2
    <3>. QED
      BY <2>1, <2>2, <3>1, <3>3 DEF LoneShape
  <2>. QED
    BY <2>2, <2>4, <2>5
<1>8. CASE Wait \/ TimeOut
  <2>1. LoneShape /\ UNCHANGED <<pipe, air, proc, tries>>
    BY <1>8, Zenon DEF Wait, TimeOut, LoneInv, svars
  <2>2. pc \in {"asked", "wait"} /\ pc' \in {"wait", "failed"}
    BY <1>8 DEF Wait, BeginWait, TimeOut
  <2>. QED
    BY <2>1, <2>2 DEF LoneShape
<1>9. CASE Look
  <2>1. LoneShape /\ UNCHANGED <<pipe, air, proc>> /\ pc = "look"
    BY <1>9, Zenon DEF Look, LoneInv, svars
  <2>2. /\ pc' \in {"passed", "aim", "send", "check"}
        /\ tries' = 0 => pc' \in {"passed", "aim"}
    BY <1>9 DEF Look, Again, NextTry, TypeOK
  <2>. QED
    BY <2>1, <2>2 DEF LoneShape
<1>10. CASE CheckCount \/ Confirm
  <2>1. LoneShape /\ UNCHANGED <<pipe, air, proc, tries>>
    BY <1>10, Zenon DEF CheckCount, Confirm, LoneInv, svars
  <2>2. /\ pc \in {"check", "confirm"} /\ pc' \in {"failed", "passed", "confirm"}
    BY <1>10 DEF CheckCount, Confirm
  <2>. QED
    BY <2>1, <2>2 DEF LoneShape
<1>11. CASE Return
  BY <1>11, Zenon DEF Return
<1>12. CASE StartCommand
  <2>1. /\ LoneShape /\ UNCHANGED <<pipe, air, proc>> /\ pc = "aim"
        /\ pc' = "send" /\ tries' = 1
    BY <1>12, Zenon DEF StartCommand, LoneInv, svars
  <2>. QED
    BY <2>1 DEF LoneShape
<1>13. CASE UNCHANGED vars
  <2>1. LoneShape /\ UNCHANGED <<pipe, air, proc, pc, tries>>
    BY <1>13, Zenon DEF vars, svars, LoneInv
  <2>. QED
    BY <2>1 DEF LoneShape
<1>. QED
  BY <1>1, <1>2, <1>3, <1>4, <1>5, <1>6, <1>7, <1>8, <1>9, <1>10, <1>11, <1>12,
     <1>13
  DEF Next, Script

\* And the counts agree, one command executed or none.
LEMMA LoneCountsStep ==
  ASSUME TypeOK, AimInv, LoneInv, [Next]_vars, quiet', calm'
  PROVE  LoneCounts'
<1>. USE DEF ground, past
<1>1. CASE Execute
  <2>1. /\ LoneShape /\ LoneCounts /\ quiet
        /\ UNCHANGED <<air, tlm, proc, pc, tries, target, initial>>
    BY <1>1, Zenon DEF Execute, LoneInv
  <2>2. PICK o \in Ops :
          /\ Accept(o) \/ Refuse(o)
          /\ done' = IF quiet /\ Acceptable(o) /\ o = OpFor(proc) /\ done < MaxDone
                     THEN done + 1 ELSE done
    BY <1>1 DEF Execute
  <2>3. Take(o) /\ o # "HK"
    BY <2>2 DEF Accept, Refuse, Acceptable
  <2>4. /\ Len(air) = 0 /\ pc \in {"ask", "asked", "wait", "failed"} /\ tries > 0
        /\ o = OpFor(proc) /\ pipe \notin {<<>>, <<"HK">>}
        /\ pipe' \in {<<>>, <<"HK">>}
    BY <2>1, <2>3, LoneTake
  <2>5. done = 0 /\ done < MaxDone /\ target = After(count)
    BY <2>1, <2>4 DEF LoneCounts, MaxDone
  <2>6. CASE Accept(o)
    <3>1. count' = After(count) /\ Acceptable(o)
      BY <2>6 DEF Accept
    <3>2. done' = 1
      BY <2>1, <2>2, <2>4, <2>5, <3>1
    <3>. QED
      BY <2>1, <2>4, <2>5, <3>1, <3>2 DEF LoneCounts
  <2>7. CASE Refuse(o)
    <3>1. count' = count /\ ~Acceptable(o)
      BY <2>7 DEF Refuse
    <3>2. done' = 0
      BY <2>2, <2>5, <3>1
    <3>. QED
      BY <2>1, <2>4, <2>5, <3>1, <3>2 DEF LoneCounts, After
  <2>. QED
    BY <2>2, <2>6, <2>7
<1>2. CASE Answer
  <2>1. /\ LoneShape /\ LoneCounts /\ Take("HK")
        /\ UNCHANGED <<count, tlm, proc, pc, tries, target, initial, done>>
    BY <1>2, Zenon DEF Answer, SendReport, LoneInv
  <2>2. pipe' = <<>> /\ pc \in {"asked", "wait", "failed"}
    BY <2>1, LoneTake
  <2>3. \A i \in 1 .. Len(air') : air'[i].count = count
    BY <1>2, <2>1, AnswerAir, CountsAreNat DEF LoneCounts
  <2>. QED
    BY <2>1, <2>2, <2>3 DEF LoneCounts, After
<1>3. CASE Restart \/ OthersAsk
  BY <1>3, Zenon DEF Restart, OthersAsk
<1>4. CASE ComeDown
  <2>1. /\ LoneShape /\ LoneCounts /\ air # <<>>
        /\ UNCHANGED <<pipe, count, proc, tries, target, initial, done>>
    BY <1>4, Zenon DEF ComeDown, LoneInv, svars
  <2>2. Len(air) = 1 /\ pc \in {"asked", "wait", "failed"}
    BY <2>1 DEF LoneShape, TypeOK, Steps
  <2>3. Len(air') = 0 /\ tlm' = air[1] /\ pc' \in {"asked", "failed", "look"}
    BY <1>4, <2>1, <2>2, AirType DEF ComeDown
  <2>4. tlm'.count = count
    BY <2>1, <2>2, <2>3 DEF LoneCounts
  <2>. QED
    BY <2>1, <2>3, <2>4 DEF LoneCounts, After
<1>5. ASSUME NEW p \in Procedures, Call(p) PROVE LoneCounts'
  <2>1. /\ Len(air') = 0 /\ pc' \in {"ask", "send"} /\ done' = 0
        /\ tlm' = tlm /\ count' = count /\ proc' = p
    BY <1>5 DEF Call, svars
  <2>2. CASE p \in {"safe", "confirm"} /\ tries' = 0
    BY <2>1, <2>2 DEF LoneCounts
  <2>3. CASE p \notin {"safe", "confirm"} /\ tries' = 1 /\ target' = After(tlm.count)
    <3>1. tlm.count = count
      BY <1>5, <2>3 DEF Call
    <3>. QED
      BY <2>1, <2>3, <3>1 DEF LoneCounts, After
  <2>. QED
    BY <1>5, <2>2, <2>3 DEF Call, Aim
<1>6. CASE Send
  <2>1. /\ LoneShape /\ LoneCounts /\ pc = "send" /\ pc' = "ask"
        /\ UNCHANGED <<air, tlm, proc, tries, target, initial, done>>
    BY <1>6, Zenon DEF Send, LoneInv
  <2>2. count' = count
    BY <1>6 DEF Send, Uplink, Deliver, svars
  <2>3. done = 0 /\ target = After(count) /\ tries > 0
    BY <2>1 DEF LoneShape, LoneCounts, TypeOK
  <2>. QED
    BY <2>1, <2>2, <2>3 DEF LoneCounts, After
<1>7. CASE Ask
  <2>1. /\ LoneShape /\ LoneCounts /\ pc = "ask" /\ pc' = "asked"
        /\ UNCHANGED <<air, tlm, proc, tries, target, initial, done>>
    BY <1>7, Zenon DEF Ask, LoneInv
  <2>2. count' = count /\ (pipe' = pipe \/ pipe' = Append(pipe, "HK"))
    BY <1>7 DEF Ask, Uplink, Deliver, svars
  <2>3. pipe \in {<<>>, <<"HK">>} => pipe' \in {<<>>, <<"HK">>}
    <3>1. <<"HK">> # <<OpFor(proc)>> /\ <<"HK">> # <<>>
      BY Facts, Tuples DEF TypeOK
    <3>2. pipe # <<"HK">>
      BY <2>1, <3>1 DEF LoneShape
    <3>. QED
      BY <2>2, <3>2, Tuples
  <2>. QED
    BY <2>1, <2>2, <2>3 DEF LoneCounts, After
<1>8. CASE Wait \/ TimeOut
  <2>1. /\ LoneCounts /\ pc' \in {"wait", "failed"}
        /\ UNCHANGED <<pipe, count, air, tlm, proc, tries, target, initial, done>>
    BY <1>8, Zenon DEF Wait, BeginWait, TimeOut, LoneInv, svars
  <2>. QED
    BY <2>1 DEF LoneCounts, After
<1>9. CASE Look
  <2>1. /\ LoneCounts /\ pc = "look" /\ tlm.count = count
        /\ UNCHANGED <<pipe, count, air, tlm, proc, done>>
    BY <1>9, Zenon DEF Look, LoneInv, LoneCounts, svars
  <2>2. CASE tries = 0 /\ pc' = "passed" /\ UNCHANGED <<tries, target, initial>>
    BY <2>1, <2>2 DEF LoneCounts
  <2>3. CASE /\ tries = 0 /\ pc' = "aim" /\ UNCHANGED <<tries, target>>
             /\ initial' = IF proc = "confirm" THEN tlm.count ELSE 0
    BY <2>1, <2>3 DEF LoneCounts
  <2>4. CASE Again /\ pc' = "send" /\ tries' = NextTry /\ UNCHANGED <<target, initial>>
    <3>1. tries > 0 /\ tlm.count # target /\ tries' > 0
      BY <2>4 DEF Again, NextTry
    <3>2. done = 0 /\ target = After(count)
      BY <2>1, <3>1 DEF LoneCounts
    <3>. QED
      BY <2>1, <2>4, <3>1, <3>2 DEF LoneCounts, After
  <2>5. CASE tries > 0 /\ pc' = "check" /\ UNCHANGED <<tries, target, initial>>
    BY <2>1, <2>5 DEF LoneCounts, After
  <2>. QED
    BY <1>9, <2>2, <2>3, <2>4, <2>5 DEF Look
<1>10. CASE CheckCount
  <2>1. /\ LoneCounts /\ pc = "check" /\ tlm.count = count
        /\ UNCHANGED <<pipe, count, air, tlm, proc, tries, target, initial, done>>
    BY <1>10, Zenon DEF CheckCount, LoneInv, LoneCounts, svars
  <2>2. /\ pc' \in {"failed", "passed", "confirm"}
        /\ pc' = "confirm" => ~(tlm.count < target)
    BY <1>10 DEF CheckCount
  <2>3. pc' = "confirm" => target <= tlm.count
    BY <2>2, CountsAreNat
  <2>. QED
    BY <2>1, <2>2, <2>3 DEF LoneCounts, After
<1>11. CASE Confirm
  <2>1. /\ LoneCounts /\ pc' \in {"failed", "passed"}
        /\ UNCHANGED <<pipe, count, air, tlm, proc, tries, target, initial, done>>
    BY <1>11, Zenon DEF Confirm, LoneInv, svars
  <2>. QED
    BY <2>1 DEF LoneCounts, After
<1>12. CASE Return
  BY <1>12, Zenon DEF Return
<1>13. CASE StartCommand
  <2>1. /\ LoneCounts /\ pc = "aim" /\ pc' = "send" /\ tries' = 1
        /\ target' = After(tlm.count)
        /\ UNCHANGED <<pipe, count, air, tlm, proc, initial, done>>
    BY <1>13, Zenon DEF StartCommand, Aim, LoneInv, svars
  <2>2. done = 0 /\ tlm.count = count /\ (proc = "confirm" => initial = count)
    BY <2>1 DEF AimInv, LoneCounts
  <2>. QED
    BY <2>1, <2>2 DEF LoneCounts, After
<1>14. CASE UNCHANGED vars
  <2>1. /\ LoneCounts
        /\ UNCHANGED <<pipe, count, air, tlm, proc, pc, tries, target, initial, done>>
    BY <1>14, Zenon DEF vars, svars, LoneInv
  <2>. QED
    BY <2>1 DEF LoneCounts, After
<1>. QED
  BY <1>1, <1>2, <1>3, <1>4, <1>5, <1>6, <1>7, <1>8, <1>9, <1>10, <1>11, <1>12,
     <1>13, <1>14
  DEF Next, Script

\* What comes down is how things are, and a DISABLE, once executed, stays so.
LEMMA LoneReportsStep ==
  ASSUME TypeOK, LoneInv, [Next]_vars, quiet', calm'
  PROVE  LoneReports'
<1>. USE DEF ground, past
<1>1. CASE Execute
  <2>1. /\ LoneShape /\ LoneCounts /\ LoneReports
        /\ UNCHANGED <<air, tlm, proc, pc, tries>>
    BY <1>1, Zenon DEF Execute, LoneInv
  <2>2. PICK o \in Ops :
          /\ Accept(o) \/ Refuse(o)
          /\ done' = IF quiet /\ Acceptable(o) /\ o = OpFor(proc) /\ done < MaxDone
                     THEN done + 1 ELSE done
    BY <1>1 DEF Execute
  <2>3. Take(o) /\ o # "HK"
    BY <2>2 DEF Accept, Refuse, Acceptable
  <2>4. /\ Len(air) = 0 /\ pc \in {"ask", "asked", "wait", "failed"} /\ tries > 0
        /\ o = OpFor(proc) /\ pipe \notin {<<>>, <<"HK">>}
    BY <2>1, <2>3, LoneTake
  <2>5. done = 0
    BY <2>1, <2>4 DEF LoneCounts
  <2>6. done' > 0 /\ o = "DISABLE" => enabled' = "DISABLED"
    BY <2>2, <2>5 DEF Accept, Refuse
  <2>. QED
    BY <2>1, <2>4, <2>6 DEF LoneReports
<1>2. CASE Answer
  <2>1. /\ LoneShape /\ LoneReports /\ Take("HK") /\ UNCHANGED <<proc, pc, done>>
        /\ UNCHANGED <<count, enabled>> /\ Now' = Now
    BY <1>2, Zenon DEF Answer, SendReport, LoneInv, Now
  <2>2. air = <<>> /\ pc \in {"ask", "asked", "wait", "failed"}
    BY <2>1, LoneTake
  <2>3. \A i \in 1 .. Len(air') : air'[i] = Now
    BY <1>2, <2>1, AnswerAir DEF LoneReports
  <2>. QED
    BY <2>1, <2>2, <2>3 DEF LoneReports
<1>3. CASE Restart \/ OthersAsk
  BY <1>3, Zenon DEF Restart, OthersAsk
<1>4. CASE ComeDown
  <2>1. /\ LoneShape /\ LoneReports /\ air # <<>> /\ UNCHANGED <<proc, done>>
        /\ UNCHANGED <<count, enabled>> /\ Now' = Now
    BY <1>4, Zenon DEF ComeDown, LoneInv, svars, Now
  <2>2. Len(air) = 1
    BY <2>1 DEF LoneShape
  <2>3. Len(air') = 0 /\ tlm' = air[1]
    BY <1>4, <2>1, <2>2, AirType DEF ComeDown
  <2>4. tlm' = Now
    BY <2>1, <2>2, <2>3 DEF LoneReports
  <2>. QED
    BY <2>1, <2>3, <2>4 DEF LoneReports
<1>5. ASSUME NEW p \in Procedures, Call(p) PROVE LoneReports'
  <2>1. Len(air') = 0 /\ pc' \in {"ask", "send"} /\ done' = 0
    BY <1>5 DEF Call
  <2>. QED
    BY <2>1 DEF LoneReports
<1>6. CASE Send \/ Ask \/ Wait \/ TimeOut
  <2>1. /\ LoneReports /\ UNCHANGED <<air, tlm, proc, done>>
        /\ pc' \in {"ask", "asked", "wait", "failed"}
    BY <1>6, Zenon DEF Send, Ask, Wait, BeginWait, TimeOut, LoneInv
  <2>2. UNCHANGED <<count, enabled>> /\ Now' = Now
    BY <1>6 DEF Send, Ask, Wait, TimeOut, Uplink, Deliver, svars, Now
  <2>. QED
    BY <2>1, <2>2 DEF LoneReports
<1>7. CASE Look \/ StartCommand \/ CheckCount \/ Confirm
  <2>1. /\ LoneReports /\ UNCHANGED <<air, tlm, proc, done>>
        /\ pc \in {"look", "aim", "check", "confirm"}
    BY <1>7, Zenon DEF Look, StartCommand, CheckCount, Confirm, LoneInv
  <2>2. UNCHANGED <<count, enabled>> /\ Now' = Now
    BY <1>7, Zenon DEF Look, StartCommand, CheckCount, Confirm, svars, Now
  <2>. QED
    BY <2>1, <2>2 DEF LoneReports
<1>8. CASE Return
  BY <1>8, Zenon DEF Return
<1>9. CASE UNCHANGED vars
  <2>1. LoneReports /\ UNCHANGED <<count, enabled, air, tlm, proc, pc, done>> /\ Now' = Now
    BY <1>9, Zenon DEF vars, svars, LoneInv, Now
  <2>. QED
    BY <2>1 DEF LoneReports
<1>. QED
  BY <1>1, <1>2, <1>3, <1>4, <1>5, <1>6, <1>7, <1>8, <1>9 DEF Next, Script

\* A procedure on its own, whatever is lost, never leaves the states above.
LEMMA LoneAlways == Spec => []LoneInv
<1>1. Init => LoneInv
  BY Zenon DEF Init, LoneInv
<1>2. TypeOK /\ AimInv /\ LoneInv /\ [Next]_vars => LoneInv'
  <2>. SUFFICES ASSUME TypeOK, AimInv, LoneInv, [Next]_vars, quiet' /\ calm'
                PROVE  LoneShape' /\ LoneCounts' /\ LoneReports'
    BY Zenon DEF LoneInv
  <2>. QED
    BY LoneShapeStep, LoneCountsStep, LoneReportsStep
<1>. QED
  BY <1>1, <1>2, TypeCorrect, AimAlways, PTL DEF Spec

\* A command that is sent again was not executed before, if nobody else asks for
\* housekeeping and the application stays up: it is executed once.
THEOREM ExecutedOnceHolds == Spec => []ExecutedOnce
<1>1. TypeOK /\ LoneInv => ExecutedOnce
  BY DEF TypeOK, LoneInv, LoneCounts, ExecutedOnce
<1>. QED
  BY <1>1, LoneAlways, TypeCorrect, PTL

\* A procedure on its own judges by the truth: no false alarm and no false pass,
\* except at the wrap.
THEOREM VerdictsAreRightHolds == Spec => []VerdictsAreRight
<1>1. TypeOK /\ LoneInv => VerdictsAreRight
  <2>. SUFFICES ASSUME TypeOK, LoneInv, quiet /\ calm, pc \in {"check", "confirm"}
                PROVE  VerdictsAreRight
    BY Zenon DEF VerdictsAreRight
  <2>1. LoneShape /\ LoneCounts /\ LoneReports
    BY Zenon DEF LoneInv
  <2>2. tries > 0 /\ tlm = Now /\ tlm.count = count
    BY <2>1 DEF LoneShape, LoneCounts, LoneReports, TypeOK
  <2>3. target \in Nat /\ tlm.count \in Nat /\ count \in Nat /\ initial \in Nat
    BY CountsAreNat, ServiceAssumption DEF TypeOK
  <2>4. ASSUME target # 0
        PROVE  /\ tlm.count >= target <=> done > 0
               /\ pc = "confirm" => done > 0
               /\ pc = "confirm" /\ proc = "confirm" => tlm.count > initial
    <3>1. /\ done = 0 => target = count + 1
          /\ done # 0 => done = 1 /\ target = count
      BY <2>1, <2>2, <2>3, <2>4, Facts DEF LoneCounts
    <3>2. tlm.count >= target <=> done > 0
      BY <2>2, <2>3, <3>1 DEF TypeOK
    <3>3. pc = "confirm" => target <= tlm.count
      BY <2>1 DEF LoneCounts
    <3>4. proc = "confirm" => target = initial + 1
      BY <2>1, <2>2, <2>3, <2>4, Facts DEF LoneCounts
    <3>. QED
      BY <2>3, <3>2, <3>3, <3>4
  <2>5. done > 0 /\ proc \in {"disable", "safe"} => tlm.enabled = "DISABLED"
    BY <2>1, <2>2 DEF LoneReports, OpFor, Now
  <2>. QED
    BY <2>2, <2>4, <2>5 DEF VerdictsAreRight
<1>. QED
  BY <1>1, LoneAlways, TypeCorrect, PTL

-----------------------------------------------------------------------------
(* ExecutedAtMostSent: every copy of the command that waits in the queue   *)
(* was sent by this call, and those that were executed were sent before    *)
(* them.  Number the tries: the copies that wait have numbers, in order,   *)
(* above those executed and not above those sent.                          *)

\* How often the command was sent: not yet for the last time while the
\* procedure is only about to.
Sent == IF pc = "send" THEN tries - 1 ELSE tries

\* number gives each copy that waits the number of a try.
Numbered(number) ==
  \A i \in 1 .. Len(pipe) : pipe[i] = OpFor(proc) =>
    /\ number[i] \in done + 1 .. Sent
    /\ \A j \in 1 .. i - 1 : pipe[j] = OpFor(proc) => number[j] < number[i]

SentInv ==
  quiet => /\ done <= Sent
           /\ \E number \in [1 .. Len(pipe) -> Nat] : Numbered(number)

\* An empty queue needs no numbers.
LEMMA NoneNumbered ==
  ASSUME Len(pipe') = 0
  PROVE  \E number \in [1 .. Len(pipe') -> Nat] : Numbered(number)'
<1>1. PICK number \in [1 .. Len(pipe') -> Nat] : TRUE
  <2>1. [i \in 1 .. Len(pipe') |-> 0] \in [1 .. Len(pipe') -> Nat]
    OBVIOUS
  <2>. QED
    BY <2>1
<1>2. 1 .. Len(pipe') = {}
  OBVIOUS
<1>3. Numbered(number)'
  BY <1>2 DEF Numbered
<1>. QED
  BY <1>1, <1>3

\* Taking the head of the queue shifts the numbers; if the head was a copy that
\* is now executed, those of the others are above its own.
LEMMA TakeNumbered ==
  ASSUME TypeOK, NEW op, Take(op), UNCHANGED <<proc, pc, tries>>,
         NEW number \in [1 .. Len(pipe) -> Nat], Numbered(number),
         \/ done' = done
         \/ op = OpFor(proc) /\ done' = done + 1
  PROVE  /\ done <= Sent => done' <= Sent'
         /\ \E n \in [1 .. Len(pipe') -> Nat] : Numbered(n)'
<1>1. /\ Len(pipe) \in Nat /\ Len(pipe) >= 1 /\ pipe[1] = op
      /\ Len(pipe') = Len(pipe) - 1
      /\ \A i \in 1 .. Len(pipe') : pipe'[i] = pipe[i + 1]
  BY PipeAfter, CountsAreNat
<1>2. /\ Sent' = Sent /\ Sent \in Int /\ done \in Nat /\ OpFor(proc)' = OpFor(proc)
  BY DEF Sent, TypeOK, OpFor
<1>3. PICK n \in [1 .. Len(pipe') -> Nat] :
        \A i \in 1 .. Len(pipe') : n[i] = number[i + 1]
  <2>1. [i \in 1 .. Len(pipe') |-> number[i + 1]] \in [1 .. Len(pipe') -> Nat]
    BY <1>1
  <2>. QED
    BY <2>1
<1>4. op = OpFor(proc) => number[1] \in done + 1 .. Sent
  BY <1>1 DEF Numbered
<1>5. ASSUME NEW i \in 1 .. Len(pipe'), pipe'[i] = OpFor(proc)
      PROVE  /\ n[i] \in done' + 1 .. Sent
             /\ \A j \in 1 .. i - 1 : pipe'[j] = OpFor(proc) => n[j] < n[i]
  <2>1. /\ i + 1 \in 1 .. Len(pipe) /\ pipe[i + 1] = OpFor(proc)
        /\ n[i] = number[i + 1]
    BY <1>1, <1>3, <1>5
  <2>2. /\ number[i + 1] \in done + 1 .. Sent
        /\ \A j \in 1 .. i : pipe[j] = OpFor(proc) => number[j] < number[i + 1]
    BY <2>1 DEF Numbered
  <2>3. n[i] \in done' + 1 .. Sent
    <3>1. CASE done' = done
      BY <2>1, <2>2, <3>1
    <3>2. CASE op = OpFor(proc) /\ done' = done + 1
      <4>1. number[1] < number[i + 1] /\ number[1] \in done + 1 .. Sent
        BY <1>1, <1>4, <2>2, <3>2
      <4>. QED
        BY <1>2, <2>1, <2>2, <3>2, <4>1
    <3>. QED
      BY <3>1, <3>2
  <2>4. ASSUME NEW j \in 1 .. i - 1, pipe'[j] = OpFor(proc)
        PROVE  n[j] < n[i]
    <3>1. /\ j \in 1 .. Len(pipe') /\ j + 1 \in 1 .. i
      BY <1>1
    <3>2. pipe[j + 1] = OpFor(proc) /\ n[j] = number[j + 1]
      BY <1>1, <1>3, <2>4, <3>1
    <3>. QED
      BY <2>1, <2>2, <3>1, <3>2
  <2>. QED
    BY <2>3, <2>4
<1>6. Numbered(n)'
  BY <1>2, <1>5 DEF Numbered
<1>7. done <= Sent => done' <= Sent'
  BY <1>2, <1>4
<1>. QED
  BY <1>3, <1>6, <1>7

\* What joins the queue needs the next number, if it is a copy of the command.
LEMMA DeliverNumbered ==
  ASSUME TypeOK, NEW op \in Ops, Deliver(op), UNCHANGED <<proc, done>>,
         NEW number \in [1 .. Len(pipe) -> Nat], Numbered(number), done <= Sent,
         \/ op # OpFor(proc) /\ Sent' = Sent
         \/ Sent' = Sent + 1
  PROVE  \E n \in [1 .. Len(pipe') -> Nat] : Numbered(n)'
<1>1. /\ Len(pipe) \in Nat /\ Len(pipe') = Len(pipe) + 1 /\ pipe'[Len(pipe) + 1] = op
      /\ \A i \in 1 .. Len(pipe) : pipe'[i] = pipe[i]
  BY PipeAfter, CountsAreNat
<1>2. Sent \in Int /\ done \in Nat /\ OpFor(proc)' = OpFor(proc)
  BY DEF Sent, TypeOK, OpFor
<1>3. PICK n \in [1 .. Len(pipe') -> Nat] :
        \A i \in 1 .. Len(pipe') :
          n[i] = IF i = Len(pipe) + 1 THEN Sent + 1 ELSE number[i]
  <2>1. [i \in 1 .. Len(pipe') |-> IF i = Len(pipe) + 1 THEN Sent + 1 ELSE number[i]]
          \in [1 .. Len(pipe') -> Nat]
    BY <1>1, <1>2
  <2>. QED
    BY <2>1
<1>4. ASSUME NEW i \in 1 .. Len(pipe'), pipe'[i] = OpFor(proc)
      PROVE  /\ n[i] \in done + 1 .. Sent'
             /\ \A j \in 1 .. i - 1 : pipe'[j] = OpFor(proc) => n[j] < n[i]
  <2>0. \A j \in 1 .. Len(pipe) :
          pipe[j] = OpFor(proc) => number[j] \in done + 1 .. Sent
    BY DEF Numbered
  <2>1. CASE i = Len(pipe) + 1
    <3>1. Sent' = Sent + 1 /\ n[i] = Sent + 1
      BY <1>1, <1>3, <1>4, <2>1
    <3>2. ASSUME NEW j \in 1 .. i - 1, pipe'[j] = OpFor(proc) PROVE n[j] < n[i]
      <4>1. j \in 1 .. Len(pipe) /\ j \in 1 .. Len(pipe') /\ j # Len(pipe) + 1
        BY <1>1, <2>1
      <4>2. n[j] = number[j] /\ number[j] \in done + 1 .. Sent
        BY <1>1, <1>3, <2>0, <3>2, <4>1
      <4>. QED
        BY <1>2, <3>1, <4>2
    <3>. QED
      BY <1>2, <3>1, <3>2
  <2>2. CASE i # Len(pipe) + 1
    <3>1. i \in 1 .. Len(pipe) /\ pipe[i] = OpFor(proc) /\ n[i] = number[i]
      BY <1>1, <1>3, <1>4, <2>2
    <3>2. /\ number[i] \in done + 1 .. Sent
          /\ \A j \in 1 .. i - 1 : pipe[j] = OpFor(proc) => number[j] < number[i]
      BY <3>1 DEF Numbered
    <3>3. ASSUME NEW j \in 1 .. i - 1, pipe'[j] = OpFor(proc) PROVE n[j] < n[i]
      <4>1. j \in 1 .. Len(pipe) /\ j \in 1 .. Len(pipe') /\ j # Len(pipe) + 1
        BY <1>1, <3>1
      <4>. QED
        BY <1>1, <1>3, <3>1, <3>2, <3>3, <4>1
    <3>. QED
      BY <1>2, <3>1, <3>2, <3>3
  <2>. QED
    BY <2>1, <2>2
<1>5. Numbered(n)'
  BY <1>2, <1>4 DEF Numbered
<1>. QED
  BY <1>3, <1>5

\* A step that sends nothing, and leaves the queue alone.
LEMMA StillNumbered ==
  ASSUME UNCHANGED <<pipe, proc, done>>, Sent' = Sent,
         NEW number, Numbered(number)
  PROVE  Numbered(number)'
  BY DEF Numbered, OpFor

\* Every step keeps the numbers.
LEMMA SentStep == ASSUME TypeOK, AimInv, SentInv, [Next]_vars PROVE SentInv'
<1>. USE DEF ground, past
<1>1. CASE Execute
  <2>. SUFFICES ASSUME quiet' PROVE SentInv'
    BY DEF SentInv
  <2>1. quiet /\ UNCHANGED <<proc, pc, tries>>
    BY <1>1 DEF Execute
  <2>2. PICK op \in Ops :
          /\ Accept(op) \/ Refuse(op)
          /\ done' = IF quiet /\ Acceptable(op) /\ op = OpFor(proc) /\ done < MaxDone
                     THEN done + 1 ELSE done
    BY <1>1 DEF Execute
  <2>3. Take(op)
    BY <2>2 DEF Accept, Refuse
  <2>4. done' = done \/ (op = OpFor(proc) /\ done' = done + 1)
    BY <2>2
  <2>. QED
    BY <2>1, <2>3, <2>4, TakeNumbered DEF SentInv
<1>2. CASE Answer
  <2>. SUFFICES ASSUME quiet' PROVE SentInv'
    BY DEF SentInv
  <2>1. quiet /\ Take("HK") /\ UNCHANGED <<proc, pc, tries, done>>
    BY <1>2 DEF Answer, SendReport
  <2>. QED
    BY <2>1, TakeNumbered DEF SentInv
<1>3. CASE Restart
  <2>. SUFFICES ASSUME quiet' PROVE SentInv'
    BY DEF SentInv
  <2>1. quiet /\ Len(pipe') = 0 /\ UNCHANGED <<pc, tries, done>>
    BY <1>3 DEF Restart, Leave
  <2>2. \E number \in [1 .. Len(pipe') -> Nat] : Numbered(number)'
    BY <2>1, NoneNumbered
  <2>. QED
    BY <2>1, <2>2 DEF SentInv, Sent
<1>4. CASE OthersAsk
  <2>. SUFFICES ASSUME quiet' PROVE SentInv'
    BY DEF SentInv
  <2>1. quiet /\ Deliver("HK") /\ UNCHANGED <<proc, pc, tries, done>>
    BY <1>4 DEF OthersAsk
  <2>2. "HK" # OpFor(proc) /\ "HK" \in Ops /\ Sent' = Sent
    BY <2>1, Facts DEF TypeOK, Ops, Sent
  <2>. QED
    BY <2>1, <2>2, DeliverNumbered DEF SentInv
<1>5. CASE ComeDown \/ Wait \/ TimeOut \/ CheckCount \/ Confirm \/ UNCHANGED vars
  <2>. SUFFICES ASSUME quiet' PROVE SentInv'
    BY DEF SentInv
  <2>1. quiet /\ UNCHANGED <<pipe, proc, tries, done>>
    BY <1>5, Zenon DEF ComeDown, Wait, TimeOut, CheckCount, Confirm, vars, svars
  <2>2. pc' = pc \/ (pc # "send" /\ pc' # "send")
    BY <1>5 DEF ComeDown, Wait, BeginWait, TimeOut, CheckCount, Confirm, vars
  <2>3. Sent' = Sent
    BY <2>1, <2>2 DEF Sent
  <2>4. PICK number \in [1 .. Len(pipe) -> Nat] : done <= Sent /\ Numbered(number)
    BY <2>1 DEF SentInv
  <2>5. Numbered(number)' /\ number \in [1 .. Len(pipe') -> Nat] /\ done' <= Sent'
    BY <2>1, <2>3, <2>4, StillNumbered
  <2>. QED
    BY <2>5 DEF SentInv
<1>6. ASSUME NEW p \in Procedures, Call(p) PROVE SentInv'
  <2>. SUFFICES ASSUME quiet' PROVE SentInv'
    BY DEF SentInv
  <2>1. Len(pipe') = 0 /\ done' = 0 /\ Sent' = 0
    <3>1. pipe' = <<>> /\ done' = 0
      BY <1>6, Zenon DEF Call, svars
    <3>2. (pc' = "send" /\ tries' = 1) \/ (pc' = "ask" /\ tries' = 0)
      BY <1>6 DEF Call
    <3>. QED
      BY <3>1, <3>2 DEF Sent
  <2>2. \E number \in [1 .. Len(pipe') -> Nat] : Numbered(number)'
    BY <2>1, NoneNumbered
  <2>3. done' <= Sent'
    BY <2>1
  <2>. QED
    BY <2>2, <2>3, Zenon DEF SentInv
<1>7. CASE Send
  <2>. SUFFICES ASSUME quiet' PROVE SentInv'
    BY DEF SentInv
  <2>1. /\ quiet /\ UNCHANGED <<proc, tries, done>> /\ pc = "send" /\ pc' = "ask"
        /\ OpFor(proc) \in Ops
    BY <1>7, OpForType DEF Send, TypeOK, Ops
  <2>2. Sent' = Sent + 1 /\ Sent \in Int /\ done \in Nat
    BY <2>1 DEF Sent, TypeOK
  <2>3. PICK number \in [1 .. Len(pipe) -> Nat] : done <= Sent /\ Numbered(number)
    BY <2>1 DEF SentInv
  <2>4. \E n \in [1 .. Len(pipe') -> Nat] : Numbered(n)'
    <3>1. CASE Deliver(OpFor(proc))
      BY <2>1, <2>2, <2>3, <3>1, DeliverNumbered
    <3>2. CASE UNCHANGED pipe
      BY <2>1, <2>2, <2>3, <3>2 DEF Numbered, OpFor
    <3>. QED
      BY <1>7, <3>1, <3>2 DEF Send, Uplink, svars
  <2>. QED
    BY <2>1, <2>2, <2>3, <2>4 DEF SentInv
<1>8. CASE Ask
  <2>. SUFFICES ASSUME quiet' PROVE SentInv'
    BY DEF SentInv
  <2>1. /\ quiet /\ UNCHANGED <<proc, tries, done>> /\ pc = "ask" /\ pc' = "asked"
    BY <1>8 DEF Ask
  <2>2. "HK" # OpFor(proc) /\ "HK" \in Ops /\ Sent' = Sent
    BY <2>1, Facts DEF TypeOK, Ops, Sent
  <2>3. CASE Deliver("HK")
    BY <2>1, <2>2, <2>3, DeliverNumbered DEF SentInv
  <2>4. CASE UNCHANGED svars
    BY <2>1, <2>2, <2>4, StillNumbered DEF SentInv, svars
  <2>. QED
    BY <1>8, <2>3, <2>4 DEF Ask, Uplink
<1>9. CASE Look
  <2>. SUFFICES ASSUME quiet' PROVE SentInv'
    BY DEF SentInv
  <2>1. quiet /\ UNCHANGED <<pipe, proc, done>> /\ pc = "look"
    BY <1>9 DEF Look, svars
  <2>2. Sent' = Sent
    BY <1>9, <2>1 DEF Look, Sent, NextTry, TypeOK
  <2>. QED
    BY <2>1, <2>2, StillNumbered DEF SentInv
<1>10. CASE StartCommand
  <2>. SUFFICES ASSUME quiet' PROVE SentInv'
    BY DEF SentInv
  <2>1. /\ quiet /\ UNCHANGED <<pipe, proc, done>> /\ pc = "aim" /\ tries = 0
        /\ pc' = "send" /\ tries' = 1
    BY <1>10 DEF StartCommand, svars, AimInv
  <2>2. Sent' = Sent
    BY <2>1 DEF Sent
  <2>. QED
    BY <2>1, <2>2, StillNumbered DEF SentInv
<1>11. CASE Return
  BY <1>11, Zenon DEF Return, SentInv
<1>. QED
  BY <1>1, <1>2, <1>3, <1>4, <1>5, <1>6, <1>7, <1>8, <1>9, <1>10, <1>11
  DEF Next, Script

\* A command is executed at most as often as the call sent it, whoever else asks
\* for housekeeping, whatever is lost and however often the application restarts.
THEOREM ExecutedAtMostSentHolds == Spec => []ExecutedAtMostSent
<1>1. Init => SentInv
  BY Zenon DEF Init, SentInv
<1>2. TypeOK /\ AimInv /\ SentInv /\ [Next]_vars => SentInv'
  BY SentStep
<1>3. TypeOK /\ SentInv => ExecutedAtMostSent
  BY DEF TypeOK, SentInv, Sent, ExecutedAtMostSent
<1>. QED
  BY <1>1, <1>2, <1>3, TypeCorrect, AimAlways, PTL DEF Spec

-----------------------------------------------------------------------------
(* The flight side, as the ground has it, is the service.                  *)

\* Every step of the ground and the flight side together is a step of the service
\* or leaves it alone.  With TorquerApp's ServesCommands, the two models meet at
\* this interface.
THEOREM FlightSideIsService == Spec => Service
<1>1. Init => ServiceInit
  BY DEF Init
<1>2. TypeOK /\ [Next]_vars => [ServiceNext]_svars
  <2>. SUFFICES ASSUME TypeOK, [Next]_vars PROVE [ServiceNext]_svars
    OBVIOUS
  <2>1. CASE Execute
    BY <2>1 DEF Execute, ServiceNext
  <2>2. CASE Answer
    BY <2>2, ServiceType DEF Answer, ServiceNext, TypeOK
  <2>3. CASE Restart
    BY <2>3 DEF Restart, ServiceNext
  <2>4. CASE OthersAsk
    BY <2>4 DEF OthersAsk, ServiceNext, Ops
  <2>5. ASSUME NEW op \in Ops, Uplink(op) PROVE [ServiceNext]_svars
    BY <2>5 DEF Uplink, ServiceNext
  <2>6. OpFor(proc) \in Ops /\ "HK" \in Ops
    BY OpForType DEF TypeOK, Ops
  <2>7. CASE Send \/ Ask
    BY <2>5, <2>6, <2>7 DEF Send, Ask
  <2>8. CASE \/ ComeDown \/ \E p \in Procedures : Call(p)
             \/ Wait \/ TimeOut \/ Look \/ StartCommand \/ CheckCount \/ Confirm
             \/ Return \/ UNCHANGED vars
    BY <2>8 DEF ComeDown, Call, Wait, TimeOut, Look, StartCommand, CheckCount,
       Confirm, Return, vars
  <2>. QED
    BY <2>1, <2>2, <2>3, <2>4, <2>7, <2>8 DEF Next, Script
<1>. QED
  BY <1>1, <1>2, TypeCorrect, PTL DEF Spec, Service

-----------------------------------------------------------------------------
(* CallEnds.  A procedure moves on from step to step within a try, and no  *)
(* step leads back but the one to the next try; there are three tries and  *)
(* the time before the first.  That the procedure can always take its next *)
(* step is ScriptCanStep; weak fairness does the rest.                     *)

At(t, s) == tries = t /\ pc = s

Over == pc \in {"passed", "failed"}

Beyond(t) == Running /\ tries > t

Trying(t) == Running /\ tries = t

\* From each place in a try, every step stays there or moves on, and a step of the
\* procedure moves on.
LEMMA TryMoves ==
  ASSUME TypeOK, AimInv, NEW t \in 0 .. 3, [Next]_vars
  PROVE  /\ At(t, "send") => At(t, "send")' \/ At(t, "ask")'
         /\ At(t, "ask") => At(t, "ask")' \/ At(t, "asked")'
         /\ At(t, "asked") => At(t, "asked")' \/ At(t, "wait")'
         /\ At(t, "wait") => At(t, "wait")' \/ At(t, "look")' \/ Over'
         /\ At(t, "look") => \/ At(t, "look")' \/ At(t, "aim")' \/ At(t, "check")'
                             \/ Over' \/ Beyond(t)'
         /\ At(t, "aim") => At(t, "aim")' \/ Beyond(t)'
         /\ At(t, "check") => At(t, "check")' \/ At(t, "confirm")' \/ Over'
         /\ At(t, "confirm") => At(t, "confirm")' \/ Over'
<1>. USE DEF ground, At, Over
<1>1. CASE Execute \/ Answer \/ Restart \/ OthersAsk \/ UNCHANGED vars
  <2>1. UNCHANGED <<tries, pc>>
    BY <1>1 DEF Execute, Answer, Restart, OthersAsk, vars
  <2>. QED
    BY <2>1
<1>2. CASE ComeDown
  <2>1. UNCHANGED tries /\ pc' = IF pc = "wait" THEN "look" ELSE pc
    BY <1>2 DEF ComeDown
  <2>. QED
    BY <2>1
<1>3. ASSUME NEW p \in Procedures, Call(p) PROVE pc = "idle"
  BY <1>3 DEF Call
<1>4. CASE Send \/ Ask \/ Wait \/ TimeOut
  BY <1>4 DEF Send, Ask, Wait, BeginWait, TimeOut
<1>5. CASE Look
  <2>1. pc = "look"
    BY <1>5 DEF Look
  <2>2. \/ pc' = "passed"
        \/ pc' = "send" /\ tries' > tries
        \/ pc' \in {"aim", "check"} /\ tries' = tries
    BY <1>5 DEF Look, Again, NextTry, TypeOK
  <2>. QED
    BY <2>1, <2>2 DEF Beyond, Running
<1>6. CASE CheckCount \/ Confirm \/ Return
  BY <1>6 DEF CheckCount, Confirm, Return
<1>7. CASE StartCommand
  BY <1>7 DEF StartCommand, AimInv, Beyond, Running
<1>. QED
  BY <1>1, <1>2, <1>3, <1>4, <1>5, <1>6, <1>7 DEF Next, Script

\* A step of the procedure does not stay.
LEMMA ScriptMoves ==
  ASSUME TypeOK, NEW t \in 0 .. 3, NEW s \in Steps, At(t, s), <<Script>>_vars
  PROVE  ~At(t, s)'
  BY DEF ground, At, Script, Send, Ask, Wait, BeginWait, TimeOut, Look, StartCommand,
     CheckCount, Confirm, Return

\* A try ends: the procedure is over, or tries again.
Ends(t) == Spec /\ []ScriptCanStep => (Trying(t) ~> Over \/ Beyond(t))

\* Every try does.
LEMMA TryEnds == ASSUME NEW t \in 0 .. 3 PROVE Ends(t)
<1>. DEFINE send == At(t, "send")
            ask == At(t, "ask")
            asked == At(t, "asked")
            wait == At(t, "wait")
            look == At(t, "look")
            aim == At(t, "aim")
            check == At(t, "check")
            confirm == At(t, "confirm")
            can == ENABLED <<Script>>_vars
<1>1. TypeOK /\ AimInv /\ [Next]_vars =>
        /\ send => send' \/ ask'
        /\ ask => ask' \/ asked'
        /\ asked => asked' \/ wait'
        /\ wait => wait' \/ look' \/ Over'
        /\ look => look' \/ aim' \/ check' \/ Over' \/ Beyond(t)'
        /\ aim => aim' \/ Beyond(t)'
        /\ check => check' \/ confirm' \/ Over'
        /\ confirm => confirm' \/ Over'
  BY TryMoves
<1>2. TypeOK /\ <<Script>>_vars =>
        /\ send => ~send'
        /\ ask => ~ask'
        /\ asked => ~asked'
        /\ wait => ~wait'
        /\ look => ~look'
        /\ aim => ~aim'
        /\ check => ~check'
        /\ confirm => ~confirm'
  <2>. SUFFICES ASSUME TypeOK, <<Script>>_vars
                PROVE  \A s \in Steps : At(t, s) => ~At(t, s)'
    BY DEF Steps
  <2>. QED
    BY ScriptMoves
<1>3. ScriptCanStep =>
        (send \/ ask \/ asked \/ wait \/ look \/ aim \/ check \/ confirm => can)
  BY DEF At, ScriptCanStep
<1>4. TypeOK /\ Trying(t) =>
        send \/ ask \/ asked \/ wait \/ look \/ aim \/ check \/ confirm
  BY DEF Trying, Running, At, TypeOK, Steps
<1>. HIDE DEF send, ask, asked, wait, look, aim, check, confirm, can
<1>. QED
  BY <1>1, <1>2, <1>3, <1>4, TypeCorrect, AimAlways, PTL DEF Ends, Spec, can

\* Every procedure comes to an end, if it is never stuck.
THEOREM CallEndsHolds == Spec /\ []ScriptCanStep => CallEnds
<1>1. Ends(0) /\ Ends(1) /\ Ends(2) /\ Ends(3)
  BY TryEnds
<1>2. TypeOK => /\ Running => Trying(0) \/ Trying(1) \/ Trying(2) \/ Trying(3)
                /\ Beyond(0) => Trying(1) \/ Trying(2) \/ Trying(3)
                /\ Beyond(1) => Trying(2) \/ Trying(3)
                /\ Beyond(2) => Trying(3)
                /\ ~Beyond(3)
  BY DEF TypeOK, Trying, Beyond
<1>3. Over <=> pc \in {"passed", "failed"}
  BY DEF Over
<1>. QED
  BY <1>1, <1>2, <1>3, TypeCorrect, PTL DEF Ends, CallEnds

=============================================================================
