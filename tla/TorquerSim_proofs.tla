-------------------------- MODULE TorquerSim_proofs --------------------------
(***************************************************************************)
(* Proofs about TorquerSim, for any number of torquers simulated, any      *)
(* commands, and any size of the receive buffer.                           *)
(***************************************************************************)
EXTENDS TorquerSimProperties, WellFoundedInduction, TLAPS

-----------------------------------------------------------------------------
(* Type correctness.                                                       *)

\* What is sent and what strays are datagrams.
LEMMA DatagramType ==
  /\ \A c \in Commands : DatagramOf(c) \in Datagram /\ c.num \in Torquers /\ c.drive \in Drive
  /\ Garbled \in Datagram
<1>1. ASSUME NEW c \in Commands
      PROVE  DatagramOf(c) \in Datagram /\ c.num \in Torquers /\ c.drive \in Drive
  <2>1. c.num \in Torquers /\ c.drive \in Drive
    BY SimAssumption DEF Command
  <2>2. Signed(c.drive) \in Int
    BY <2>1 DEF Signed, Drive, Byte
  <2>. QED
    BY <2>1, <2>2 DEF DatagramOf, Datagram, Torquers
<1>. QED
  BY <1>1 DEF Garbled, Datagram

\* The datagram at the head of the buffer.
LEMMA HeadType ==
  ASSUME TypeOK, net # <<>>
  PROVE  /\ Head(net) \in Datagram /\ Head(net) = net[1]
         /\ Tail(net) \in Seq(Datagram) /\ Len(Tail(net)) = Len(net) - 1
         /\ Len(net) \in Nat /\ Len(net) >= 1
         /\ \A i \in 1 .. Len(net) - 1 : Tail(net)[i] = net[i + 1]
  BY DEF TypeOK

\* Losing what the socket held.
LEMMA LoseBufferType ==
  ASSUME TypeOK, LoseBuffer
  PROVE  /\ net' = <<>> /\ net' \in Seq(Datagram) /\ Len(net') <= BufferSize
         /\ unsure' \in SUBSET Torquers
  BY SimAssumption DEF TypeOK, LoseBuffer

\* Every step keeps the types.
LEMMA NextType == ASSUME TypeOK, [Next]_vars PROVE TypeOK'
<1>1. CASE Construct
  BY <1>1 DEF Construct, TypeOK
<1>2. CASE EnterBody
  BY <1>2 DEF EnterBody, TypeOK
<1>3. CASE Destroy
  BY <1>3 DEF Destroy, TypeOK
<1>4. CASE LeaveLoop \/ Die
  BY <1>4, LoseBufferType DEF LeaveLoop, Die, TypeOK
<1>5. CASE Receive
  <2>1. net' \in Seq(Datagram) /\ Len(net') <= BufferSize
    <3>1. CASE net = <<>>
      BY <1>5, <3>1 DEF Receive, TypeOK
    <3>2. CASE net # <<>>
      <4>1. net' = Tail(net)
        BY <1>5, <3>2 DEF Receive, Leaves
      <4>. QED
        BY <3>2, <4>1, SimAssumption DEF TypeOK
    <3>. QED
      BY <3>1, <3>2
  <2>2. mcmd' \in [Simulated -> -100 .. 100]
    BY <1>5 DEF Receive, Torque, Accepts, TypeOK
  <2>. QED
    BY <1>5, <2>1, <2>2 DEF Receive, TypeOK
<1>6. CASE Enable \/ Disable \/ Stop
  BY <1>6 DEF Enable, Disable, Stop, Callback, TypeOK
<1>7. ASSUME NEW c \in Commands, Arrive(c) PROVE TypeOK'
  BY <1>7, DatagramType, SimAssumption DEF Arrive, TrqCommand, HasRoom, TypeOK
<1>8. ASSUME NEW c \in Commands, Lose(c) PROVE TypeOK'
  BY <1>8, DatagramType DEF Lose, TrqCommand, TypeOK
<1>9. ASSUME NEW c \in Commands, Overtake(c) PROVE TypeOK'
  <2>. DEFINE changed == [net EXCEPT ![Len(net)] = DatagramOf(c)]
  <2>1. net \in Seq(Datagram) /\ net # <<>> /\ DatagramOf(c) \in Datagram
    BY <1>9, DatagramType DEF Overtake, TypeOK
  <2>2. Len(net) \in 1 .. Len(net) /\ net[Len(net)] \in Datagram
    BY <2>1
  <2>3. changed \in Seq(Datagram) /\ Len(changed) = Len(net)
    BY <2>1, <2>2
  <2>. HIDE DEF changed
  <2>4. Append(changed, net[Len(net)]) \in Seq(Datagram)
        /\ Len(Append(changed, net[Len(net)])) = Len(net) + 1
    BY <2>2, <2>3
  <2>5. net' = Append(changed, net[Len(net)])
    BY <1>9 DEF Overtake, changed
  <2>. QED
    BY <1>9, <2>1, <2>4, <2>5, DatagramType, SimAssumption
    DEF Overtake, TrqCommand, HasRoom, TypeOK
<1>10. CASE Stray
  BY <1>10, DatagramType, SimAssumption DEF Stray, HasRoom, TypeOK
<1>11. CASE UNCHANGED vars
  BY <1>11 DEF vars, TypeOK
<1>. QED
  BY <1>1, <1>2, <1>3, <1>4, <1>5, <1>6, <1>7, <1>8, <1>9, <1>10, <1>11 DEF Next, Run

\* Every variable keeps its type: 42 is never given a level out of range.
THEOREM TypeCorrect == Spec => []TypeOK
<1>1. ASSUME Init PROVE TypeOK
  <2>1. AllOff \in [Torquers -> Drive]
    BY DEF AllOff, Off, Drive, Byte
  <2>2. mcmd \in [Simulated -> -100 .. 100]
    BY <1>1 DEF Init
  <2>3. net \in Seq(Datagram) /\ Len(net) <= BufferSize
    BY <1>1, SimAssumption DEF Init
  <2>. QED
    BY <1>1, <2>1, <2>2, <2>3 DEF Init, TypeOK
<1>2. TypeOK /\ [Next]_vars => TypeOK'
  BY NextType
<1>. QED
  BY <1>1, <1>2, PTL DEF Spec

-----------------------------------------------------------------------------
(* STOP.                                                                   *)

\* Nothing was passed on late while the loop runs, or is in a body that it
\* entered before STOP; and the loop enters no other.
NotYetLate == running \/ pc = "body" => late = 0

\* At most one torque is passed on after STOP.
THEOREM StopBounds == Spec => []StopBoundsTorque
<1>1. Init => NotYetLate /\ StopBoundsTorque
  BY DEF Init, NotYetLate, StopBoundsTorque
<1>2. ASSUME NotYetLate, StopBoundsTorque, [Next]_vars
      PROVE  NotYetLate' /\ StopBoundsTorque'
  BY <1>2 DEF Next, Run, vars, Construct, EnterBody, LoopsOn, LeaveLoop, Receive, Destroy,
     Die, Enable, Disable, Stop, Callback, Arrive, Lose, Overtake, TrqCommand, Stray,
     NotYetLate, StopBoundsTorque
<1>. QED
  BY <1>1, <1>2, PTL DEF Spec

-----------------------------------------------------------------------------
(* The last word, one torquer at a time.                                   *)

\* i is the last datagram waiting for t.
IsLast(t, i) == i \in Waiting(t) /\ \A j \in Waiting(t) : j <= i

Word(t) ==
  Signed(drive[t]) \in -100 .. 100 =>
    /\ Waiting(t) = {} => mcmd[t] = Signed(drive[t])
    /\ \A i \in Waiting(t) : IsLast(t, i) => net[i].percent = Signed(drive[t])

\* The invariant, said of every torquer the history vouches for.
LEMMA LastWordIsWord == LastWord <=> \A t \in (Simulated \cap Torquers) \ unsure : Word(t)
  BY DEF LastWord, Word, IsLast

\* Reading the head of the buffer keeps the last word: if the head was it, it is
\* what 42 applies now; if not, the last word still waits.
LEMMA ReceiveWord ==
  ASSUME TypeOK, Receive, NEW t \in Simulated \cap Torquers, Word(t)
  PROVE  Word(t)'
<1>1. CASE net = <<>>
  BY <1>1 DEF Receive, Word, Waiting, IsLast
<1>2. CASE net # <<>>
  <2>. SUFFICES ASSUME Signed(drive[t]) \in -100 .. 100
                PROVE  /\ Waiting(t)' = {} => mcmd'[t] = Signed(drive[t])
                       /\ \A i \in Waiting(t)' :
                            IsLast(t, i)' => net'[i].percent = Signed(drive[t])
    BY DEF Word, Receive
  <2>1. /\ Head(net) = net[1] /\ Len(net) \in Nat /\ Len(net) >= 1
        /\ net' = Tail(net) /\ Len(net') = Len(net) - 1
        /\ \A i \in 1 .. Len(net) - 1 : net'[i] = net[i + 1]
    BY <1>2, HeadType DEF Receive, Leaves
  <2>2. /\ Waiting(t) = {i \in 1 .. Len(net) : net[i].num = t}
        /\ Waiting(t)' = {i \in 1 .. Len(net) - 1 : net[i + 1].num = t}
    BY <1>2, <2>1, HeadType DEF Waiting, TypeOK
  <2>3. CASE Waiting(t)' # {}
    <3>1. ASSUME NEW i \in Waiting(t)', IsLast(t, i)'
          PROVE  IsLast(t, i + 1) /\ net'[i] = net[i + 1]
      <4>1. i + 1 \in Waiting(t) /\ i \in 1 .. Len(net) - 1
        BY <2>1, <2>2
      <4>2. ASSUME NEW j \in Waiting(t) PROVE j <= i + 1
        <5>1. CASE j = 1
          BY <4>1, <5>1
        <5>2. CASE j # 1
          <6>1. j - 1 \in Waiting(t)'
            BY <2>1, <2>2, <5>2
          <6>. QED
            BY <3>1, <4>1, <6>1, <2>2 DEF IsLast
        <5>. QED
          BY <5>1, <5>2
      <4>. QED
        BY <2>1, <4>1, <4>2 DEF IsLast
    <3>. QED
      BY <2>3, <3>1 DEF Word, IsLast
  <2>4. CASE Waiting(t)' = {}
    <3>1. ASSUME NEW j \in Waiting(t) PROVE j = 1
      <4>1. j # 1 => j - 1 \in Waiting(t)'
        BY <2>1, <2>2
      <4>. QED
        BY <2>4, <4>1
    <3>2. CASE net[1].num = t
      <4>1. IsLast(t, 1)
        BY <2>1, <2>2, <3>1, <3>2 DEF IsLast
      <4>2. net[1].percent = Signed(drive[t])
        BY <4>1 DEF Word, IsLast
      <4>3. Accepts(net[1])
        BY <3>2, <4>2 DEF Accepts
      <4>4. mcmd'[t] = net[1].percent
        BY <1>2, <2>1, <3>2, <4>3 DEF Receive, Torque, TypeOK
      <4>. QED
        BY <2>4, <4>2, <4>4
    <3>3. CASE net[1].num # t
      <4>1. Waiting(t) = {}
        <5>. SUFFICES ASSUME NEW j \in Waiting(t) PROVE FALSE
          OBVIOUS
        <5>. QED
          BY <2>2, <3>1, <3>3
      <4>2. mcmd'[t] = mcmd[t]
        BY <1>2, <2>1, <3>3 DEF Receive, Torque, Accepts, TypeOK
      <4>. QED
        BY <2>4, <4>1, <4>2 DEF Word
    <3>. QED
      BY <3>2, <3>3
  <2>. QED
    BY <2>3, <2>4
<1>. QED
  BY <1>1, <1>2

\* A datagram that joins the buffer for another torquer, or for none.
LEMMA OtherArrives ==
  ASSUME TypeOK, NEW t \in Simulated \cap Torquers, Word(t), UNCHANGED mcmd,
         drive'[t] = drive[t],
         NEW dg \in Datagram, dg.num # t, net' = Append(net, dg)
  PROVE  Word(t)'
<1>1. /\ Len(net) \in Nat /\ Len(net') = Len(net) + 1 /\ net'[Len(net) + 1] = dg
      /\ \A i \in 1 .. Len(net) : net'[i] = net[i]
  BY DEF TypeOK
<1>2. /\ Waiting(t) = {i \in 1 .. Len(net) : net[i].num = t}
      /\ Waiting(t)' = {i \in 1 .. Len(net) + 1 : net'[i].num = t}
  BY <1>1 DEF Waiting, TypeOK
<1>3. Waiting(t)' = Waiting(t)
  BY <1>1, <1>2
<1>4. \A i \in Waiting(t) : net'[i] = net[i]
  BY <1>1, <1>2
<1>. QED
  BY <1>3, <1>4 DEF Word, IsLast

\* A datagram that arrives is the last word for its torquer.
LEMMA LastArrives ==
  ASSUME TypeOK, NEW c \in Commands, Arrive(c), c.num \in Simulated \cap Torquers
  PROVE  Word(c.num)'
<1>. DEFINE t == c.num
            n == Len(net) + 1
<1>1. /\ Len(net) \in Nat /\ Len(net') = n /\ net'[n] = DatagramOf(c)
      /\ drive'[t] = c.drive
  BY DatagramType DEF Arrive, TrqCommand, TypeOK
<1>2. Waiting(t)' = {i \in 1 .. n : net'[i].num = t}
  BY <1>1, DatagramType DEF Waiting, Arrive, TypeOK
<1>3. n \in Waiting(t)' /\ net'[n].percent = Signed(drive'[t])
  BY <1>1, <1>2 DEF DatagramOf
<1>4. \A i \in Waiting(t)' : IsLast(t, i)' => i = n
  BY <1>1, <1>2, <1>3 DEF IsLast
<1>. HIDE DEF n
<1>. QED
  BY <1>3, <1>4 DEF Word

\* A step that leaves the buffer, 42 and t's command alone.
LEMMA QuietWord ==
  ASSUME NEW t, Word(t), UNCHANGED <<net, mcmd>>, drive'[t] = drive[t]
  PROVE  Word(t)'
  BY DEF Word, Waiting, IsLast

\* Overtaking concerns one torquer: the others wait as before.
LEMMA OvertakeWord ==
  ASSUME TypeOK, NEW c \in Commands, Overtake(c),
         NEW t \in Simulated \cap Torquers, t # c.num, Word(t)
  PROVE  Word(t)'
<1>. DEFINE changed == [net EXCEPT ![Len(net)] = DatagramOf(c)]
            n == Len(net)
<1>1. net \in Seq(Datagram) /\ n \in Nat /\ n >= 1
      /\ net[n].num = c.num /\ DatagramOf(c) \in Datagram /\ DatagramOf(c).num = c.num
  BY DatagramType DEF Overtake, TypeOK, DatagramOf
<1>2. net[n] \in Datagram
  BY <1>1
<1>3. changed \in Seq(Datagram) /\ Len(changed) = n
  BY <1>1, <1>2
<1>4. /\ \A i \in 1 .. n - 1 : changed[i] = net[i]
      /\ changed[n].num = c.num
  BY <1>1
<1>. HIDE DEF changed
<1>5. /\ Len(Append(changed, net[n])) = n + 1
      /\ \A i \in 1 .. n : Append(changed, net[n])[i] = changed[i]
      /\ Append(changed, net[n])[n + 1] = net[n]
  BY <1>1, <1>2, <1>3
<1>6. net' = Append(changed, net[n])
  BY DEF Overtake, changed
<1>7. /\ Len(net') = n + 1 /\ net'[n].num = c.num /\ net'[n + 1].num = c.num
      /\ \A i \in 1 .. n - 1 : net'[i] = net[i]
  BY <1>1, <1>4, <1>5, <1>6
<1>8. DOMAIN net' = 1 .. n + 1
  BY <1>2, <1>3, <1>6, <1>7
<1>9. /\ Waiting(t) = {i \in 1 .. n - 1 : net[i].num = t}
      /\ Waiting(t)' = {i \in 1 .. n - 1 : net[i].num = t}
  <2>1. Waiting(t) = {i \in 1 .. n : net[i].num = t}
        /\ Waiting(t)' = {i \in 1 .. n + 1 : net'[i].num = t}
    BY <1>1, <1>8 DEF Waiting
  <2>. QED
    BY <1>1, <1>7, <2>1
<1>10. mcmd' = mcmd /\ drive'[t] = drive[t]
  BY DatagramType DEF Overtake, TrqCommand, TypeOK
<1>. QED
  BY <1>7, <1>9, <1>10 DEF Word, IsLast

\* Every step keeps the last word of every torquer the history vouches for.
LEMMA NextWord == ASSUME TypeOK, LastWord, [Next]_vars PROVE LastWord'
<1>. SUFFICES ASSUME NEW t \in Simulated \cap Torquers, t \notin unsure'
              PROVE  Word(t)'
  BY DEF LastWord, Word, IsLast, Simulated
<1>1. t \notin unsure => Word(t)
  BY LastWordIsWord
<1>2. CASE Construct \/ EnterBody \/ Destroy \/ Enable \/ Disable \/ Stop \/ UNCHANGED vars
  BY <1>1, <1>2, QuietWord DEF Construct, EnterBody, Destroy, Enable, Disable, Stop,
     Callback, vars
<1>3. CASE Receive
  BY <1>1, <1>3, ReceiveWord DEF Receive
<1>4. CASE LeaveLoop \/ Die
  <2>1. /\ net' = <<>> /\ mcmd' = mcmd /\ drive' = drive
        /\ t \notin unsure /\ Waiting(t) = {}
    BY <1>4 DEF LeaveLoop, Die, LoseBuffer, Waiting
  <2>2. Waiting(t)' = {}
    BY <2>1 DEF Waiting
  <2>. QED
    BY <1>1, <2>1, <2>2 DEF Word
<1>5. ASSUME NEW c \in Commands, Arrive(c) PROVE Word(t)'
  <2>1. CASE t = c.num
    BY <1>5, <2>1, LastArrives
  <2>2. CASE t # c.num
    <3>1. t \notin unsure /\ mcmd' = mcmd /\ drive'[t] = drive[t]
          /\ net' = Append(net, DatagramOf(c))
      BY <1>5, <2>2, DatagramType DEF Arrive, TrqCommand, TypeOK
    <3>. QED
      BY <1>1, <2>2, <3>1, DatagramType, OtherArrives DEF DatagramOf
  <2>. QED
    BY <2>1, <2>2
<1>6. ASSUME NEW c \in Commands, Lose(c) PROVE Word(t)'
  <2>1. t \notin unsure /\ t # c.num
    BY <1>6 DEF Lose
  <2>2. UNCHANGED <<net, mcmd>> /\ drive'[t] = drive[t]
    BY <1>6, <2>1, DatagramType DEF Lose, TrqCommand, TypeOK
  <2>. QED
    BY <1>1, <2>1, <2>2, QuietWord
<1>7. ASSUME NEW c \in Commands, Overtake(c) PROVE Word(t)'
  <2>1. t \notin unsure /\ t # c.num
    BY <1>7 DEF Overtake
  <2>. QED
    BY <1>1, <1>7, <2>1, OvertakeWord
<1>8. CASE Stray
  <2>1. /\ t \notin unsure /\ mcmd' = mcmd /\ drive' = drive
        /\ net' = Append(net, Garbled) /\ Garbled.num # t
    BY <1>8 DEF Stray, Garbled, Torquers
  <2>. QED
    BY <1>1, <2>1, DatagramType, OtherArrives
<1>. QED
  BY <1>2, <1>3, <1>4, <1>5, <1>6, <1>7, <1>8 DEF Next, Run

\* 42 applies to each torquer what the flight software last commanded, or will
\* once the buffer is read, whatever strays in, is refused, or is lost for
\* another torquer.
THEOREM LastWordHolds == Spec => []LastWord
<1>1. ASSUME Init PROVE LastWord
  <2>1. ASSUME NEW t \in Simulated \cap Torquers
        PROVE  mcmd[t] = Signed(drive[t]) /\ Waiting(t) = {}
    BY <1>1 DEF Init, AllOff, Off, Signed, Waiting
  <2>. QED
    BY <2>1 DEF LastWord
<1>2. TypeOK /\ LastWord /\ [Next]_vars => LastWord'
  BY NextWord
<1>. QED
  BY TypeCorrect, <1>1, <1>2, PTL DEF Spec

-----------------------------------------------------------------------------
(* CatchesUp, one command at a time.  The datagram of the command is the   *)
(* last one for its torquer whose level is not what the torquer is to do   *)
(* anyway; each turn of the loop brings it nearer to the head of the       *)
(* buffer, through any buffer of up to 1024 datagrams.  The theorem takes  *)
(* RunCanStep as a hypothesis: it is about ENABLED, which only TLC         *)
(* evaluates.                                                              *)

\* There is a process in the loop while _keep_running holds.
InLoop == running => pc \in {"top", "body"}

\* It is so in every reachable state.
LEMMA InLoopHolds == Spec => []InLoop
<1>1. Init => InLoop
  BY DEF Init, InLoop
<1>2. InLoop /\ [Next]_vars => InLoop'
  BY DEF Next, Run, vars, Construct, EnterBody, LoopsOn, LeaveLoop, Receive, Destroy,
     Die, Enable, Disable, Stop, Callback, Arrive, Lose, Overtake, TrqCommand, Stray,
     InLoop
<1>. QED
  BY <1>1, <1>2, PTL DEF Spec

\* The command c stands, and its datagram was not lost.
Stands(c) == running /\ c.num \notin unsure /\ drive[c.num] = c.drive

\* The i-th datagram is for the torquer of c, with the level of c or another one.
Fresh(c, i) == net[i].num = c.num /\ net[i].percent = Signed(c.drive)

Stale(c, i) == net[i].num = c.num /\ net[i].percent # Signed(c.drive)

\* Behind one of the first k datagrams, with the level of c, none has another.
Within(c, k) ==
  \E i \in 1 .. Len(net) :
    /\ i <= k /\ Fresh(c, i)
    /\ \A j \in 1 .. Len(net) : j > i => ~Stale(c, j)

\* 42 does what c asked for, and no datagram is to change that.
Calm(c) ==
  /\ mcmd[c.num] = Signed(c.drive)
  /\ \A j \in 1 .. Len(net) : ~Stale(c, j)

\* A set of positions that is not empty has a last one.
LEMMA LastPosition ==
  ASSUME NEW n \in Nat, NEW T, T \subseteq 1 .. n, T # {}
  PROVE  \E i \in T : \A j \in T : j <= i
<1>. DEFINE D == {n - i : i \in T}
            R == OpToRel(<, Nat)
<1>1. D \subseteq Nat /\ D # {}
  <2>1. PICK i : i \in T
    OBVIOUS
  <2>2. n - i \in D
    BY <2>1
  <2>. QED
    BY <2>2
<1>2. PICK d \in D : \A e \in D : ~(<<e, d>> \in R)
  <2>1. IsWellFoundedOn(R, Nat)
    BY NatLessThanWellFounded
  <2>. HIDE DEF D, R
  <2>. QED
    BY <1>1, <2>1, WFMin
<1>3. \A e \in D : ~(e < d)
  BY <1>1, <1>2 DEF OpToRel
<1>4. PICK i \in T : d = n - i
  OBVIOUS
<1>5. ASSUME NEW j \in T PROVE j <= i
  <2>1. ~(n - j < d)
    BY <1>3
  <2>. QED
    BY <1>4, <2>1
<1>. QED
  BY <1>5

\* A command that stands is done, or its datagram waits.
LEMMA StandsInBuffer ==
  ASSUME TypeOK, LastWord, BufferSize <= 1024,
         NEW c \in Commands, Accepts(DatagramOf(c)), Stands(c)
  PROVE  Calm(c) \/ Within(c, 1024)
<1>. DEFINE t == c.num
<1>1. /\ t \in (Simulated \cap Torquers) \ unsure
      /\ Signed(drive[t]) = Signed(c.drive) /\ Signed(drive[t]) \in -100 .. 100
  BY DatagramType DEF Accepts, DatagramOf, Stands
<1>2. DOMAIN net = 1 .. Len(net) /\ Len(net) \in Nat /\ Len(net) <= 1024
  BY SimAssumption DEF TypeOK
<1>3. CASE Waiting(t) = {}
  <2>1. mcmd[t] = Signed(c.drive)
    BY <1>1, <1>3 DEF LastWord
  <2>. QED
    BY <1>2, <1>3, <2>1 DEF Waiting, Calm, Stale
<1>4. CASE Waiting(t) # {}
  <2>1. Waiting(t) \subseteq 1 .. Len(net)
    BY <1>2 DEF Waiting
  <2>2. PICK i \in Waiting(t) : \A j \in Waiting(t) : j <= i
    BY <1>2, <1>4, <2>1, LastPosition
  <2>3. Fresh(c, i)
    BY <1>1, <2>2 DEF LastWord, Fresh, Waiting
  <2>4. ASSUME NEW j \in 1 .. Len(net), j > i PROVE ~Stale(c, j)
    <3>1. j \notin Waiting(t)
      BY <1>2, <2>1, <2>2, <2>4
    <3>. QED
      BY <1>2, <3>1 DEF Waiting, Stale
  <2>. QED
    BY <1>2, <2>1, <2>3, <2>4 DEF Within
<1>. QED
  BY <1>3, <1>4

\* What a datagram does when it is read.
LEMMA ReadingMoves ==
  ASSUME TypeOK, Receive, NEW c \in Commands, Accepts(DatagramOf(c))
  PROVE  /\ \A k \in Int : Within(c, k) => Within(c, k - 1)' \/ Calm(c)'
         /\ Calm(c) => Calm(c)'
<1>. DEFINE t == c.num
            v == Signed(c.drive)
<1>1. CASE net = <<>>
  BY <1>1 DEF Receive, Within, Calm, Stale
<1>2. CASE net # <<>>
  <2>1. net' = Tail(net)
    BY <1>2 DEF Receive, Leaves
  <2>2. /\ Len(net') = Len(net) - 1 /\ Len(net) \in Nat
        /\ \A i \in 1 .. Len(net') : net'[i] = net[i + 1]
        /\ Head(net) = net[1] /\ Len(net) >= 1
    BY <1>2, <2>1, HeadType
  <2>3. t \in Simulated /\ v \in -100 .. 100
    BY DEF Accepts, DatagramOf
  <2>4. /\ Fresh(c, 1) => mcmd'[t] = v
        /\ ~Stale(c, 1) /\ mcmd[t] = v => mcmd'[t] = v
    BY <1>2, <2>2, <2>3 DEF Receive, Accepts, Torque, Fresh, Stale, TypeOK
  <2>5. \A i \in 1 .. Len(net') : (Fresh(c, i)' <=> Fresh(c, i + 1))
                                  /\ (Stale(c, i)' <=> Stale(c, i + 1))
    BY <2>2 DEF Fresh, Stale
  <2>6. ASSUME NEW k \in Int, Within(c, k) PROVE Within(c, k - 1)' \/ Calm(c)'
    <3>1. PICK i \in 1 .. Len(net) :
            /\ i <= k /\ Fresh(c, i)
            /\ \A j \in 1 .. Len(net) : j > i => ~Stale(c, j)
      BY <2>6 DEF Within
    <3>2. \A j \in 1 .. Len(net') : j > i - 1 => ~Stale(c, j)'
      BY <2>2, <2>5, <3>1
    <3>3. CASE i = 1
      BY <2>2, <2>4, <3>1, <3>2, <3>3 DEF Calm
    <3>4. CASE i # 1
      <4>1. i - 1 \in 1 .. Len(net') /\ Fresh(c, i - 1)'
        BY <2>2, <2>5, <3>1, <3>4
      <4>. QED
        BY <3>1, <3>2, <4>1 DEF Within
    <3>. QED
      BY <3>3, <3>4
  <2>7. ASSUME Calm(c) PROVE Calm(c)'
    BY <2>2, <2>4, <2>5, <2>7 DEF Calm
  <2>. QED
    BY <2>6, <2>7
<1>. QED
  BY <1>1, <1>2

\* What arrives at the end of the buffer is not stale.
LEMMA ArrivalMoves ==
  ASSUME TypeOK, NEW c \in Commands, NEW dg \in Datagram,
         dg.num = c.num => dg.percent = Signed(c.drive),
         NEW front \in Seq(Datagram), Len(front) = Len(net),
         \A i \in 1 .. Len(net) : (Fresh(c, i) => front[i] = net[i])
                                  /\ (~Stale(c, i) => \/ front[i].num # c.num
                                                      \/ front[i] = net[i]),
         net' = Append(front, dg), mcmd' = mcmd
  PROVE  /\ \A k \in Int : Within(c, k) => Within(c, k)'
         /\ Calm(c) => Calm(c)'
<1>1. /\ Len(net') = Len(net) + 1 /\ Len(net) \in Nat
      /\ \A i \in 1 .. Len(net) : net'[i] = front[i]
      /\ net'[Len(net) + 1] = dg
  BY DEF TypeOK
<1>2. \A i \in 1 .. Len(net) : (Fresh(c, i) => Fresh(c, i)')
                               /\ (~Stale(c, i) => ~Stale(c, i)')
  BY <1>1 DEF Fresh, Stale
<1>3. \A i \in 1 .. Len(net') : i > Len(net) => ~Stale(c, i)'
  BY <1>1 DEF Stale
<1>4. ASSUME NEW k \in Int, Within(c, k) PROVE Within(c, k)'
  <2>1. PICK i \in 1 .. Len(net) :
          /\ i <= k /\ Fresh(c, i)
          /\ \A j \in 1 .. Len(net) : j > i => ~Stale(c, j)
    BY <1>4 DEF Within
  <2>2. \A j \in 1 .. Len(net') : j > i => ~Stale(c, j)'
    BY <1>1, <1>2, <1>3, <2>1
  <2>3. i \in 1 .. Len(net') /\ Fresh(c, i)'
    BY <1>1, <1>2, <2>1
  <2>. QED
    BY <2>1, <2>2, <2>3 DEF Within
<1>5. ASSUME Calm(c) PROVE Calm(c)'
  BY <1>1, <1>2, <1>3, <1>5 DEF Calm
<1>. QED
  BY <1>4, <1>5

\* While a command stands its datagram does not move back, and what it did stays done.
LEMMA StandingMoves ==
  ASSUME TypeOK, [Next]_vars, NEW c \in Commands, Accepts(DatagramOf(c)),
         Stands(c), Stands(c)'
  PROVE  /\ \A k \in Int : Within(c, k) => Within(c, k)' \/ Within(c, k - 1)' \/ Calm(c)'
         /\ Calm(c) => Calm(c)'
<1>1. CASE Receive
  BY <1>1, ReadingMoves
<1>2. CASE UNCHANGED <<net, mcmd>>
  BY <1>2 DEF Within, Calm, Fresh, Stale
<1>3. ASSUME NEW d \in Commands, Arrive(d)
      PROVE  /\ \A k \in Int : Within(c, k) => Within(c, k)'
             /\ Calm(c) => Calm(c)'
  <2>1. DatagramOf(d) \in Datagram /\ d.num \in Torquers
    BY DatagramType
  <2>2. d.num = c.num => d.drive = c.drive
    BY <1>3, <2>1 DEF Arrive, TrqCommand, Stands, TypeOK
  <2>3. DatagramOf(d).num = c.num => DatagramOf(d).percent = Signed(c.drive)
    BY <2>2 DEF DatagramOf
  <2>4. net' = Append(net, DatagramOf(d)) /\ mcmd' = mcmd /\ net \in Seq(Datagram)
    BY <1>3 DEF Arrive, TrqCommand, TypeOK
  <2>. QED
    BY <2>1, <2>3, <2>4, ArrivalMoves
<1>4. ASSUME NEW d \in Commands, Overtake(d)
      PROVE  /\ \A k \in Int : Within(c, k) => Within(c, k)'
             /\ Calm(c) => Calm(c)'
  <2>. DEFINE front == [net EXCEPT ![Len(net)] = DatagramOf(d)]
              dg == net[Len(net)]
  <2>1. /\ net \in Seq(Datagram) /\ net # <<>> /\ DatagramOf(d) \in Datagram
        /\ dg.num = d.num /\ DatagramOf(d).num = d.num
    BY <1>4, DatagramType DEF Overtake, TypeOK, DatagramOf
  <2>2. Len(net) \in 1 .. Len(net) /\ dg \in Datagram
    BY <2>1
  <2>3. d.num # c.num
    BY <1>4 DEF Overtake, Stands
  <2>4. /\ front \in Seq(Datagram) /\ Len(front) = Len(net)
        /\ \A i \in 1 .. Len(net) : front[i] = IF i = Len(net) THEN DatagramOf(d) ELSE net[i]
    BY <2>1, <2>2
  <2>5. net' = Append(front, dg) /\ mcmd' = mcmd
    BY <1>4 DEF Overtake, TrqCommand
  <2>. HIDE DEF front, dg
  <2>6. \A i \in 1 .. Len(net) : (Fresh(c, i) => front[i] = net[i])
                                 /\ (~Stale(c, i) => \/ front[i].num # c.num
                                                     \/ front[i] = net[i])
    BY <2>1, <2>3, <2>4 DEF Fresh, dg
  <2>. QED
    BY <2>1, <2>2, <2>3, <2>4, <2>5, <2>6, ArrivalMoves
<1>5. CASE Stray
  <2>1. net' = Append(net, Garbled) /\ mcmd' = mcmd /\ net \in Seq(Datagram)
    BY <1>5 DEF Stray, TypeOK
  <2>2. Garbled \in Datagram /\ Garbled.num # c.num
    BY DatagramType DEF Garbled, Torquers
  <2>. QED
    BY <2>1, <2>2, ArrivalMoves
<1>6. ~LeaveLoop /\ ~Die
  BY DEF LeaveLoop, LoopsOn, Die, Stands
<1>. QED
  BY <1>1, <1>2, <1>3, <1>4, <1>5, <1>6 DEF Next, Run, vars, Construct, EnterBody,
     Destroy, Enable, Disable, Stop, Callback, Lose, TrqCommand

\* The turn of the loop that is about to come.
Reads(c, k, p) == Within(c, k) /\ pc = p

\* From wherever the command stands from then on, its datagram among the first k
\* becomes one among the first j, or is done.
Leads(c, k, j) ==
  Spec /\ []RunCanStep =>
    []([]Stands(c) => (Within(c, k) ~> Within(c, j) \/ Calm(c)))

\* The place of the datagram becomes better by one.
LEMMA DatagramMovesUp ==
  ASSUME NEW c \in Commands, Accepts(DatagramOf(c)), NEW k \in Int
  PROVE  Leads(c, k, k - 1)
<1>. DEFINE here == Within(c, k)
            next == Within(c, k - 1)
            calm == Calm(c)
            stands == Stands(c)
            top == Reads(c, k, "top")
            body == Reads(c, k, "body")
            can == ENABLED <<Run>>_vars
<1>1. TypeOK /\ InLoop /\ [Next]_vars /\ stands /\ stands' =>
        /\ top => top' \/ body' \/ next' \/ calm'
        /\ body => body' \/ next' \/ calm'
  <2>. SUFFICES ASSUME TypeOK, InLoop, [Next]_vars, stands, stands', here
                PROVE  /\ pc = "top" => top' \/ body' \/ next' \/ calm'
                       /\ pc = "body" => body' \/ next' \/ calm'
    BY DEF Reads
  <2>1. here' \/ next' \/ calm'
    BY StandingMoves
  <2>2. CASE Receive
    BY <2>2, ReadingMoves
  <2>3. CASE EnterBody
    BY <2>1, <2>3 DEF EnterBody, Reads
  <2>4. CASE pc' = pc
    BY <2>1, <2>4 DEF Reads
  <2>5. ~LeaveLoop /\ ~Die
    BY DEF LeaveLoop, LoopsOn, Die, Stands
  <2>. QED
    BY <2>2, <2>3, <2>4, <2>5 DEF Next, Run, vars, Construct, Destroy, Enable, Disable,
       Stop, Callback, Arrive, Lose, Overtake, TrqCommand, Stray
<1>2. TypeOK /\ <<Run>>_vars /\ stands =>
        /\ top => ~top'
        /\ body => next' \/ calm'
  BY ReadingMoves DEF Run, EnterBody, LeaveLoop, LoopsOn, Receive, Destroy, Reads, Stands
<1>3. RunCanStep => (top \/ body => can)
  BY DEF RunCanStep, Reads
<1>4. InLoop /\ stands => (here => top \/ body)
  BY DEF InLoop, Stands, Reads
<1>. HIDE DEF here, next, calm, stands, top, body, can
<1>5. Spec /\ []RunCanStep => []([]stands => (here ~> next \/ calm))
  BY <1>1, <1>2, <1>3, <1>4, TypeCorrect, InLoopHolds, PTL DEF Spec, can
<1>. QED
  BY <1>5 DEF Leads, here, next, calm, stands

\* Such steps compose.
LEMMA LeadsCompose ==
  ASSUME NEW c, NEW k, NEW j, NEW i, Leads(c, k, j), Leads(c, j, i)
  PROVE  Leads(c, k, i)
  BY PTL DEF Leads

\* From every place to the one n places before it.
LeadsBy(c, n) == \A k \in Int : Leads(c, k, k - n)

\* What holds of n places holds of twice as many.
LEMMA LeadsTwice ==
  ASSUME NEW c, NEW n \in Int, LeadsBy(c, n)
  PROVE  LeadsBy(c, 2 * n)
<1>. SUFFICES ASSUME NEW k \in Int PROVE Leads(c, k, k - 2 * n)
  BY DEF LeadsBy
<1>1. Leads(c, k, k - n) /\ Leads(c, k - n, (k - n) - n)
  BY DEF LeadsBy
<1>2. Leads(c, k, (k - n) - n)
  BY <1>1, LeadsCompose
<1>. QED
  BY <1>2

\* ... and so of 32 times as many.
LEMMA LeadsFar ==
  ASSUME NEW c, NEW n \in Int, LeadsBy(c, n)
  PROVE  LeadsBy(c, 32 * n)
<1>1. LeadsBy(c, 2 * n)
  BY LeadsTwice
<1>2. LeadsBy(c, 4 * n)
  BY <1>1, LeadsTwice
<1>3. LeadsBy(c, 8 * n)
  BY <1>2, LeadsTwice
<1>4. LeadsBy(c, 16 * n)
  BY <1>3, LeadsTwice
<1>. QED
  BY <1>4, LeadsTwice

\* A command that stands for good is what 42 applies in the end.
Prevails(c) ==
  Spec /\ []RunCanStep =>
    (<>[]Stands(c) => <>[](mcmd[c.num] = Signed(c.drive)))

\* So it is for every command of a level that run() accepts.
LEMMA CommandPrevails ==
  ASSUME BufferSize <= 1024, NEW c \in Commands, Accepts(DatagramOf(c))
  PROVE  Prevails(c)
<1>. DEFINE here == Within(c, 1024)
            none == Within(c, 0)
            calm == Calm(c)
            stands == Stands(c)
            goal == mcmd[c.num] = Signed(c.drive)
<1>1. LeadsBy(c, 1)
  BY DatagramMovesUp DEF LeadsBy
<1>2. LeadsBy(c, 32)
  BY <1>1, LeadsFar
<1>3. LeadsBy(c, 1024)
  BY <1>2, LeadsFar
<1>4. Leads(c, 1024, 0)
  BY <1>3 DEF LeadsBy
<1>5. Spec /\ []RunCanStep => []([]stands => (here ~> none \/ calm))
  BY <1>4 DEF Leads
<1>6. ~none
  BY DEF Within
<1>7. TypeOK /\ LastWord => (stands => calm \/ here)
  BY StandsInBuffer
<1>8. TypeOK /\ [Next]_vars /\ stands /\ stands' => (calm => calm')
  BY StandingMoves
<1>9. calm => goal
  BY DEF Calm
<1>. HIDE DEF here, none, calm, stands, goal
<1>10. Spec /\ []RunCanStep => (<>[]stands => <>[]goal)
  BY <1>5, <1>6, <1>7, <1>8, <1>9, TypeCorrect, LastWordHolds, PTL DEF Spec
<1>. QED
  BY <1>10 DEF Prevails, stands, goal

\* 42 catches up with the flight software, if the loop is never stuck.
THEOREM CatchesUpHolds ==
  ASSUME BufferSize <= 1024
  PROVE  Spec /\ []RunCanStep => CatchesUp
<1>1. \A c \in Commands : Accepts(DatagramOf(c)) => Prevails(c)
  BY CommandPrevails
<1>. QED
  BY <1>1 DEF Prevails, Stands, CatchesUp

=============================================================================
