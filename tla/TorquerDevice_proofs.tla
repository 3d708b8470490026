------------------------- MODULE TorquerDevice_proofs -------------------------
(***************************************************************************)
(* Facts about the operators both flight programs are built from, for      *)
(* every set of same-signed error codes and every width of the counters.   *)
(***************************************************************************)
EXTENDS TorquerDevice, TLAPS

\* The three statuses add up to OS_SUCCESS only if each one is OS_SUCCESS:
\* the test Enable and CONFIG_ALL make is sound.
LEMMA SumIsSuccess ==
  ASSUME NEW res \in Statuses, Sum(res) = OS_SUCCESS
  PROVE  \A t \in Torquers : res[t] = OS_SUCCESS
<1>. DEFINE a == res[0]  b == res[1]  c == res[2]
<1>1. a \in Status /\ b \in Status /\ c \in Status
  BY DEF Statuses, Torquers
<1>2. a + b + c = 0
  BY DEF Sum, OS_SUCCESS
<1>3. \A s \in Status : s \in Int
  BY ErrorAssumption DEF Status, OS_SUCCESS
<1>4. \A t \in Torquers : res[t] \in {a, b, c}
  BY DEF Torquers
<1>. HIDE DEF a, b, c
<1>5. CASE \A e \in TrqErrors : e < 0
  <2>1. \A s \in Status : s <= 0
    BY <1>3, <1>5 DEF Status, OS_SUCCESS
  <2>2. a = 0 /\ b = 0 /\ c = 0
    BY <1>1, <1>2, <1>3, <2>1
  <2>. QED
    BY <1>4, <2>2 DEF OS_SUCCESS
<1>6. CASE \A e \in TrqErrors : e > 0
  <2>1. \A s \in Status : s >= 0
    BY <1>3, <1>6 DEF Status, OS_SUCCESS
  <2>2. a = 0 /\ b = 0 /\ c = 0
    BY <1>1, <1>2, <1>3, <2>1
  <2>. QED
    BY <1>4, <2>2 DEF OS_SUCCESS
<1>. QED
  BY <1>5, <1>6, ErrorAssumption

\* Counting on stays below the width of the counter.
LEMMA WrapType ==
  ASSUME NEW m \in Nat \ {0}, NEW c \in 0 .. m - 1
  PROVE  Wrap(c, m) \in 0 .. m - 1
  BY DEF Wrap

\* The same for the four counters of housekeeping.
LEMMA IncType == ASSUME NEW c \in Counter PROVE Inc(c) \in Counter
  BY WrapType, CounterAssumption DEF Inc, Counter

\* The constant levels and drives have the types they should.
LEMMA ConstantTypes ==
  /\ IdleLevel \in Level
  /\ AllIdle \in [Torquers -> Level]
  /\ Off \in Drive
  /\ AllOff \in [Torquers -> Drive]
  /\ 0 \in Counter
<1>1. IdleLevel \in Level /\ Off \in Drive
  BY DEF IdleLevel, Level, Off, Drive, Byte
<1>2. AllIdle \in [Torquers -> Level] /\ AllOff \in [Torquers -> Drive]
  BY <1>1 DEF AllIdle, AllOff
<1>. QED
  BY <1>1, <1>2, CounterAssumption DEF Counter

\* A commanded level is one the hardware can be driven at.
LEMMA DriveOfType == ASSUME NEW l \in Level PROVE DriveOf(l) \in Drive
  BY DEF DriveOf, Level, Drive

\* The hardware keeps its type whichever torquers are commanded.
LEMMA TrqCommandType ==
  ASSUME NEW d \in [Torquers -> Drive], NEW res,
         NEW S \in SUBSET Torquers, NEW want \in [S -> Drive]
  PROVE  TrqCommand(d, want, res) \in [Torquers -> Drive]
  BY DEF TrqCommand

\* An idle level is a coil that is off.
LEMMA IdleIsOff ==
  /\ \A t \in Torquers : DriveOf(AllIdle[t]) = AllOff[t]
  /\ \A t \in Torquers : AllOff[t].percent = 0
  BY DEF DriveOf, AllIdle, AllOff, IdleLevel, Off

=============================================================================
