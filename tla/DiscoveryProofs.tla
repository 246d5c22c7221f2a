--------------------------- MODULE DiscoveryProofs ---------------------------
(***************************************************************************)
(* Proofs about Discovery, for every set of members and every interval.    *)
(***************************************************************************)
EXTENDS Discovery, TLAPS

LEMMA MinOfTwo ==
  ASSUME NEW x \in Int, NEW y \in Int
  PROVE  Min({x, y}) = IF x <= y THEN x ELSE y
<1>1. \E z \in {x, y} : \A w \in {x, y} : z <= w
  OBVIOUS
<1>2. Min({x, y}) \in {x, y} /\ \A w \in {x, y} : Min({x, y}) <= w
  BY <1>1 DEF Min
<1> QED
  BY <1>2

LEMMA MaxOfTwo ==
  ASSUME NEW x \in Int, NEW y \in Int
  PROVE  Max({x, y}) = IF x >= y THEN x ELSE y
<1>1. \E z \in {x, y} : \A w \in {x, y} : z >= w
  OBVIOUS
<1>2. Max({x, y}) \in {x, y} /\ \A w \in {x, y} : Max({x, y}) >= w
  BY <1>1 DEF Max
<1> QED
  BY <1>2

\* The interval never shrinks: five quarters of it are at least as much.
LEMMA NextIntervalGrows ==
  ASSUME NEW i \in 1..MAX_REBROADCAST_INTERVAL
  PROVE  NextInterval(i) \in i..MAX_REBROADCAST_INTERVAL
<1>1. (i * 5) \div 4 \in Int /\ (i * 5) \div 4 >= i
  BY IntervalAssumption
<1> QED
  BY <1>1, MinOfTwo, IntervalAssumption DEF NextInterval

LEMMA TypeInit == Init => TypeOK
BY IntervalAssumption, EnvironmentAssumption DEF Init, TypeOK

LEMMA TypeStep ==
  ASSUME TypeOK, [Next]_vars
  PROVE  TypeOK'
<1> USE DEF TypeOK
<1>1. CASE SendProbe
  BY <1>1 DEF SendProbe
<1>2. CASE SendFails \/ WaitOn \/ ReadFails
  BY <1>2 DEF SendFails, WaitOn, ReadFails, timing
<1>3. CASE TimeOut
  BY <1>3, NextIntervalGrows, IntervalAssumption DEF TimeOut
<1>4. ASSUME NEW m \in Members, Receive(m)
      PROVE  TypeOK'
  <2>1. Max({dirty, Min({Length[m], INCOMING_BUFFER_SIZE})}) \in 0..INCOMING_BUFFER_SIZE
    BY MinOfTwo, MaxOfTwo, EnvironmentAssumption
  <2> QED
    BY <1>4, <2>1 DEF Receive, timing
<1>5. CASE Later
  <2>1. PICK d \in {Granule, interval - waited, interval + MaxLate - waited} :
          d > 0 /\ Pass(d)
    BY <1>5 DEF Later
  <2> QED
    BY <2>1, EnvironmentAssumption DEF Pass
<1>6. CASE Outside
  BY <1>6 DEF Outside, Answer, StaySilent, Lose, timing
<1>7. CASE UNCHANGED vars
  BY <1>7 DEF vars, timing
<1> QED
  BY <1>1, <1>2, <1>3, <1>4, <1>5, <1>6, <1>7 DEF Next, Loop

\* The interval stays between one millisecond and its maximum, however long nobody
\* answers.
THEOREM BackOffBounded == Spec => []TypeOK
BY TypeInit, TypeStep, PTL DEF Spec

\* When the program began to wait no probe was due, and it waits for no more than one
\* interval and the delay of its timer.
Undue ==
  pc = "waiting" => since - waited < interval /\ waited <= interval + MaxLate

LEMMA UndueStep ==
  ASSUME TypeOK, Undue, [Next]_vars
  PROVE  Undue'
<1> USE DEF TypeOK, Undue
<1>1. CASE SendProbe \/ WaitOn
  BY <1>1, EnvironmentAssumption DEF SendProbe, WaitOn, Due
<1>2. CASE SendFails \/ TimeOut \/ ReadFails
  BY <1>2 DEF SendFails, TimeOut, ReadFails
<1>3. ASSUME NEW m \in Members, Receive(m)
      PROVE  Undue'
  BY <1>3 DEF Receive
<1>4. CASE Later
  <2>1. PICK d \in {Granule, interval - waited, interval + MaxLate - waited} :
          d > 0 /\ Pass(d)
    BY <1>4 DEF Later
  <2> QED
    BY <2>1, EnvironmentAssumption DEF Pass
<1>5. CASE Outside
  BY <1>5 DEF Outside, Answer, StaySilent, Lose, timing
<1>6. CASE UNCHANGED vars
  BY <1>6 DEF vars, timing
<1> QED
  BY <1>1, <1>2, <1>3, <1>4, <1>5, <1>6 DEF Next, Loop

\* Whatever the intervals and however late the timers, less than two intervals pass
\* between two probes.
THEOREM NeverSilentForLong == Spec => []ProbesKeepComing
<1>1. Init => Undue
  BY DEF Init, Undue
<1>2. TypeOK /\ Undue => ProbesKeepComing
  BY EnvironmentAssumption DEF TypeOK, Undue, ProbesKeepComing
<1> QED
  BY <1>1, <1>2, UndueStep, BackOffBounded, PTL DEF Spec
=============================================================================
