------------------------ MODULE RetryingClientProofs ------------------------
(***************************************************************************)
(* Proofs about RetryingClient, for every list of delays and every cap.    *)
(***************************************************************************)
EXTENDS RetryingClient, SequenceLemmas

\* The streak counts at least the fetches that ended blocked in a row, and
\* only a good answer ends it; a fetch takes its backoff from it.
StreakCounts ==
  /\ blocked <= rate_limit_streak
  /\ recent = "ok" => rate_limit_streak = 0
  /\ pc = "fetching" => backoff = Capped(1 + rate_limit_streak)

\* One factor applies to all sleeps of a fetch, and each delay is used once.
SleepsAddUp == slept = backoff * DelayUpTo[index]

IInv == TypeOK /\ StreakCounts /\ SleepsAddUp

\* TypeOK without the flag, which only Zenon can type.
Counters ==
  /\ pc \in {"idle", "fetching"}
  /\ rate_limit_streak \in 0..MaxRateLimitBackoff
  /\ backoff \in 1..MaxRateLimitBackoff
  /\ index \in 0..Len(RetryDelays)
  /\ slept \in Nat
  /\ blocked \in 0..MaxRateLimitBackoff
  /\ recent \in Kinds \cup {"none", "ok", "raised"}

\* TypeOK is what Counters says, and a Boolean flag.
LEMMA TypeOKParts == TypeOK <=> Counters /\ session_was_reset \in BOOLEAN
BY Zenon DEF TypeOK, Counters

\* Capping stays within the cap and keeps the order.
LEMMA CappedIs ==
  ASSUME NEW n \in Nat
  PROVE  /\ Capped(n) \in 0..MaxRateLimitBackoff
         /\ n > 0 => Capped(n) \in 1..MaxRateLimitBackoff
         /\ \A m \in Nat : m <= n => Capped(m) <= Capped(n)
BY RetryingClientAssumption DEF Capped

\* A list of delays has a length, and delays at its places.
LEMMA DelaysAre ==
  /\ Len(RetryDelays) \in Nat
  /\ \A i \in 1..Len(RetryDelays) : RetryDelays[i] \in Nat
BY RetryingClientAssumption

\* The cap is a number, at least one.
LEMMA CapIs == MaxRateLimitBackoff \in Nat /\ MaxRateLimitBackoff >= 1
BY RetryingClientAssumption

\* The delays add up to numbers, which grow with every retry.
LEMMA DelayUpToIs ==
  /\ DelayUpTo[0] = 0
  /\ \A n \in 0..Len(RetryDelays) : DelayUpTo[n] \in Nat
  /\ \A n \in 1..Len(RetryDelays) : DelayUpTo[n] = DelayUpTo[n - 1] + RetryDelays[n]
  /\ \A n \in 0..Len(RetryDelays) : DelayUpTo[n] <= TotalDelay
<1> DEFINE n == Len(RetryDelays)
           step == [p \in Nat \X (1..n) |-> p[1] + RetryDelays[p[2]]]
           Sums(f) == f = [i \in 0..n |-> IF i = 0 THEN 0 ELSE f[i - 1] + RetryDelays[i]]
<1>1. n \in Nat /\ 0 <= n /\ 0 \in 0..n /\ n \in 0..n
  BY DelaysAre
<1>2. \A i \in 0..n : i # 0 => i - 1 \in 0..n /\ i \in 1..n /\ RetryDelays[i] \in Nat
  BY DelaysAre
<1>3. PICK f : Sums(f)
  <2>1. \A sum \in Nat, i \in 1..n : step[<<sum, i>>] = sum + RetryDelays[i] /\ RetryDelays[i] \in Nat
    BY DelaysAre
  <2> HIDE DEF step
  <2>2. \A sum \in Nat, i \in (0 + 1)..n : step[<<sum, i>>] \in Nat
    <3>1. \A sum \in Nat, delay \in Nat : sum + delay \in Nat
      OBVIOUS
    <3>2. \A i \in (0 + 1)..n : i \in 1..n
      OBVIOUS
    <3> QED
      BY <2>1, <3>1, <3>2
  <2>3. PICK f \in [0..n -> Nat] : Recurs(f, 0, n, 0, step)
    <3> HIDE DEF n
    <3> QED
      BY <1>1, <2>2, RecursionOnInterval
  <2>4. \A i \in 0..n : f[i] = IF i = 0 THEN 0 ELSE f[i - 1] + RetryDelays[i]
    BY <1>2, <2>1, <2>3 DEF Recurs
  <2>5. Sums(f)
    BY <2>4
  <2> QED
    BY <2>5
<1>4. Sums(DelayUpTo)
  <2> HIDE DEF Sums
  <2>1. Sums(CHOOSE g : Sums(g))
    BY <1>3
  <2>2. DelayUpTo = CHOOSE g : Sums(g)
    BY DEF DelayUpTo, Sums
  <2> QED
    BY <2>1, <2>2
<1>5. \A i \in 0..n : DelayUpTo[i] = IF i = 0 THEN 0 ELSE DelayUpTo[i - 1] + RetryDelays[i]
  BY <1>4
<1> HIDE DEF Sums
<1>6. DelayUpTo[0] = 0
  BY <1>1, <1>5
<1>7. \A i \in 1..n : DelayUpTo[i] = DelayUpTo[i - 1] + RetryDelays[i]
  BY <1>5
<1>8. \A i \in 0..n : DelayUpTo[i] \in Nat
  <2> DEFINE S == {i \in 0..n : DelayUpTo[i] \in Nat}
  <2>1. \A i \in 0..(n - 1) : i \in S => i + 1 \in S
    <3>1. ASSUME NEW i \in 0..(n - 1), DelayUpTo[i] \in Nat
          PROVE  i + 1 \in 0..n /\ DelayUpTo[i + 1] \in Nat
      <4>1. i + 1 \in 1..n /\ (i + 1) - 1 = i
        BY <1>1
      <4> QED
        BY <1>1, <1>2, <1>7, <3>1, <4>1
    <3> QED
      BY <3>1
  <2>2. 0 \in S
    BY <1>1, <1>6
  <2> HIDE DEF n, S
  <2>3. 0..n \subseteq S
    BY <1>1, <2>1, <2>2, IntervalInduction
  <2> QED
    BY <2>3 DEF S
<1>9. ASSUME NEW i \in 0..n
      PROVE  DelayUpTo[i] <= DelayUpTo[n]
  <2> DEFINE S == {j \in i..n : DelayUpTo[i] <= DelayUpTo[j]}
  <2>1. \A j \in i..(n - 1) : j \in S => j + 1 \in S
    <3>1. ASSUME NEW j \in i..(n - 1), DelayUpTo[i] <= DelayUpTo[j]
          PROVE  j + 1 \in i..n /\ DelayUpTo[i] <= DelayUpTo[j + 1]
      <4>1. j + 1 \in 1..n /\ (j + 1) - 1 = j /\ j \in 0..n
        BY <1>1
      <4>2. DelayUpTo[j + 1] = DelayUpTo[j] + RetryDelays[j + 1] /\ RetryDelays[j + 1] \in Nat
        BY <1>7, <4>1, DelaysAre
      <4> QED
        BY <1>1, <1>8, <3>1, <4>1, <4>2
    <3> QED
      BY <3>1
  <2>2. i \in S /\ i \in Nat
    BY <1>1, <1>8
  <2> HIDE DEF n, S
  <2>3. i..n \subseteq S
    BY <1>1, <2>1, <2>2, IntervalInduction
  <2>4. n \in S
    BY <1>1, <2>3
  <2> QED
    BY <2>4 DEF S
<1> QED
  BY <1>6, <1>7, <1>8, <1>9 DEF TotalDelay

\* Multiplication keeps the order of both factors.
LEMMA TimesKeepsOrder ==
  ASSUME NEW a \in Nat, NEW b \in Nat, NEW c \in Nat, NEW d \in Nat, a <= c, b <= d
  PROVE  a * b <= c * d
<1>1. a * b <= c * b
  OBVIOUS
<1>2. c * b <= c * d
  OBVIOUS
<1>3. a * b \in Nat /\ c * b \in Nat /\ c * d \in Nat
  OBVIOUS
<1> QED
  BY <1>1, <1>2, <1>3

\* A new client satisfies the invariant.
THEOREM Initially == Init => IInv
<1> SUFFICES ASSUME Init PROVE IInv
  OBVIOUS
<1>1. TypeOK
  <2>1. Counters
    BY CapIs, DelaysAre DEF Init, Counters
  <2>2. session_was_reset \in BOOLEAN
    BY Zenon DEF Init
  <2> QED
    BY <2>1, <2>2, TypeOKParts
<1>2. StreakCounts
  BY DEF Init, StreakCounts
<1>3. SleepsAddUp
  BY DelayUpToIs DEF Init, SleepsAddUp
<1> QED
  BY <1>1, <1>2, <1>3 DEF IInv

\* Every step of the client keeps the invariant.
THEOREM Step == IInv /\ [Next]_vars => IInv'
<1> SUFFICES ASSUME IInv, [Next]_vars PROVE IInv'
  OBVIOUS
<1> Counters /\ session_was_reset \in BOOLEAN
  BY TypeOKParts DEF IInv
<1>0. ASSUME Counters', session_was_reset' \in BOOLEAN
      PROVE  TypeOK'
  BY <1>0, Zenon DEF TypeOK, Counters
<1>1. CASE Begin
  <2>1. Capped(1 + rate_limit_streak) \in 1..MaxRateLimitBackoff
    BY CappedIs, CapIs DEF Counters
  <2>2. TypeOK'
    <3>1. Counters'
      BY <1>1, <2>1, CapIs, DelaysAre DEF Begin, Counters
    <3>2. session_was_reset' \in BOOLEAN
      BY <1>1, Zenon DEF Begin
    <3> QED
      BY <3>1, <3>2, <1>0
  <2>3. StreakCounts'
    BY <1>1 DEF Begin, IInv, StreakCounts
  <2>4. SleepsAddUp'
    <3>1. Capped(1 + rate_limit_streak) * DelayUpTo[0] = 0
      BY <2>1, CapIs, DelayUpToIs
    <3> QED
      BY <1>1, <3>1 DEF Begin, SleepsAddUp
  <2> QED
    BY <2>2, <2>3, <2>4 DEF IInv
<1>2. CASE Succeed \/ RaiseOther \/ ResetSession
  <2>1. TypeOK'
    <3>1. Counters'
      BY <1>2, CapIs DEF Succeed, RaiseOther, ResetSession, Counters
    <3>2. session_was_reset' \in BOOLEAN
      BY <1>2, Zenon DEF Succeed, RaiseOther, ResetSession
    <3> QED
      BY <3>1, <3>2, <1>0
  <2>2. StreakCounts'
    BY <1>2, CapIs DEF Succeed, RaiseOther, ResetSession, IInv, TypeOK, StreakCounts
  <2>3. SleepsAddUp'
    BY <1>2 DEF Succeed, RaiseOther, ResetSession, IInv, SleepsAddUp
  <2> QED
    BY <2>1, <2>2, <2>3 DEF IInv
<1>3. ASSUME NEW kind \in Kinds, Retry(kind)
      PROVE  IInv'
  <2>1. index + 1 \in 1..Len(RetryDelays) /\ index' = index + 1
    BY <1>3, DelaysAre DEF Retry, IInv, TypeOK
  <2>2. RetryDelays[index + 1] \in Nat /\ backoff \in Nat /\ slept \in Nat
    BY <2>1, DelaysAre, CapIs DEF IInv, TypeOK
  <2>3. slept' \in Nat
    <3>1. ASSUME NEW a \in Nat, NEW b \in Nat, NEW c \in Nat
          PROVE  a + b * c \in Nat
      OBVIOUS
    <3> QED
      BY <1>3, <2>2, <3>1 DEF Retry
  <2>4. index' \in 0..Len(RetryDelays)
    BY <2>1, DelaysAre
  <2>5. TypeOK' /\ StreakCounts'
    BY <1>3, <2>3, <2>4 DEF Retry, IInv, TypeOK, StreakCounts
  <2>6. SleepsAddUp'
    <3>1. ASSUME NEW a \in Nat, NEW b \in Nat, NEW c \in Nat
          PROVE  a * b + c * a = a * (b + c)
      OBVIOUS
    <3>2. index \in 0..Len(RetryDelays) /\ (index + 1) - 1 = index
      BY DelaysAre DEF Counters
    <3>3. DelayUpTo[index] \in Nat /\ DelayUpTo[index + 1] = DelayUpTo[index] + RetryDelays[index + 1]
      BY <2>1, <3>2, DelayUpToIs
    <3>4. slept' = backoff * DelayUpTo[index] + RetryDelays[index + 1] * backoff
      BY <1>3 DEF Retry, IInv, SleepsAddUp
    <3>5. slept' = backoff * DelayUpTo[index + 1]
      BY <2>2, <3>1, <3>3, <3>4
    <3> QED
      BY <1>3, <3>5 DEF Retry, SleepsAddUp
  <2> QED
    BY <2>5, <2>6 DEF IInv
<1>4. ASSUME NEW kind \in Kinds, GiveUp(kind)
      PROVE  IInv'
  <2>1. blocked \in Nat /\ rate_limit_streak \in Nat /\ blocked + 1 <= rate_limit_streak + 1
    BY CapIs DEF IInv, TypeOK, StreakCounts
  <2>2. /\ Capped(blocked + 1) \in 0..MaxRateLimitBackoff
        /\ Capped(rate_limit_streak + 1) \in 0..MaxRateLimitBackoff
        /\ Capped(blocked + 1) <= Capped(rate_limit_streak + 1)
    BY <2>1, CappedIs
  <2>3. kind # "ok"
    BY DEF Kinds, Retryable, Final
  <2>4. TypeOK'
    BY <1>4, <2>2, CapIs DEF GiveUp, IInv, TypeOK
  <2>5. StreakCounts'
    BY <1>4, <2>1, <2>2, <2>3 DEF GiveUp, IInv, StreakCounts
  <2>6. SleepsAddUp'
    BY <1>4 DEF GiveUp, IInv, SleepsAddUp
  <2> QED
    BY <2>4, <2>5, <2>6 DEF IInv
<1>5. CASE UNCHANGED vars
  BY <1>5 DEF vars, IInv, TypeOK, StreakCounts, SleepsAddUp
<1> QED
  BY <1>1, <1>2, <1>3, <1>4, <1>5 DEF Next

\* The invariant holds at every moment.
THEOREM Invariance == Spec => []IInv
BY Initially, Step, PTL DEF Spec

\* Retries stay within the list of delays, and the backoff within its cap.
THEOREM TypeCorrect == Spec => []TypeOK
<1>1. IInv => TypeOK
  BY DEF IInv
<1> QED
  BY Invariance, <1>1, PTL

\* The longer the provider blocks, the longer the sleeps, up to the cap.
THEOREM CautionGrows == Spec => []GrowingCaution
<1>1. IInv => GrowingCaution
  <2> SUFFICES ASSUME IInv, pc = "fetching" PROVE backoff >= Capped(1 + blocked)
    BY DEF GrowingCaution
  <2>1. /\ blocked \in Nat /\ rate_limit_streak \in Nat /\ 1 + blocked <= 1 + rate_limit_streak
        /\ backoff = Capped(1 + rate_limit_streak) /\ backoff \in Nat
    BY RetryingClientAssumption DEF IInv, TypeOK, StreakCounts
  <2>2. Capped(1 + blocked) <= Capped(1 + rate_limit_streak) /\ Capped(1 + blocked) \in Nat
    BY <2>1, CappedIs
  <2> QED
    BY <2>1, <2>2
<1> QED
  BY Invariance, <1>1, PTL

\* A stop signal waits for at most this long, for every list of delays.
THEOREM SleepBounded == Spec => []BoundedSleep
<1>1. IInv => BoundedSleep
  <2> SUFFICES ASSUME IInv PROVE BoundedSleep
    OBVIOUS
  <2>1. /\ backoff \in Nat /\ MaxRateLimitBackoff \in Nat /\ backoff <= MaxRateLimitBackoff
        /\ index \in 0..Len(RetryDelays) /\ slept = backoff * DelayUpTo[index]
    BY CapIs DEF IInv, TypeOK, SleepsAddUp
  <2>2. DelayUpTo[index] \in Nat /\ TotalDelay \in Nat /\ DelayUpTo[index] <= TotalDelay
    BY <2>1, DelaysAre, DelayUpToIs DEF TotalDelay
  <2>3. backoff * DelayUpTo[index] <= MaxRateLimitBackoff * TotalDelay
    BY <2>1, <2>2, TimesKeepsOrder, Zenon
  <2> QED
    BY <2>1, <2>3 DEF BoundedSleep
<1> QED
  BY Invariance, <1>1, PTL

\* Good answers leave no backoff behind.
THEOREM SuccessCalms == Spec => []CalmAfterSuccess
<1>1. IInv => CalmAfterSuccess
  BY RetryingClientAssumption DEF IInv, TypeOK, StreakCounts, Capped, CalmAfterSuccess
<1> QED
  BY Invariance, <1>1, PTL
=============================================================================
