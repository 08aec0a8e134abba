---------------------------- MODULE RunLoopProofs ----------------------------
(***************************************************************************)
(* Proofs about RunLoop, for every threshold, number of targets, length of *)
(* the loop, length of a pass and interval between passes.                 *)
(***************************************************************************)
EXTENDS RunLoop, TLAPS

\* While an outage alert is being decided on or sent, none is on record.
AlertIsFirst == pc \in {"outage", "outage_sent"} => ~outage_alert_sent

\* A recovery alert is sent in a pass that read a target, with the outage
\* taken off the record and the recovery put on it.
RecoveryIsOwed ==
  pc \in {"recovery", "recovery_sent"} =>
    /\ outcome.good
    /\ recovery_alert_pending
    /\ ~outage_alert_sent

\* What the loop knows of a pass that has just ended.
OutcomeIsTrue ==
  pc = "judge" =>
    /\ SomeRead => outcome.good
    /\ outcome.good => successSince

\* With no outage alert on record the next one will be news.
NextIsNews == ~outage_alert_sent => successSince

\* The session flag tells whether this outage has had its change.
FlagCountsReset ==
  /\ resets <= 1
  /\ pc # "down" /\ ~session_reset_for_outage => resets = 0

IInv ==
  /\ TypeOK
  /\ FlagsAreTrue
  /\ AlertIsFirst
  /\ RecoveryIsOwed
  /\ OutcomeIsTrue
  /\ NextIsNews
  /\ FlagCountsReset

\* A pass overruns the deadline by its own length at most.
LEMMA LeftIsBounded ==
  ASSUME left \in 0..LoopTicks, NEW spent \in 0..PassTicks
  PROVE  left - spent \in (-PassTicks)..LoopTicks
BY RunLoopAssumption

\* A sleep never does: it is cut at the deadline.
LEMMA SleepIsCut ==
  ASSUME left \in Nat, left <= LoopTicks, NEW interval \in 1..SleepTicks
  PROVE  left - Sleep(interval) \in 0..LoopTicks
BY RunLoopAssumption DEF Sleep

\* A run that has made no pass yet has an outcome like any other.
LEMMA NoOutcomeType == NoOutcome \in Outcome
BY RunLoopAssumption DEF NoOutcome, Outcome

\* A save makes the file say what memory says.
LEMMA SavedIsTrue ==
  ASSUME outage_alert_sent' \in BOOLEAN, recovery_alert_pending' \in BOOLEAN, Save
  PROVE  /\ saved' \in [outage : BOOLEAN, recovery : BOOLEAN]
         /\ saved' = [outage |-> outage_alert_sent', recovery |-> recovery_alert_pending']
<1>1. saved' = [outage |-> outage_alert_sent', recovery |-> recovery_alert_pending']
  BY Zenon DEF Save
<1> QED
  BY <1>1

\* A fresh loop on a fresh state owes nothing.
THEOREM Initially == Init => IInv
<1> SUFFICES ASSUME Init PROVE IInv
  OBVIOUS
<1>1. saved = [outage |-> outage_alert_sent, recovery |-> recovery_alert_pending]
  BY Zenon DEF Init
<1>2. TypeOK
  <2>1. outcome \in Outcome
    BY NoOutcomeType DEF Init
  <2>2. /\ left \in (-PassTicks)..LoopTicks
        /\ active \in 0..MaxActive
        /\ all_failed_streak \in 0..OutageIterations + 1
        /\ dry \in 0..OutageIterations
    BY RunLoopAssumption DEF Init
  <2>3. saved \in [outage : BOOLEAN, recovery : BOOLEAN]
    BY DEF Init
  <2> QED
    BY <2>1, <2>2, <2>3 DEF Init, TypeOK
<1>3. FlagsAreTrue
  BY <1>1 DEF Init, FlagsAreTrue
<1>4. AlertIsFirst /\ RecoveryIsOwed /\ OutcomeIsTrue
  BY DEF Init, AlertIsFirst, RecoveryIsOwed, OutcomeIsTrue
<1>5. NextIsNews /\ FlagCountsReset
  BY DEF Init, NextIsNews, FlagCountsReset
<1> QED
  BY <1>2, <1>3, <1>4, <1>5 DEF IInv

\* Every step of the loop, of a notification and of a kill keeps IInv.
THEOREM Preserved == IInv /\ [Next]_vars => IInv'
<1> SUFFICES ASSUME IInv, [Next]_vars PROVE IInv'
  OBVIOUS
<1> USE RunLoopAssumption
        DEF IInv, TypeOK, FlagsAreTrue, AlertIsFirst, RecoveryIsOwed,
            OutcomeIsTrue, NextIsNews, FlagCountsReset
<1>1. CASE Start
  BY <1>1 DEF Start, NoOutcome, Outcome
<1>2. CASE Pass
  <2>1. TypeOK'
    <3>1. left' \in (-PassTicks)..LoopTicks
      BY <1>2, LeftIsBounded DEF Pass
    <3>2. active' \in 0..MaxActive
      BY <1>2 DEF Pass
    <3>3. dry' \in 0..OutageIterations
      BY <1>2 DEF Pass
    <3>4. successSince' \in BOOLEAN
      BY <1>2 DEF Pass, Outcome
    <3> QED
      BY <1>2, <3>1, <3>2, <3>3, <3>4 DEF Pass, flags, streak
  <2>2. OutcomeIsTrue'
    BY <1>2 DEF Pass, SomeRead, Outcome
  <2>3. NextIsNews'
    BY <1>2 DEF Pass, flags
  <2> QED
    BY <1>2, <2>1, <2>2, <2>3 DEF Pass, flags, streak
<1>3. CASE CountBlackout
  BY <1>3 DEF CountBlackout, flags, history
<1>4. CASE RecordOutage
  <2>1. /\ saved' \in [outage : BOOLEAN, recovery : BOOLEAN]
        /\ saved' = [outage |-> outage_alert_sent', recovery |-> recovery_alert_pending']
    <3>1. CASE acked
      BY <1>4, <3>1, SavedIsTrue DEF RecordOutage
    <3>2. CASE ~acked
      <4>1. outage_alert_sent' = outage_alert_sent
        BY <1>4, <3>2 DEF RecordOutage
      <4> QED
        BY <1>4, <3>2, <4>1, Zenon DEF RecordOutage
    <3> QED
      BY <3>1, <3>2
  <2> QED
    BY <1>4, <2>1 DEF RecordOutage, streak
<1>5. CASE ResetSession
  BY <1>5 DEF ResetSession, flags
<1>6. CASE EndOutage
  <2>1. /\ saved' \in [outage : BOOLEAN, recovery : BOOLEAN]
        /\ saved' = [outage |-> outage_alert_sent', recovery |-> recovery_alert_pending']
    BY <1>6, SavedIsTrue DEF EndOutage, flags
  <2> QED
    BY <1>6, <2>1 DEF EndOutage, flags, streak, history
<1>7. CASE RecordRecovery
  <2>1. /\ saved' \in [outage : BOOLEAN, recovery : BOOLEAN]
        /\ saved' = [outage |-> outage_alert_sent', recovery |-> recovery_alert_pending']
    <3>1. CASE acked
      BY <1>7, <3>1, SavedIsTrue DEF RecordRecovery
    <3>2. CASE ~acked
      <4>1. recovery_alert_pending' = recovery_alert_pending
        BY <1>7, <3>2 DEF RecordRecovery
      <4> QED
        BY <1>7, <3>2, <4>1, Zenon DEF RecordRecovery
    <3> QED
      BY <3>1, <3>2
  <2> QED
    BY <1>7, <2>1 DEF RecordRecovery, streak
<1>8. CASE ClearStreak
  <2>1. TypeOK'
    <3>1. all_failed_streak' \in 0..OutageIterations + 1
      BY <1>8 DEF ClearStreak
    <3>2. /\ left' \in (-PassTicks)..LoopTicks
          /\ active' \in 0..MaxActive
          /\ dry' \in 0..OutageIterations
      BY <1>8 DEF ClearStreak
    <3> QED
      BY <1>8, <3>1, <3>2 DEF ClearStreak, flags
  <2>2. FlagsAreTrue'
    BY <1>8 DEF ClearStreak, flags
  <2>3. AlertIsFirst' /\ RecoveryIsOwed' /\ OutcomeIsTrue'
    BY <1>8 DEF ClearStreak
  <2>4. NextIsNews' /\ FlagCountsReset'
    BY <1>8 DEF ClearStreak, flags
  <2> QED
    BY <2>1, <2>2, <2>3, <2>4
<1>9. CASE EndPass
  <2>1. left' \in IF pc' = "top" THEN 0..LoopTicks ELSE (-PassTicks)..LoopTicks
    <3>1. CASE left > 0
      BY <1>9, <3>1, SleepIsCut DEF EndPass
    <3>2. CASE ~(left > 0)
      BY <1>9, <3>2 DEF EndPass
    <3> QED
      BY <3>1, <3>2
  <2>2. pc' \in {"top", "down"}
    BY <1>9 DEF EndPass
  <2>3. /\ saved' \in [outage : BOOLEAN, recovery : BOOLEAN]
        /\ saved' = [outage |-> outage_alert_sent', recovery |-> recovery_alert_pending']
    BY <1>9, SavedIsTrue DEF EndPass, flags
  <2>4. UNCHANGED <<active, outcome, flags, streak, acked, history>>
    BY <1>9 DEF EndPass
  <2>5. TypeOK'
    BY <2>1, <2>2, <2>3, <2>4 DEF flags, streak, history
  <2>6. FlagsAreTrue'
    BY <2>3, <2>4 DEF flags, history
  <2>7. AlertIsFirst' /\ RecoveryIsOwed' /\ OutcomeIsTrue'
    BY <2>2
  <2>8. NextIsNews' /\ FlagCountsReset'
    BY <1>9, <2>4 DEF EndPass, flags, streak, history
  <2> QED
    BY <2>5, <2>6, <2>7, <2>8
<1>10. ASSUME NEW confirmed \in BOOLEAN, SendOutage(confirmed) PROVE IInv'
  BY <1>10 DEF SendOutage, flags, streak, history
<1>11. ASSUME NEW confirmed \in BOOLEAN, SendRecovery(confirmed) PROVE IInv'
  BY <1>11 DEF SendRecovery, flags, streak, history
<1>12. CASE StopLoop \/ Deadline
  BY <1>12, SavedIsTrue DEF StopLoop, Deadline, Stop, flags, streak, history
<1>13. CASE Crash
  <2>1. /\ outage_alert_sent' = outage_alert_sent
        /\ recovery_alert_pending' = recovery_alert_pending
    BY <1>13 DEF Crash
  <2>2. saved' = [outage |-> outage_alert_sent', recovery |-> recovery_alert_pending']
    BY <1>13, <2>1, Zenon DEF Crash
  <2>3. TypeOK'
    <3>1. all_failed_streak' \in 0..OutageIterations + 1
      BY <1>13 DEF Crash
    <3>2. /\ left' \in (-PassTicks)..LoopTicks
          /\ active' \in 0..MaxActive
          /\ dry' \in 0..OutageIterations
      BY <1>13 DEF Crash
    <3> QED
      BY <1>13, <2>1, <3>1, <3>2, NoOutcomeType DEF Crash
  <2>4. FlagsAreTrue'
    BY <1>13, <2>1, <2>2 DEF Crash
  <2>5. AlertIsFirst' /\ RecoveryIsOwed' /\ OutcomeIsTrue'
    BY <1>13 DEF Crash
  <2>6. NextIsNews' /\ FlagCountsReset'
    BY <1>13, <2>1 DEF Crash
  <2> QED
    BY <2>3, <2>4, <2>5, <2>6
<1>14. CASE UNCHANGED vars
  BY <1>14 DEF vars, flags, streak, history, SomeRead
<1> QED
  BY <1>1, <1>2, <1>3, <1>4, <1>5, <1>6, <1>7, <1>8, <1>9, <1>10, <1>11,
     <1>12, <1>13, <1>14
     DEF Next, Process

\* IInv holds in every reachable state.
THEOREM Invariance == Spec => []IInv
<1>1. Init => IInv
  BY Initially
<1>2. IInv /\ [Next]_vars => IInv'
  BY Preserved
<1> QED
  BY <1>1, <1>2, PTL DEF Spec

\* Type correctness of the loop.
THEOREM TypeCorrect == Spec => []TypeOK
<1>1. IInv => TypeOK
  BY DEF IInv
<1> QED
  BY <1>1, Invariance, PTL

\* The flags in memory and in the file always tell what the user is owed
\* (note_blackout, the recovery branch of run_loop, and their saves).
THEOREM FlagsStayTrue == Spec => []FlagsAreTrue
<1>1. IInv => FlagsAreTrue
  BY DEF IInv
<1> QED
  BY <1>1, Invariance, PTL

\* No outage alert follows another without a target read between them.
THEOREM OutageIsToldOnce == Spec => []OutageAlertIsNews
<1>1. IInv => OutageAlertIsNews
  BY DEF IInv, AlertIsFirst, NextIsNews, OutageAlertIsNews
<1> QED
  BY <1>1, Invariance, PTL

\* A recovery alert answers an outage alert, in a pass that read a target.
THEOREM RecoveryAnswers == Spec => []RecoveryIsTrue
<1>1. IInv => RecoveryIsTrue
  BY DEF IInv, RecoveryIsOwed, FlagsAreTrue, RecoveryIsTrue
<1> QED
  BY <1>1, Invariance, PTL

\* The sessions change at most once in an outage, restarts included.
THEOREM OneChange == Spec => []SessionsChangeOnce
<1>1. IInv => SessionsChangeOnce
  BY DEF IInv, FlagCountsReset, SessionsChangeOnce
<1> QED
  BY <1>1, Invariance, PTL
=============================================================================
