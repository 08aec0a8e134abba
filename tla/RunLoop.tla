------------------------------- MODULE RunLoop -------------------------------
(***************************************************************************)
(* The loop of monitor mode (run_loop in booking_slot_watch/monitor.py):   *)
(* the deadline, the streak of passes that brought nothing, the outage and *)
(* recovery alerts with their flags in the state file, and the change of   *)
(* HTTP sessions during an outage.  A call of check_once is one step that  *)
(* tells how many targets it read and how many of those failed, or that it *)
(* raised; SlotWatch models what happens inside.                           *)
(***************************************************************************)
EXTENDS Integers

CONSTANTS
  OutageIterations,  \* OUTAGE_ALERT_ITERATIONS
  MaxActive,         \* bound: active targets
  LoopTicks,         \* the loop's length, in units of time
  PassTicks,         \* bound: the longest a pass takes
  SleepTicks         \* bound: the longest interval between passes

ASSUME RunLoopAssumption ==
  /\ OutageIterations \in Nat \ {0}
  /\ MaxActive \in Nat
  /\ LoopTicks \in Nat \ {0}
  /\ PassTicks \in Nat
  /\ SleepTicks \in Nat \ {0}

VARIABLES
  pc,
  left,                       \* time until the deadline, negative once it is past
  active,                     \* targets active in the last pass of this run
  outcome,                    \* what the last pass brought
  outage_alert_sent,          \* flags of the state, in memory
  recovery_alert_pending,
  saved,                      \* the same flags in the state file
  all_failed_streak,
  session_reset_for_outage,
  acked,                      \* whether the server confirmed the alert just sent
  resets,                     \* history: session changes in the current outage
  unanswered,                 \* history: an outage alert is on record, no recovery since
  successSince,               \* history: a target was read since the last outage on record
  dry                         \* history: passes of this run since a target was read

flags == <<outage_alert_sent, recovery_alert_pending>>
streak == <<all_failed_streak, session_reset_for_outage>>
history == <<resets, unanswered, successSince, dry>>
vars == <<pc, left, active, outcome, flags, saved, streak, acked, history>>

\* checked, failed: slots_checked and slots_failed; raised: check_once ended
\* in an unexpected exception, good: having read some target well before it.
Outcome == [checked : 0..MaxActive, failed : 0..MaxActive, raised : BOOLEAN, good : BOOLEAN]
NoOutcome == [checked |-> 0, failed |-> 0, raised |-> FALSE, good |-> FALSE]

TypeOK ==
  /\ pc \in {"down", "top", "judge", "outage", "outage_sent", "session",
             "recovery", "recovery_sent", "clear", "end"}
  /\ left \in IF pc = "top" THEN 0..LoopTicks ELSE (-PassTicks)..LoopTicks
  /\ active \in 0..MaxActive
  /\ outcome \in Outcome
  /\ outage_alert_sent \in BOOLEAN
  /\ recovery_alert_pending \in BOOLEAN
  /\ saved \in [outage : BOOLEAN, recovery : BOOLEAN]
  /\ all_failed_streak \in 0..OutageIterations + 1
  /\ session_reset_for_outage \in BOOLEAN
  /\ acked \in BOOLEAN
  /\ resets \in Nat
  /\ unanswered \in BOOLEAN
  /\ successSince \in BOOLEAN
  /\ dry \in 0..OutageIterations

\* Mutant: a pass that raised does not count.
BlackoutRead == ~outcome.raised /\ outcome.checked > 0 /\ outcome.failed = outcome.checked

\* A pass in which no result was had, as the loop sees it.
Blackout ==
  \/ outcome.raised
  \/ outcome.checked > 0 /\ outcome.failed = outcome.checked

SomeRead == ~outcome.raised /\ outcome.checked > outcome.failed

\* save_state, as far as this module's flags go.
Save ==
  saved' = [outage |-> outage_alert_sent', recovery |-> recovery_alert_pending']

-----------------------------------------------------------------------------
Init ==
  /\ pc = "down"
  /\ left = LoopTicks
  /\ active = MaxActive
  /\ outcome = NoOutcome
  /\ outage_alert_sent = FALSE
  /\ recovery_alert_pending = FALSE
  /\ saved = [outage |-> FALSE, recovery |-> FALSE]
  /\ all_failed_streak = 0
  /\ session_reset_for_outage = FALSE
  /\ acked = FALSE
  /\ resets = 0
  /\ unanswered = FALSE
  /\ successSince = TRUE
  /\ dry = 0

\* Mutant: the run forgets that its sessions are new in this outage.
StartForgetsOutage ==
  /\ pc = "down"
  /\ pc' = "top"
  /\ left' = LoopTicks
  /\ active' \in 0..MaxActive
  /\ outcome' = NoOutcome
  /\ outage_alert_sent' = saved.outage
  /\ recovery_alert_pending' = saved.recovery
  /\ all_failed_streak' = 0
  /\ session_reset_for_outage' = FALSE
  /\ resets' = IF saved.outage THEN 1 ELSE 0
  /\ dry' = 0
  /\ UNCHANGED <<saved, acked, unanswered, successSince>>

\* A new run has new sessions: if an outage alert is on record it does not
\* change them again for the same outage.
Start ==
  /\ pc = "down"
  /\ pc' = "top"
  /\ left' = LoopTicks
  /\ active' \in 0..MaxActive
  /\ outcome' = NoOutcome
  /\ outage_alert_sent' = saved.outage
  /\ recovery_alert_pending' = saved.recovery
  /\ all_failed_streak' = 0
  /\ session_reset_for_outage' = saved.outage
  /\ resets' = IF saved.outage THEN 1 ELSE 0
  /\ dry' = 0
  /\ UNCHANGED <<saved, acked, unanswered, successSince>>

\* One call of check_once and the time it takes: it may overrun the deadline.
\* Requests are left out only when the deadline passes meanwhile.
Pass ==
  /\ pc = "top" /\ left > 0
  /\ \E spent \in 0..PassTicks : left' = left - spent
  /\ active' \in 1..active
  /\ outcome' \in Outcome
  /\ IF outcome'.raised
     THEN outcome'.checked = 0 /\ outcome'.failed = 0
     ELSE /\ outcome'.checked <= active' /\ outcome'.failed <= outcome'.checked
          /\ outcome'.checked < active' => left' <= 0
          /\ outcome'.good = (outcome'.checked > outcome'.failed)
  /\ pc' = "judge"
  /\ dry' = IF outcome'.good THEN 0
            ELSE IF dry < OutageIterations THEN dry + 1 ELSE dry
  /\ successSince' = (successSince \/ outcome'.good)
  /\ UNCHANGED <<flags, saved, streak, acked, resets, unanswered>>

\* note_blackout, up to its early return.
CountBlackout ==
  /\ pc = "judge" /\ Blackout
  /\ all_failed_streak' = IF all_failed_streak > OutageIterations
                          THEN all_failed_streak ELSE all_failed_streak + 1
  /\ pc' = CASE all_failed_streak' < OutageIterations -> "end"
             [] all_failed_streak' >= OutageIterations /\ ~outage_alert_sent -> "outage"
             [] OTHER -> "session"
  /\ UNCHANGED <<left, active, outcome, flags, saved, session_reset_for_outage, acked, history>>

SendOutage(confirmed) ==
  /\ pc = "outage"
  /\ pc' = "outage_sent"
  /\ acked' = confirmed
  /\ UNCHANGED <<left, active, outcome, flags, saved, streak, history>>

\* Mutant: the outage alert is saved by the checkpoint only.
RecordOutageUnsaved ==
  /\ pc = "outage_sent"
  /\ pc' = "session"
  /\ outage_alert_sent' = (outage_alert_sent \/ acked)
  /\ UNCHANGED <<recovery_alert_pending, saved>>
  /\ unanswered' = (unanswered \/ acked)
  /\ successSince' = (successSince /\ ~acked)
  /\ acked' = FALSE
  /\ UNCHANGED <<left, active, outcome, streak, resets, dry>>

RecordOutage ==
  /\ pc = "outage_sent"
  /\ pc' = "session"
  /\ outage_alert_sent' = (outage_alert_sent \/ acked)
  /\ UNCHANGED recovery_alert_pending
  /\ IF acked THEN Save ELSE UNCHANGED saved
  /\ unanswered' = (unanswered \/ acked)
  /\ successSince' = (successSince /\ ~acked)
  /\ acked' = FALSE
  /\ UNCHANGED <<left, active, outcome, streak, resets, dry>>

ResetSession ==
  /\ pc = "session"
  /\ pc' = "end"
  /\ session_reset_for_outage' = TRUE
  /\ resets' = IF session_reset_for_outage THEN resets ELSE resets + 1
  /\ UNCHANGED <<left, active, outcome, flags, saved, all_failed_streak, acked,
                 unanswered, successSince, dry>>

\* Mutant: any pass that was no blackout ends the outage.
EndOutageUnread ==
  /\ pc = "judge" /\ ~Blackout
  /\ IF outage_alert_sent
     THEN outage_alert_sent' = FALSE /\ recovery_alert_pending' = TRUE /\ Save
     ELSE UNCHANGED <<flags, saved>>
  /\ pc' = IF recovery_alert_pending' THEN "recovery" ELSE "clear"
  /\ UNCHANGED <<left, active, outcome, streak, acked, history>>

\* The pass was no blackout.  Only a target that was read ends an outage.
EndOutage ==
  /\ pc = "judge" /\ ~Blackout
  /\ IF outage_alert_sent /\ SomeRead
     THEN outage_alert_sent' = FALSE /\ recovery_alert_pending' = TRUE /\ Save
     ELSE UNCHANGED <<flags, saved>>
  /\ pc' = IF recovery_alert_pending' /\ SomeRead THEN "recovery" ELSE "clear"
  /\ UNCHANGED <<left, active, outcome, streak, acked, history>>

SendRecovery(confirmed) ==
  /\ pc = "recovery"
  /\ pc' = "recovery_sent"
  /\ acked' = confirmed
  /\ UNCHANGED <<left, active, outcome, flags, saved, streak, history>>

\* Mutant: the recovery counts as told whether or not it was confirmed.
RecordRecoveryAnyway ==
  /\ pc = "recovery_sent"
  /\ pc' = "clear"
  /\ recovery_alert_pending' = FALSE
  /\ UNCHANGED outage_alert_sent
  /\ Save
  /\ unanswered' = (unanswered /\ ~acked)
  /\ acked' = FALSE
  /\ UNCHANGED <<left, active, outcome, streak, resets, successSince, dry>>

RecordRecovery ==
  /\ pc = "recovery_sent"
  /\ pc' = "clear"
  /\ recovery_alert_pending' = (recovery_alert_pending /\ ~acked)
  /\ UNCHANGED outage_alert_sent
  /\ IF acked THEN Save ELSE UNCHANGED saved
  /\ unanswered' = (unanswered /\ ~acked)
  /\ acked' = FALSE
  /\ UNCHANGED <<left, active, outcome, streak, resets, successSince, dry>>

ClearStreak ==
  /\ pc = "clear"
  /\ pc' = "end"
  /\ all_failed_streak' = 0
  /\ session_reset_for_outage' = FALSE
  /\ resets' = 0
  /\ UNCHANGED <<left, active, outcome, flags, saved, acked,
                 unanswered, successSince, dry>>

\* Mutant: the sleep is not cut at the deadline.
SleepUncut(interval) == interval

\* The sleep before the next pass ends at the deadline at the latest.
Sleep(interval) == IF interval < left THEN interval ELSE left

\* The checkpoint of the pass; then a sleep, or the final save.
EndPass ==
  /\ pc = "end"
  /\ IF left > 0
     THEN /\ pc' = "top"
          /\ \E interval \in 1..SleepTicks : left' = left - Sleep(interval)
     ELSE pc' = "down" /\ UNCHANGED left
  /\ UNCHANGED <<active, outcome, flags, streak, acked, history>>
  /\ Save

Stop ==
  /\ pc = "top"
  /\ pc' = "down"
  /\ UNCHANGED <<left, active, outcome, flags, streak, acked, history>>
  /\ Save

\* The sleep has reached the deadline.
Deadline == left <= 0 /\ Stop

\* Stop signal, or no target is active any more.
StopLoop == Stop

\* Killed, or a StateError, or a notifier that raises here.
Crash ==
  /\ pc # "down"
  /\ pc' = "down"
  /\ outcome' = NoOutcome
  /\ outage_alert_sent' = saved.outage
  /\ recovery_alert_pending' = saved.recovery
  /\ all_failed_streak' = 0
  /\ session_reset_for_outage' = FALSE
  /\ acked' = FALSE
  /\ UNCHANGED <<left, active, saved, resets, unanswered, successSince, dry>>

Process ==
  \/ Start \/ Pass \/ CountBlackout \/ RecordOutage \/ ResetSession
  \/ EndOutage \/ RecordRecovery \/ ClearStreak \/ EndPass \/ Deadline
  \/ \E confirmed \in BOOLEAN : SendOutage(confirmed) \/ SendRecovery(confirmed)

Next == Process \/ StopLoop \/ Crash

Spec == Init /\ [][Next]_vars

\* The process runs and is restarted, runs to its deadline from some point
\* on, and an alert tried again and again is confirmed at some point.
FairSpec ==
  /\ Spec
  /\ WF_vars(Process)
  /\ SF_vars(SendOutage(TRUE)) /\ SF_vars(SendRecovery(TRUE))
  /\ <>[][Process]_vars

-----------------------------------------------------------------------------
(* Properties.                                                             *)

\* The flags say, in memory and in the file, what the user is owed: an outage
\* alert on record that no recovery alert answered leaves one of them up, and
\* nothing else does, whatever fails or is killed in between.
FlagsAreTrue ==
  /\ unanswered <=> outage_alert_sent \/ recovery_alert_pending
  /\ saved = [outage |-> outage_alert_sent, recovery |-> recovery_alert_pending]

\* Two outage alerts on record have a target read between them, across
\* restarts and retries ("not repeated until the outage is over", README).
OutageAlertIsNews == pc = "outage_sent" => successSince

\* A recovery alert answers an outage alert on record, in a pass that did
\* read a target.
RecoveryIsTrue == pc = "recovery_sent" => unanswered /\ outcome.good

\* The sessions change at most once in an outage; the new sessions of a run
\* that finds the outage on record are that change.
SessionsChangeOnce == resets <= 1

\* While targets can be read again and again, an outage alert is answered.
EventuallyAnswered ==
  []<>(pc = "judge" /\ SomeRead) => (unanswered ~> ~unanswered)

\* If from some point on nothing is ever read, the user is told: the loop is
\* long enough for the streak, and a failed alert is sent again.
EventuallyAlerted ==
  []<>(pc = "judge") /\ <>[](~outcome.good) => <>[]outage_alert_sent

\* An outage alert means that no result was had for that many passes in a
\* row (README.md:300).  A pass that raised after reading some requests well
\* counts as one without a result.
OutageMeansNothingRead == pc = "outage_sent" => dry >= OutageIterations
=============================================================================
