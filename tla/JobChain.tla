------------------------------ MODULE JobChain ------------------------------
(***************************************************************************)
(* The workflow that keeps the watcher alive (.github/workflows/monitor.yml): *)
(* runs started by pushes, by the schedule and by the run before them, one *)
(* at a time and one waiting; each checks out a commit, monitors, commits  *)
(* the state file to a branch that others push to, and starts the next.    *)
(*                                                                         *)
(* A run's monitor command is one step that may add to the state file; what *)
(* happens in it is in SlotWatch, RunLoop and Heartbeat.  The state file is *)
(* the set of observations it rests on: what matters here is which of them *)
(* a later run knows.  The service that queues the runs is external.       *)
(***************************************************************************)
EXTENDS Integers

CONSTANTS
  MaxEdits,  \* bound: pushes that change config or code
  MaxNotes,  \* bound: observations that change the state file
  None

ASSUME ChainAssumption == MaxEdits \in Nat /\ MaxNotes \in Nat

VARIABLES
  main,       \* the tip of the branch: its config and its state file
  running,    \* the run in progress, or None
  pending,    \* the run that waits for it, or None
  expired,    \* configs without an active target; has-active-targets exits 3
  noted,      \* history: observations made so far
  given_up,   \* history: observations lost with their runner, with a failed
              \* job, or after an alert was attempted
  last        \* history: how the run before the current one ended

queue == <<running, pending>>
vars == <<main, queue, expired, noted, given_up, last>>

Configs == 0..MaxEdits
Notes == 1..MaxNotes
Commits == [config : Configs, known : SUBSET Notes]
Steps == {"setup", "monitor", "commit", "push", "trigger", "done"}
Runs == [base : Commits,      \* the commit checked out
         tree : Commits,      \* the working tree
         step : Steps,
         attempt : 1..2,      \* of the loop around pull and push
         ok : BOOLEAN,        \* success(): no step has failed
         cancelled : BOOLEAN,
         excused : BOOLEAN]   \* history: something outside the workflow failed

ASSUME NoneAssumption == None \notin Runs

TypeOK ==
  /\ main \in Commits
  /\ running \in Runs \cup {None} /\ pending \in Runs \cup {None}
  /\ expired \subseteq Configs
  /\ noted \in 0..MaxNotes
  /\ given_up \subseteq Notes
  /\ last \in {"none", "success", "excused", "failure"}

-----------------------------------------------------------------------------
(* The queue of the concurrency group.                                     *)

\* A run belongs to the commit that was the tip at its event, and checkout
\* without a ref takes that commit.
NewRun(tip) ==
  [base |-> tip, tree |-> tip, step |-> "setup", attempt |-> 1,
   ok |-> TRUE, cancelled |-> FALSE, excused |-> FALSE]

\* Mutant: every new run cancels the one in progress.
CancelInProgressAlways(event) == TRUE

CancelInProgress(event) == event = "push"

\* Mutant: a run that already waits keeps its place.
AdmitKeepsWaiting(event, tip, current) ==
  IF current = None
  THEN running' = NewRun(tip) /\ pending' = None
  ELSE /\ running' = [current EXCEPT !.cancelled = @ \/ CancelInProgress(event)]
       /\ pending' = IF pending = None THEN NewRun(tip) ELSE pending

\* A new run starts, or takes the place of the one that waits.
Admit(event, tip, current) ==
  IF current = None
  THEN running' = NewRun(tip) /\ pending' = None
  ELSE /\ running' = [current EXCEPT !.cancelled = @ \/ CancelInProgress(event)]
       /\ pending' = NewRun(tip)

Outcome(run) ==
  CASE run.excused \/ run.cancelled -> "excused"
    [] ~run.excused /\ ~run.cancelled /\ run.ok -> "success"
    [] OTHER -> "failure"

\* The run in progress is over; the one that waits takes its place.
Leave(outcome) ==
  /\ running' = pending
  /\ pending' = None
  /\ last' = outcome

-----------------------------------------------------------------------------
(* What happens around a run.                                              *)

\* A commit to the paths of on.push; state/** is not one of them.
Edit ==
  /\ main.config < MaxEdits
  /\ main' = [main EXCEPT !.config = @ + 1]
  /\ Admit("push", main', running)
  /\ UNCHANGED <<expired, noted, given_up, last>>

\* The schedule, or somebody who dispatches the workflow.
Cron ==
  /\ Admit("schedule", main, running)
  /\ UNCHANGED <<main, expired, noted, given_up, last>>

\* Targets only ever expire (WatchConfig); a config may have none at all.
Expire(config) ==
  /\ config <= main.config
  /\ expired' = expired \cup {config}
  /\ UNCHANGED <<main, queue, noted, given_up, last>>

-----------------------------------------------------------------------------
(* The steps of the run in progress.                                       *)

At(step) == running # None /\ running.step = step

Go(step) == running' = [running EXCEPT !.step = step] /\ UNCHANGED pending

\* checkout, setup-uv
SetUp ==
  /\ At("setup") /\ ~running.cancelled
  /\ Go("monitor")
  /\ UNCHANGED <<main, expired, noted, given_up, last>>

\* The monitor command saves something new in the state file.
Note ==
  /\ At("monitor") /\ noted < MaxNotes
  /\ running.base.config \notin expired
  /\ noted' = noted + 1
  /\ running' = [running EXCEPT !.tree.known = @ \cup {noted'}]
  /\ UNCHANGED <<main, pending, expired, given_up, last>>

\* Exit 0, at the deadline, or exit 3, when no target is active any more.
MonitorEnds ==
  /\ At("monitor") /\ ~running.cancelled
  /\ Go("commit")
  /\ UNCHANGED <<main, expired, noted, given_up, last>>

\* Mutant: Commit state runs "if: success()" only.
InterruptedUncommitted ==
  /\ (At("setup") \/ At("monitor")) /\ running.cancelled
  /\ Go("done")
  /\ UNCHANGED <<main, expired, noted, given_up, last>>

\* The run was cancelled: what it was doing stops, "if: always()" goes on.
Interrupted ==
  /\ (At("setup") \/ At("monitor")) /\ running.cancelled
  /\ Go("commit")
  /\ UNCHANGED <<main, expired, noted, given_up, last>>

\* git diff --cached --quiet, or no state file at all.
NothingToCommit ==
  /\ At("commit")
  /\ running.tree.known = running.base.known
  /\ Go("trigger")
  /\ UNCHANGED <<main, expired, noted, given_up, last>>

\* Two changes of the state file never merge: both change updated_at.
Conflict == main.known # running.base.known

Committing == At("commit") /\ running.tree.known # running.base.known

\* git pull --rebase brings the working tree to the tip, with this change on top.
PullRebase ==
  /\ Committing /\ ~Conflict
  /\ running' = [running EXCEPT !.step = "push", !.tree.config = main.config]
  /\ UNCHANGED <<main, pending, expired, noted, given_up, last>>

\* What this run observed stays on the runner.  An alert is attempted, and
\* nothing looks at whether it went out.
GiveUp ==
  /\ given_up' = given_up \cup (running.tree.known \ running.base.known)
  /\ Go("trigger")

\* Mutant: a conflict is settled in favour of this run's file.
PullConflictOurs ==
  /\ Committing /\ Conflict
  /\ running' = [running EXCEPT !.step = "push", !.tree.config = main.config,
                                !.base.known = main.known]
  /\ UNCHANGED <<main, pending, expired, noted, given_up, last>>

\* rebase --abort, and the alert; the step still succeeds.
PullConflict ==
  /\ Committing /\ Conflict
  /\ GiveUp
  /\ UNCHANGED <<main, expired, noted, last>>

\* The tip is still the commit the pull has brought.
TipUnmoved == main.config = running.tree.config /\ main.known = running.base.known

Push ==
  /\ At("push") /\ TipUnmoved
  /\ main' = [main EXCEPT !.known = running.tree.known]
  /\ Go("trigger")
  /\ UNCHANGED <<expired, noted, given_up, last>>

\* Mutant: the second lost push fails the job.
PushLostFails ==
  /\ At("push")
  /\ IF running.attempt = 1
     THEN running' = [running EXCEPT !.step = "commit", !.attempt = 2] /\ UNCHANGED given_up
     ELSE /\ given_up' = given_up \cup (running.tree.known \ running.base.known)
          /\ running' = [running EXCEPT !.step = "trigger", !.ok = FALSE]
  /\ UNCHANGED <<main, pending, expired, noted, last>>

\* Mutant: pull and push are tried for ever.
PushLostAgain ==
  /\ At("push")
  /\ running' = [running EXCEPT !.step = "commit", !.attempt = @ + 1]
  /\ UNCHANGED <<main, pending, expired, noted, given_up, last>>

\* The push lost a race: once more from the pull, then the alert.
PushLost ==
  /\ At("push")
  /\ IF running.attempt = 1
     THEN /\ running' = [running EXCEPT !.step = "commit", !.attempt = 2]
          /\ UNCHANGED <<pending, given_up>>
     ELSE GiveUp
  /\ UNCHANGED <<main, expired, noted, last>>

PushRaceLost == PushLost /\ ~TipUnmoved

HasActiveTargets == running.tree.config \notin expired

\* Trigger next run, "if: success()".
Trigger ==
  /\ At("trigger")
  /\ IF running.ok /\ ~running.cancelled /\ HasActiveTargets
     THEN Admit("workflow_dispatch", main, [running EXCEPT !.step = "done"])
     ELSE Go("done")
  /\ UNCHANGED <<main, expired, noted, given_up, last>>

Finish ==
  /\ At("done")
  /\ Leave(Outcome(running))
  /\ UNCHANGED <<main, expired, noted, given_up>>

-----------------------------------------------------------------------------
(* What fails outside the workflow's control.                              *)

FailedAt(from, to) ==
  /\ At(from)
  /\ running' = [running EXCEPT !.step = to, !.ok = FALSE, !.excused = TRUE]
  /\ UNCHANGED <<main, pending, expired, noted, given_up, last>>

SetUpFails == FailedAt("setup", "commit")
\* Exit 1 or 2, or the job's time-out; the state file keeps what was saved.
MonitorFails == FailedAt("monitor", "commit")
TriggerFails == FailedAt("trigger", "done")

\* git add or git commit fails, which the shell's -e turns into a failed step:
\* no pull, no push, no alert.
CommitFails ==
  /\ At("commit") /\ running.attempt = 1
  /\ running' = [running EXCEPT !.step = "trigger", !.ok = FALSE, !.excused = TRUE]
  /\ given_up' = given_up \cup (running.tree.known \ running.base.known)
  /\ UNCHANGED <<main, pending, expired, noted, last>>

\* The remote refuses or cannot be reached.
PullFails ==
  /\ Committing
  /\ GiveUp
  /\ UNCHANGED <<main, expired, noted, last>>

\* The machine is gone, with whatever it had not pushed.
RunnerLost ==
  /\ running # None
  /\ given_up' = given_up \cup (running.tree.known \ main.known)
  /\ Leave("excused")
  /\ UNCHANGED <<main, expired, noted>>

-----------------------------------------------------------------------------
Init ==
  /\ main = [config |-> 0, known |-> {}]
  /\ running = None /\ pending = None
  /\ expired = {}
  /\ noted = 0
  /\ given_up = {}
  /\ last = "none"

RunStep ==
  \/ SetUp \/ MonitorEnds \/ Interrupted
  \/ NothingToCommit \/ PullRebase \/ PullConflict \/ Push \/ PushRaceLost
  \/ Trigger \/ Finish

Orderly == RunStep \/ Note \/ Edit \/ Cron \/ \E config \in Configs : Expire(config)

Fault ==
  \/ SetUpFails \/ MonitorFails \/ TriggerFails
  \/ CommitFails \/ PullFails \/ PushLost \/ RunnerLost

Next == Orderly \/ Fault

Spec == Init /\ [][Next]_vars

\* A run in progress goes on, the schedule fires again and again, and what
\* fails outside the workflow stops failing at some point.
FairSpec ==
  /\ Spec
  /\ WF_vars(RunStep)
  /\ WF_vars(Cron)
  /\ <>[][Orderly]_vars

-----------------------------------------------------------------------------
(* Properties.                                                             *)

\* The branch never loses what it knew, nor a config that was pushed: a run
\* that started from an older file cannot push over a newer one
\* (GITHUB_ACTIONS.md, section 5, on conflicts of the state file).
BranchOnlyGrows ==
  [][main.known \subseteq main'.known /\ main.config <= main'.config]_vars

\* Whatever a run observed is on the branch, or still on its runner, or was
\* lost with the runner, with a failed job, or after an alert was attempted -
\* cancelled runs included, which is what "if: always()" of Commit state is for.
NothingLostSilently ==
  1..noted \subseteq
    main.known \cup given_up \cup (IF running = None THEN {} ELSE running.tree.known)

\* While a run watches by an older config, a run with the newest one waits,
\* whichever runs have come and taken each other's place since.
NewConfigWaits ==
  running # None /\ running.base.config # main.config =>
    pending # None /\ pending.base.config = main.config

\* "cancelled" in the history means that a new config took over (README.md,
\* on concurrency): neither the schedule nor the chain cuts a healthy run.
CancelledMeansNewConfig ==
  running # None /\ running.cancelled => main.config # running.base.config

\* After a successful run the next one starts from all that is known, or has
\* nothing to watch: a run that queued before the commit gave way to the one
\* that Trigger has dispatched after it.
SuccessHandsOver ==
  last = "success" /\ (At("setup") \/ At("monitor")) =>
    running.base.known = main.known \/ running.base.config \in expired

\* The chain ends only where nothing is left to watch or something outside
\* failed; a state file that could not be pushed is no reason to stop (comment
\* in Commit state).
ChainUnbroken ==
  running = None => last \in {"none", "excused"} \/ main.config \in expired

\* As long as the newest config has active targets, its runs come to their
\* own end again and again, whatever broke before: the schedule restarts a
\* broken chain and does not kill a healthy one (GITHUB_ACTIONS.md, section 2).
LoopsComplete ==
  <>[](main.config \notin expired) =>
    []<><<MonitorEnds /\ running.base.config = main.config>>_vars

\* "A new run uses the latest state of main" (GITHUB_ACTIONS.md, section 5).
\* A run that a push has started knows the commit of that push only; what the
\* run it cancelled commits afterwards is newer.
StartsFromLatestState == At("monitor") => main.known \subseteq running.tree.known
=============================================================================
