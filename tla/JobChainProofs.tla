--------------------------- MODULE JobChainProofs ---------------------------
(***************************************************************************)
(* Proofs about JobChain, for any number of pushes and observations.       *)
(***************************************************************************)
EXTENDS JobChain, TLAPS

-----------------------------------------------------------------------------
(* The inductive invariant.                                                *)

\* A run waits only behind another one, but always behind one with an older
\* config; it has done nothing yet and has the newest config: every push puts
\* its own run in the place.
Waiting ==
  /\ running = None => pending = None
  /\ running # None /\ running.base.config # main.config => pending # None
  /\ pending # None =>
       /\ pending = NewRun(pending.base)
       /\ pending.base.config = main.config
       /\ pending.base.known \subseteq main.known

\* A run never falls behind its own start, nor gets ahead of the branch.
Grows ==
  running # None =>
    /\ running.base.known \subseteq running.tree.known
    /\ running.base.known \subseteq main.known
    /\ running.base.config <= running.tree.config
    /\ running.tree.config <= main.config

\* Pushes cancel, and nothing else does; only what is excused fails.
CancelledByPush ==
  running # None =>
    /\ running.cancelled <=> running.base.config # main.config
    /\ ~running.ok => running.excused

\* Past Commit state, what the run observed is on the branch or given up.
Settled ==
  running # None /\ running.step \in {"trigger", "done"} =>
    running.tree.known \subseteq main.known \cup given_up

Healthy(run) == run.ok /\ ~run.cancelled /\ ~run.excused

\* Past Trigger, the next run waits with all that is known, or nothing is left.
Succeeded ==
  running # None /\ running.step = "done" /\ Healthy(running) =>
    \/ pending # None /\ pending.base.known = main.known
    \/ running.tree.config \in expired

IInv ==
  /\ TypeOK
  /\ Waiting
  /\ Grows
  /\ CancelledByPush
  /\ Settled
  /\ Succeeded
  /\ NothingLostSilently
  /\ SuccessHandsOver
  /\ ChainUnbroken

-----------------------------------------------------------------------------
(* Records of runs.                                                        *)

\* A new run works on the commit of its event and has neither failed nor been cancelled.
LEMMA NewRunIs ==
  ASSUME NEW tip \in Commits
  PROVE  /\ NewRun(tip) \in Runs /\ NewRun(tip) # None
         /\ NewRun(tip).base = tip /\ NewRun(tip).tree = tip
         /\ NewRun(tip).step = "setup"
         /\ NewRun(tip).ok /\ ~NewRun(tip).cancelled /\ ~NewRun(tip).excused
<1>1. NewRun(tip) \in Runs
  BY DEF NewRun, Runs, Steps
<1> QED
  BY <1>1, NoneAssumption DEF NewRun

\* A run that goes on to another step changes nothing else.
LEMMA StepChange ==
  ASSUME NEW run \in Runs, NEW step \in Steps
  PROVE  LET moved == [run EXCEPT !.step = step] IN
         /\ moved \in Runs /\ moved # None
         /\ moved.base = run.base /\ moved.tree = run.tree /\ moved.step = step
         /\ moved.ok = run.ok /\ moved.cancelled = run.cancelled /\ moved.excused = run.excused
BY NoneAssumption DEF Runs

\* A push that was lost once leads back to the pull, with the run's changes.
LEMMA Retry ==
  ASSUME NEW run \in Runs
  PROVE  LET again == [run EXCEPT !.step = "commit", !.attempt = 2] IN
         /\ again \in Runs /\ again # None
         /\ again.base = run.base /\ again.tree = run.tree /\ again.step = "commit"
         /\ again.ok = run.ok /\ again.cancelled = run.cancelled /\ again.excused = run.excused
<1>1. ASSUME NEW attempt \in 1..2, NEW step \in Steps
      PROVE  LET again == [run EXCEPT !.step = step, !.attempt = attempt] IN
             /\ again \in Runs /\ again # None
             /\ again.base = run.base /\ again.tree = run.tree /\ again.step = step
             /\ again.ok = run.ok /\ again.cancelled = run.cancelled /\ again.excused = run.excused
  BY NoneAssumption DEF Runs
<1> QED
  BY <1>1 DEF Steps

\* A pull brings the branch's config and keeps the run's observations.
LEMMA Rebased ==
  ASSUME NEW run \in Runs, NEW config \in Configs
  PROVE  LET rebased == [run EXCEPT !.step = "push", !.tree.config = config] IN
         /\ rebased \in Runs /\ rebased # None
         /\ rebased.base = run.base /\ rebased.step = "push"
         /\ rebased.tree.known = run.tree.known /\ rebased.tree.config = config
         /\ rebased.ok = run.ok /\ rebased.cancelled = run.cancelled /\ rebased.excused = run.excused
<1> DEFINE tree == [run.tree EXCEPT !.config = config]
           rebased == [run EXCEPT !.step = "push", !.tree = tree]
<1>1. tree \in Commits /\ tree.known = run.tree.known /\ tree.config = config
  BY DEF Runs, Commits
<1>2. rebased = [run EXCEPT !.step = "push", !.tree.config = config]
  BY DEF Runs
<1> HIDE DEF tree
<1>3. /\ rebased \in Runs /\ rebased # None
      /\ rebased.base = run.base /\ rebased.tree = tree /\ rebased.step = "push"
      /\ rebased.ok = run.ok /\ rebased.cancelled = run.cancelled /\ rebased.excused = run.excused
  BY <1>1, NoneAssumption DEF Runs, Steps
<1> QED
  BY <1>1, <1>2, <1>3

\* An observation is in the working tree of the run that made it.
LEMMA Observed ==
  ASSUME NEW run \in Runs, NEW note \in Notes
  PROVE  LET seen == [run EXCEPT !.tree.known = @ \cup {note}] IN
         /\ seen \in Runs /\ seen # None
         /\ seen.base = run.base /\ seen.step = run.step
         /\ seen.tree.known = run.tree.known \cup {note} /\ seen.tree.config = run.tree.config
         /\ seen.ok = run.ok /\ seen.cancelled = run.cancelled /\ seen.excused = run.excused
<1> DEFINE tree == [run.tree EXCEPT !.known = @ \cup {note}]
           seen == [run EXCEPT !.tree = tree]
<1>1. tree \in Commits /\ tree.known = run.tree.known \cup {note} /\ tree.config = run.tree.config
  BY DEF Runs, Commits
<1>2. seen = [run EXCEPT !.tree.known = @ \cup {note}]
  BY DEF Runs
<1> HIDE DEF tree
<1>3. /\ seen \in Runs /\ seen # None
      /\ seen.base = run.base /\ seen.tree = tree /\ seen.step = run.step
      /\ seen.ok = run.ok /\ seen.cancelled = run.cancelled /\ seen.excused = run.excused
  BY <1>1, NoneAssumption DEF Runs
<1> QED
  BY <1>1, <1>2, <1>3

\* A step that failed from outside marks the run as failed and excused.
LEMMA FailedStep ==
  ASSUME NEW run \in Runs, NEW step \in Steps
  PROVE  LET failed == [run EXCEPT !.step = step, !.ok = FALSE, !.excused = TRUE] IN
         /\ failed \in Runs /\ failed # None
         /\ failed.base = run.base /\ failed.tree = run.tree /\ failed.step = step
         /\ ~failed.ok /\ failed.cancelled = run.cancelled /\ failed.excused
BY NoneAssumption DEF Runs

\* A push marks the run in progress as cancelled; other events leave it as it is.
LEMMA CancelChange ==
  ASSUME NEW run \in Runs, NEW event
  PROVE  LET told == [run EXCEPT !.cancelled = @ \/ CancelInProgress(event)] IN
         /\ told \in Runs /\ told # None
         /\ told.base = run.base /\ told.tree = run.tree /\ told.step = run.step
         /\ told.ok = run.ok /\ told.excused = run.excused
         /\ told.cancelled <=> run.cancelled \/ event = "push"
BY NoneAssumption DEF Runs, CancelInProgress

-----------------------------------------------------------------------------
(* Steps of the run in progress.                                           *)

\* What the invariant says of the run in progress.
LEMMA RunningIs ==
  ASSUME IInv, running # None
  PROVE  /\ running \in Runs /\ main \in Commits /\ given_up \subseteq Notes
         /\ ~running.ok => running.excused
         /\ running.base.known \subseteq main.known
         /\ running.tree.known \subseteq Notes
         /\ running.base.config \in Int /\ running.tree.config \in Int /\ main.config \in Int
<1>1. running \in Runs /\ main \in Commits /\ given_up \subseteq Notes
  BY DEF IInv, TypeOK
<1>2. running.base \in Commits /\ running.tree \in Commits
  BY <1>1 DEF Runs
<1>3. /\ running.tree.known \subseteq Notes
      /\ running.base.config \in Int /\ running.tree.config \in Int /\ main.config \in Int
  BY <1>1, <1>2, ChainAssumption DEF Commits, Configs
<1> QED
  BY <1>1, <1>3 DEF IInv, CancelledByPush, Grows

\* What every step has in common that stays on the runner and leaves the
\* observations, the branch and the queue alone.
LEMMA LocalStep ==
  ASSUME IInv, running # None, running' \in Runs, running' # None,
         UNCHANGED <<main, pending, expired, noted, last>>,
         given_up \subseteq given_up', given_up' \subseteq Notes,
         running'.base = running.base, running'.cancelled = running.cancelled,
         running'.tree.known = running.tree.known,
         running'.tree.config \in {running.tree.config, main.config},
         ~running'.ok => running'.excused,
         running'.step \in {"setup", "monitor"} => running.step \in {"setup", "monitor"},
         running'.step \in {"trigger", "done"} => running.tree.known \subseteq main.known \cup given_up',
         running'.step = "done" /\ Healthy(running') =>
           \/ pending # None /\ pending.base.known = main.known
           \/ running'.tree.config \in expired
  PROVE  IInv'
<1>1. TypeOK'
  BY DEF IInv, TypeOK
<1>2. Waiting'
  BY DEF IInv, Waiting
<1>3. Grows'
  BY RunningIs DEF IInv, Grows
<1>4. CancelledByPush'
  BY DEF IInv, CancelledByPush
<1>5. Settled'
  BY DEF IInv, Settled
<1>6. Succeeded'
  BY DEF IInv, Succeeded, Healthy
<1>7. NothingLostSilently'
  BY DEF IInv, NothingLostSilently
<1>8. SuccessHandsOver'
  BY DEF IInv, SuccessHandsOver, At
<1>9. ChainUnbroken'
  BY DEF IInv, ChainUnbroken
<1> QED
  BY <1>1, <1>2, <1>3, <1>4, <1>5, <1>6, <1>7, <1>8, <1>9 DEF IInv

\* Steps that only lead to the next one keep the invariant.
LEMMA SetUpKeeps ==
  ASSUME IInv, SetUp \/ MonitorEnds \/ Interrupted \/ NothingToCommit
  PROVE  IInv'
<1>1. PICK step \in {"monitor", "commit", "trigger"} :
        /\ running # None
        /\ running' = [running EXCEPT !.step = step]
        /\ UNCHANGED <<main, pending, expired, noted, given_up, last>>
        /\ step = "monitor" => running.step = "setup"
        /\ step = "trigger" => running.tree.known = running.base.known
  BY DEF SetUp, MonitorEnds, Interrupted, NothingToCommit, Go, At
<1>2. step \in Steps
  BY DEF Steps
<1>3. /\ running' \in Runs /\ running' # None
      /\ running'.base = running.base /\ running'.tree = running.tree /\ running'.step = step
      /\ running'.ok = running.ok /\ running'.cancelled = running.cancelled
      /\ running'.excused = running.excused
  BY <1>1, <1>2, RunningIs, StepChange
<1> QED
  BY <1>1, <1>3, RunningIs, LocalStep

\* A pull without a conflict keeps it.
LEMMA PullRebaseKeeps ==
  ASSUME IInv, PullRebase
  PROVE  IInv'
<1>1. /\ running # None
      /\ running' = [running EXCEPT !.step = "push", !.tree.config = main.config]
      /\ UNCHANGED <<main, pending, expired, noted, given_up, last>>
  BY DEF PullRebase, Committing, At
<1>2. main.config \in Configs
  BY <1>1, RunningIs DEF Commits
<1>3. /\ running' \in Runs /\ running' # None
      /\ running'.base = running.base /\ running'.step = "push"
      /\ running'.tree.known = running.tree.known /\ running'.tree.config = main.config
      /\ running'.ok = running.ok /\ running'.cancelled = running.cancelled
      /\ running'.excused = running.excused
  BY <1>1, <1>2, RunningIs, Rebased
<1> QED
  BY <1>1, <1>3, RunningIs, LocalStep

\* Giving up keeps account of what is lost.
LEMMA GiveUpKeeps ==
  ASSUME IInv, running # None, GiveUp, UNCHANGED <<main, expired, noted, last>>
  PROVE  IInv'
<1>1. /\ given_up' = given_up \cup (running.tree.known \ running.base.known)
      /\ running' = [running EXCEPT !.step = "trigger"]
      /\ UNCHANGED pending
  BY DEF GiveUp, Go
<1>2. "trigger" \in Steps
  BY DEF Steps
<1>3. /\ running' \in Runs /\ running' # None
      /\ running'.base = running.base /\ running'.tree = running.tree /\ running'.step = "trigger"
      /\ running'.ok = running.ok /\ running'.cancelled = running.cancelled
      /\ running'.excused = running.excused
  BY <1>1, <1>2, RunningIs, StepChange
<1>4. /\ given_up \subseteq given_up' /\ given_up' \subseteq Notes
      /\ running.tree.known \subseteq main.known \cup given_up'
  BY <1>1, RunningIs
<1> QED
  BY <1>1, <1>3, <1>4, RunningIs, LocalStep

\* A push that is lost, for the first or the second time, keeps it.
LEMMA PushLostKeeps ==
  ASSUME IInv, PushLost
  PROVE  IInv'
<1>1. running # None
  BY DEF PushLost, At
<1>2. CASE running.attempt = 1
  <2>1. /\ running' = [running EXCEPT !.step = "commit", !.attempt = 2]
        /\ UNCHANGED <<main, pending, expired, noted, given_up, last>>
    BY <1>2 DEF PushLost
  <2>2. /\ running' \in Runs /\ running' # None
        /\ running'.base = running.base /\ running'.tree = running.tree /\ running'.step = "commit"
        /\ running'.ok = running.ok /\ running'.cancelled = running.cancelled
        /\ running'.excused = running.excused
    BY <1>1, <2>1, RunningIs, Retry
  <2> QED
    BY <1>1, <2>1, <2>2, RunningIs, LocalStep
<1>3. CASE running.attempt # 1
  BY <1>1, <1>3, GiveUpKeeps DEF PushLost
<1> QED
  BY <1>2, <1>3

\* A step that fails from outside keeps it.
LEMMA FailureKeeps ==
  ASSUME IInv, SetUpFails \/ MonitorFails \/ TriggerFails
  PROVE  IInv'
<1>1. PICK from \in {"setup", "monitor", "trigger"}, to \in {"commit", "done"} :
        /\ running # None /\ running.step = from
        /\ to = "done" => from = "trigger"
        /\ running' = [running EXCEPT !.step = to, !.ok = FALSE, !.excused = TRUE]
        /\ UNCHANGED <<main, pending, expired, noted, given_up, last>>
  BY DEF SetUpFails, MonitorFails, TriggerFails, FailedAt, At
<1>2. to \in Steps
  BY DEF Steps
<1>3. /\ running' \in Runs /\ running' # None
      /\ running'.base = running.base /\ running'.tree = running.tree /\ running'.step = to
      /\ ~running'.ok /\ running'.cancelled = running.cancelled /\ running'.excused
  BY <1>1, <1>2, RunningIs, FailedStep
<1>4. running'.step \in {"trigger", "done"} => running.tree.known \subseteq main.known \cup given_up
  BY <1>1, <1>3 DEF IInv, Settled
<1>5. ~Healthy(running')
  BY <1>3 DEF Healthy
<1> QED
  BY <1>1, <1>3, <1>4, <1>5, RunningIs, LocalStep

\* So does a commit that fails: it keeps account of what is lost.
LEMMA CommitFailsKeeps ==
  ASSUME IInv, CommitFails
  PROVE  IInv'
<1>1. /\ running # None
      /\ given_up' = given_up \cup (running.tree.known \ running.base.known)
      /\ running' = [running EXCEPT !.step = "trigger", !.ok = FALSE, !.excused = TRUE]
      /\ UNCHANGED <<main, pending, expired, noted, last>>
  BY DEF CommitFails, At
<1>2. "trigger" \in Steps
  BY DEF Steps
<1>3. /\ running' \in Runs /\ running' # None
      /\ running'.base = running.base /\ running'.tree = running.tree /\ running'.step = "trigger"
      /\ ~running'.ok /\ running'.cancelled = running.cancelled /\ running'.excused
  BY <1>1, <1>2, RunningIs, FailedStep
<1>4. /\ given_up \subseteq given_up' /\ given_up' \subseteq Notes
      /\ running.tree.known \subseteq main.known \cup given_up'
  BY <1>1, RunningIs
<1>5. ~Healthy(running')
  BY <1>3 DEF Healthy
<1> QED
  BY <1>1, <1>3, <1>4, <1>5, RunningIs, LocalStep

\* A new observation keeps it: it is on the runner.
LEMMA NoteKeeps ==
  ASSUME IInv, Note
  PROVE  IInv'
<1>1. /\ running # None /\ running.step = "monitor" /\ noted < MaxNotes
      /\ noted' = noted + 1
      /\ running' = [running EXCEPT !.tree.known = @ \cup {noted'}]
      /\ UNCHANGED <<main, pending, expired, given_up, last>>
  BY DEF Note, At
<1>2. noted \in 0..MaxNotes /\ noted' \in 0..MaxNotes /\ noted' \in Notes /\ 1..noted' = 1..noted \cup {noted'}
  BY <1>1, ChainAssumption DEF IInv, TypeOK, Notes
<1>3. /\ running' \in Runs /\ running' # None
      /\ running'.base = running.base /\ running'.step = running.step
      /\ running'.tree.known = running.tree.known \cup {noted'}
      /\ running'.tree.config = running.tree.config
      /\ running'.ok = running.ok /\ running'.cancelled = running.cancelled
      /\ running'.excused = running.excused
  BY <1>1, <1>2, RunningIs, Observed
<1>4. TypeOK' /\ Waiting'
  BY <1>1, <1>2, <1>3 DEF IInv, TypeOK, Waiting
<1>5. Grows' /\ CancelledByPush' /\ Settled'
  BY <1>1, <1>3 DEF IInv, Grows, CancelledByPush, Settled
<1>6. Succeeded' /\ ChainUnbroken'
  BY <1>1, <1>3 DEF Succeeded, ChainUnbroken
<1>7. NothingLostSilently'
  BY <1>1, <1>2, <1>3 DEF IInv, NothingLostSilently
<1>8. SuccessHandsOver'
  BY <1>1, <1>3 DEF IInv, SuccessHandsOver, At
<1> QED
  BY <1>4, <1>5, <1>6, <1>7, <1>8 DEF IInv

\* A config that expires keeps it.
LEMMA ExpireKeeps ==
  ASSUME IInv, NEW config \in Configs, Expire(config)
  PROVE  IInv'
BY DEF Expire, queue, IInv, TypeOK, Waiting, Grows, CancelledByPush, Settled, Succeeded,
       NothingLostSilently, SuccessHandsOver, At, ChainUnbroken

\* A push is never over what the run did not start from.
LEMMA PushGrows ==
  ASSUME IInv, Push
  PROVE  /\ running # None
         /\ running.base.known = main.known /\ main.known \subseteq running.tree.known
         /\ main' \in Commits
         /\ main'.known = running.tree.known /\ main'.config = main.config
<1>1. /\ running # None /\ running.base.known = main.known
      /\ main' = [main EXCEPT !.known = running.tree.known]
  BY DEF Push, At, TipUnmoved
<1> QED
  BY <1>1, RunningIs DEF IInv, Grows, Commits

\* A push that arrives keeps it: what was on the runner is on the branch.
LEMMA PushKeeps ==
  ASSUME IInv, Push
  PROVE  IInv'
<1>1. /\ running' = [running EXCEPT !.step = "trigger"]
      /\ UNCHANGED <<pending, expired, noted, given_up, last>>
  BY DEF Push, Go
<1>2. "trigger" \in Steps
  BY DEF Steps
<1>3. /\ running' \in Runs /\ running' # None
      /\ running'.base = running.base /\ running'.tree = running.tree /\ running'.step = "trigger"
      /\ running'.ok = running.ok /\ running'.cancelled = running.cancelled
      /\ running'.excused = running.excused
  BY <1>1, <1>2, PushGrows, RunningIs, StepChange
<1>4. TypeOK' /\ Waiting'
  BY <1>1, <1>3, PushGrows DEF IInv, TypeOK, Waiting
<1>5. Grows' /\ CancelledByPush' /\ Settled'
  BY <1>3, PushGrows DEF IInv, Grows, CancelledByPush, Settled
<1>6. Succeeded' /\ ChainUnbroken' /\ SuccessHandsOver'
  BY <1>3 DEF Succeeded, ChainUnbroken, SuccessHandsOver, At
<1>7. NothingLostSilently'
  BY <1>1, <1>3, PushGrows DEF IInv, NothingLostSilently
<1> QED
  BY <1>4, <1>5, <1>6, <1>7 DEF IInv

-----------------------------------------------------------------------------
(* Steps of the queue.                                                     *)

\* The end of a run keeps it, if the run left nothing behind and handed over where it succeeded.
LEMMA LeaveKeeps ==
  ASSUME IInv, running # None, NEW outcome \in {"success", "excused", "failure"}, Leave(outcome),
         UNCHANGED <<main, expired, noted>>,
         given_up \subseteq given_up', given_up' \subseteq Notes,
         running.tree.known \subseteq main.known \cup given_up',
         outcome # "failure",
         outcome = "success" =>
           \/ pending # None /\ pending.base.known = main.known
           \/ main.config \in expired
  PROVE  IInv'
<1>1. running' = pending /\ pending' = None /\ last' = outcome
  BY DEF Leave
<1>2. pending # None =>
        /\ pending.base \in Commits
        /\ pending.base.config = main.config /\ pending.base.known \subseteq main.known
        /\ pending.tree = pending.base /\ pending.step = "setup"
        /\ pending.ok /\ ~pending.cancelled
  <2>1. pending # None => pending \in Runs /\ pending = NewRun(pending.base)
    BY DEF IInv, TypeOK, Waiting
  <2>2. pending # None => pending.base \in Commits
    BY <2>1 DEF Runs
  <2> QED
    BY <2>1, <2>2, NewRunIs DEF IInv, Waiting
<1>3. TypeOK' /\ Waiting'
  BY <1>1, <1>2 DEF IInv, TypeOK, Waiting
<1>4. Grows'
  <2>1. main.config \in Int
    BY RunningIs
  <2> QED
    BY <1>1, <1>2, <2>1 DEF Grows
<1>5. CancelledByPush' /\ Settled' /\ Succeeded'
  BY <1>1, <1>2 DEF CancelledByPush, Settled, Succeeded
<1>6. NothingLostSilently'
  BY <1>1, <1>2 DEF IInv, NothingLostSilently
<1>7. SuccessHandsOver' /\ ChainUnbroken'
  BY <1>1, <1>2 DEF SuccessHandsOver, At, ChainUnbroken
<1> QED
  BY <1>3, <1>4, <1>5, <1>6, <1>7 DEF IInv

\* A run that comes to its own end keeps it.
LEMMA FinishKeeps ==
  ASSUME IInv, Finish
  PROVE  IInv'
<1>1. /\ running # None /\ running.step = "done" /\ Leave(Outcome(running))
      /\ UNCHANGED <<main, expired, noted, given_up>>
  BY DEF Finish, At
<1>2. Outcome(running) \in {"success", "excused"}
  <2>1. running.excused \/ running.cancelled \/ (~running.excused /\ ~running.cancelled /\ running.ok)
    BY <1>1, RunningIs
  <2> QED
    BY <2>1, Zenon DEF Outcome
<1>3. Outcome(running) = "success" =>
        \/ pending # None /\ pending.base.known = main.known
        \/ main.config \in expired
  <2> SUFFICES ASSUME Outcome(running) = "success"
               PROVE  \/ pending # None /\ pending.base.known = main.known
                      \/ main.config \in expired
    OBVIOUS
  <2>1. Healthy(running)
    BY DEF Outcome, Healthy
  <2>2. running.base.config = main.config
    BY <1>1, <2>1 DEF IInv, CancelledByPush, Healthy
  <2>3. running.tree.config = main.config
    BY <1>1, <2>2, RunningIs DEF IInv, Grows
  <2> QED
    BY <1>1, <2>1, <2>3 DEF IInv, Succeeded
<1>4. running.tree.known \subseteq main.known \cup given_up
  BY <1>1 DEF IInv, Settled
<1> QED
  BY <1>1, <1>2, <1>3, <1>4, RunningIs, LeaveKeeps

\* A run that is lost with its machine keeps it.
LEMMA RunnerLostKeeps ==
  ASSUME IInv, RunnerLost
  PROVE  IInv'
BY RunningIs, LeaveKeeps DEF RunnerLost

\* A run is admitted by an event; a push comes with a new config, nothing
\* else does.
LEMMA AdmitKeeps ==
  ASSUME IInv, NEW event, NEW current,
         current = None => running = None,
         Admit(event, main', current),
         main' \in Commits, main'.known = main.known,
         event = "push" => main'.config = main.config + 1,
         event # "push" => main' = main,
         UNCHANGED <<expired, noted, given_up, last>>,
         current # None =>
           /\ running # None /\ current \in Runs
           /\ current.base = running.base /\ current.tree = running.tree
           /\ current.ok = running.ok /\ current.cancelled = running.cancelled
           /\ current.excused = running.excused
           /\ current.step = running.step \/ (current.step = "done" /\ running.step = "trigger")
  PROVE  IInv'
<1>1. /\ NewRun(main') \in Runs /\ NewRun(main') # None
      /\ NewRun(main').base = main' /\ NewRun(main').tree = main'
      /\ NewRun(main').step = "setup"
      /\ NewRun(main').ok /\ ~NewRun(main').cancelled /\ ~NewRun(main').excused
  BY NewRunIs
<1>2. main'.config \in Int /\ main.config \in Int
  BY ChainAssumption DEF IInv, TypeOK, Commits, Configs
<1>3. CASE current = None
  <2>1. running = None /\ running' = NewRun(main') /\ pending' = None
    BY <1>3 DEF Admit
  <2>2. TypeOK' /\ Waiting'
    BY <1>1, <2>1 DEF IInv, TypeOK, Waiting
  <2>3. Grows' /\ CancelledByPush' /\ Settled' /\ Succeeded'
    BY <1>1, <1>2, <2>1 DEF Grows, CancelledByPush, Settled, Succeeded
  <2>4. NothingLostSilently' /\ SuccessHandsOver' /\ ChainUnbroken'
    BY <1>1, <2>1 DEF IInv, NothingLostSilently, SuccessHandsOver, ChainUnbroken
  <2> QED
    BY <2>2, <2>3, <2>4 DEF IInv
<1>4. CASE current # None
  <2>1. /\ running' = [current EXCEPT !.cancelled = @ \/ CancelInProgress(event)]
        /\ pending' = NewRun(main')
    BY <1>4 DEF Admit
  <2>2. /\ running' \in Runs /\ running' # None
        /\ running'.base = running.base /\ running'.tree = running.tree
        /\ running'.step = current.step
        /\ running'.ok = running.ok /\ running'.excused = running.excused
        /\ running'.cancelled <=> running.cancelled \/ event = "push"
    BY <1>4, <2>1, CancelChange
  <2>3. running # None
    BY <1>4
  <2>4. TypeOK' /\ Waiting'
    BY <1>1, <2>1, <2>2 DEF IInv, TypeOK, Waiting
  <2>5. Grows'
    BY <1>2, <1>4, <2>2, RunningIs DEF IInv, Grows
  <2>6. CancelledByPush'
    <3>1. running.cancelled <=> running.base.config # main.config
      BY <1>4 DEF IInv, CancelledByPush
    <3>2. running.base.config <= main.config
      BY <1>4, RunningIs DEF IInv, Grows
    <3>3. running'.cancelled <=> running'.base.config # main'.config
      BY <1>2, <1>4, <2>2, <3>1, <3>2, RunningIs
    <3>4. ~running'.ok => running'.excused
      BY <1>4, <2>2, RunningIs
    <3> QED
      BY <3>3, <3>4 DEF CancelledByPush
  <2>7. Settled'
    BY <1>4, <2>2 DEF IInv, Settled
  <2>8. Succeeded'
    BY <1>1, <2>1 DEF Succeeded
  <2>9. NothingLostSilently' /\ ChainUnbroken'
    BY <1>4, <2>2 DEF IInv, NothingLostSilently, ChainUnbroken
  <2>10. SuccessHandsOver'
    BY <1>4, <2>2 DEF IInv, SuccessHandsOver, At
  <2> QED
    BY <2>4, <2>5, <2>6, <2>7, <2>8, <2>9, <2>10 DEF IInv
<1> QED
  BY <1>3, <1>4

\* A push by somebody else and the schedule keep it.
LEMMA EventKeeps ==
  ASSUME IInv, Edit \/ Cron
  PROVE  IInv'
<1>1. running # None => running \in Runs
  BY RunningIs
<1>2. CASE Edit
  <2>1. /\ main.config < MaxEdits
        /\ main' = [main EXCEPT !.config = @ + 1]
        /\ Admit("push", main', running)
        /\ UNCHANGED <<expired, noted, given_up, last>>
    BY <1>2 DEF Edit
  <2>2. main' \in Commits /\ main'.known = main.known /\ main'.config = main.config + 1
    BY <2>1, ChainAssumption DEF IInv, TypeOK, Commits, Configs
  <2> QED
    BY <1>1, <2>1, <2>2, AdmitKeeps
<1>3. CASE Cron
  <2>1. /\ Admit("schedule", main', running)
        /\ main' = main
        /\ UNCHANGED <<expired, noted, given_up, last>>
    BY <1>3 DEF Cron
  <2>2. main' \in Commits
    BY <2>1 DEF IInv, TypeOK
  <2> QED
    BY <1>1, <2>1, <2>2, AdmitKeeps
<1> QED
  BY <1>2, <1>3

\* The trigger of the next run keeps it: what it queues knows the branch.
LEMMA TriggerKeeps ==
  ASSUME IInv, Trigger
  PROVE  IInv'
<1> DEFINE over == [running EXCEPT !.step = "done"]
           goesOn == running.ok /\ ~running.cancelled /\ HasActiveTargets
<1>1. /\ running # None /\ running.step = "trigger"
      /\ UNCHANGED <<main, expired, noted, given_up, last>>
      /\ goesOn => Admit("workflow_dispatch", main, over)
      /\ ~goesOn => running' = over /\ UNCHANGED pending
  BY DEF Trigger, At, Go
<1>2. "done" \in Steps
  BY DEF Steps
<1>3. /\ over \in Runs /\ over # None
      /\ over.base = running.base /\ over.tree = running.tree /\ over.step = "done"
      /\ over.ok = running.ok /\ over.cancelled = running.cancelled /\ over.excused = running.excused
  BY <1>1, <1>2, RunningIs, StepChange
<1> HIDE DEF over
<1>4. CASE goesOn
  <2>1. Admit("workflow_dispatch", main', over)
    BY <1>1, <1>4
  <2> QED
    BY <1>1, <1>3, <2>1, RunningIs, AdmitKeeps
<1>5. CASE ~goesOn
  <2>1. running.tree.known \subseteq main.known \cup given_up
    BY <1>1 DEF IInv, Settled
  <2>2. Healthy(running') => running'.tree.config \in expired
    BY <1>1, <1>3, <1>5 DEF Healthy, HasActiveTargets
  <2> QED
    BY <1>1, <1>3, <1>5, <2>1, <2>2, RunningIs, LocalStep
<1> QED
  BY <1>4, <1>5

-----------------------------------------------------------------------------
(* The invariant.                                                          *)

\* The invariant holds of an empty queue.
THEOREM Initially == Init => IInv
<1> SUFFICES ASSUME Init PROVE IInv
  OBVIOUS
<1>1. TypeOK
  BY ChainAssumption DEF Init, TypeOK, Commits, Configs
<1>2. NothingLostSilently
  BY DEF Init, NothingLostSilently
<1> QED
  BY <1>1, <1>2 DEF Init, IInv, Waiting, Grows, CancelledByPush, Settled, Succeeded,
                    SuccessHandsOver, At, ChainUnbroken

\* Every step of the chain keeps the invariant.
THEOREM Step == IInv /\ [Next]_vars => IInv'
<1> SUFFICES ASSUME IInv, [Next]_vars PROVE IInv'
  OBVIOUS
<1>1. CASE SetUp \/ MonitorEnds \/ Interrupted \/ NothingToCommit
  BY <1>1, SetUpKeeps
<1>2. CASE PullRebase
  BY <1>2, PullRebaseKeeps
<1>3. CASE PullConflict \/ PullFails
  BY <1>3, GiveUpKeeps DEF PullConflict, PullFails, Committing, At
<1>4. CASE Push
  BY <1>4, PushKeeps
<1>5. CASE PushLost \/ PushRaceLost
  BY <1>5, PushLostKeeps DEF PushRaceLost
<1>6. CASE Trigger
  BY <1>6, TriggerKeeps
<1>7. CASE Finish \/ RunnerLost
  BY <1>7, FinishKeeps, RunnerLostKeeps
<1>8. CASE Note
  BY <1>8, NoteKeeps
<1>9. CASE Edit \/ Cron
  BY <1>9, EventKeeps
<1>10. CASE \E config \in Configs : Expire(config)
  BY <1>10, ExpireKeeps
<1>11. CASE SetUpFails \/ MonitorFails \/ TriggerFails
  BY <1>11, FailureKeeps
<1>12. CASE CommitFails
  BY <1>12, CommitFailsKeeps
<1>13. CASE UNCHANGED vars
  BY <1>13 DEF vars, queue, IInv, TypeOK, Waiting, Grows, CancelledByPush, Settled, Succeeded,
                NothingLostSilently, SuccessHandsOver, At, ChainUnbroken
<1> QED
  BY <1>1, <1>2, <1>3, <1>4, <1>5, <1>6, <1>7, <1>8, <1>9, <1>10, <1>11, <1>12, <1>13
     DEF Next, Orderly, Fault, RunStep

\* The invariant holds at every moment of the chain.
THEOREM Invariance == Spec => []IInv
BY Initially, Step, PTL DEF Spec

-----------------------------------------------------------------------------
(* The theorems.                                                           *)

\* The steps of a run stay in their order and its attempts in their bound.
THEOREM TypeCorrect == Spec => []TypeOK
<1>1. IInv => TypeOK
  BY DEF IInv
<1> QED
  BY Invariance, <1>1, PTL

\* Nothing that was observed is lost but with a lost machine, with a failed job
\* or after an alert was attempted, whatever is pushed or cancelled meanwhile.
THEOREM ObservationsAreKept == Spec => []NothingLostSilently
<1>1. IInv => NothingLostSilently
  BY DEF IInv
<1> QED
  BY Invariance, <1>1, PTL

\* A pushed config is not lost in the queue.
THEOREM ConfigIsNotLost == Spec => []NewConfigWaits
<1>1. IInv => NewConfigWaits
  BY DEF IInv, Waiting, NewConfigWaits
<1> QED
  BY Invariance, <1>1, PTL

\* Only a push cancels, and what it brings is a new config.
THEOREM OnlyPushesCancel == Spec => []CancelledMeansNewConfig
<1>1. IInv => CancelledMeansNewConfig
  BY DEF IInv, CancelledByPush, CancelledMeansNewConfig
<1> QED
  BY Invariance, <1>1, PTL

\* The run after a successful one knows all that was ever pushed.
THEOREM StateIsHandedOver == Spec => []SuccessHandsOver
<1>1. IInv => SuccessHandsOver
  BY DEF IInv
<1> QED
  BY Invariance, <1>1, PTL

\* The chain ends for want of targets or for an outside failure only.
THEOREM ChainGoesOn == Spec => []ChainUnbroken
<1>1. IInv => ChainUnbroken
  BY DEF IInv
<1> QED
  BY Invariance, <1>1, PTL

\* No run pushes over a state file that it did not start from.
THEOREM NoOverwriting == Spec => BranchOnlyGrows
<1>1. IInv /\ [Next]_vars => [main.known \subseteq main'.known /\ main.config <= main'.config]_vars
  <2> SUFFICES ASSUME IInv, Next
               PROVE  main.known \subseteq main'.known /\ main.config <= main'.config
    OBVIOUS
  <2>1. main.config \in Int /\ main \in Commits
    BY ChainAssumption DEF IInv, TypeOK, Commits, Configs
  <2>2. CASE Push
    BY <2>1, <2>2, PushGrows
  <2>3. CASE Edit
    BY <2>1, <2>3 DEF Edit, Commits
  <2>4. CASE ~Push /\ ~Edit
    <3>1. main' = main
      BY <2>4 DEF Next, Orderly, Fault, RunStep, SetUp, MonitorEnds, Interrupted, NothingToCommit,
           PullRebase, PullConflict, PushLost, PushRaceLost, Trigger, Finish, Note, Cron, Expire,
           SetUpFails, MonitorFails, TriggerFails, FailedAt, CommitFails, PullFails, RunnerLost
    <3> QED
      BY <2>1, <3>1
  <2> QED
    BY <2>2, <2>3, <2>4
<1> QED
  BY Invariance, <1>1, PTL DEF Spec, BranchOnlyGrows
=============================================================================
