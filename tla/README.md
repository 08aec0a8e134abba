# Naver Booking Slot Watch: specification and proofs

TLA+ models of the slot watcher in `src/src/booking_slot_watch/`, the TLC runs
that check them on small instances and the TLAPS proofs about them. File names
below are relative to that directory unless they begin with `docs/`, `tests/`
or `.github/`.

## 1. The system

A watcher process polls Naver Booking (sessions, by product, date and time) and
Yanolja Leisure (options, by product and variant), compares what it reads with
what it stored, and sends ntfy notifications. It runs as a GitHub Actions job
of five and a half hours that starts its own successor; what one run knows
reaches the next one through a state file committed to the repository.

The process is sequential: no threads, no async code, no callbacks from
outside. What interleaves with it is its environment. Providers answer, refuse
or time out; seats come and go between two reads; the notification server
confirms or does not; the clock passes deadlines and midnights during a pass;
the job is killed between any two steps; a later run reads whatever was last
saved, with a config that may have been edited.

| part | state | operations | talks to |
|---|---|---|---|
| slot state rules (`state.py`) | none, pure functions on a slot record | `record_success`, `record_error`, `evaluate_slot`, `evaluate_error`, `mark_notified`, `mark_error_alert_sent`, `mark_send_failed` | called by `_apply_target` |
| target watching (`monitor.py`: `check_once`, `_observe`, `_apply_target`) | `state.slots` in memory | one pass: group, fetch, judge, notify, record | clients, notifier, `save_state` by `on_notified` |
| run loop (`monitor.py`: `run_loop`) | deadline, `all_failed_streak`, `session_reset_for_outage`; the state's `outage_alert_sent`, `recovery_alert_pending` | passes, outage and recovery alerts, checkpoint, sleep, final save | `check_once`, notifier, clients' `reset_session` |
| heartbeat (`monitor.py`: end of `check_once`) | the state's `heartbeat_last_sent` | one message a day after seven | notifier, saved by the checkpoint |
| HTTP client (`http_client.py`) | session, `_rate_limit_streak`, `_session_was_reset` | one fetch with retries and sleeps, `reset_session` | providers |
| parsers (`naver.py`, `yanolja.py`) | none | answer to seats, or a failure | HTTP client |
| notifier (`notifier.py`) | none that matters | one POST, confirmed or not | ntfy |
| state file (`state.py`: `load_state`, `save_state`) | the file | load; save if materially changed, by atomic replacement | file system |
| config (`config.py`) | none; it depends on the clock | load and validate, `active_monitors`, `group_requests` | file system |
| command line (`__main__.py`) | none | `monitor`, `check-once`, `has-active-targets` and others | all of the above |
| workflow (`.github/workflows/monitor.yml`) | the repository's branch, the queue of runs | run, commit and push with retries, trigger the next run | the command line, GitHub |

What is hard, and for each part what makes it correct:

* **Notifications against the file.** A notification cannot be sent and
  recorded in one step. The part is correct if what a confirmed notification
  said is recorded before anything else happens (nothing is told twice), and
  if nothing is recorded as told that was not (no opening is passed over).
  Both must hold through lost confirmations, exceptions in mid pass, kills and
  restarts.
* **Silent transitions.** A closing sends nothing, so nothing but the
  checkpoint of the pass saves it; lost, it hides the reopening.
* **Stale amounts.** `last_notified_remaining` outlives the opening it is
  about. A failed reopening alert must clear it, a failed increase alert must
  not.
* **Records of another product.** The same key may mean another product after
  an edit of the config.
* **Two flags for outages.** An alert and its answer are each retried until
  confirmed, across runs, and may overlap with the next outage.
* **Clock read once.** A pass acts on the clock it read when it began, and
  `has-active-targets` on a later one. What has ended must not come back.
* **Answers understood in part.** A parser must neither take what it does not
  understand for sold out, nor an option or a session of another page for its
  own.
* **A file that is replaced.** The temporary file, its sync and the rename can
  each fail or be the last thing the process did; a reader must see the old or the
  new state. An unchanged state must not be written, or each run would commit.
* **A chain of jobs.** Runs come from pushes, from the schedule and from the run
  before, cancel or wait for each other, and race for the branch. Nothing known
  may be overwritten or lost in silence, and the chain has to go on.
* **Sleeps that cannot be interrupted.** They must stay bounded however long a
  provider blocks.

PROJECT.json lists these as hazards, each at its line, with the properties that
would catch it.

## 2. Modules

| module | role |
|---|---|
| `SlotState` | the slot rules, as operators on a record; extended by `SlotWatch` |
| `SlotWatch` | one process in monitor mode, as its targets see it |
| `OpeningAlerts` | abstract specification: what a target promises about openings |
| `RunLoop` | the loop around the passes |
| `Heartbeat` | the daily message and the clock |
| `RetryingClient` | one provider's client |
| `StateFile` | the state file on its disk, a save step by step |
| `AtomicStore` | abstract specification: what the other modules take a save for |
| `WatchConfig` | the config: what is accepted, what is active when, which requests ask for it; operators |
| `Answers` | from a provider's answer to observations; operators |
| `WatchPass` | the config over time: passes, the end of the loop, `has-active-targets` |
| `JobChain` | the workflow: queue of runs, branch, schedule |
| `MCSlotWatch`, `MCRetryingClient`, `MCWatchPass` | values for TLC (the others need none) |
| `SlotWatchProofs`, `RunLoopProofs`, `HeartbeatProofs`, `RetryingClientProofs`, `StateFileProofs`, `WatchPassProofs`, `JobChainProofs` | theorems |
| `SequenceLemmas` | lemmas about sequences and recursion that the theorems rest on |

How they fit together: `JobChain` starts the jobs whose monitor command is
`SlotWatch`, `RunLoop` and `Heartbeat`, three views of one process: its targets,
its loop, its clock. `WatchPass` is the view of its config. `Fetch` in `SlotWatch`
is `RetryingClient` and, in what it makes of the answer, `Answers`; the saves of
all three views are one step each, and `StateFile` shows that this is what
`save_state` amounts to. `Kill` there, `Crash` in the views and `RunnerLost` or a
cancelled run in `JobChain` are the same event at three scales.

Definitions carry the names of the code where there is one. Operators commented
"Mutant" are variants of the definition after them with a plausible bug; no
specification uses them.

### SlotState

`SlotRecords` is `SlotState` of the code with the fields decisions read:
status, remaining, last_notified_remaining, consecutive_errors,
error_alert_sent, fingerprint. A slot that is not in `state.slots` (Python
`None`) is `NoSlot`, a record with the status "absent", so that every rule is
total. Error counts stop at `ErrorCap`, which is at least the alert threshold:
they are only compared with it. The order of the disjuncts in
`NotificationReason` is the order of the `if`s in `_notification_reason`.

### SlotWatch

`pc` is "down" (no process), "top" (head of the loop of `run_loop`), "checking"
(inside `check_once`) or "sent" (between the notifier's answer and the code
that records it). `slots` is memory, `file` the state file, `todo` the requests
of the pass that were not started, `batch` and `seen` the observations of the
last fetch that were not applied. Of `_apply_target`, the part up to the
notifier's answer is `Send` (or all of it is `ApplyQuietly`, when there is
nothing to send), the part after it `Record`, which includes the save by
`on_notified`. That split is where a kill hurts. A call of a provider is one
step, `Fetch`, with any mixture of answers: seats computed from stock, bookings
and the sale flag, a missing target, or a failure of the whole request.
`Readings` applies the code's conversion, so an oversold session reads zero.

`Start` lets every monitor name any product and any set of targets be live: this
is the edit of the config between runs, and the time that passed. Within a run
targets only expire. `UnexpectedError` is the `except Exception` of `run_loop`, and
`Crash` a kill or a `StateError`. A failed reading is stored before `notify_error` is
called, a good one after `notify_available` has returned: an exception raised by
the latter stores nothing, one by the former is an unconfirmed `Record` with
`UnexpectedError` after it. After a crash memory holds what the next run
will read; nothing looks at it before.

`heard` is a history variable: what confirmed notifications have told the user
of each target's product. No action reads it. `heardSaved` is its value at the
last save, and a restart goes back to it: it says what the file could know.
`ConfirmedIsDurable` is the claim that this makes no difference.

Observations of a batch are applied in any order; the code applies them in the
order of the config. Sessions are fetched before options as in
`group_requests`; requests among the sessions are in any order.

### OpeningAlerts

The promise to the reader of the notifications. An opening is closed, owed or
told with a number of seats; it is told only by a step that has it on record at
once, and again only with more seats. For targets whose settings silence the first
opening, and for those only, what is open when a subject is first known is taken as
told (`Presume`); it is then neither owed nor told (`Hushed`), so a step that would
leave the silence unrecorded is no step of the promise. `SlotWatch` is checked and
proved to implement it under the mapping at its end (`Opening`, `Abstract`): a slot's
status and notified amount give the stage and the seats, its fingerprint the
subject, memory `news` and the file `kept`.

### RunLoop

A call of `check_once` is the step `Pass` with an outcome: how many targets it
checked, how many failed, whether it raised and whether it had read something
before. Requests are skipped only if the deadline passed meanwhile, as
`should_continue` says. The steps after it follow `note_blackout` and the
branches of the loop, with a step before and one after each notification, so
that a kill can fall between. `saved` holds the two flags in the file. `left` is
`_remaining`: a pass may overrun the deadline and leave it negative, while the sleep is
cut to what is left (`Sleep`), so that the head of the loop never sees less than zero.

History: `unanswered` (an outage alert is on record, no recovery since),
`successSince` (a target was read since the last outage on record), `resets`
and `dry` (passes in a row that read nothing). A confirmed alert counts as on record when the code
has stored it; a kill between the answer and the save repeats it, as any
program on this side must.

### Heartbeat

The clock is a date and whether it is past seven; `now` is what the pass read.
Between that read and the heartbeat any time may pass. `told` counts confirmed
heartbeats by the date they are for, and `lost` the kills that fell between a
confirmation and its save.

### RetryingClient

One fetch at a time: `Begin`, attempts that succeed, are retried after a sleep,
or end the fetch, and `ResetSession` between fetches. The streak counter is only
compared with the cap, so both it and the history `blocked` stop there. The
error kinds are those of `_send` and of the two parsers, with `http_error` split
at 500 as `_is_retryable` does.

### StateFile and AtomicStore

`save_state` is `Compare`, `Open`, `Write`, `Sync`, `Replace`: the comparison with
the file, the temporary file, its contents, its sync, `os.replace`. `Fail` is an
`OSError` at any of them, which removes the temporary file and ends the process
by a `StateError`; `CompareRaises` is the one error of the comparison that
`_read_existing` does not expect, a file that is not UTF-8 (`NotText`), which `run_loop`
catches in a pass and nothing catches at the end of one; `Kill` leaves it where it is. `durable` is the file as a power
loss would leave it: a rename reaches the disk at once or later (`Settle`), and one
of a file whose data was not synced may reach it without the data (`Torn`). The
directory is not synced by the code, so after a power loss the file may be the one
before; it is whole.

A state is one value that decisions are taken from and the times of its checks.
`Material` is what the comparison looks at. It leaves out the version, so a file of
another version that says the same counts as unchanged; nothing but a hand makes
such a file. "legacy" files lack the fields added later: they load, and differ from
what a save would write. People and git touch the file between any two steps
(`Touch`); `SavedIsKept` and `WritesAreNews` speak of saves nobody interfered with.

`AtomicStore` has a value that readers find, one that a power loss would bring back,
and a process that loads it once and saves in one step. The mapping is in `Abstract`.

### WatchConfig, Answers, WatchPass

A config is the parsed JSON: the sequence of its entries, with the keys each has, so
that duplicates and misspelt keys can be told from what is right. `Accepts` is
`load_config` without the spelling of ids, URLs, dates and times and without JSON
types. `Remaining` is one turn of the loop of `active_monitors`; `Requests` is
`group_requests`, by the equivalence `OneRequest`. A slot carries the id of its
monitor, its product, date and time or option: what is fetched, observed and stored.

`Answers` follows the parsers. An answer has a shape, which says how far down it
is what the parser expects, and items, each well formed or not. The list of sessions
may be null; a group's options may be null but not missing; a page may be another
product's; an option may be on a page twice, and the last one counts. A fetch that
brought no page failed in one of the ways of `_send` (`FetchErrors`), and the failure
keeps its name.

`WatchPass` puts both under a clock that moves between any two steps. A pass fixes
its clock when it begins. The loop ends at a deadline, in the middle of a pass or
between passes, or when nothing is active; then `has-active-targets` reads the
clock anew and starts the next run, or not.

### JobChain

A run has the commit it was started for (`base`; a checkout without `ref` takes the
commit of the event), a working tree, and a step of the job. The concurrency group
holds one run in progress and one that waits; a newer event replaces the one that
waits, and only a push cancels the one in progress. `Commit state` runs always: after
`NothingToCommit` comes the trigger, otherwise a pull with a rebase, which conflicts
whenever the branch's state file has changed since the checkout (both sides change
`updated_at`), and a push, which loses when the tip has moved, is tried twice and
given up after an alert. The alert is an attempt: the step ignores whether it went out
(`|| true`), and so does `given_up`. A `git add` or `git commit` that fails ends the
step without one (`CommitFails`). `Trigger next run` runs if no step has failed.

The state file is the set of observations it rests on (`known`), and an observation
is a number (`Note`). What happens inside the monitor command is in the other modules. Faults are those of
steps outside the workflow's control: setup, monitor command, network, the trigger,
the machine; they mark the run as `excused`.

## 3. Runs

| run | instance | question |
|---|---|---|
| `pair` | two sessions, one request, one product, up to two seats, error threshold 1 | masked openings, repeats, durability |
| `mixed` | a session and an option, two requests, two monitors with different settings, two products | refinement of `OpeningAlerts` |
| `edit` | one session, two products, up to three seats, error threshold 2 | news is never passed over, whatever was said of another product; failure alerts; alerts that were lost are sent again |
| `run_loop` | the code's threshold of 5, two targets, nineteen units of time, passes of none to two and sleeps of one or two | flags, repeats, session changes; an outage is alerted and answered |
| `heartbeat` | three days, two lost saves a day | once a day, each day |
| `retrying_client` | the code's delays (2, 5) and cap (6) | bounded sleep, growing backoff |
| `state_file` | three states, two checks, two kills | refinement of `AtomicStore`; what a save leaves |
| `observe` | fifty configs of one or two entries, eight answers of each provider, three days of three times | each slot asked once, observations true, ends kept and reached |
| `job_chain` | two pushes, three observations, any number of runs | nothing lost in silence or overwritten, the newest config waits, the chain goes on |

Two targets show what one target's notification or exception does to the
other's observation in the same batch; two requests show a skip or an exception
between them. Two seats tell an increase from an opening, three an increase over
an amount that was told from one that was not. A loop of nineteen units has at least
five passes, since the longest pass and sleep take four, so the streak of an outage
fits in any run that is not cut short; it has up to nineteen, more than three times the
threshold, so an outage, its alert, its answer and another outage fit in one run, and any
number of runs follow. Three days suffice
for the heartbeat because the code compares dates for equality only; two make a
midnight, the third shows the day after.

In `state_file` two kills are a kill and a power loss, or one of them twice, with a
save that returns between; three states tell the file before, the one being
written and one a hand put there. In `observe` a config has most of its flaws alone,
so that each rule of `load_config` decides something, and its sessions are on two
days at two times, so that a time of the second day is earlier than the one that has
passed on the first; a session or option shares its product or its id with one of another
entry in the pairs. In `job_chain` the second push comes while a run cancelled by the
first, or the one that waits, is still there; three observations are one on the
branch, one on the runner and one of a later run. The bounds on pushes and observations
are arbitrary in the proofs, as are products, targets, thresholds, configs and
clocks.

Three more runs expect a violation: each checks a sentence of a document against
what the code does.

| run | what the text says | what the code does |
|---|---|---|
| `first_reading` | `docs/PROJECT_SPEC.md:174`: the setting is about the first good reading | it is about the first observation; a failed first fetch stores a slot, and the first good reading after it alerts although the setting is off |
| `partial_blackout` | `README.md:300` of the repository: five passes without any result | a pass that raised counts as one although some of its targets were read and recorded |
| `stale_start` | `docs/GITHUB_ACTIONS.md:207`: a new run uses the latest state of `main` | it uses the state of its event's commit; the run that a push cancels commits its state later |

None of them is a failure of the watcher's purpose: the first and the last may send
an alert too many, the second is about wording. Smaller ones have no run:

* `monitor.py:65` says that an outage alert is sent in the pass that reaches the
  threshold only; it is tried again until confirmed, which `EventuallyAlerted` needs.
* `docs/PROJECT_SPEC.md:253` has the heartbeat in the first loop after seven; one
  still due in the last pass of a day is sent after midnight.
* Section 5 of `docs/GITHUB_ACTIONS.md` lists `cancel-in-progress: true`; the workflow
  has it for pushes only, as its section on concurrency explains.
* The comment on `LoopResult.consecutive_all_failed` takes zero for a good last
  reading, and a pass that started no request, because the deadline fell between the
  check of the loop and the first request, clears the streak too.
* The comment on `_rate_limit_streak` speaks of blocked fetches in a row, and a fetch
  that fails for another reason does not end the code's streak.

### Fairness

Safety holds without it. For liveness:

* `WF_vars(Process)`: the process takes its next step, and a run that ended is
  followed by another (the chain of jobs, with the schedule as a fallback).
* `SF_vars(BeginPass)` in `SlotWatch` and `Heartbeat`: a run makes a pass. The
  loop is at least ten minutes long (`MIN_LOOP_MINUTES`) and begins with one.
* `SF` of the confirmed notification: a notification that is tried again and
  again is confirmed some time. Without it nothing can be promised about a
  server that never answers.
* `<>[][Process ...]_vars`: from some point on only the process and its
  environment take steps: kills, exceptions and, in `RunLoop`, early ends cease.
  (Stated so, and not as the absence of a fault's steps: an exception at the very
  end of a pass changes the same variables in the same way as its checkpoint.)
* `JobChain`: a run in progress takes its next step, the schedule fires again and
  again, and faults outside the workflow cease (`<>[][Orderly]_vars`). Nothing is
  assumed of pushes, which the bound ends, of the monitor command's observations or of
  the next trigger; the schedule alone mends a broken chain.
* `WatchPass`: time goes on, and each command of the job ends. Passes and fetches
  need no fairness, since the loop has its deadline (`timeout-minutes` at the last).

Nothing is assumed of seats or of providers; where a property needs a target to
be read again and again it says so in its premise.

## 4. Proofs

Each proof module defines an inductive invariant `IInv` and proves
`Init => IInv`, `IInv /\ [Next]_vars => IInv'` and the properties from it. They
hold for all values of the constants allowed by the named assumptions of the
modules (`TargetsAssumption`, `SettingsAssumption`, `RunLoopAssumption`,
`HeartbeatAssumption`, `RetryingClientAssumption`, `FileAssumption`,
`ContentsAssumption`, `InstantsAssumption`, `ConfigsAssumption`, `ChainAssumption`,
`AnswersAssumption`, `NoneAssumption`), which say that the constants have their types
and that `None` and the other marks are none of the values they stand beside.
`ConfigsAssumption` adds what JSON gives: an end that an entry states is under a key
of its own. `AnswersAssumption` says what an answer of the expected shape holds: a
sequence of items with typed fields (an item that lacks one is marked as not well
formed, and its fields say nothing), and no items in a group without a list. Its
length, its contents and every other shape are arbitrary.

**SequenceLemmas.** The library's induction theorems take an operator for a
parameter. `IntervalInduction` and `RecursionOnInterval` have a set and a function in
its place, and rest on the order of the natural numbers being well founded. From them
follow that a function defined by recursion over an interval satisfies its equation,
and what the operators of the community modules that the parsers are modelled by
return: `FlattenSeq` what its parts hold and nothing else (`FlattenSeqIs`), `Min` and
`Max`, and with them the first and the last item of a kind, elements of their set
(`MinIs`, `MaxIs`).

**SlotWatchProofs.** `NoMaskedOpening` is not inductive: it speaks of slots of
the current product only, and after an edit of the config a record that was out
of its reach comes back into it. `IInv` therefore ties every slot to the history
with the product it was stored for (`Agree`), in memory (`MemoryAgrees`) and in
the file (`FileAgrees`), since a restart replaces one by the other. The lemma
`SettleAgrees` is the core: settling any observation, confirmed or not, keeps
slot and history agreed; the reasons for a notification, one by one, are in
`SettledReading`. `SettleDurable` shows that a step without a confirmation adds nothing to
the history that the file does not have, and `VerdictIsNews` that a reason to
notify implies that the user has not heard. `NewsIsNotified` is the converse, on
which `NewsIsNotPassedOver` rests: what the user has not heard, and the settings do
not silence, is a reason to notify, because the slot a judgement starts from says
neither more nor less than the history. `Sending` carries the verdict from the sending
over to the record.

The module ends with the refinement. `SlotWatch` implements `OpeningAlerts` (`PromiseIsKept`), by
the same `IInv` and `SeenIsBounded`, which says that no observation exceeds the seats
there are. Only a settled observation changes what the promise speaks of;
`SettleIsAllowed` shows, reason by reason, that the opening it leaves is the one of
before, or closed, owed, told with a confirmation or presumed under the setting, and
that it is presumed wherever the setting asks for it (`Hushes`).
`MissingIsForeign` is the reason why a presumption never hits an opening of the same
product. `RefinesStep` then maps `Start` to `Retarget`, `Crash` to `Forget`, a save to
`Keep`, `Record` and `ApplyQuietly` to the step of their target, the rest to none.

**RunLoopProofs.** `IInv` adds to the properties what holds at each `pc`: no
alert on record while one is being sent, an outcome with a good reading and the
flags of a recovery while a recovery is being sent, and `NextIsNews`, by which
an outage flag that is down means that something was read since. `LeftIsBounded` and
`SleepIsCut` give the range of the time left, before a pass and after one.

**HeartbeatProofs.** `IInv` orders the dates (file, memory, pass, clock) and says
that a day told more often than lost is on record already or about to be
(`ToldIsOnRecord`), from which a second telling of a day is excluded by
`SentIsNew`.

**RetryingClientProofs.** The streak counts at least the fetches that ended blocked
in a row, and a fetch takes its backoff from it (`StreakCounts`). What a fetch has
slept is at every moment its backoff times the delays up to the current retry
(`SleepsAddUp`); `DelayUpToIs` bounds those by the sum of all, and the bound of
`BoundedSleep` follows from the cap on the backoff (`SleepBounded`). Lists of delays and caps are
arbitrary.

**StateFileProofs.** `IInv` adds that no file, on the disk or off it, is ever torn,
that a temporary file about to be renamed is whole, synced and what memory holds, and
that a save on its way found something else in the file. From it follow the
properties and the refinement: `RefinesStep` maps `Replace` to `Save`, a kill to the
end of the process, a power loss to its own step, and all steps inside a save to
none.

**WatchPassProofs.** Three facts about the operators carry the rest.
`ActiveShrinks`: while time goes on, what is active only becomes less, for every
config whose dates, times and ends compare. `KeysAreUnique`: in an accepted config no
two slots share a key, although keys leave out the product; it takes all the checks
for duplicates. `AcceptedNamesOnce` adds, position by position, that no entry names a
session or an option twice. `ExpiredIsInactive`: an end that an entry states is honoured, since
a misspelt key is refused and a well spelt one is read. `IInv` then says that the
requests left and the observations made cover what was active when the pass began
(`Covered`), and that a loop that ended for want of targets leaves nothing active
(`NothingLeft`).

`ReadingsAreTrue` goes through the parsers for answers of every length.
`ScheduleIsTrue` and `ProductIsTrue` say that one observation is borne out by its
answer: seats are those of an item the answer has under that date and time or that
option, never negative, and a failure is the one the answer gives cause for, so that
nothing that is missing, malformed or of another product is read as sold out or open.
`IInv` says that the observations of the last request were read off its
answer (`LastAnswerRead`); older ones are of other slots, by `Covered`, and no
longer in question.

**JobChainProofs.** The properties are not inductive one by one. `IInv` adds what a
run that waits knows (`Waiting`), that a run's base is part of the branch (`Grows`),
that a run past its commit has its observations on the branch or given up
(`Settled`), and that one which will end well has handed over already (`Succeeded`).
The lemma `LocalStep` deals with all steps that concern the run in progress alone,
`AdmitKeeps` with all events that queue a run, `LeaveKeeps` with both ends of a run.

`IInv` of each module was also checked by TLC on the instances above. The type
invariants of `Heartbeat`, `RetryingClient`, `StateFile` and `WatchPass`, and
`ExpiryIsFinal`, are proved and not repeated in a run. Every safety property of a
passing run has a theorem.

Only model-checked: liveness, that is `EventuallyAnnounced`,
`EventuallyReported`, `EventuallyAnswered`, `EventuallyAlerted`, `LastDayIsTold`,
`LoopsComplete` and `WatchEnds`, which needs fairness and with it `ENABLED`, out of
reach of the prover.

## 5. Not modelled

* Time stamps and texts: `last_checked_at`, `last_changed_at`, `last_error`,
  `updated_at`, notification bodies, and with them the "last good reading" that
  some bodies show.
* Slots with no fingerprint. Files written before fingerprints existed hold
  them; `Previous` handles them, but no instance starts from such a file.
* Inside a save: the creation of the directory, an `unlink` of the temporary file
  that fails as well, and exceptions that are no `OSError` (a name with a lone surrogate
  cannot be encoded; the write raises, and the temporary file stays behind).
* A confirmation lost after the server accepted. The models know only what the
  program can know: confirmed or not.
* The stop signal inside `check_once` (the code does not look at it there).
* The spelling of URLs, ids, dates and times in the config, JSON types, and the same
  of single fields of an answer: sequential, without state, and one flag each in the
  models. The settings of the loop from the environment.
* Two writers of the branch besides the runs: a hand that edits the state file on
  `main`. Pushes change the config only.
* Whether an alert arrives that a job sends when it cannot save its state (the step does
  not look, and does not retry), and a job's time-out as distinct from a failure of the
  monitor command.
* `check-once`: see the plan. It saves only when its single pass has ended.

## 6. Plan

Done: the state file, the config with its clock, the answers, the workflow, the
proofs about each, both refinements and what the parsers and the delays compute.
What is left, in this order:

1. `check-once` as a second behaviour of `SlotWatch`, which saves at the end
   only, and what is then still true.
2. `Monitor`: `RunLoop`, `SlotWatch` and `Heartbeat` over one state file, with
   the outcome of a pass computed and not chosen.
3. `JobChain` over `StateFile`: the working tree's file as the one a job saves to.
