------------------------------ MODULE SlotWatch ------------------------------
(***************************************************************************)
(* One watcher process in monitor mode, seen from its targets: the passes  *)
(* of check_once over the fetch requests, _apply_target on each            *)
(* observation, the notifications it sends, the saves of the state file    *)
(* and the restarts that read it back (booking_slot_watch/monitor.py).     *)
(*                                                                         *)
(* The process is sequential.  What interleaves with it is its             *)
(* environment: providers and the notification server answer or fail, seats *)
(* come and go, sessions expire, the job is killed between any two steps   *)
(* and a later run starts from the file, possibly with an edited config.   *)
(* Outage alerts, the heartbeat and the clock are in RunLoop and Heartbeat. *)
(***************************************************************************)
EXTENDS SlotState

CONSTANTS
  Targets,             \* state keys: sessions (slot_key) and options (variant_key)
  Variants,            \* the targets that are Yanolja options
  Day,                 \* the date of each target; one value for all options
  Monitors, MonitorOf, \* the configured monitors, and each target's
  Products,            \* fingerprints of the products a monitor's URL may name
  Threshold,           \* notify_when_remaining_at_least, by monitor
  NotifyInitial,       \* notify_on_initial_available, by monitor
  NotifyIncrease,      \* notify_on_increase, by monitor
  ErrorAlertThreshold,
  Capacity             \* bound: seats a session can have

ASSUME TargetsAssumption ==
  /\ Variants \subseteq Targets
  /\ None \notin Targets
  /\ MonitorOf \in [Targets -> Monitors]
  /\ None \notin Products
ASSUME SettingsAssumption ==
  /\ Threshold \in [Monitors -> Nat \ {0}]
  /\ NotifyInitial \in [Monitors -> BOOLEAN]
  /\ NotifyIncrease \in [Monitors -> BOOLEAN]
  /\ ErrorAlertThreshold \in 1..ErrorCap
  /\ Capacity \in Nat

VARIABLES
  pc,        \* where the process is: see TypeOK
  product,   \* the product each monitor watches, by the config of this run
  live,      \* the targets still worth fetching (enabled, not past)
  slots,     \* state.slots, in memory
  file,      \* the slots of the state file
  todo,      \* targets whose request has not been fetched in this pass
  batch,     \* observations of the last fetch not applied yet
  seen,      \* what that fetch observed: seats, or None for a failure
  current,   \* target whose notification has just been sent
  acked,     \* whether the server confirmed it
  late,      \* should_continue has answered False
  heard,     \* history: what confirmed notifications have told the user
  heardSaved \* history: heard at the last save

memory == <<slots, heard>>
disk == <<file, heardSaved>>
pass == <<todo, batch, seen>>
delivery == <<current, acked>>
vars == <<pc, product, live, memory, disk, pass, delivery, late>>

Hearing == [product : Products \cup {None}, opening : Nat \cup {None}, failing : BOOLEAN]

TypeOK ==
  /\ pc \in {"down", "top", "checking", "sent"}
  /\ product \in [Monitors -> Products]
  /\ live \subseteq Targets
  /\ slots \in [Targets -> SlotRecords(Products)]
  /\ file \in [Targets -> SlotRecords(Products)]
  /\ todo \subseteq Targets
  /\ batch \subseteq Targets
  /\ seen \in [Targets -> Nat \cup {None}]
  /\ current \in Targets \cup {None}
  /\ acked \in BOOLEAN
  /\ late \in BOOLEAN
  /\ heard \in [Targets -> Hearing]
  /\ heardSaved \in [Targets -> Hearing]

Fingerprint(t) == product[MonitorOf[t]]

\* group_requests: one call per product and date, or per Yanolja product.
SameRequest(t, u) ==
  /\ Fingerprint(t) = Fingerprint(u)
  /\ Day[t] = Day[u]
  /\ t \in Variants <=> u \in Variants

Readings(t) ==
  IF t \in Variants
  THEN {VariantRemaining(onSale) : onSale \in BOOLEAN}
  ELSE {ScheduleRemaining(stock, booked, saleEnabled) :
          stock \in 0..Capacity, booked \in 0..Capacity, saleEnabled \in BOOLEAN}

-----------------------------------------------------------------------------
(* What the user has been told about a target's current product: the seats *)
(* of the opening last confirmed, None when it closed since, and whether   *)
(* the current run of failures was confirmed.  Nothing below reads it.     *)

HeardAbout(t) ==
  IF heard[t].product = Fingerprint(t) THEN heard[t]
  ELSE [product |-> Fingerprint(t), opening |-> None, failing |-> FALSE]

Heard(t, confirmed) ==
  LET before == HeardAbout(t)
      opening == CASE seen[t] < Threshold[MonitorOf[t]] -> None
                   [] seen[t] >= Threshold[MonitorOf[t]] /\ confirmed -> seen[t]
                   [] OTHER -> before.opening
  IN  [heard EXCEPT ![t] =
         IF seen[t] = None
         THEN [before EXCEPT !.failing = before.failing \/ confirmed]
         ELSE [before EXCEPT !.failing = FALSE, !.opening = opening]]

-----------------------------------------------------------------------------
(* _apply_target: judging one observation.                                 *)

\* Mutant: the fingerprint is not looked at.
PreviousOfAnyProduct(t) == slots[t]

\* A slot of another product counts for nothing; a slot saved before
\* fingerprints existed (None) counts as this product's.
Previous(t) ==
  IF slots[t].fingerprint \in {None, Fingerprint(t)} THEN slots[t] ELSE NoSlot

Verdict(t) ==
  LET monitor == MonitorOf[t] IN
  IF seen[t] = None
  THEN EvaluateError(Previous(t), ErrorAlertThreshold)
  ELSE EvaluateSlot(Previous(t), seen[t], Threshold[monitor],
                    NotifyInitial[monitor], NotifyIncrease[monitor])

\* Mutant: any unconfirmed notification clears the amount.
SettledClearsAmount(t, confirmed) ==
  LET verdict == Verdict(t) IN
  CASE confirmed /\ seen[t] = None -> MarkErrorAlertSent(verdict.state)
    [] confirmed /\ seen[t] # None -> MarkNotified(verdict.state)
    [] ~confirmed /\ verdict.reason \notin {NoReason, "error_threshold_reached"} ->
         MarkSendFailed(verdict.state)
    [] OTHER -> verdict.state

\* The slot to store once the notification was confirmed, or was not.
Settled(t, confirmed) ==
  LET verdict == Verdict(t) IN
  CASE confirmed /\ seen[t] = None -> MarkErrorAlertSent(verdict.state)
    [] confirmed /\ seen[t] # None -> MarkNotified(verdict.state)
    [] ~confirmed /\ verdict.reason = "became_available" -> MarkSendFailed(verdict.state)
    [] OTHER -> verdict.state

Stored(t, slot) == [slots EXCEPT ![t] = [slot EXCEPT !.fingerprint = Fingerprint(t)]]

\* save_state writes the state as it is after the step.
Save == file' = slots' /\ heardSaved' = heard'

-----------------------------------------------------------------------------
Init ==
  /\ pc = "down"
  /\ product \in [Monitors -> Products]
  /\ live = Targets
  /\ slots = [t \in Targets |-> NoSlot]
  /\ file = slots
  /\ todo = {} /\ batch = {}
  /\ seen = [t \in Targets |-> None]
  /\ current = None /\ acked = FALSE
  /\ late = FALSE
  /\ heard = [t \in Targets |-> [product |-> None, opening |-> None, failing |-> FALSE]]
  /\ heardSaved = heard

\* A run reads config and state; by now the config may name other products
\* and enable other targets.
Start ==
  /\ pc = "down"
  /\ pc' = "top"
  /\ product' \in [Monitors -> Products]
  /\ live' \in SUBSET Targets
  /\ slots' = file
  /\ heard' = heardSaved
  /\ UNCHANGED <<disk, pass, delivery, late>>

\* Time passes: a session begins or a monitor expires.  active_monitors is
\* evaluated once per pass, so only the value at the top of a pass matters.
Expire(t) ==
  /\ pc = "top"
  /\ t \in live
  /\ live' = live \ {t}
  /\ UNCHANGED <<pc, product, memory, disk, pass, delivery, late>>

BeginPass ==
  /\ pc = "top" /\ live # {} /\ ~late
  /\ pc' = "checking"
  /\ todo' = live
  /\ UNCHANGED <<product, live, memory, disk, batch, seen, delivery, late>>

\* Deadline, stop signal, or no active target left: the final save.
StopLoop ==
  /\ pc = "top"
  /\ pc' = "down"
  /\ late' = FALSE
  /\ UNCHANGED <<product, live, memory, pass, delivery>>
  /\ Save

\* One call for the whole request.  A target is missing when the call fails
\* or the answer does not hold it.  Sessions come before options.
Fetch(t) ==
  LET request == {u \in todo : SameRequest(t, u)} IN
  /\ pc = "checking" /\ batch = {} /\ t \in todo
  /\ t \in Variants => todo \subseteq Variants
  /\ todo' = todo \ request
  /\ batch' = request
  /\ \E answer \in [request -> (UNION {Readings(u) : u \in request}) \cup {None}] :
       /\ \A u \in request : answer[u] \in Readings(u) \cup {None}
       /\ seen' = [u \in Targets |-> IF u \in request THEN answer[u] ELSE None]
  /\ UNCHANGED <<pc, product, live, memory, disk, delivery, late>>

\* The deadline has passed: the remaining requests are not started.
SkipRest ==
  /\ pc = "checking" /\ batch = {} /\ todo # {}
  /\ todo' = {}
  /\ late' = TRUE
  /\ UNCHANGED <<pc, product, live, memory, disk, batch, seen, delivery>>

Settle(t, confirmed) ==
  /\ slots' = Stored(t, Settled(t, confirmed))
  /\ heard' = Heard(t, confirmed)
  /\ batch' = batch \ {t}
  /\ seen' = [seen EXCEPT ![t] = None]

ApplyQuietly(t) ==
  /\ pc = "checking" /\ t \in batch
  /\ Verdict(t).reason = NoReason
  /\ Settle(t, FALSE)
  /\ UNCHANGED <<pc, product, live, disk, todo, delivery, late>>

Send(t, confirmed) ==
  /\ pc = "checking" /\ t \in batch
  /\ Verdict(t).reason # NoReason
  /\ pc' = "sent"
  /\ current' = t
  /\ acked' = confirmed
  /\ UNCHANGED <<product, live, memory, disk, pass, late>>

NotifyAvailable(t, confirmed) == seen[t] # None /\ Send(t, confirmed)
NotifyError(t, confirmed) == seen[t] = None /\ Send(t, confirmed)

\* Mutant: a confirmed notification waits for the end of the pass to be saved.
RecordUnsaved ==
  /\ pc = "sent"
  /\ pc' = "checking"
  /\ Settle(current, acked)
  /\ current' = None /\ acked' = FALSE
  /\ UNCHANGED <<product, live, disk, todo, late>>

\* Back from the notifier: store, and save at once what was confirmed.
Record ==
  /\ pc = "sent"
  /\ pc' = "checking"
  /\ Settle(current, acked)
  /\ IF acked THEN Save ELSE UNCHANGED disk
  /\ current' = None /\ acked' = FALSE
  /\ UNCHANGED <<product, live, todo, late>>

\* Mutant: the state is saved by notifications and at the end of the loop only.
CheckpointUnsaved ==
  /\ pc = "checking" /\ batch = {} /\ todo = {}
  /\ pc' = "top"
  /\ UNCHANGED <<product, live, memory, disk, pass, delivery, late>>

\* The pass is over.
Checkpoint ==
  /\ pc = "checking" /\ batch = {} /\ todo = {}
  /\ pc' = "top"
  /\ UNCHANGED <<product, live, memory, pass, delivery, late>>
  /\ Save

\* Any exception but StateError drops the rest of the pass and keeps what it
\* has stored so far.  One raised by notify_available confirms nothing and
\* stores nothing; a failed reading is stored before notify_error is called,
\* so one raised there is Record, unconfirmed, and then this step.
UnexpectedError ==
  /\ pc = "checking" \/ (pc = "sent" /\ ~acked /\ seen[current] # None)
  /\ pc' = "top"
  /\ todo' = {} /\ batch' = {}
  /\ seen' = [t \in Targets |-> None]
  /\ current' = None
  /\ UNCHANGED <<product, live, memory, acked, late>>
  /\ Save

\* Killed, or a StateError from a save.  Memory is gone; it is set to what
\* the next run will read.
Crash ==
  /\ pc # "down"
  /\ pc' = "down"
  /\ slots' = file /\ heard' = heardSaved
  /\ todo' = {} /\ batch' = {}
  /\ seen' = [t \in Targets |-> None]
  /\ current' = None /\ acked' = FALSE
  /\ late' = FALSE
  /\ UNCHANGED <<product, live, disk>>

Process ==
  \/ Start \/ BeginPass \/ StopLoop \/ SkipRest \/ Record \/ Checkpoint
  \/ \E t \in Targets :
       \/ Fetch(t) \/ ApplyQuietly(t)
       \/ \E confirmed \in BOOLEAN : NotifyAvailable(t, confirmed) \/ NotifyError(t, confirmed)

Elapse == \E t \in Targets : Expire(t)

Next == Process \/ Elapse \/ UnexpectedError \/ Crash

Spec == Init /\ [][Next]_vars

\* The process keeps running and is restarted; a pass runs at least once in a
\* run; a notification tried again and again is confirmed at some point; and
\* exceptions and kills cease.  Nothing is assumed of seats, answers or deadlines.
Fairness ==
  /\ WF_vars(Process)
  /\ SF_vars(BeginPass)
  /\ \A t \in Targets :
       SF_vars(NotifyAvailable(t, TRUE)) /\ SF_vars(NotifyError(t, TRUE))
  /\ <>[][Process \/ Elapse]_vars

FairSpec == Spec /\ Fairness

-----------------------------------------------------------------------------
(* Properties.                                                             *)

About(slot, t) == slot.fingerprint = Fingerprint(t)

\* The watcher will stay silent about this opening at this many seats.
Recorded(slot) == slot.status = "available" /\ slot.last_notified_remaining # None

\* Whenever the stored state would keep the watcher silent about an opening,
\* the user has heard of that opening of that product, at that many seats, in
\* a confirmed notification - or silenced initial openings (the stale-amount
\* comment of mark_send_failed, the fingerprint comment of _apply_target).
NoMaskedOpening ==
  \A t \in Targets :
    Recorded(slots[t]) /\ About(slots[t], t) =>
      \/ HeardAbout(t).opening = slots[t].last_notified_remaining
      \/ ~NotifyInitial[MonitorOf[t]] /\ HeardAbout(t).opening = None

\* A failure alert marked as sent was confirmed during this run of failures.
NoMaskedFailure ==
  \A t \in Targets :
    slots[t].error_alert_sent /\ About(slots[t], t) => HeardAbout(t).failing

\* What is sent is news: more seats than the user heard of, or an opening, or
\* a run of failures, not confirmed yet - across restarts too.
OnlyNews ==
  pc = "sent" =>
    IF seen[current] = None
    THEN ~HeardAbout(current).failing
    ELSE HeardAbout(current).opening = None \/ seen[current] > HeardAbout(current).opening

\* More than the user heard of: seats or an opening, unless the settings ask
\* for silence about it, or failures that have reached the threshold.
IsNews(t) ==
  LET monitor == MonitorOf[t]
      told == HeardAbout(t).opening
  IN  IF seen[t] = None
      THEN ~HeardAbout(t).failing /\ Previous(t).consecutive_errors + 1 >= ErrorAlertThreshold
      ELSE /\ seen[t] >= Threshold[monitor]
           /\ IF told = None
              THEN NotifyInitial[monitor] \/ Previous(t).status = "sold_out"
              ELSE NotifyIncrease[monitor] /\ seen[t] > told

\* No observation that is news is stored without a notification, whatever was
\* said of other products, lost, or forgotten by kills before it.
NewsIsSent ==
  pc = "checking" => \A t \in batch : IsNews(t) => Verdict(t).reason # NoReason

\* Whatever a confirmed notification said is in the file already: a kill at
\* any later moment does not make the next run say it again.
ConfirmedIsDurable ==
  \A t \in Targets :
    /\ heard[t].opening # None =>
         /\ file[t].last_notified_remaining = heard[t].opening
         /\ file[t].fingerprint = heard[t].product
    /\ heard[t].failing =>
         file[t].error_alert_sent /\ file[t].fingerprint = heard[t].product

\* Between passes nothing observed is only in memory, silent transitions
\* included: a kill then loses no closing, and a later reopening is told
\* (comment on the checkpoint at the end of run_loop).
PassIsDurable == pc = "top" => slots = file /\ heard = heardSaved

\* A monitor that silences initial openings is not notified of an opening
\* found by the first good reading of its product (PROJECT_SPEC.md, initial
\* state).  The code looks for a missing slot, not for a first good reading.
FirstReadingObeysSetting ==
  pc = "sent" /\ seen[current] # None /\ Previous(current).remaining = None =>
    NotifyInitial[MonitorOf[current]]

\* A target open, of this product, whose opening nobody was told of.
Owed(t) ==
  /\ slots[t].status = "available" /\ About(slots[t], t)
  /\ slots[t].last_notified_remaining = None

\* An opening whose notification failed does not stay owed for ever if the
\* target keeps being read: it is told, or it closes.
EventuallyAnnounced ==
  \A t \in Targets :
    []<>(t \in batch /\ seen[t] # None) => (Owed(t) ~> ~Owed(t))

Overdue(t) ==
  /\ slots[t].consecutive_errors >= ErrorAlertThreshold /\ About(slots[t], t)
  /\ ~slots[t].error_alert_sent

\* A run of failures that reached the threshold is reported, even when the
\* alert was lost the first time, or it ends.
EventuallyReported ==
  \A t \in Targets :
    []<>(t \in batch) => (Overdue(t) ~> ~Overdue(t))

-----------------------------------------------------------------------------
(* SlotWatch implements OpeningAlerts.                                     *)

Opening(slot) ==
  [of |-> slot.fingerprint,
   stage |-> CASE slot.status # "available" -> "closed"
               [] slot.status = "available" /\ slot.last_notified_remaining = None -> "owed"
               [] OTHER -> "told",
   seats |-> IF slot.status = "available" THEN slot.last_notified_remaining ELSE None]

Abstract == INSTANCE OpeningAlerts WITH
  Subjects <- Products,
  Seats <- (1..Capacity) \cup {1},
  Quiet <- {t \in Targets : ~NotifyInitial[MonitorOf[t]]},
  subject <- [t \in Targets |-> Fingerprint(t)],
  news <- [t \in Targets |-> Opening(slots[t])],
  kept <- [t \in Targets |-> Opening(file[t])]

\* Every step of the watcher is a step of OpeningAlerts, or invisible to it:
\* in particular an opening counts as told only by a step that told and saved
\* it, or by a silenced first opening; what the settings silence is put on
\* record as silenced, and a restart brings back what was kept.
ImplementsOpeningAlerts == Abstract!Spec
=============================================================================
