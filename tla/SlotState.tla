------------------------------ MODULE SlotState ------------------------------
(***************************************************************************)
(* The pure part of the watcher: what one observation of a target does to  *)
(* its stored state, and whether it calls for a notification               *)
(* (booking_slot_watch/state.py), and how a provider's answer becomes a    *)
(* number of remaining seats (naver.py, monitor.py).                       *)
(*                                                                         *)
(* A slot state is a record.  last_checked_at, last_changed_at and         *)
(* last_error are left out: they are written for people and no decision    *)
(* reads them.  A key missing from state.slots (previous is None in the    *)
(* code) is NoSlot, whose other fields are what the code assumes of a      *)
(* missing predecessor.                                                    *)
(***************************************************************************)
EXTENDS Integers

CONSTANTS
  None,      \* Python's None
  ErrorCap   \* consecutive_errors is counted exactly up to this bound

ASSUME NoneAssumption == None \notin Nat
ASSUME ErrorCapAssumption == ErrorCap \in Nat \ {0}

SlotStatus == {"unknown", "available", "sold_out"}
Reasons == {"initial_available", "became_available", "remaining_increased",
            "error_threshold_reached"}
NoReason == "none"

SlotRecords(fingerprints) ==
  [status : SlotStatus \cup {"absent"},
   remaining : Nat \cup {None},
   last_notified_remaining : Nat \cup {None},
   consecutive_errors : Nat,
   error_alert_sent : BOOLEAN,
   fingerprint : fingerprints \cup {None}]

NoSlot == [status |-> "absent", remaining |-> None,
           last_notified_remaining |-> None, consecutive_errors |-> 0,
           error_alert_sent |-> FALSE, fingerprint |-> None]

IsMissing(slot) == slot.status = "absent"

-----------------------------------------------------------------------------
(* Observations.  A session that is not on sale cannot be booked however   *)
(* many seats it has left, an overbooked one has none left, and a Yanolja  *)
(* option is only ever on sale or not.                                     *)

\* Mutant: the difference is not clipped at zero.
ScheduleRemainingUnclipped(stock, booked, saleEnabled) ==
  IF saleEnabled THEN stock - booked ELSE 0

ScheduleRemaining(stock, booked, saleEnabled) ==
  IF saleEnabled /\ stock > booked THEN stock - booked ELSE 0

VariantRemaining(onSale) == IF onSale THEN 1 ELSE 0

-----------------------------------------------------------------------------
(* Updating a slot.                                                        *)

\* Mutant: a good reading does not rearm the failure alert.
RecordSuccessKeepsAlert(previous, remaining, threshold) ==
  [previous EXCEPT !.status = IF remaining >= threshold THEN "available" ELSE "sold_out",
                   !.remaining = remaining,
                   !.consecutive_errors = 0]

RecordSuccess(previous, remaining, threshold) ==
  [previous EXCEPT !.status = IF remaining >= threshold THEN "available" ELSE "sold_out",
                   !.remaining = remaining,
                   !.consecutive_errors = 0,
                   !.error_alert_sent = FALSE]

\* Saturates at ErrorCap: the count is only compared with a threshold below it.
RecordError(previous) ==
  LET failures == previous.consecutive_errors + 1 IN
  [previous EXCEPT !.status = IF IsMissing(previous) THEN "unknown" ELSE previous.status,
                   !.consecutive_errors = IF failures > ErrorCap THEN ErrorCap ELSE failures]

MarkNotified(slot) == [slot EXCEPT !.last_notified_remaining = slot.remaining]
MarkErrorAlertSent(slot) == [slot EXCEPT !.error_alert_sent = TRUE]
\* Mutant: the amount of the previous opening stays.
MarkSendFailedKeepsAmount(slot) == slot
MarkSendFailed(slot) == [slot EXCEPT !.last_notified_remaining = None]

-----------------------------------------------------------------------------
(* Deciding whether to notify.                                             *)

InitialAvailable(previous, state) ==
  state.status = "available" /\ IsMissing(previous)

\* Mutant: an unconfirmed notification is not tried again.
BecameAvailableOnce(previous, state) ==
  /\ state.status = "available"
  /\ ~IsMissing(previous)
  /\ previous.status # "available"

\* Reopened, or an earlier notification of this opening was never confirmed.
BecameAvailable(previous, state) ==
  /\ state.status = "available"
  /\ ~IsMissing(previous)
  /\ \/ previous.status # "available"
     \/ previous.last_notified_remaining = None

\* Mutant: compares with the last reading instead of the last notification.
IncreasedSinceReading(previous, state) ==
  /\ state.status = "available"
  /\ previous.status = "available"
  /\ previous.last_notified_remaining # None
  /\ state.remaining > previous.remaining

RemainingIncreased(previous, state) ==
  /\ state.status = "available"
  /\ previous.status = "available"
  /\ previous.last_notified_remaining # None
  /\ state.remaining > previous.last_notified_remaining

NotificationReason(previous, state, notifyInitial, notifyIncrease) ==
  CASE InitialAvailable(previous, state) /\ notifyInitial -> "initial_available"
    [] BecameAvailable(previous, state) -> "became_available"
    [] RemainingIncreased(previous, state) /\ notifyIncrease -> "remaining_increased"
    [] OTHER -> NoReason

\* An initial opening that the settings silence counts as notified, so that
\* the next pass does not take it for an unconfirmed notification.
EvaluateSlot(previous, remaining, threshold, notifyInitial, notifyIncrease) ==
  LET state == RecordSuccess(previous, remaining, threshold)
      reason == NotificationReason(previous, state, notifyInitial, notifyIncrease)
      silenced == reason = NoReason /\ InitialAvailable(previous, state)
  IN  [state |-> IF silenced THEN MarkNotified(state) ELSE state, reason |-> reason]

\* Mutant: alerts only at the very failure that reaches the threshold.
EvaluateErrorOnce(previous, alertThreshold) ==
  LET state == RecordError(previous)
      reached == state.consecutive_errors = alertThreshold /\ ~state.error_alert_sent
  IN  [state |-> state, reason |-> IF reached THEN "error_threshold_reached" ELSE NoReason]

EvaluateError(previous, alertThreshold) ==
  LET state == RecordError(previous)
      reached == state.consecutive_errors >= alertThreshold /\ ~state.error_alert_sent
  IN  [state |-> state, reason |-> IF reached THEN "error_threshold_reached" ELSE NoReason]
=============================================================================
