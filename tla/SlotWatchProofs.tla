--------------------------- MODULE SlotWatchProofs ---------------------------
(***************************************************************************)
(* Theorems about SlotWatch, for every set of targets, monitors and        *)
(* products, every threshold and every setting.                            *)
(***************************************************************************)
EXTENDS SlotWatch, TLAPS

Records == SlotRecords(Products)

\* What ties a slot to what the user was told, in memory as in the file.
Agree(slot, ear, t) ==
  /\ IsMissing(slot) \/ slot.fingerprint = None => slot = NoSlot
  /\ slot.fingerprint = ear.product
  /\ ear.opening # None =>
       slot.status = "available" /\ slot.last_notified_remaining = ear.opening
  /\ Recorded(slot) =>
       \/ ear.opening = slot.last_notified_remaining
       \/ ~NotifyInitial[MonitorOf[t]] /\ ear.opening = None
  /\ slot.error_alert_sent <=> ear.failing

MemoryAgrees == \A t \in Targets : Agree(slots[t], heard[t], t)
FileAgrees == \A t \in Targets : Agree(file[t], heardSaved[t], t)

\* Between the notifier's answer and its record, the notification that was
\* sent is still the one the observation calls for.
Sending ==
  /\ pc = "sent" => current \in batch /\ Verdict(current).reason # NoReason
  /\ acked => pc = "sent"

IInv ==
  TypeOK /\ MemoryAgrees /\ FileAgrees /\ ConfirmedIsDurable /\ PassIsDurable /\ Sending

USE DEF Records

-----------------------------------------------------------------------------
(* Lemmas about the operators.                                             *)

\* Every reading of a provider is a number of seats, never negative.
LEMMA ReadingsAreNat == \A t : Readings(t) \subseteq Nat
  BY SettingsAssumption DEF Readings, VariantRemaining, ScheduleRemaining

\* The slot an observation is judged against is a slot state.
LEMMA PreviousType ==
  ASSUME TypeOK, NEW t \in Targets
  PROVE  Previous(t) \in Records
  BY DEF TypeOK, Previous, NoSlot, SlotRecords, SlotStatus

\* Judging an observation yields a slot state.
LEMMA VerdictType ==
  ASSUME TypeOK, NEW t \in Targets
  PROVE  Verdict(t).state \in Records
<1> DEFINE previous == Previous(t)
<1>1. previous \in Records BY PreviousType
<1>2. MonitorOf[t] \in Monitors BY TargetsAssumption
<1>3. ErrorCap \in Nat BY ErrorCapAssumption
<1> HIDE DEF previous
<1>4. CASE seen[t] = None
  <2> DEFINE failures == previous.consecutive_errors + 1
             count == IF failures > ErrorCap THEN ErrorCap ELSE failures
             status == IF IsMissing(previous) THEN "unknown" ELSE previous.status
  <2>a. count \in Nat BY <1>1, <1>3 DEF SlotRecords
  <2>b. status \in SlotStatus \cup {"absent"} BY <1>1 DEF SlotRecords, SlotStatus
  <2>c. RecordError(previous) =
          [previous EXCEPT !.status = status, !.consecutive_errors = count]
    BY DEF RecordError
  <2> HIDE DEF count, status
  <2>1. RecordError(previous) \in Records
    BY <1>1, <2>a, <2>b, <2>c DEF SlotRecords
  <2>2. Verdict(t).state = RecordError(previous)
    BY <1>4 DEF Verdict, EvaluateError, previous
  <2> QED BY <2>1, <2>2
<1>5. CASE seen[t] # None
  <2> DEFINE good == RecordSuccess(previous, seen[t], Threshold[MonitorOf[t]])
  <2>1. seen[t] \in Nat BY <1>5 DEF TypeOK
  <2>2. good \in Records
    BY <1>1, <2>1 DEF RecordSuccess, SlotRecords, SlotStatus
  <2> HIDE DEF good
  <2>3. MarkNotified(good) \in Records
    BY <2>2 DEF MarkNotified, SlotRecords
  <2>4. Verdict(t).state \in {good, MarkNotified(good)}
    BY <1>5 DEF Verdict, EvaluateSlot, previous, good
  <2> QED BY <2>2, <2>3, <2>4
<1> QED BY <1>4, <1>5

\* So does storing what came of it.
LEMMA SettledType ==
  ASSUME TypeOK, NEW t \in Targets, NEW confirmed \in BOOLEAN
  PROVE  Settled(t, confirmed) \in Records
<1> DEFINE state == Verdict(t).state
<1>1. state \in Records BY VerdictType
<1> HIDE DEF state
<1>2. Settled(t, confirmed) \in
        {state, MarkErrorAlertSent(state), MarkNotified(state), MarkSendFailed(state)}
  BY DEF Settled, state
<1> QED
  BY <1>1, <1>2 DEF MarkErrorAlertSent, MarkNotified, MarkSendFailed, SlotRecords

\* After a failed reading the opening is as it was, unless nothing was known.
LEMMA SettledFailure ==
  ASSUME TypeOK, NEW t \in Targets, NEW confirmed \in BOOLEAN, seen[t] = None
  PROVE  /\ Settled(t, confirmed).status =
              IF IsMissing(Previous(t)) THEN "unknown" ELSE Previous(t).status
         /\ Settled(t, confirmed).last_notified_remaining =
              Previous(t).last_notified_remaining
         /\ Settled(t, confirmed).error_alert_sent =
              (Previous(t).error_alert_sent \/ confirmed)
<1> DEFINE failed == RecordError(Previous(t))
<1>1. /\ failed.status = IF IsMissing(Previous(t)) THEN "unknown" ELSE Previous(t).status
      /\ failed.last_notified_remaining = Previous(t).last_notified_remaining
      /\ failed.error_alert_sent = Previous(t).error_alert_sent
  BY PreviousType DEF RecordError, SlotRecords
<1>2. failed \in Records
  BY VerdictType DEF Verdict, EvaluateError
<1>3. Settled(t, confirmed) = IF confirmed THEN MarkErrorAlertSent(failed) ELSE failed
  BY DEF Settled, Verdict, EvaluateError, NoReason
<1> HIDE DEF failed
<1>4. Previous(t).error_alert_sent \in BOOLEAN
  BY PreviousType DEF SlotRecords
<1> QED BY <1>1, <1>2, <1>3, <1>4 DEF MarkErrorAlertSent, SlotRecords

\* After a good reading the opening follows from it; a notification is called
\* for by one of three reasons, and an opening is silenced only if it is initial.
LEMMA SettledReading ==
  ASSUME TypeOK, NEW t \in Targets, NEW confirmed \in BOOLEAN, seen[t] # None
  PROVE  LET previous == Previous(t)
             slot == Settled(t, confirmed)
             open == seen[t] >= Threshold[MonitorOf[t]]
             reason == Verdict(t).reason
         IN
         /\ slot.status = IF open THEN "available" ELSE "sold_out"
         /\ slot.error_alert_sent = FALSE
         /\ reason # NoReason => open
         /\ reason # NoReason /\ IsMissing(previous) => NotifyInitial[MonitorOf[t]]
         /\ open =>
              IF IsMissing(previous)
              THEN IF confirmed \/ reason = NoReason
                   THEN /\ slot.last_notified_remaining = seen[t]
                        /\ reason = NoReason => ~NotifyInitial[MonitorOf[t]]
                   ELSE slot.last_notified_remaining = previous.last_notified_remaining
              ELSE IF previous.status # "available" \/ previous.last_notified_remaining = None
              THEN /\ reason # NoReason
                   /\ slot.last_notified_remaining = IF confirmed THEN seen[t] ELSE None
              ELSE /\ reason # NoReason => seen[t] > previous.last_notified_remaining
                   /\ slot.last_notified_remaining =
                        IF confirmed THEN seen[t] ELSE previous.last_notified_remaining
<1> DEFINE previous == Previous(t)
           monitor == MonitorOf[t]
           open == seen[t] >= Threshold[monitor]
           good == RecordSuccess(previous, seen[t], Threshold[monitor])
<1>1. previous \in Records BY PreviousType
<1>2. seen[t] \in Nat BY DEF TypeOK
<1>3. monitor \in Monitors /\ NotifyInitial[monitor] \in BOOLEAN
  BY TargetsAssumption, SettingsAssumption
<1> HIDE DEF previous, monitor
<1>4. /\ good \in Records
      /\ good.status = IF open THEN "available" ELSE "sold_out"
      /\ good.remaining = seen[t]
      /\ good.last_notified_remaining = previous.last_notified_remaining
      /\ good.error_alert_sent = FALSE
  BY <1>1, <1>2 DEF good, RecordSuccess, SlotRecords, SlotStatus
<1> DEFINE reason == Verdict(t).reason
           silenced == reason = NoReason /\ InitialAvailable(previous, good)
           slot == Settled(t, confirmed)
<1>5. /\ Verdict(t).state = IF silenced THEN MarkNotified(good) ELSE good
      /\ reason = NotificationReason(previous, good, NotifyInitial[monitor],
                                     NotifyIncrease[monitor])
  BY DEF Verdict, EvaluateSlot, previous, monitor
<1>6. slot = IF confirmed THEN MarkNotified(Verdict(t).state)
             ELSE IF reason = "became_available" THEN MarkSendFailed(Verdict(t).state)
             ELSE Verdict(t).state
  BY DEF Settled
<1> HIDE DEF reason, slot
<1> HIDE DEF good
<1>7. silenced => reason # "became_available" BY DEF NoReason
<1>8. /\ slot.status = good.status
      /\ slot.error_alert_sent = FALSE
      /\ slot.last_notified_remaining =
           IF confirmed \/ silenced THEN seen[t]
           ELSE IF reason = "became_available" THEN None
           ELSE previous.last_notified_remaining
  BY <1>5, <1>6, <1>4, <1>7 DEF MarkNotified, MarkSendFailed, SlotRecords
<1>9. /\ InitialAvailable(previous, good) <=> open /\ IsMissing(previous)
      /\ BecameAvailable(previous, good) <=>
           /\ open /\ ~IsMissing(previous)
           /\ previous.status # "available" \/ previous.last_notified_remaining = None
      /\ RemainingIncreased(previous, good) =>
           /\ open /\ ~IsMissing(previous)
           /\ previous.status = "available" /\ previous.last_notified_remaining # None
           /\ seen[t] > previous.last_notified_remaining
  BY <1>4 DEF InitialAvailable, BecameAvailable, RemainingIncreased, IsMissing
<1>10. /\ reason = "initial_available" <=>
            InitialAvailable(previous, good) /\ NotifyInitial[monitor]
       /\ reason = "became_available" <=> BecameAvailable(previous, good)
       /\ reason = "remaining_increased" => RemainingIncreased(previous, good)
       /\ reason \in {"initial_available", "became_available", "remaining_increased", NoReason}
  BY <1>3, <1>5, <1>9 DEF NotificationReason, NoReason
<1> HIDE DEF open
<1>11. /\ slot.status = IF open THEN "available" ELSE "sold_out"
       /\ slot.error_alert_sent = FALSE
       /\ reason # NoReason => open
       /\ reason # NoReason /\ IsMissing(previous) => NotifyInitial[monitor]
  BY <1>4, <1>8, <1>9, <1>10
<1>12. ASSUME open, IsMissing(previous)
       PROVE  IF confirmed \/ reason = NoReason
              THEN /\ slot.last_notified_remaining = seen[t]
                   /\ reason = NoReason => ~NotifyInitial[monitor]
              ELSE slot.last_notified_remaining = previous.last_notified_remaining
  BY <1>8, <1>9, <1>10, <1>12 DEF NoReason
<1>13. ASSUME open, ~IsMissing(previous),
              previous.status # "available" \/ previous.last_notified_remaining = None
       PROVE  /\ reason # NoReason
              /\ slot.last_notified_remaining = IF confirmed THEN seen[t] ELSE None
  BY <1>8, <1>9, <1>10, <1>13 DEF NoReason
<1>14. ASSUME open, ~IsMissing(previous),
              previous.status = "available", previous.last_notified_remaining # None
       PROVE  /\ reason # NoReason => seen[t] > previous.last_notified_remaining
              /\ slot.last_notified_remaining =
                   IF confirmed THEN seen[t] ELSE previous.last_notified_remaining
  BY <1>8, <1>9, <1>10, <1>14 DEF NoReason
<1> QED BY <1>11, <1>12, <1>13, <1>14 DEF previous, monitor, reason, slot, open

\* Memory and history stay well typed.
LEMMA SettleType ==
  ASSUME TypeOK, NEW t \in Targets, NEW confirmed \in BOOLEAN
  PROVE  /\ Stored(t, Settled(t, confirmed)) \in [Targets -> Records]
         /\ Heard(t, confirmed) \in [Targets -> Hearing]
<1>1. Settled(t, confirmed) \in Records BY SettledType
<1>2. Fingerprint(t) \in Products
  BY TargetsAssumption DEF TypeOK, Fingerprint
<1>3. Stored(t, Settled(t, confirmed)) \in [Targets -> Records]
  BY <1>1, <1>2 DEF Stored, TypeOK, SlotRecords
<1>4. HeardAbout(t) \in Hearing
  BY <1>2 DEF HeardAbout, TypeOK, Hearing
<1>5. seen[t] \in Nat \cup {None} BY DEF TypeOK
<1>6. Heard(t, confirmed) \in [Targets -> Hearing]
  BY <1>4, <1>5 DEF Heard, TypeOK, Hearing
<1> QED BY <1>3, <1>6

\* The history of the current product is the slot's own, or empty.
LEMMA PreviousAgrees ==
  ASSUME TypeOK, MemoryAgrees, NEW t \in Targets
  PROVE  /\ IsMissing(Previous(t)) => Previous(t) = NoSlot
         /\ HeardAbout(t).opening # None =>
              /\ Previous(t).status = "available"
              /\ Previous(t).last_notified_remaining = HeardAbout(t).opening
         /\ Recorded(Previous(t)) =>
              \/ HeardAbout(t).opening = Previous(t).last_notified_remaining
              \/ ~NotifyInitial[MonitorOf[t]] /\ HeardAbout(t).opening = None
         /\ Previous(t).error_alert_sent <=> HeardAbout(t).failing
<1>1. Fingerprint(t) # None BY TargetsAssumption DEF TypeOK, Fingerprint
<1>2. Agree(slots[t], heard[t], t) BY DEF MemoryAgrees
<1>3. CASE slots[t].fingerprint = Fingerprint(t)
  <2>1. Previous(t) = slots[t] /\ HeardAbout(t) = heard[t]
    BY <1>2, <1>3 DEF Previous, HeardAbout, Agree
  <2> QED BY <1>2, <2>1 DEF Agree
<1>4. CASE slots[t].fingerprint # Fingerprint(t)
  <2>1. Previous(t) = NoSlot
    BY <1>2, <1>4 DEF Previous, Agree
  <2>2. HeardAbout(t).opening = None /\ HeardAbout(t).failing = FALSE
    BY <1>2, <1>4 DEF HeardAbout, Agree
  <2> QED BY <2>1, <2>2 DEF NoSlot, Recorded
<1> QED BY <1>3, <1>4

\* Settling an observation, confirmed or not, keeps slot and history agreed.
LEMMA SettleAgrees ==
  ASSUME TypeOK, MemoryAgrees, NEW t \in Targets, NEW confirmed \in BOOLEAN
  PROVE  \A u \in Targets :
           Agree(Stored(t, Settled(t, confirmed))[u], Heard(t, confirmed)[u], u)
<1> DEFINE previous == Previous(t)
           before == HeardAbout(t)
           slot == Settled(t, confirmed)
           ear == Heard(t, confirmed)[t]
           stored == [slot EXCEPT !.fingerprint = Fingerprint(t)]
           monitor == MonitorOf[t]
<1>1. previous \in Records BY PreviousType
<1>2. before \in Hearing /\ before.product = Fingerprint(t)
  BY TargetsAssumption DEF HeardAbout, TypeOK, Hearing, Fingerprint
<1>3. slot \in Records BY SettledType
<1>4. Fingerprint(t) # None /\ Fingerprint(t) \in Products
  BY TargetsAssumption DEF TypeOK, Fingerprint
<1>5. seen[t] \in Nat \cup {None} BY DEF TypeOK
<1>6. /\ monitor \in Monitors
      /\ Threshold[monitor] \in Nat
      /\ NotifyInitial[monitor] \in BOOLEAN
  BY TargetsAssumption, SettingsAssumption
<1>7. /\ IsMissing(previous) => previous = NoSlot
      /\ before.opening # None =>
           previous.status = "available" /\ previous.last_notified_remaining = before.opening
      /\ Recorded(previous) =>
           \/ before.opening = previous.last_notified_remaining
           \/ ~NotifyInitial[monitor] /\ before.opening = None
      /\ previous.error_alert_sent <=> before.failing
  BY PreviousAgrees
<1> HIDE DEF previous, before, slot, monitor
<1>8. /\ ~IsMissing(slot)
      /\ ear.product = Fingerprint(t)
      /\ ear.opening # None =>
           slot.status = "available" /\ slot.last_notified_remaining = ear.opening
      /\ Recorded(slot) =>
           \/ ear.opening = slot.last_notified_remaining
           \/ ~NotifyInitial[monitor] /\ ear.opening = None
      /\ slot.error_alert_sent <=> ear.failing
  <2>1. CASE seen[t] = None
    <3>1. ear = [before EXCEPT !.failing = before.failing \/ confirmed]
      BY <2>1 DEF Heard, TypeOK, before
    <3>2. /\ slot.status = IF IsMissing(previous) THEN "unknown" ELSE previous.status
          /\ slot.last_notified_remaining = previous.last_notified_remaining
          /\ slot.error_alert_sent = (previous.error_alert_sent \/ confirmed)
      BY <2>1, SettledFailure DEF slot, previous
    <3>3. /\ ear.product = Fingerprint(t)
          /\ ear.opening = before.opening
          /\ ear.failing = (before.failing \/ confirmed)
      BY <1>2, <3>1 DEF Hearing
    <3> QED BY <1>7, <3>2, <3>3 DEF IsMissing, Recorded, NoSlot
  <2>2. CASE seen[t] # None
    <3> DEFINE reason == Verdict(t).reason
               open == seen[t] >= Threshold[monitor]
    <3>1. seen[t] \in Nat BY <1>5, <2>2
    <3>2. /\ ear.product = Fingerprint(t)
          /\ ear.failing = FALSE
          /\ ear.opening = IF ~open THEN None
                           ELSE IF confirmed THEN seen[t] ELSE before.opening
      BY <1>2, <1>6, <2>2, <3>1 DEF Heard, TypeOK, Hearing, before, monitor
    <3>3. /\ slot.status = IF open THEN "available" ELSE "sold_out"
          /\ slot.error_alert_sent = FALSE
          /\ open =>
               IF IsMissing(previous)
               THEN IF confirmed \/ reason = NoReason
                    THEN /\ slot.last_notified_remaining = seen[t]
                         /\ reason = NoReason => ~NotifyInitial[monitor]
                    ELSE slot.last_notified_remaining = previous.last_notified_remaining
               ELSE IF previous.status # "available" \/ previous.last_notified_remaining = None
               THEN slot.last_notified_remaining = IF confirmed THEN seen[t] ELSE None
               ELSE slot.last_notified_remaining =
                      IF confirmed THEN seen[t] ELSE previous.last_notified_remaining
      BY <2>2, SettledReading DEF slot, previous, monitor
    <3>4. IsMissing(previous) => previous.last_notified_remaining = None
      BY <1>7 DEF NoSlot
    <3>5. previous.status # "available" \/ previous.last_notified_remaining = None =>
            before.opening = None
      BY <1>7
    <3> HIDE DEF open, reason
    <3>6. CASE ~open
      BY <3>2, <3>3, <3>6 DEF IsMissing, Recorded
    <3>7. CASE open /\ confirmed
      BY <3>2, <3>3, <3>7 DEF IsMissing, Recorded
    <3>8. CASE open /\ ~confirmed /\ IsMissing(previous)
      BY <3>2, <3>3, <3>4, <3>5, <3>8 DEF IsMissing, Recorded
    <3>9. CASE open /\ ~confirmed /\ ~IsMissing(previous)
      BY <1>7, <3>2, <3>3, <3>5, <3>9 DEF IsMissing, Recorded
    <3> QED BY <3>6, <3>7, <3>8, <3>9
  <2> QED BY <2>1, <2>2
<1>9. Agree(stored, ear, t)
  <2>1. /\ stored.fingerprint = Fingerprint(t)
        /\ stored.status = slot.status
        /\ stored.last_notified_remaining = slot.last_notified_remaining
        /\ stored.error_alert_sent = slot.error_alert_sent
    BY <1>3 DEF SlotRecords
  <2> HIDE DEF stored, ear
  <2> QED BY <1>4, <1>8, <2>1 DEF Agree, IsMissing, Recorded, monitor
<1> HIDE DEF ear, stored
<1>10. ASSUME NEW u \in Targets
       PROVE  Agree(Stored(t, slot)[u], Heard(t, confirmed)[u], u)
  <2>1. CASE u = t
    BY <1>9, <2>1 DEF Stored, TypeOK, stored, ear
  <2>2. CASE u # t
    <3>1. Stored(t, slot)[u] = slots[u] BY <2>2 DEF Stored, TypeOK
    <3>2. Heard(t, confirmed)[u] = heard[u] BY <2>2 DEF Heard, TypeOK
    <3> QED BY <3>1, <3>2 DEF MemoryAgrees
  <2> QED BY <2>1, <2>2
<1> QED BY <1>10 DEF slot

\* An observation that calls for a notification is news to the user.
LEMMA VerdictIsNews ==
  ASSUME TypeOK, MemoryAgrees, NEW t \in Targets, Verdict(t).reason # NoReason
  PROVE  IF seen[t] = None
         THEN ~HeardAbout(t).failing
         ELSE HeardAbout(t).opening = None \/ seen[t] > HeardAbout(t).opening
<1> DEFINE previous == Previous(t)
<1>1. /\ HeardAbout(t).opening # None =>
           /\ previous.status = "available"
           /\ previous.last_notified_remaining = HeardAbout(t).opening
      /\ previous.error_alert_sent <=> HeardAbout(t).failing
  BY PreviousAgrees
<1>2. previous \in Records BY PreviousType
<1> HIDE DEF previous
<1>3. CASE seen[t] = None
  <2>1. ~RecordError(previous).error_alert_sent
    BY <1>3 DEF Verdict, EvaluateError, previous
  <2>2. RecordError(previous).error_alert_sent = previous.error_alert_sent
    BY <1>2 DEF RecordError, SlotRecords
  <2> QED BY <1>1, <1>3, <2>1, <2>2
<1>4. CASE seen[t] # None
  <2>1. \/ previous.status # "available"
        \/ previous.last_notified_remaining = None
        \/ seen[t] > previous.last_notified_remaining
    BY <1>4, SettledReading DEF previous, IsMissing
  <2> QED BY <1>1, <1>4, <2>1
<1> QED BY <1>3, <1>4

\* A reading of at least the threshold is notified as an increase, if that is
\* wanted and it is one.
LEMMA IncreaseIsNotified ==
  ASSUME NEW previous, NEW remaining, NEW threshold, NEW notifyInitial,
         previous \in Records, remaining \in Nat, remaining >= threshold,
         previous.status = "available", previous.last_notified_remaining # None,
         remaining > previous.last_notified_remaining
  PROVE  EvaluateSlot(previous, remaining, threshold, notifyInitial, TRUE).reason # NoReason
<1> DEFINE state == RecordSuccess(previous, remaining, threshold)
<1>1. /\ state.status = "available" /\ state.remaining = remaining
  BY DEF RecordSuccess, SlotRecords, SlotStatus
<1> HIDE DEF state
<1>2. RemainingIncreased(previous, state)
  BY <1>1 DEF RemainingIncreased
<1>3. NotificationReason(previous, state, notifyInitial, TRUE) # NoReason
  BY <1>2, Zenon DEF NotificationReason, NoReason
<1> QED
  BY <1>3 DEF EvaluateSlot, state

\* News to the user calls for a notification, whatever the stored state says.
LEMMA NewsIsNotified ==
  ASSUME TypeOK, MemoryAgrees, NEW t \in Targets, IsNews(t)
  PROVE  Verdict(t).reason # NoReason
<1> DEFINE previous == Previous(t)
           monitor == MonitorOf[t]
           told == HeardAbout(t).opening
<1>1. /\ told # None => previous.status = "available" /\ previous.last_notified_remaining = told
      /\ Recorded(previous) /\ told = None => ~NotifyInitial[monitor]
      /\ previous.error_alert_sent <=> HeardAbout(t).failing
  BY PreviousAgrees DEF Recorded
<1>2. previous \in Records
  BY PreviousType
<1>3. CASE seen[t] = None
  <2>1. ~HeardAbout(t).failing /\ previous.consecutive_errors + 1 >= ErrorAlertThreshold
    BY <1>3 DEF IsNews
  <2> HIDE DEF previous
  <2>2. /\ RecordError(previous).error_alert_sent = previous.error_alert_sent
        /\ RecordError(previous).consecutive_errors >= ErrorAlertThreshold
    BY <1>2, <2>1, SettingsAssumption, ErrorCapAssumption DEF RecordError, SlotRecords
  <2>3. EvaluateError(previous, ErrorAlertThreshold).reason = "error_threshold_reached"
    BY <1>1, <2>1, <2>2, Zenon DEF EvaluateError
  <2> QED
    BY <1>3, <2>3 DEF Verdict, previous, NoReason
<1>4. CASE seen[t] # None
  <2>1. /\ seen[t] \in Nat /\ seen[t] >= Threshold[monitor]
        /\ told = None => NotifyInitial[monitor] \/ previous.status = "sold_out"
        /\ told # None => NotifyIncrease[monitor] /\ seen[t] > told
    BY <1>4, Zenon DEF IsNews, TypeOK
  <2>2. CASE told = None
    <3>1. /\ IsMissing(previous) => Verdict(t).reason # NoReason \/ ~NotifyInitial[monitor]
          /\ ~IsMissing(previous) /\ (previous.status # "available" \/ previous.last_notified_remaining = None)
               => Verdict(t).reason # NoReason
      BY <1>4, <2>1, SettledReading
    <3> QED
      BY <1>1, <2>1, <2>2, <3>1 DEF Recorded, IsMissing
  <2>3. CASE told # None
    <3> HIDE DEF previous
    <3>1. NotifyIncrease[monitor] = TRUE
      BY <2>1, <2>3, TargetsAssumption, SettingsAssumption
    <3>2. EvaluateSlot(previous, seen[t], Threshold[monitor], NotifyInitial[monitor], TRUE).reason # NoReason
      BY <1>1, <1>2, <2>1, <2>3, IncreaseIsNotified
    <3> QED
      BY <1>4, <3>1, <3>2 DEF Verdict, previous
  <2> QED
    BY <2>2, <2>3
<1> QED
  BY <1>3, <1>4

\* Settling without a confirmation tells the user nothing that is not saved.
LEMMA SettleDurable ==
  ASSUME TypeOK, ConfirmedIsDurable, NEW t \in Targets
  PROVE  LET ear == Heard(t, FALSE) IN
         \A u \in Targets :
           /\ ear[u].opening # None =>
                /\ file[u].last_notified_remaining = ear[u].opening
                /\ file[u].fingerprint = ear[u].product
           /\ ear[u].failing =>
                file[u].error_alert_sent /\ file[u].fingerprint = ear[u].product
<1> DEFINE ear == Heard(t, FALSE)
           before == HeardAbout(t)
<1>1. before \in Hearing
  BY TargetsAssumption DEF HeardAbout, TypeOK, Hearing, Fingerprint
<1>2. /\ before.opening # None =>
           /\ file[t].last_notified_remaining = before.opening
           /\ file[t].fingerprint = before.product
      /\ before.failing =>
           file[t].error_alert_sent /\ file[t].fingerprint = before.product
  BY DEF ConfirmedIsDurable, HeardAbout
<1> HIDE DEF before
<1>3. /\ ear[t].product = before.product
      /\ ear[t].opening \in {None, before.opening}
      /\ ear[t].failing => before.failing
  <2>1. CASE seen[t] = None
    <3>1. ear[t] = [before EXCEPT !.failing = before.failing \/ FALSE]
      BY <2>1 DEF Heard, TypeOK, before
    <3> QED BY <1>1, <3>1 DEF Hearing
  <2>2. CASE seen[t] # None
    <3> DEFINE opening == CASE seen[t] < Threshold[MonitorOf[t]] -> None
                   [] seen[t] >= Threshold[MonitorOf[t]] /\ FALSE -> seen[t]
                   [] OTHER -> before.opening
    <3>1. ear[t] = [before EXCEPT !.failing = FALSE, !.opening = opening]
      BY <2>2 DEF Heard, TypeOK, before
    <3>2. opening \in {None, before.opening} OBVIOUS
    <3> HIDE DEF opening
    <3> QED BY <1>1, <3>1, <3>2 DEF Hearing
  <2> QED BY <2>1, <2>2
<1>4. \A u \in Targets \ {t} : ear[u] = heard[u]
  BY DEF Heard, TypeOK
<1> HIDE DEF ear
<1>5. ASSUME NEW u \in Targets
      PROVE  /\ ear[u].opening # None =>
                /\ file[u].last_notified_remaining = ear[u].opening
                /\ file[u].fingerprint = ear[u].product
             /\ ear[u].failing =>
                file[u].error_alert_sent /\ file[u].fingerprint = ear[u].product
  <2>1. CASE u = t BY <1>2, <1>3, <2>1
  <2>2. CASE u # t BY <1>4, <2>2 DEF ConfirmedIsDurable
  <2> QED BY <2>1, <2>2
<1> QED BY <1>5 DEF ear

\* What agrees and is saved together is durable.
LEMMA AgreedIsDurable ==
  ASSUME MemoryAgrees, file = slots
  PROVE  ConfirmedIsDurable
  BY DEF MemoryAgrees, Agree, ConfirmedIsDurable

-----------------------------------------------------------------------------
(* The invariant.                                                          *)

\* A watcher with no state has told nothing and masks nothing.
THEOREM Initially == Init => IInv
<1> SUFFICES ASSUME Init PROVE IInv OBVIOUS
<1>1. NoSlot \in Records
  BY ErrorCapAssumption DEF NoSlot, SlotRecords, SlotStatus
<1>2. TypeOK
  BY <1>1 DEF Init, TypeOK, Hearing
<1>3. MemoryAgrees
  BY DEF Init, MemoryAgrees, Agree, NoSlot, IsMissing, Recorded
<1>4. FileAgrees
  BY DEF Init, FileAgrees, Agree, NoSlot, IsMissing, Recorded
<1>5. ConfirmedIsDurable BY <1>3, AgreedIsDurable DEF Init
<1>6. PassIsDurable /\ Sending BY DEF Init, PassIsDurable, Sending
<1> QED BY <1>2, <1>3, <1>4, <1>5, <1>6 DEF IInv

\* Every step of the process, of a fault and of the environment keeps IInv.
THEOREM Preserved == IInv /\ [Next]_vars => IInv'
<1> SUFFICES ASSUME IInv, [Next]_vars PROVE IInv' OBVIOUS
<1>1. /\ TypeOK /\ MemoryAgrees /\ FileAgrees
      /\ ConfirmedIsDurable /\ PassIsDurable /\ Sending
  BY DEF IInv
<1>2. ASSUME UNCHANGED memory PROVE MemoryAgrees'
  BY <1>1, <1>2 DEF memory, MemoryAgrees
<1>3. ASSUME UNCHANGED disk PROVE FileAgrees'
  BY <1>1, <1>3 DEF disk, FileAgrees
<1>4. ASSUME UNCHANGED <<memory, disk>> PROVE ConfirmedIsDurable'
  BY <1>1, <1>4 DEF memory, disk, ConfirmedIsDurable
<1>5. ASSUME MemoryAgrees', Save PROVE FileAgrees' /\ ConfirmedIsDurable'
  BY <1>5 DEF Save, MemoryAgrees, FileAgrees, ConfirmedIsDurable, Agree
<1>6. ASSUME slots' = file, heard' = heardSaved, UNCHANGED disk
      PROVE  MemoryAgrees' /\ ConfirmedIsDurable'
  BY <1>1, <1>6 DEF disk, MemoryAgrees, FileAgrees, ConfirmedIsDurable, Agree
<1>7. CASE Start
  <2>1. TypeOK' BY <1>1, <1>7 DEF Start, TypeOK, disk, pass, delivery
  <2>2. MemoryAgrees' /\ ConfirmedIsDurable' BY <1>6, <1>7 DEF Start
  <2>3. FileAgrees' BY <1>3, <1>7 DEF Start
  <2>4. PassIsDurable' BY <1>7 DEF Start, disk, PassIsDurable
  <2>5. Sending' BY <1>1, <1>7 DEF Start, delivery, Sending
  <2> QED BY <2>1, <2>2, <2>3, <2>4, <2>5 DEF IInv
<1>8. CASE BeginPass
  <2>1. TypeOK' BY <1>1, <1>8 DEF BeginPass, TypeOK, memory, disk, delivery
  <2>2. MemoryAgrees' /\ FileAgrees' /\ ConfirmedIsDurable'
    BY <1>2, <1>3, <1>4, <1>8 DEF BeginPass
  <2>3. PassIsDurable' BY <1>8 DEF BeginPass, PassIsDurable
  <2>4. Sending' BY <1>1, <1>8 DEF BeginPass, delivery, Sending
  <2> QED BY <2>1, <2>2, <2>3, <2>4 DEF IInv
<1>9. CASE StopLoop
  <2>1. TypeOK' BY <1>1, <1>9 DEF StopLoop, Save, TypeOK, memory, pass, delivery
  <2>2. MemoryAgrees' BY <1>2, <1>9 DEF StopLoop
  <2>3. FileAgrees' /\ ConfirmedIsDurable' BY <1>5, <1>9, <2>2 DEF StopLoop
  <2>4. PassIsDurable' BY <1>9 DEF StopLoop, PassIsDurable
  <2>5. Sending' BY <1>1, <1>9 DEF StopLoop, delivery, Sending
  <2> QED BY <2>1, <2>2, <2>3, <2>4, <2>5 DEF IInv
<1>10. CASE SkipRest
  <2>1. TypeOK' BY <1>1, <1>10 DEF SkipRest, TypeOK, memory, disk, delivery
  <2>2. MemoryAgrees' /\ FileAgrees' /\ ConfirmedIsDurable'
    BY <1>2, <1>3, <1>4, <1>10 DEF SkipRest
  <2>3. PassIsDurable' BY <1>10 DEF SkipRest, PassIsDurable
  <2>4. Sending' BY <1>1, <1>10 DEF SkipRest, delivery, Sending
  <2> QED BY <2>1, <2>2, <2>3, <2>4 DEF IInv
<1>11. CASE Record
  <2> DEFINE t == current
  <2>1. t \in Targets /\ acked \in BOOLEAN
    <3>1. current \in batch BY <1>1, <1>11 DEF Record, Sending
    <3> QED BY <1>1, <3>1 DEF TypeOK
  <2>2. slots' = Stored(t, Settled(t, acked)) /\ heard' = Heard(t, acked)
    BY <1>11 DEF Record, Settle
  <2>3. slots' \in [Targets -> Records] /\ heard' \in [Targets -> Hearing]
    BY <1>1, <2>1, <2>2, SettleType
  <2>4. MemoryAgrees'
    <3>1. \A u \in Targets :
            Agree(Stored(t, Settled(t, acked))[u], Heard(t, acked)[u], u)
      BY <1>1, <2>1, SettleAgrees
    <3> QED BY <2>2, <3>1 DEF MemoryAgrees
  <2>5. CASE acked
    <3>1. Save BY <1>11, <2>5 DEF Record
    <3>2. TypeOK'
      BY <1>1, <1>11, <2>3, <3>1 DEF Record, Settle, Save, TypeOK
    <3>3. FileAgrees' /\ ConfirmedIsDurable' BY <1>5, <2>4, <3>1
    <3>4. PassIsDurable' /\ Sending' BY <1>11 DEF Record, PassIsDurable, Sending
    <3> QED BY <2>4, <3>2, <3>3, <3>4 DEF IInv
  <2>6. CASE ~acked
    <3>1. UNCHANGED disk BY <1>11, <2>6 DEF Record
    <3>2. TypeOK'
      BY <1>1, <1>11, <2>3, <3>1 DEF Record, Settle, disk, TypeOK
    <3>3. FileAgrees' BY <1>3, <3>1
    <3>4. acked = FALSE BY <2>1, <2>6
    <3>5. ConfirmedIsDurable'
      BY <1>1, <2>1, <2>2, <3>1, <3>4, SettleDurable DEF disk, ConfirmedIsDurable
    <3>6. PassIsDurable' /\ Sending' BY <1>11 DEF Record, PassIsDurable, Sending
    <3> QED BY <2>4, <3>2, <3>3, <3>5, <3>6 DEF IInv
  <2> QED BY <2>5, <2>6
<1>12. CASE Checkpoint
  <2>1. TypeOK' BY <1>1, <1>12 DEF Checkpoint, Save, TypeOK, memory, pass, delivery
  <2>2. MemoryAgrees' BY <1>2, <1>12 DEF Checkpoint
  <2>3. FileAgrees' /\ ConfirmedIsDurable' BY <1>5, <1>12, <2>2 DEF Checkpoint
  <2>4. PassIsDurable' BY <1>12 DEF Checkpoint, Save, PassIsDurable
  <2>5. Sending' BY <1>1, <1>12 DEF Checkpoint, delivery, Sending
  <2> QED BY <2>1, <2>2, <2>3, <2>4, <2>5 DEF IInv
<1>13. ASSUME NEW t \in Targets, Fetch(t) PROVE IInv'
  <2> DEFINE request == {u \in todo : SameRequest(t, u)}
  <2>1. TypeOK'
    <3>1. PICK answer \in [request -> (UNION {Readings(u) : u \in request}) \cup {None}] :
            /\ \A u \in request : answer[u] \in Readings(u) \cup {None}
            /\ seen' = [u \in Targets |-> IF u \in request THEN answer[u] ELSE None]
      BY <1>13 DEF Fetch
    <3>2. \A u \in request : answer[u] \in Nat \cup {None}
      BY <3>1, ReadingsAreNat
    <3> HIDE DEF request
    <3>3. seen' \in [Targets -> Nat \cup {None}] BY <3>1, <3>2
    <3>4. request \subseteq Targets /\ batch' = request /\ todo' \subseteq todo
      BY <1>1, <1>13 DEF Fetch, TypeOK, request
    <3> QED BY <1>1, <1>13, <3>3, <3>4 DEF Fetch, TypeOK, memory, disk, delivery
  <2>2. MemoryAgrees' /\ FileAgrees' /\ ConfirmedIsDurable'
    BY <1>2, <1>3, <1>4, <1>13 DEF Fetch
  <2>3. PassIsDurable' BY <1>13 DEF Fetch, PassIsDurable
  <2>4. Sending' BY <1>1, <1>13 DEF Fetch, delivery, Sending
  <2> QED BY <2>1, <2>2, <2>3, <2>4 DEF IInv
<1>14. ASSUME NEW t \in Targets, ApplyQuietly(t) PROVE IInv'
  <2>1. slots' = Stored(t, Settled(t, FALSE)) /\ heard' = Heard(t, FALSE)
    BY <1>14 DEF ApplyQuietly, Settle
  <2>2. slots' \in [Targets -> Records] /\ heard' \in [Targets -> Hearing]
    BY <1>1, <2>1, SettleType
  <2>3. TypeOK'
    BY <1>1, <1>14, <2>2 DEF ApplyQuietly, Settle, disk, delivery, TypeOK
  <2>4. MemoryAgrees'
    <3>1. \A u \in Targets :
            Agree(Stored(t, Settled(t, FALSE))[u], Heard(t, FALSE)[u], u)
      BY <1>1, SettleAgrees
    <3> QED BY <2>1, <3>1 DEF MemoryAgrees
  <2>5. UNCHANGED disk BY <1>14 DEF ApplyQuietly
  <2>6. FileAgrees' BY <1>3, <2>5
  <2>7. ConfirmedIsDurable'
    BY <1>1, <2>1, <2>5, SettleDurable DEF disk, ConfirmedIsDurable
  <2>8. PassIsDurable' BY <1>14 DEF ApplyQuietly, PassIsDurable
  <2>9. Sending' BY <1>1, <1>14 DEF ApplyQuietly, delivery, Sending
  <2> QED BY <2>3, <2>4, <2>6, <2>7, <2>8, <2>9 DEF IInv
<1>15. ASSUME NEW t \in Targets, NEW confirmed \in BOOLEAN, Send(t, confirmed)
       PROVE  IInv'
  <2>1. TypeOK' BY <1>1, <1>15 DEF Send, TypeOK, memory, disk, pass
  <2>2. MemoryAgrees' /\ FileAgrees' /\ ConfirmedIsDurable'
    BY <1>2, <1>3, <1>4, <1>15 DEF Send
  <2>3. PassIsDurable' BY <1>15 DEF Send, PassIsDurable
  <2>4. Verdict(current)' = Verdict(t)
    BY <1>15 DEF Send, memory, pass, Verdict, Previous, Fingerprint
  <2>5. Sending' BY <1>15, <2>4 DEF Send, pass, Sending
  <2> QED BY <2>1, <2>2, <2>3, <2>5 DEF IInv
<1>16. CASE UnexpectedError
  <2>1. TypeOK' BY <1>1, <1>16 DEF UnexpectedError, Save, TypeOK, memory
  <2>2. MemoryAgrees' BY <1>2, <1>16 DEF UnexpectedError
  <2>3. FileAgrees' /\ ConfirmedIsDurable' BY <1>5, <1>16, <2>2 DEF UnexpectedError
  <2>4. PassIsDurable' BY <1>16 DEF UnexpectedError, Save, PassIsDurable
  <2>5. Sending' BY <1>1, <1>16 DEF UnexpectedError, Sending
  <2> QED BY <2>1, <2>2, <2>3, <2>4, <2>5 DEF IInv
<1>17. CASE Crash
  <2>1. TypeOK' BY <1>1, <1>17 DEF Crash, TypeOK, disk
  <2>2. MemoryAgrees' /\ ConfirmedIsDurable' BY <1>6, <1>17 DEF Crash
  <2>3. FileAgrees' BY <1>3, <1>17 DEF Crash
  <2>4. PassIsDurable' /\ Sending' BY <1>17 DEF Crash, PassIsDurable, Sending
  <2> QED BY <2>1, <2>2, <2>3, <2>4 DEF IInv
<1>18. ASSUME NEW t \in Targets, Expire(t) PROVE IInv'
  <2>1. TypeOK' BY <1>1, <1>18 DEF Expire, TypeOK, memory, disk, pass, delivery
  <2>2. MemoryAgrees' /\ FileAgrees' /\ ConfirmedIsDurable'
    BY <1>2, <1>3, <1>4, <1>18 DEF Expire
  <2>3. PassIsDurable' BY <1>1, <1>18 DEF Expire, memory, disk, PassIsDurable
  <2>4. Sending' BY <1>1, <1>18 DEF Expire, delivery, Sending
  <2> QED BY <2>1, <2>2, <2>3, <2>4 DEF IInv
<1>19. CASE UNCHANGED vars
  <2>1. UNCHANGED <<memory, disk>> BY <1>19 DEF vars
  <2>2. TypeOK' BY <1>1, <1>19 DEF vars, TypeOK, memory, disk, pass, delivery
  <2>3. MemoryAgrees' /\ FileAgrees' /\ ConfirmedIsDurable' BY <1>2, <1>3, <1>4, <2>1
  <2>4. PassIsDurable' BY <1>1, <1>19 DEF vars, memory, disk, PassIsDurable
  <2>5. Verdict(current)' = Verdict(current)
    BY <1>19 DEF vars, memory, pass, delivery, Verdict, Previous, Fingerprint
  <2>6. Sending' BY <1>1, <1>19, <2>5 DEF vars, pass, delivery, Sending
  <2> QED BY <2>2, <2>3, <2>4, <2>6 DEF IInv
<1> QED
  BY <1>7, <1>8, <1>9, <1>10, <1>11, <1>12, <1>13, <1>14, <1>15, <1>16, <1>17, <1>18, <1>19
  DEF Next, Process, Elapse, NotifyAvailable, NotifyError

\* IInv holds in every reachable state.
THEOREM Invariance == Spec => []IInv
  BY Initially, Preserved, PTL DEF Spec

-----------------------------------------------------------------------------
(* What it gives.                                                          *)

\* Every variable keeps its type, in every instance.
THEOREM TypeCorrect == Spec => []TypeOK
<1>1. IInv => TypeOK BY DEF IInv
<1> QED BY <1>1, Invariance, PTL

\* The watcher never stays silent about an opening the user has not heard of,
\* except for the first openings its settings silence.
THEOREM NothingIsMasked == Spec => []NoMaskedOpening
<1>1. IInv => NoMaskedOpening
  BY DEF IInv, MemoryAgrees, Agree, About, HeardAbout, NoMaskedOpening
<1> QED BY <1>1, Invariance, PTL

\* A failure alert is on record only where the user has had it.
THEOREM NoFailureIsMasked == Spec => []NoMaskedFailure
<1>1. IInv => NoMaskedFailure
  BY DEF IInv, MemoryAgrees, Agree, About, HeardAbout, NoMaskedFailure
<1> QED BY <1>1, Invariance, PTL

\* No alert repeats what a confirmed one said, across restarts.
THEOREM NothingIsRepeated == Spec => []OnlyNews
<1>1. IInv => OnlyNews
  <2> SUFFICES ASSUME IInv, pc = "sent"
               PROVE  IF seen[current] = None
                      THEN ~HeardAbout(current).failing
                      ELSE \/ HeardAbout(current).opening = None
                           \/ seen[current] > HeardAbout(current).opening
    BY DEF OnlyNews
  <2>1. current \in Targets /\ Verdict(current).reason # NoReason
    BY DEF IInv, Sending, TypeOK
  <2> QED BY <2>1, VerdictIsNews DEF IInv
<1> QED BY <1>1, Invariance, PTL

\* Nothing that is news is passed over in silence.
THEOREM NewsIsNotPassedOver == Spec => []NewsIsSent
<1>1. IInv => NewsIsSent
  <2> SUFFICES ASSUME IInv, NEW t \in batch, IsNews(t)
               PROVE  Verdict(t).reason # NoReason
    BY DEF NewsIsSent
  <2>1. t \in Targets BY DEF IInv, TypeOK
  <2> QED BY <2>1, NewsIsNotified DEF IInv
<1> QED BY <1>1, Invariance, PTL

\* What was confirmed survives a kill.
THEOREM NothingIsLost == Spec => []ConfirmedIsDurable
<1>1. IInv => ConfirmedIsDurable BY DEF IInv
<1> QED BY <1>1, Invariance, PTL

\* What a pass has observed survives every kill after it.
THEOREM NoPassIsLost == Spec => []PassIsDurable
<1>1. IInv => PassIsDurable BY DEF IInv
<1> QED BY <1>1, Invariance, PTL

-----------------------------------------------------------------------------
(* SlotWatch implements OpeningAlerts: every step of the watcher is a step *)
(* of the promise or changes nothing it speaks of.  The argument is the    *)
(* inductive invariant above and, for the settling of one observation, the *)
(* reasons for a notification taken one by one.                            *)

SomeSeats == (1..Capacity) \cup {1}

\* An observation that was made counts no more seats than a session has.
SeenIsBounded == \A t \in Targets : seen[t] \in SomeSeats \cup {0, None}

\* The abstract variables under the mapping of SlotWatch.
Subject == [t \in Targets |-> Fingerprint(t)]
News == [t \in Targets |-> Opening(slots[t])]
Kept == [t \in Targets |-> Opening(file[t])]

-----------------------------------------------------------------------------
\* A reading is a number of seats a session or an option can have, or none.
LEMMA ReadingsAreBounded == \A t : Readings(t) \subseteq SomeSeats \cup {0}
  BY SettingsAssumption DEF Readings, VariantRemaining, ScheduleRemaining, SomeSeats

\* Fetching brings readings in, settling and dropping take them out.
LEMMA SeenStaysBounded ==
  ASSUME TypeOK, SeenIsBounded, [Next]_vars
  PROVE  SeenIsBounded'
<1>1. ASSUME UNCHANGED seen PROVE SeenIsBounded'
  BY <1>1 DEF SeenIsBounded
<1>2. ASSUME seen' = [t \in Targets |-> None] PROVE SeenIsBounded'
  BY <1>2 DEF SeenIsBounded
<1>3. ASSUME NEW t, seen' = [seen EXCEPT ![t] = None] PROVE SeenIsBounded'
  BY <1>3 DEF SeenIsBounded, TypeOK
<1>4. ASSUME NEW t \in Targets, Fetch(t) PROVE SeenIsBounded'
  <2> DEFINE request == {u \in todo : SameRequest(t, u)}
  <2>1. PICK answer \in [request -> (UNION {Readings(u) : u \in request}) \cup {None}] :
          /\ \A u \in request : answer[u] \in Readings(u) \cup {None}
          /\ seen' = [u \in Targets |-> IF u \in request THEN answer[u] ELSE None]
    BY <1>4 DEF Fetch
  <2>2. \A u \in request : answer[u] \in SomeSeats \cup {0, None}
    BY <2>1, ReadingsAreBounded
  <2> HIDE DEF request
  <2> QED BY <2>1, <2>2 DEF SeenIsBounded
<1>5. CASE Start \/ BeginPass \/ StopLoop \/ SkipRest \/ Checkpoint \/ UNCHANGED vars
  BY <1>1, <1>5 DEF Start, BeginPass, StopLoop, SkipRest, Checkpoint, vars, pass
<1>6. CASE UnexpectedError \/ Crash
  BY <1>2, <1>6 DEF UnexpectedError, Crash
<1>7. CASE Record
  BY <1>3, <1>7 DEF Record, Settle
<1>8. ASSUME NEW t \in Targets, ApplyQuietly(t) PROVE SeenIsBounded'
  BY <1>3, <1>8 DEF ApplyQuietly, Settle
<1>9. ASSUME NEW t \in Targets, NEW confirmed \in BOOLEAN, Send(t, confirmed)
      PROVE  SeenIsBounded'
  BY <1>1, <1>9 DEF Send, pass
<1>10. ASSUME NEW t \in Targets, Expire(t) PROVE SeenIsBounded'
  BY <1>1, <1>10 DEF Expire, pass
<1> QED
  BY <1>4, <1>5, <1>6, <1>7, <1>8, <1>9, <1>10
  DEF Next, Process, Elapse, NotifyAvailable, NotifyError

\* No observation ever exceeds the seats there are.
THEOREM ObservationsAreBounded == Spec => []SeenIsBounded
<1>1. Init => SeenIsBounded BY DEF Init, SeenIsBounded
<1>2. IInv /\ SeenIsBounded /\ [Next]_vars => SeenIsBounded'
  BY SeenStaysBounded DEF IInv
<1> QED BY <1>1, <1>2, Invariance, PTL DEF Spec

-----------------------------------------------------------------------------
\* What a slot without a predecessor of this product looks like from outside:
\* it is about something else.
LEMMA MissingIsForeign ==
  ASSUME TypeOK, MemoryAgrees, NEW t \in Targets
  PROVE  /\ IsMissing(Previous(t)) => Previous(t) = NoSlot /\ slots[t].fingerprint # Fingerprint(t)
         /\ ~IsMissing(Previous(t)) => Previous(t) = slots[t] /\ slots[t].fingerprint = Fingerprint(t)
<1>1. Fingerprint(t) # None BY TargetsAssumption DEF TypeOK, Fingerprint
<1>2. /\ IsMissing(slots[t]) => slots[t] = NoSlot
      /\ slots[t].fingerprint = None => slots[t] = NoSlot
  BY DEF MemoryAgrees, Agree
<1>3. NoSlot.fingerprint = None /\ IsMissing(NoSlot) BY DEF NoSlot, IsMissing
<1>4. CASE slots[t].fingerprint = Fingerprint(t)
  BY <1>1, <1>2, <1>3, <1>4 DEF Previous
<1>5. CASE slots[t].fingerprint # Fingerprint(t)
  BY <1>1, <1>2, <1>3, <1>5 DEF Previous
<1> QED BY <1>4, <1>5

-----------------------------------------------------------------------------
(* Settling one observation, told or not.                                  *)

Before(t) == Opening(slots[t])
After(t, confirmed) == Opening(Stored(t, Settled(t, confirmed))[t])

Closes(t, confirmed) == After(t, confirmed) = Abstract!ClosedFor(Fingerprint(t))

Hushes(t) == ~NotifyInitial[MonitorOf[t]] /\ Before(t).of # Fingerprint(t)

Owes(t, confirmed) ==
  /\ ~Hushes(t)
  /\ Before(t).of = Fingerprint(t) => Before(t).stage = "closed"
  /\ After(t, confirmed) = Abstract!OwedFor(Fingerprint(t))

Tells(t, confirmed) ==
  /\ confirmed /\ ~Hushes(t)
  /\ seen[t] \in SomeSeats
  /\ Before(t).of = Fingerprint(t) /\ Before(t).stage = "told" => seen[t] > Before(t).seats
  /\ After(t, confirmed) = Abstract!ToldFor(Fingerprint(t), seen[t])

Presumes(t, confirmed) ==
  /\ Hushes(t)
  /\ seen[t] \in SomeSeats
  /\ After(t, confirmed) = Abstract!ToldFor(Fingerprint(t), seen[t])

\* The opening it leaves is the one of before, or one the promise allows.
LEMMA SettleIsAllowed ==
  ASSUME TypeOK, MemoryAgrees, SeenIsBounded, NEW t \in Targets, NEW confirmed \in BOOLEAN,
         confirmed => Verdict(t).reason # NoReason
  PROVE  \/ After(t, confirmed) = Before(t)
         \/ Closes(t, confirmed)
         \/ Owes(t, confirmed)
         \/ Tells(t, confirmed)
         \/ Presumes(t, confirmed)
<1> DEFINE previous == Previous(t)
           slot == Settled(t, confirmed)
           reason == Verdict(t).reason
           monitor == MonitorOf[t]
           open == seen[t] >= Threshold[monitor]
<1>1. slot \in Records BY SettledType
<1>2. After(t, confirmed) =
        [of |-> Fingerprint(t),
         stage |-> CASE slot.status # "available" -> "closed"
                     [] slot.status = "available" /\ slot.last_notified_remaining = None -> "owed"
                     [] OTHER -> "told",
         seats |-> IF slot.status = "available" THEN slot.last_notified_remaining ELSE None]
  <2> DEFINE stored == [slot EXCEPT !.fingerprint = Fingerprint(t)]
  <2>1. Stored(t, slot)[t] = stored BY DEF Stored, TypeOK
  <2>2. /\ stored.fingerprint = Fingerprint(t)
        /\ stored.status = slot.status
        /\ stored.last_notified_remaining = slot.last_notified_remaining
    BY <1>1 DEF SlotRecords
  <2> HIDE DEF slot, stored
  <2> QED BY <2>1, <2>2 DEF After, Opening, slot
<1>3. /\ Before(t).of = slots[t].fingerprint
      /\ Before(t).stage = CASE slots[t].status # "available" -> "closed"
                     [] slots[t].status = "available" /\ slots[t].last_notified_remaining = None -> "owed"
                     [] OTHER -> "told"
      /\ Before(t).seats =
           IF slots[t].status = "available" THEN slots[t].last_notified_remaining ELSE None
      /\ Before(t) = [of |-> Before(t).of, stage |-> Before(t).stage, seats |-> Before(t).seats]
  BY DEF Before, Opening
<1>4. /\ IsMissing(previous) => previous = NoSlot /\ slots[t].fingerprint # Fingerprint(t)
      /\ ~IsMissing(previous) => previous = slots[t] /\ slots[t].fingerprint = Fingerprint(t)
  BY MissingIsForeign
<1>5. CASE seen[t] = None
  <2>1. /\ slot.status = IF IsMissing(previous) THEN "unknown" ELSE previous.status
        /\ slot.last_notified_remaining = previous.last_notified_remaining
    BY <1>5, SettledFailure
  <2> HIDE DEF previous, slot
  <2>2. CASE IsMissing(previous)
    BY <1>2, <2>1, <2>2 DEF Closes, Abstract!ClosedFor
  <2>3. CASE ~IsMissing(previous)
    BY <1>2, <1>3, <1>4, <2>1, <2>3
  <2> QED BY <2>2, <2>3
<1>6. CASE seen[t] # None
  <2>1. /\ slot.status = IF open THEN "available" ELSE "sold_out"
        /\ reason # NoReason => open
        /\ reason # NoReason /\ IsMissing(previous) => NotifyInitial[monitor]
        /\ open =>
             IF IsMissing(previous)
             THEN IF confirmed \/ reason = NoReason
                  THEN /\ slot.last_notified_remaining = seen[t]
                       /\ reason = NoReason => ~NotifyInitial[monitor]
                  ELSE slot.last_notified_remaining = previous.last_notified_remaining
             ELSE IF previous.status # "available" \/ previous.last_notified_remaining = None
             THEN /\ reason # NoReason
                  /\ slot.last_notified_remaining = IF confirmed THEN seen[t] ELSE None
             ELSE /\ reason # NoReason => seen[t] > previous.last_notified_remaining
                  /\ slot.last_notified_remaining =
                       IF confirmed THEN seen[t] ELSE previous.last_notified_remaining
    BY <1>6, SettledReading
  <2>2. open => seen[t] \in SomeSeats
    <3>1. Threshold[monitor] \in Nat \ {0} BY TargetsAssumption, SettingsAssumption
    <3>2. seen[t] \in Nat /\ seen[t] \in SomeSeats \cup {0}
      BY <1>6 DEF TypeOK, SeenIsBounded
    <3> QED BY <3>1, <3>2
  <2>3. confirmed => reason # NoReason OBVIOUS
  <2>4. IsMissing(previous) => previous.last_notified_remaining = None
    BY <1>4 DEF NoSlot
  <2> HIDE DEF previous, slot, reason, open
  <2>5. CASE ~open
    BY <1>2, <2>1, <2>5 DEF Closes, Abstract!ClosedFor
  <2>6. CASE open /\ confirmed
    <3>1. slot.status = "available" /\ slot.last_notified_remaining = seen[t]
      BY <2>1, <2>3, <2>6
    <3>2. After(t, confirmed) = Abstract!ToldFor(Fingerprint(t), seen[t])
      BY <1>2, <1>6, <3>1 DEF Abstract!ToldFor
    <3>3. Before(t).of = Fingerprint(t) /\ Before(t).stage = "told" => seen[t] > Before(t).seats
      BY <1>3, <1>4, <2>1, <2>3, <2>6
    <3>4. ~Hushes(t)
      BY <1>3, <1>4, <2>1, <2>3, <2>6 DEF Hushes, monitor
    <3> QED BY <2>2, <2>6, <3>2, <3>3, <3>4 DEF Tells
  <2>7. CASE open /\ ~confirmed /\ IsMissing(previous) /\ reason = NoReason
    <3>1. After(t, confirmed) = Abstract!ToldFor(Fingerprint(t), seen[t])
      BY <1>2, <1>6, <2>1, <2>7 DEF Abstract!ToldFor
    <3>2. Hushes(t)
      BY <1>3, <1>4, <2>1, <2>7 DEF Hushes, monitor
    <3> QED BY <2>2, <2>7, <3>1, <3>2 DEF Presumes
  <2>8. CASE open /\ ~confirmed /\ IsMissing(previous) /\ reason # NoReason
    <3>1. After(t, confirmed) = Abstract!OwedFor(Fingerprint(t))
      BY <1>2, <2>1, <2>4, <2>8 DEF Abstract!OwedFor
    <3>2. ~Hushes(t)
      BY <2>1, <2>8 DEF Hushes, monitor
    <3> QED BY <1>3, <1>4, <2>8, <3>1, <3>2 DEF Owes
  <2>9. CASE open /\ ~confirmed /\ ~IsMissing(previous)
    <3>0. ~Hushes(t)
      BY <1>3, <1>4, <2>9 DEF Hushes
    <3>1. CASE previous.status # "available"
      <4>1. After(t, confirmed) = Abstract!OwedFor(Fingerprint(t))
        BY <1>2, <2>1, <2>9, <3>1 DEF Abstract!OwedFor
      <4> QED BY <1>3, <1>4, <2>9, <3>0, <3>1, <4>1 DEF Owes
    <3>2. CASE previous.status = "available"
      BY <1>2, <1>3, <1>4, <2>1, <2>9, <3>2
    <3> QED BY <3>1, <3>2
  <2> QED BY <2>5, <2>6, <2>7, <2>8, <2>9
<1> QED BY <1>5, <1>6

-----------------------------------------------------------------------------
(* The refinement.                                                         *)

\* Settling an observation is one step of the promise about its target.
LEMMA SettleRefines ==
  ASSUME TypeOK, MemoryAgrees, SeenIsBounded, NEW t \in Targets, NEW confirmed \in BOOLEAN,
         confirmed => Verdict(t).reason # NoReason,
         slots' = Stored(t, Settled(t, confirmed)),
         UNCHANGED product,
         IF confirmed THEN file' = slots' ELSE UNCHANGED file
  PROVE  [Abstract!Next]_(Abstract!vars)
<1>1. /\ Subject[t] = Fingerprint(t) /\ Subject' = Subject
      /\ News[t] = Before(t)
      /\ NotifyInitial[MonitorOf[t]] \in BOOLEAN
  BY TargetsAssumption, SettingsAssumption DEF Subject, News, Before, Fingerprint
<1>2. News' = [News EXCEPT ![t] = After(t, confirmed)]
  <2>1. \A u \in Targets \ {t} : slots'[u] = slots[u] BY DEF Stored, TypeOK
  <2>2. Opening(slots'[t]) = After(t, confirmed) BY DEF After
  <2>3. News' = [u \in Targets |-> Opening(slots'[u])] BY DEF News
  <2> QED BY <2>1, <2>2, <2>3 DEF News
<1>3. Kept' = IF confirmed THEN News' ELSE Kept
  BY DEF Kept, News
<1>4. Abstract!Known(t) =
        IF Before(t).of = Fingerprint(t) THEN Before(t) ELSE Abstract!ClosedFor(Fingerprint(t))
  BY <1>1 DEF Abstract!Known, Subject, News
<1>5. Abstract!MayKeep
  BY <1>1, <1>3 DEF Abstract!MayKeep, Subject, News, Kept
<1>11. Abstract!Hushed(t) <=> Hushes(t)
  BY <1>1 DEF Abstract!Hushed, Hushes, Subject, News
<1>6. CASE After(t, confirmed) = Before(t)
  <2>1. News' = News BY <1>1, <1>2, <1>6 DEF News
  <2>2. CASE confirmed
    <3>1. Abstract!Keep
      BY <1>1, <1>3, <2>1, <2>2 DEF Abstract!Keep, Subject, News, Kept
    <3> QED BY <3>1 DEF Abstract!Next
  <2>3. CASE ~confirmed
    BY <1>1, <1>3, <2>1, <2>3 DEF Abstract!vars, Subject, News, Kept
  <2> QED BY <2>2, <2>3
<1>7. CASE Closes(t, confirmed)
  <2>1. Abstract!Close(t)
    BY <1>1, <1>2, <1>5, <1>7 DEF Closes, Abstract!Close, Subject, News
  <2> QED BY <2>1 DEF Abstract!Next
<1>8. CASE Owes(t, confirmed)
  <2>1. Abstract!Known(t).stage = "closed"
    BY <1>4, <1>8 DEF Owes, Abstract!ClosedFor
  <2>2. Abstract!Owe(t)
    BY <1>1, <1>2, <1>5, <1>8, <1>11, <2>1 DEF Owes, Abstract!Owe, Subject, News
  <2> QED BY <2>2 DEF Abstract!Next
<1>9. CASE Tells(t, confirmed)
  <2>1. Abstract!Known(t).stage = "told" => seen[t] > Abstract!Known(t).seats
    BY <1>4, <1>9 DEF Tells, Abstract!ClosedFor
  <2>2. Abstract!Tell(t, seen[t])
    BY <1>1, <1>2, <1>3, <1>9, <1>11, <2>1 DEF Tells, Abstract!Tell, Subject, News, Kept
  <2> QED BY <1>9, <2>2 DEF Tells, SomeSeats, Abstract!Next
<1>10. CASE Presumes(t, confirmed)
  <2>1. Abstract!Presume(t, seen[t])
    BY <1>1, <1>2, <1>5, <1>10, <1>11 DEF Presumes, Abstract!Presume, Subject, News
  <2> QED BY <1>10, <2>1 DEF Presumes, SomeSeats, Abstract!Next
<1> QED BY <1>6, <1>7, <1>8, <1>9, <1>10, SettleIsAllowed

\* A first run without a file knows of no opening.
LEMMA RefinesInit == Init => Abstract!Init
<1> SUFFICES ASSUME Init PROVE Abstract!Init OBVIOUS
<1>1. \A t \in Targets : Fingerprint(t) \in Products
  BY TargetsAssumption DEF Init, Fingerprint
<1>2. Opening(NoSlot) = Abstract!ClosedFor(None)
  BY DEF Opening, NoSlot, Abstract!ClosedFor
<1>3. \A t \in Targets : slots[t] = NoSlot /\ file[t] = NoSlot BY DEF Init
<1> QED BY <1>1, <1>2, <1>3 DEF Abstract!Init

\* Every step of the watcher is a step of the promise, or none.
LEMMA RefinesStep ==
  IInv /\ SeenIsBounded /\ [Next]_vars => [Abstract!Next]_(Abstract!vars)
<1> SUFFICES ASSUME IInv, SeenIsBounded, [Next]_vars PROVE [Abstract!Next]_(Abstract!vars)
  OBVIOUS
<1>1. TypeOK /\ MemoryAgrees /\ Sending BY DEF IInv
<1>2. ASSUME UNCHANGED <<product, slots, file>> PROVE UNCHANGED Abstract!vars
  BY <1>2 DEF Abstract!vars, Fingerprint
<1>3. ASSUME UNCHANGED <<product, slots>>, file' = slots' PROVE Abstract!Keep
  BY <1>3 DEF Abstract!Keep, Fingerprint
<1>4. CASE Start
  <2>1. [t \in Targets |-> Fingerprint(t)]' \in [Targets -> Products]
    BY <1>4, TargetsAssumption DEF Start, Fingerprint
  <2>2. Abstract!Retarget
    BY <1>4, <2>1 DEF Start, disk, Abstract!Retarget
  <2> QED BY <2>2 DEF Abstract!Next
<1>5. CASE Crash
  <2>1. Abstract!Forget
    BY <1>5 DEF Crash, disk, Abstract!Forget, Fingerprint
  <2> QED BY <2>1 DEF Abstract!Next
<1>6. CASE StopLoop \/ Checkpoint \/ UnexpectedError
  <2>1. Abstract!Keep
    BY <1>3, <1>6 DEF StopLoop, Checkpoint, UnexpectedError, Save, memory
  <2> QED BY <2>1 DEF Abstract!Next
<1>7. CASE BeginPass \/ SkipRest \/ UNCHANGED vars
  BY <1>2, <1>7 DEF BeginPass, SkipRest, vars, memory, disk
<1>8. ASSUME NEW t \in Targets, NEW confirmed \in BOOLEAN,
             Fetch(t) \/ Send(t, confirmed) \/ Expire(t)
      PROVE  UNCHANGED Abstract!vars
  BY <1>2, <1>8 DEF Fetch, Send, Expire, memory, disk
<1>9. CASE Record
  <2>1. /\ current \in Targets /\ acked \in BOOLEAN
        /\ Verdict(current).reason # NoReason
    BY <1>1, <1>9 DEF Record, Sending, TypeOK
  <2>2. /\ slots' = Stored(current, Settled(current, acked))
        /\ UNCHANGED product
        /\ IF acked THEN file' = slots' ELSE UNCHANGED file
    BY <1>9 DEF Record, Settle, Save, disk
  <2> QED BY <1>1, <2>1, <2>2, SettleRefines
<1>10. ASSUME NEW t \in Targets, ApplyQuietly(t) PROVE [Abstract!Next]_(Abstract!vars)
  <2>1. /\ slots' = Stored(t, Settled(t, FALSE))
        /\ UNCHANGED <<product, file>>
    BY <1>10 DEF ApplyQuietly, Settle, disk
  <2> QED BY <1>1, <2>1, SettleRefines
<1> QED
  BY <1>4, <1>5, <1>6, <1>7, <1>8, <1>9, <1>10
  DEF Next, Process, Elapse, NotifyAvailable, NotifyError

\* The watcher keeps the promise: an opening counts as told only by a step that
\* told it and had it on record, told once at a number of seats and again only
\* at more, and nothing else makes the watcher silent about it but the silence
\* its settings ask for.
THEOREM PromiseIsKept == Spec => ImplementsOpeningAlerts
<1>1. IInv /\ SeenIsBounded /\ [Next]_vars => [Abstract!Next]_(Abstract!vars)
  BY RefinesStep
<1> QED
  BY <1>1, RefinesInit, Invariance, ObservationsAreBounded, PTL
  DEF Spec, ImplementsOpeningAlerts, Abstract!Spec
=============================================================================
