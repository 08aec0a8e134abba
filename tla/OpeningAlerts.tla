---------------------------- MODULE OpeningAlerts ----------------------------
(***************************************************************************)
(* What the watcher promises about openings, without requests, batches,    *)
(* error counts or saves of anything else: for each target, what is known  *)
(* of the current opening of the product it watches.  An opening is        *)
(* "closed", "owed" (open, nobody told) or "told" with a number of seats.   *)
(* `news` is what the process knows, `kept` what survives it.              *)
(***************************************************************************)
EXTENDS Naturals

CONSTANTS
  Targets,
  Subjects,   \* what a target may be about
  Seats,      \* the numbers of seats an opening can have
  Quiet,      \* targets whose first opening is to be taken as told
  None

VARIABLES subject, news, kept
vars == <<subject, news, kept>>

Openings(subjects) ==
  [of : subjects \cup {None}, stage : {"closed", "owed", "told"}, seats : Nat \cup {None}]

ClosedFor(s) == [of |-> s, stage |-> "closed", seats |-> None]
OwedFor(s) == [of |-> s, stage |-> "owed", seats |-> None]
ToldFor(s, n) == [of |-> s, stage |-> "told", seats |-> n]

\* What is known of another subject says nothing of this one.
Known(t) == IF news[t].of = subject[t] THEN news[t] ELSE ClosedFor(subject[t])

Init ==
  /\ subject \in [Targets -> Subjects]
  /\ news = [t \in Targets |-> ClosedFor(None)]
  /\ kept = news

\* Anything but telling may be put on record at once, or later, or be lost.
MayKeep == kept' \in {kept, news'} /\ UNCHANGED subject

Close(t) ==
  /\ news' = [news EXCEPT ![t] = ClosedFor(subject[t])]
  /\ MayKeep

\* What is open from the start is not to be told: the settings ask for silence.
Hushed(t) == t \in Quiet /\ news[t].of # subject[t]

\* It opened, and nobody could be told.
Owe(t) ==
  /\ Known(t).stage = "closed" /\ ~Hushed(t)
  /\ news' = [news EXCEPT ![t] = OwedFor(subject[t])]
  /\ MayKeep

\* The user is told, for the first time in this opening or of more seats, and
\* it is on record before anything else happens.
Tell(t, n) ==
  /\ ~Hushed(t)
  /\ Known(t).stage = "told" => n > Known(t).seats
  /\ news' = [news EXCEPT ![t] = ToldFor(subject[t], n)]
  /\ kept' = news'
  /\ UNCHANGED subject

\* Silence about it now, and as long as it is open with no more seats.
Presume(t, n) ==
  /\ Hushed(t)
  /\ news' = [news EXCEPT ![t] = ToldFor(subject[t], n)]
  /\ MayKeep

Keep == kept' = news /\ UNCHANGED <<subject, news>>

Forget == news' = kept /\ UNCHANGED <<subject, kept>>

\* A new run may be about something else.
Retarget ==
  /\ subject' \in [Targets -> Subjects]
  /\ news' = kept
  /\ UNCHANGED kept

Next ==
  \/ \E t \in Targets :
       Close(t) \/ Owe(t) \/ \E n \in Seats : Tell(t, n) \/ Presume(t, n)
  \/ Keep \/ Forget \/ Retarget

Spec == Init /\ [][Next]_vars
=============================================================================
