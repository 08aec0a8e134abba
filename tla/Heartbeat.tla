------------------------------ MODULE Heartbeat ------------------------------
(***************************************************************************)
(* The daily heartbeat of monitor mode: the end of check_once, the         *)
(* checkpoint that saves its date, and the day that goes by meanwhile      *)
(* (booking_slot_watch/monitor.py).  A pass reads the clock once, when it   *)
(* begins; everything between that and the heartbeat is one wait here, and *)
(* SlotWatch says what happens in it.                                      *)
(***************************************************************************)
EXTENDS Integers

CONSTANTS
  LastDay,   \* bound: days that go by
  MaxLost    \* bound: kills per day between a heartbeat and its save

ASSUME HeartbeatAssumption == LastDay \in Nat /\ MaxLost \in Nat

VARIABLES
  pc,
  day, awake,           \* the clock: the date in KST, and whether it is past seven
  now,                  \* the clock as the current pass read it
  heartbeat_last_sent,  \* of the state, in memory
  saved,                \* the same in the state file
  acked,                \* whether the server confirmed the heartbeat just sent
  told,                 \* history: confirmed heartbeats, by the date they are for
  lost                  \* history: kills that lost the date of a confirmed heartbeat

clock == <<day, awake>>
history == <<told, lost>>
vars == <<pc, clock, now, heartbeat_last_sent, saved, acked, history>>

Days == 0..LastDay
Never == -1  \* no heartbeat on record (None in the code)

TypeOK ==
  /\ pc \in {"down", "top", "checking", "sent", "checkpoint"}
  /\ day \in Days /\ awake \in BOOLEAN
  /\ now \in [day : Days, awake : BOOLEAN]
  /\ heartbeat_last_sent \in Days \cup {Never}
  /\ saved \in Days \cup {Never}
  /\ acked \in BOOLEAN
  /\ told \in [Days -> Nat]
  /\ lost \in [Days -> Nat]

\* should_send_heartbeat
Due(last) == now.awake /\ last # now.day

Save == saved' = heartbeat_last_sent'

\* A confirmed heartbeat whose date only memory knows.
Unsaved ==
  \/ pc = "sent" /\ acked
  \/ pc = "checkpoint" /\ heartbeat_last_sent # saved

-----------------------------------------------------------------------------
Init ==
  /\ pc = "down"
  /\ day = 0 /\ awake = FALSE
  /\ now = [day |-> 0, awake |-> FALSE]
  /\ heartbeat_last_sent = Never
  /\ saved = Never
  /\ acked = FALSE
  /\ told = [d \in Days |-> 0]
  /\ lost = [d \in Days |-> 0]

Tick ==
  /\ \/ ~awake /\ awake' = TRUE /\ UNCHANGED day
     \/ awake /\ day < LastDay /\ awake' = FALSE /\ day' = day + 1
  /\ UNCHANGED <<pc, now, heartbeat_last_sent, saved, acked, history>>

Start ==
  /\ pc = "down"
  /\ pc' = "top"
  /\ heartbeat_last_sent' = saved
  /\ UNCHANGED <<clock, now, saved, acked, history>>

BeginPass ==
  /\ pc = "top"
  /\ pc' = "checking"
  /\ now' = [day |-> day, awake |-> awake]
  /\ UNCHANGED <<clock, heartbeat_last_sent, saved, acked, history>>

\* An exception before the heartbeat: the pass is dropped, the state saved.
PassRaises ==
  /\ pc = "checking"
  /\ pc' = "top"
  /\ UNCHANGED <<clock, now, heartbeat_last_sent, acked, history>>
  /\ Save

NoHeartbeat ==
  /\ pc = "checking" /\ ~Due(heartbeat_last_sent)
  /\ pc' = "checkpoint"
  /\ UNCHANGED <<clock, now, heartbeat_last_sent, saved, acked, history>>

SendHeartbeat(confirmed) ==
  /\ pc = "checking" /\ Due(heartbeat_last_sent)
  /\ pc' = "sent"
  /\ acked' = confirmed
  /\ told' = [told EXCEPT ![now.day] = IF confirmed THEN @ + 1 ELSE @]
  /\ UNCHANGED <<clock, now, heartbeat_last_sent, saved, lost>>

\* Mutant: a heartbeat that was not confirmed counts as sent.
RecordAnyway ==
  /\ pc = "sent"
  /\ pc' = "checkpoint"
  /\ heartbeat_last_sent' = now.day
  /\ acked' = FALSE
  /\ UNCHANGED <<clock, now, saved, history>>

\* Mutant: the date is taken when the answer comes, not from the pass.
RecordDateOfAnswer ==
  /\ pc = "sent"
  /\ pc' = "checkpoint"
  /\ heartbeat_last_sent' = IF acked THEN day ELSE heartbeat_last_sent
  /\ acked' = FALSE
  /\ UNCHANGED <<clock, now, saved, history>>

Record ==
  /\ pc = "sent"
  /\ pc' = "checkpoint"
  /\ heartbeat_last_sent' = IF acked THEN now.day ELSE heartbeat_last_sent
  /\ acked' = FALSE
  /\ UNCHANGED <<clock, now, saved, history>>

\* Mutant: the end of a pass saves nothing.
CheckpointUnsaved ==
  /\ pc = "checkpoint"
  /\ pc' = "top"
  /\ UNCHANGED <<clock, now, heartbeat_last_sent, saved, acked, history>>

Checkpoint ==
  /\ pc = "checkpoint"
  /\ pc' = "top"
  /\ UNCHANGED <<clock, now, heartbeat_last_sent, acked, history>>
  /\ Save

\* Deadline, stop signal, or no active target: the final save.
StopLoop ==
  /\ pc = "top"
  /\ pc' = "down"
  /\ UNCHANGED <<clock, now, heartbeat_last_sent, acked, history>>
  /\ Save

Crash ==
  /\ pc # "down"
  /\ Unsaved => lost[now.day] < MaxLost
  /\ pc' = "down"
  /\ heartbeat_last_sent' = saved
  /\ acked' = FALSE
  /\ lost' = [lost EXCEPT ![now.day] = IF Unsaved THEN @ + 1 ELSE @]
  /\ UNCHANGED <<clock, now, saved, told>>

Process ==
  \/ Start \/ BeginPass \/ NoHeartbeat \/ Record \/ Checkpoint \/ StopLoop
  \/ \E confirmed \in BOOLEAN : SendHeartbeat(confirmed)

Next == Process \/ Tick \/ PassRaises \/ Crash

Spec == Init /\ [][Next]_vars

\* The process runs and is restarted, every run makes a pass, passes do not
\* raise for ever and kills cease, and a heartbeat tried again and again is
\* confirmed at some point.
FairSpec ==
  /\ Spec
  /\ WF_vars(Process) /\ SF_vars(BeginPass)
  /\ SF_vars(SendHeartbeat(TRUE))
  /\ <>[][Process \/ Tick]_vars

-----------------------------------------------------------------------------
(* Properties.                                                             *)

\* One heartbeat a day (PROJECT_SPEC.md, 9), but for a kill between the
\* confirmation and the checkpoint: each such kill costs one repetition at
\* most, whatever midnights, restarts and failed attempts lie between.
OncePerDay == \A d \in Days : told[d] <= 1 + lost[d]

\* A day on record in the file had its heartbeat confirmed: no failed
\* attempt, restart or midnight lets a day be passed over.
RecordedIsTold == saved # Never => told[saved] > 0

\* A day long enough has its heartbeat, if only its last attempt is
\* confirmed.  Time stops on the last day, which makes it long enough.
LastDayIsTold == day = LastDay /\ awake ~> told[LastDay] > 0
=============================================================================
