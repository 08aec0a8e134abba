----------------------------- MODULE StateFile -----------------------------
(***************************************************************************)
(* The state file on its disk: load_state, and save_state step by step     *)
(* (booking_slot_watch/state.py).  The other modules take a save as one    *)
(* step; here it is a comparison with the file, a temporary file that is   *)
(* written and synced, and a rename, with failures, kills and power losses *)
(* between any two of them, and people who touch the file in between.      *)
(*                                                                         *)
(* A state is what decisions are taken from, one value, and the times of   *)
(* the last checks, which change at every pass and decide nothing.         *)
(***************************************************************************)
EXTENDS Integers

CONSTANTS
  Decisions,   \* what a state may hold, times aside
  Empty,       \* the decisions of an empty state
  LastCheck,   \* bound: times at which a state is checked
  MaxKills,    \* bound: kills and power losses
  Absent,      \* no file
  Garbage,     \* a file that is not a JSON object
  NotText,     \* a file that is not UTF-8
  Torn         \* a file with a part of a state in it

ASSUME FileAssumption ==
  /\ Empty \in Decisions
  /\ LastCheck \in Nat /\ MaxKills \in Nat

VARIABLES
  pc,
  state,    \* in memory
  file,     \* the state file, as processes see it
  durable,  \* the state file, as a power loss would leave it
  temp,     \* the temporary file of this save, or Absent
  synced,   \* whether its data is on the disk
  litter,   \* temporary files left behind
  kills,    \* history: kills and power losses
  touched   \* history: somebody touched the file since a save compared it

disk == <<file, durable, litter>>
vars == <<pc, state, disk, temp, synced, kills, touched>>

States == [decided : Decisions, checked : 0..LastCheck]

\* "legacy": the fields added later are missing; "alien": another version.
Forms == {"current", "legacy", "alien"}
Payloads == [form : Forms, decided : Decisions, checked : 0..LastCheck]
Contents == Payloads \cup {Absent, Garbage, NotText, Torn}

ASSUME ContentsAssumption ==
  /\ {Absent, Garbage, NotText, Torn} \cap Payloads = {}
  /\ {Absent, Garbage} \cap Decisions = {}
  /\ Torn \notin {Absent, Garbage, NotText} /\ Absent \notin {Garbage, NotText}

TypeOK ==
  /\ pc \in {"down", "idle", "open", "write", "sync", "replace", "saved"}
  /\ state \in States
  /\ file \in Contents /\ durable \in Contents
  /\ temp \in Payloads \cup {Absent, Torn}
  /\ synced \in BOOLEAN
  /\ litter \in 0..MaxKills
  /\ kills \in 0..MaxKills
  /\ touched \in BOOLEAN

Payload(s) == [form |-> "current", decided |-> s.decided, checked |-> s.checked]

Loadable(content) ==
  \/ content = Absent
  \/ content \in Payloads /\ content.form # "alien"

\* load_state: a missing file is an empty state, missing fields have defaults.
Loaded(content) == IF content = Absent THEN Empty ELSE content.decided

\* Mutant: the times count.
MaterialWithTimes(content) == {content}

\* Mutant: a file that cannot be read counts as unchanged.
MaterialOfUnreadable(content) ==
  IF content \notin Payloads THEN {[decided |-> state.decided, complete |-> TRUE]}
  ELSE {[decided |-> content.decided, complete |-> content.form # "legacy"]}

\* _material of _read_existing: what a file says apart from the times, and
\* apart from its version; nothing, if it cannot be read.
Material(content) ==
  IF content \notin Payloads THEN {}
  ELSE {[decided |-> content.decided, complete |-> content.form # "legacy"]}

-----------------------------------------------------------------------------
Init ==
  /\ pc = "down"
  /\ state = [decided |-> Empty, checked |-> 0]
  /\ file \in {Absent} \cup
       [form : {"current", "legacy"}, decided : Decisions, checked : {0}]
  /\ durable = file
  /\ temp = Absent /\ synced = FALSE
  /\ litter = 0 /\ kills = 0
  /\ touched = FALSE

\* A process loads the file; it ends at once where load_state raises.
Start ==
  /\ pc = "down" /\ Loadable(file)
  /\ pc' = "idle"
  /\ state' = [state EXCEPT !.decided = Loaded(file)]
  /\ UNCHANGED <<disk, temp, synced, kills, touched>>

Stop ==
  /\ pc \in {"idle", "saved"}
  /\ pc' = "down"
  /\ UNCHANGED <<state, disk, temp, synced, kills, touched>>

\* A pass: every check has a new time, few have a new decision.
Observe ==
  /\ pc \in {"idle", "saved"} /\ state.checked < LastCheck
  /\ \E decided \in Decisions :
       state' = [decided |-> decided, checked |-> state.checked + 1]
  /\ pc' = "idle"
  /\ UNCHANGED <<disk, temp, synced, kills, touched>>

\* save_state: nothing is written when nothing that matters has changed.
Compare ==
  /\ pc \in {"idle", "saved"} /\ file # NotText
  /\ touched' = FALSE
  /\ pc' = IF Material(file) = Material(Payload(state)) THEN "saved" ELSE "open"
  /\ UNCHANGED <<state, disk, temp, synced, kills>>

\* _read_existing expects files that are not JSON, not files that are not
\* text: save_state raises.  In a pass the loop catches that and saves again
\* at the end of the pass; raised there, it ends the process.
CompareRaises ==
  /\ pc \in {"idle", "saved"} /\ file = NotText
  /\ pc' \in {"idle", "down"}
  /\ UNCHANGED <<state, disk, temp, synced, kills, touched>>

\* mkdir, NamedTemporaryFile
Open ==
  /\ pc = "open"
  /\ pc' = "write"
  /\ temp' = Torn
  /\ synced' = FALSE
  /\ UNCHANGED <<state, disk, kills, touched>>

\* Mutant: the temporary file is renamed without fsync.
WriteUnsynced ==
  /\ pc = "write"
  /\ pc' = "replace"
  /\ temp' = Payload(state)
  /\ UNCHANGED <<state, disk, synced, kills, touched>>

Write ==
  /\ pc = "write"
  /\ pc' = "sync"
  /\ temp' = Payload(state)
  /\ UNCHANGED <<state, disk, synced, kills, touched>>

\* flush, fsync
Sync ==
  /\ pc = "sync"
  /\ pc' = "replace"
  /\ synced' = TRUE
  /\ UNCHANGED <<state, disk, temp, kills, touched>>

\* os.replace: the name changes hands at once, on the disk some time later.
Replace ==
  /\ pc = "replace"
  /\ pc' = "saved"
  /\ file' = temp
  /\ durable' \in {durable, IF synced THEN temp ELSE Torn}
  /\ temp' = Absent /\ synced' = FALSE
  /\ UNCHANGED <<state, litter, kills, touched>>

\* The disk catches up.
Settle ==
  /\ durable # file
  /\ durable' = file
  /\ UNCHANGED <<pc, state, file, temp, synced, litter, kills, touched>>

\* Mutant: the temporary file stays where it is.
FailLittering ==
  /\ pc \in {"open", "write", "sync", "replace"}
  /\ pc' = "down"
  /\ litter' = IF temp = Absent THEN litter ELSE litter + 1
  /\ temp' = Absent /\ synced' = FALSE
  /\ UNCHANGED <<state, file, durable, kills, touched>>

\* OSError: the temporary file is removed, StateError ends the process.  (What
\* else could be raised here, by a name that no encoding can write, is left out.)
Fail ==
  /\ pc \in {"open", "write", "sync", "replace"}
  /\ pc' = "down"
  /\ temp' = Absent /\ synced' = FALSE
  /\ UNCHANGED <<state, disk, kills, touched>>

Killed ==
  /\ pc # "down" /\ kills < MaxKills
  /\ kills' = kills + 1
  /\ pc' = "down"
  /\ litter' = IF temp = Absent THEN litter ELSE litter + 1
  /\ temp' = Absent /\ synced' = FALSE

\* The process is killed; the system lives on.
Kill == Killed /\ UNCHANGED <<state, file, durable, touched>>

\* The machine goes down: what the disk has is all there is.
PowerLoss == Killed /\ file' = durable /\ UNCHANGED <<state, durable, touched>>

\* Somebody edits, restores or removes the file.
Touch ==
  /\ file' \in {Absent, Garbage, NotText} \cup
       [form : Forms, decided : Decisions, checked : {0}]
  /\ durable' = file'
  /\ touched' = TRUE
  /\ UNCHANGED <<pc, state, temp, synced, litter, kills>>

Saving == Compare \/ Open \/ Write \/ Sync \/ Replace
Process == Start \/ Stop \/ Observe \/ Saving \/ CompareRaises \/ Fail
Next == Process \/ Settle \/ Kill \/ PowerLoss \/ Touch

Spec == Init /\ [][Next]_vars

-----------------------------------------------------------------------------
(* Properties.                                                             *)

\* A save that returns, whether it wrote or not, leaves the file complete and
\* with the state it was called with - unless somebody touched the file since.
\* (The comparison looks past a foreign version number: such a file counts as
\* unchanged if it says the same.)
SavedIsKept ==
  pc = "saved" /\ ~touched =>
    file \in Payloads /\ file.form # "legacy" /\ file.decided = state.decided

\* A file that a save replaces said something else: the times of checks alone
\* never make a new file, or every run would have a commit to make
\* (CONFIG_AND_STATE.md, section 8).
WritesAreNews ==
  [][pc = "replace" /\ pc' = "saved" /\ ~touched =>
       file \notin Payloads \/ file.form = "legacy" \/ file.decided # file'.decided]_vars

\* A temporary file stays behind only where a kill left no time to remove it.
LitterNeedsKill == litter <= kills

-----------------------------------------------------------------------------
(* What the other modules take a save for.                                 *)

Said(content) == IF Loadable(content) THEN Loaded(content) ELSE Garbage

Abstract == INSTANCE AtomicStore WITH
  Values <- Decisions,
  Unreadable <- Garbage,
  None <- Absent,
  stored <- Said(file),
  safe <- Said(durable),
  working <- IF pc = "down" THEN Absent ELSE state.decided

\* Seen from a reader a save is one step, whatever fails in the middle of it:
\* the file says what it said or what memory holds, never anything between.
ImplementsAtomicStore == Abstract!Spec
=============================================================================
