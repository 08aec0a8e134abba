-------------------------- MODULE StateFileProofs --------------------------
(***************************************************************************)
(* Proofs about StateFile, for every set of decisions, any number of       *)
(* checks and any number of kills and power losses.                        *)
(***************************************************************************)
EXTENDS StateFile, TLAPS

Says(content, s) == content \in Payloads /\ content.form # "legacy" /\ content.decided = s.decided

\* Half a state never gets the name of the file, nor does it reach the disk
\* under that name.
NeverTorn == file # Torn /\ durable # Torn

\* What is about to be renamed is whole, and on the disk.
TempIsWhole ==
  /\ pc \in {"down", "idle", "open", "saved"} => temp = Absent
  /\ pc \in {"sync", "replace"} => temp = Payload(state)
  /\ pc = "replace" => synced

\* A write that has begun is one that has something to say.
WriteIsNews ==
  pc \in {"open", "write", "sync", "replace"} /\ ~touched => ~Says(file, state)

IInv == TypeOK /\ NeverTorn /\ TempIsWhole /\ WriteIsNews /\ SavedIsKept /\ LitterNeedsKill

-----------------------------------------------------------------------------
(* Payloads and comparisons.                                               *)

\* What save_state writes says what the state holds, to every reader.
LEMMA PayloadIs ==
  ASSUME NEW s \in States
  PROVE  /\ Payload(s) \in Payloads /\ Payload(s) \notin {Absent, Torn}
         /\ Says(Payload(s), s)
         /\ Said(Payload(s)) = s.decided
<1>1. /\ Payload(s) \in Payloads
      /\ Payload(s).form = "current" /\ Payload(s).decided = s.decided
  BY DEF Payload, Payloads, States, Forms
<1> QED
  BY <1>1, ContentsAssumption DEF Says, Said, Loadable, Loaded

\* The file counts as unchanged where it says what memory holds.
LEMMA SameMaterial ==
  ASSUME NEW content, NEW s \in States
  PROVE  Material(content) = Material(Payload(s)) <=> Says(content, s)
<1> DEFINE M(c) == [decided |-> c.decided, complete |-> c.form # "legacy"]
<1>1. /\ Payload(s) \in Payloads /\ Payload(s).form = "current" /\ Payload(s).decided = s.decided
  BY DEF Payload, Payloads, States, Forms
<1>2. Material(Payload(s)) = {M(Payload(s))}
  BY <1>1 DEF Material
<1>3. CASE content \notin Payloads
  BY <1>2, <1>3 DEF Material, Says
<1>4. CASE content \in Payloads
  <2>1. Material(content) = {M(content)}
    BY <1>4 DEF Material
  <2>2. M(content) = M(Payload(s)) <=>
          content.decided = s.decided /\ ((content.form # "legacy") <=> TRUE)
    <3>1. (Payload(s).form # "legacy") <=> TRUE
      BY <1>1
    <3> QED
      BY <1>1, <3>1
  <2> QED
    BY <1>2, <1>4, <2>1, <2>2 DEF Says
<1> QED
  BY <1>3, <1>4

\* Changes of a state's parts are states.
LEMMA StatesAre ==
  ASSUME NEW decided \in Decisions, NEW checked \in 0..LastCheck, NEW s \in States
  PROVE  /\ [decided |-> decided, checked |-> checked] \in States
         /\ [s EXCEPT !.decided = decided] \in States
         /\ [s EXCEPT !.decided = decided].decided = decided
BY DEF States

\* What can be loaded is a decision, and nothing else is.
LEMMA SaidIs ==
  ASSUME NEW content \in Contents, content # Torn
  PROVE  /\ Loadable(content) => Said(content) = Loaded(content) /\ Loaded(content) \in Decisions
         /\ ~Loadable(content) => Said(content) = Garbage
<1>1. content \in {Absent, Garbage, NotText} \/ content \in Payloads
  BY DEF Contents
<1>2. content \in Payloads => content.decided \in Decisions /\ content # Absent
  BY ContentsAssumption DEF Payloads
<1> QED
  BY <1>1, <1>2, FileAssumption DEF Said, Loadable, Loaded

-----------------------------------------------------------------------------
(* The invariant.                                                          *)

\* The invariant holds before the first process, with and without a file.
THEOREM Initially == Init => IInv
<1> SUFFICES ASSUME Init PROVE IInv
  OBVIOUS
<1>1. file \in Contents /\ file # Torn /\ durable = file
  <2>1. 0 \in 0..LastCheck
    BY FileAssumption
  <2>2. file = Absent \/ file \in Payloads
    BY <2>1 DEF Init, Payloads, Forms
  <2> QED
    BY <2>2, ContentsAssumption DEF Init, Contents
<1>2. TypeOK
  <2>1. state \in States
    BY FileAssumption DEF Init, States
  <2>2. 0 \in 0..MaxKills
    BY FileAssumption
  <2> QED
    BY <1>1, <2>1, <2>2 DEF Init, TypeOK
<1> QED
  BY <1>1, <1>2 DEF Init, IInv, NeverTorn, TempIsWhole, WriteIsNews, SavedIsKept, LitterNeedsKill

\* Steps of the process that leave the disk alone
LEMMA ProcessKeeps ==
  ASSUME IInv,
         Start \/ Stop \/ Observe \/ Compare \/ CompareRaises \/ Open \/ Write \/ Sync \/ Fail
  PROVE  IInv'
<1>1. UNCHANGED <<file, durable, litter, kills>> /\ state \in States
  BY DEF IInv, TypeOK, Start, Stop, Observe, Compare, CompareRaises, Open, Write, Sync, Fail, disk
<1>2. CASE Start
  <2>1. Loaded(file) \in Decisions
    BY <1>2, SaidIs DEF Start, IInv, TypeOK, NeverTorn
  <2>2. state' \in States
    BY <1>1, <1>2, <2>1 DEF Start, States
  <2> QED
    BY <1>1, <1>2, <2>2
       DEF Start, IInv, TypeOK, NeverTorn, TempIsWhole, WriteIsNews, SavedIsKept, LitterNeedsKill
<1>3. CASE Observe
  <2>1. state' \in States
    BY <1>1, <1>3, FileAssumption DEF Observe, States
  <2> QED
    BY <1>1, <1>3, <2>1
       DEF Observe, IInv, TypeOK, NeverTorn, TempIsWhole, WriteIsNews, SavedIsKept, LitterNeedsKill
<1>4. CASE Compare
  <2>1. pc' = IF Says(file, state) THEN "saved" ELSE "open"
    BY <1>1, <1>4, SameMaterial DEF Compare
  <2> QED
    BY <1>1, <1>4, <2>1
       DEF Compare, Says, IInv, TypeOK, NeverTorn, TempIsWhole, WriteIsNews, SavedIsKept, LitterNeedsKill
<1>5. CASE Write
  <2>1. Payload(state) \in Payloads
    BY <1>1, PayloadIs
  <2> QED
    BY <1>1, <1>5, <2>1
       DEF Write, IInv, TypeOK, NeverTorn, TempIsWhole, WriteIsNews, SavedIsKept, LitterNeedsKill
<1>6. CASE Stop \/ CompareRaises \/ Open \/ Sync \/ Fail
  BY <1>1, <1>6
     DEF Stop, CompareRaises, Open, Sync, Fail, IInv, TypeOK, NeverTorn, TempIsWhole, WriteIsNews, SavedIsKept, LitterNeedsKill
<1> QED
  BY <1>2, <1>3, <1>4, <1>5, <1>6

\* What a rename does, given that what it renames is whole
LEMMA ReplaceIs ==
  ASSUME IInv, Replace
  PROVE  /\ pc' = "saved" /\ state' = state /\ touched' = touched
         /\ file' = Payload(state) /\ durable' \in {durable, Payload(state)}
         /\ temp' = Absent /\ UNCHANGED <<litter, kills>> /\ synced' = FALSE
         /\ state \in States
BY DEF Replace, IInv, TempIsWhole, TypeOK

\* The replacement keeps the invariant.
LEMMA ReplaceKeeps ==
  ASSUME IInv, Replace
  PROVE  IInv'
<1>1. Payload(state) \in Payloads /\ Payload(state) # Torn /\ Says(Payload(state), state)
  BY PayloadIs, ReplaceIs
<1>2. TypeOK'
  BY <1>1, ReplaceIs DEF IInv, TypeOK, Contents
<1>3. NeverTorn' /\ TempIsWhole' /\ WriteIsNews' /\ LitterNeedsKill'
  BY <1>1, ReplaceIs DEF IInv, NeverTorn, TempIsWhole, WriteIsNews, LitterNeedsKill
<1>4. SavedIsKept'
  BY <1>1, ReplaceIs DEF SavedIsKept, Says
<1> QED
  BY <1>2, <1>3, <1>4 DEF IInv

\* People never leave a torn file.
LEMMA TouchIs ==
  ASSUME Touch
  PROVE  file' \in Contents /\ file' # Torn
<1>1. 0 \in 0..LastCheck
  BY FileAssumption
<1>2. file' \in {Absent, Garbage, NotText} \/ file' \in Payloads
  BY <1>1 DEF Touch, Payloads
<1> QED
  BY <1>2, ContentsAssumption DEF Contents

\* What happens to the process from outside keeps the invariant.
LEMMA WorldKeeps ==
  ASSUME IInv, Settle \/ Kill \/ PowerLoss \/ Touch
  PROVE  IInv'
<1>1. CASE Settle
  BY <1>1 DEF Settle, IInv, TypeOK, NeverTorn, TempIsWhole, WriteIsNews, SavedIsKept, LitterNeedsKill
<1>2. CASE Kill \/ PowerLoss
  <2>1. litter' \in 0..MaxKills /\ kills' \in 0..MaxKills /\ litter' <= kills'
    BY <1>2, FileAssumption DEF Kill, PowerLoss, Killed, IInv, TypeOK, LitterNeedsKill
  <2> QED
    BY <1>2, <2>1
       DEF Kill, PowerLoss, Killed, IInv, TypeOK, NeverTorn, TempIsWhole, WriteIsNews, SavedIsKept, LitterNeedsKill
<1>3. CASE Touch
  BY <1>3, TouchIs
     DEF Touch, IInv, TypeOK, NeverTorn, TempIsWhole, WriteIsNews, SavedIsKept, LitterNeedsKill
<1> QED
  BY <1>1, <1>2, <1>3

\* Every step keeps the invariant.
THEOREM Step == IInv /\ [Next]_vars => IInv'
<1> SUFFICES ASSUME IInv, [Next]_vars PROVE IInv'
  OBVIOUS
<1>1. CASE Next
  BY <1>1, ProcessKeeps, ReplaceKeeps, WorldKeeps DEF Next, Process, Saving
<1>2. CASE UNCHANGED vars
  BY <1>2 DEF vars, disk, IInv, TypeOK, NeverTorn, TempIsWhole, WriteIsNews, SavedIsKept, LitterNeedsKill
<1> QED
  BY <1>1, <1>2

\* The invariant holds at every moment.
THEOREM Invariance == Spec => []IInv
BY Initially, Step, PTL DEF Spec

-----------------------------------------------------------------------------
(* The theorems.                                                           *)

\* The file, in memory and on the disk, is never one of the impossible ones.
THEOREM TypeCorrect == Spec => []TypeOK
<1>1. IInv => TypeOK
  BY DEF IInv
<1> QED
  BY Invariance, <1>1, PTL

\* A save that returned has saved, written or not.
THEOREM SavedForSure == Spec => []SavedIsKept
<1>1. IInv => SavedIsKept
  BY DEF IInv
<1> QED
  BY Invariance, <1>1, PTL

\* Failures clean up after themselves.
THEOREM LitterIsOfKills == Spec => []LitterNeedsKill
<1>1. IInv => LitterNeedsKill
  BY DEF IInv
<1> QED
  BY Invariance, <1>1, PTL

\* No file is replaced by one that says the same.
THEOREM NoIdleWrite == Spec => WritesAreNews
<1>1. IInv /\ [Next]_vars =>
        [pc = "replace" /\ pc' = "saved" /\ ~touched =>
           file \notin Payloads \/ file.form = "legacy" \/ file.decided # file'.decided]_vars
  <2> SUFFICES ASSUME IInv, Next, pc = "replace", pc' = "saved", ~touched
               PROVE  file \notin Payloads \/ file.form = "legacy" \/ file.decided # file'.decided
    OBVIOUS
  <2>1. Replace
    BY DEF Next, Process, Saving, Start, Stop, Observe, Compare, CompareRaises, Open, Write, Sync, Fail,
           Settle, Kill, PowerLoss, Killed, Touch
  <2>2. file'.decided = state.decided
    BY <2>1, ReplaceIs, PayloadIs DEF Says
  <2>3. ~Says(file, state)
    BY DEF IInv, WriteIsNews
  <2> QED
    BY <2>2, <2>3 DEF Says
<1> QED
  BY Invariance, <1>1, PTL DEF Spec, WritesAreNews

-----------------------------------------------------------------------------
(* The refinement: only the rename is seen from outside.                   *)

\* Initial states of the file are initial states of the store.
LEMMA RefinesInit == Init => Abstract!Init
<1> SUFFICES ASSUME Init PROVE Abstract!Init
  OBVIOUS
<1>1. Said(file) \in Decisions
  <2>1. file = Absent \/ (file.form # "alien" /\ file \in Payloads)
    <3>1. 0 \in 0..LastCheck
      BY FileAssumption
    <3> QED
      BY <3>1 DEF Init, Payloads, Forms
  <2>2. Loadable(file)
    BY <2>1 DEF Loadable
  <2>3. file \in Contents /\ file # Torn
    BY <2>1, ContentsAssumption DEF Contents
  <2> QED
    BY <2>2, <2>3, SaidIs
<1> QED
  BY <1>1 DEF Init, Abstract!Init

\* Every step of the file is a step of the store, or none.
LEMMA RefinesStep == IInv /\ [Next]_vars => [Abstract!Next]_(Abstract!view)
<1> SUFFICES ASSUME IInv, [Next]_vars PROVE [Abstract!Next]_(Abstract!view)
  OBVIOUS
<1> USE DEF Abstract!view
<1>1. /\ file \in Contents /\ file # Torn /\ state \in States /\ state.decided \in Decisions
      /\ state.decided # Absent
  BY ContentsAssumption DEF IInv, TypeOK, NeverTorn, States
<1>2. CASE Start
  <2>1. /\ pc = "down" /\ pc' = "idle" /\ UNCHANGED <<file, durable>>
        /\ Said(file) = Loaded(file) /\ Loaded(file) \in Decisions
    BY <1>1, <1>2, SaidIs DEF Start, disk
  <2>2. state'.decided = Loaded(file)
    BY <1>1, <1>2, <2>1, StatesAre DEF Start
  <2>3. Abstract!Load
    BY <2>1, <2>2 DEF Abstract!Load
  <2> QED
    BY <2>3 DEF Abstract!Next
<1>3. CASE Observe
  <2>1. /\ pc \in {"idle", "saved"} /\ pc' = "idle" /\ UNCHANGED <<file, durable>>
        /\ state'.decided \in Decisions
    BY <1>3 DEF Observe, disk
  <2>2. Abstract!Change
    BY <1>1, <2>1 DEF Abstract!Change
  <2> QED
    BY <2>2 DEF Abstract!Next
<1>4. CASE Compare \/ (CompareRaises /\ pc' = "idle") \/ Open \/ Write \/ Sync
  BY <1>4 DEF Compare, CompareRaises, Open, Write, Sync, disk
<1>5. CASE Replace
  <2>1. pc = "replace"
    BY <1>5 DEF Replace
  <2>2. /\ Said(file') = state.decided /\ Said(durable') \in {Said(durable), state.decided}
        /\ state' = state /\ pc' = "saved"
    BY <1>5, ReplaceIs, PayloadIs
  <2>3. Abstract!Save
    BY <1>1, <2>1, <2>2 DEF Abstract!Save
  <2> QED
    BY <2>3 DEF Abstract!Next
<1>6. CASE Stop \/ Fail \/ Kill \/ (CompareRaises /\ pc' = "down")
  <2>1. pc' = "down" /\ UNCHANGED <<file, durable>>
    BY <1>6 DEF Stop, Fail, CompareRaises, Kill, Killed, disk
  <2>2. Abstract!End
    BY <2>1 DEF Abstract!End
  <2> QED
    BY <2>2 DEF Abstract!Next
<1>7. CASE Settle
  <2>1. Abstract!CatchUp
    BY <1>7 DEF Settle, Abstract!CatchUp
  <2> QED
    BY <2>1 DEF Abstract!Next
<1>8. CASE PowerLoss
  <2>1. Abstract!PowerLoss
    BY <1>8 DEF PowerLoss, Killed, Abstract!PowerLoss
  <2> QED
    BY <2>1 DEF Abstract!Next
<1>9. CASE Touch
  <2>1. Said(file') \in Decisions \cup {Garbage}
    BY <1>9, TouchIs, SaidIs
  <2>2. Abstract!Foreign
    BY <1>9, <2>1 DEF Touch, Abstract!Foreign
  <2> QED
    BY <2>2 DEF Abstract!Next
<1>10. CASE UNCHANGED vars
  BY <1>10 DEF vars, disk
<1> QED
  BY <1>2, <1>3, <1>4, <1>5, <1>6, <1>7, <1>8, <1>9, <1>10
     DEF Next, Process, Saving, CompareRaises

\* Readers and restarted processes see saves that happen at once, or not.
THEOREM SavesAreAtomic == Spec => ImplementsAtomicStore
BY Invariance, RefinesInit, RefinesStep, PTL DEF Spec, ImplementsAtomicStore, Abstract!Spec
=============================================================================
