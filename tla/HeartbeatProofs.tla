--------------------------- MODULE HeartbeatProofs ---------------------------
(***************************************************************************)
(* Proofs about Heartbeat, for any number of days and of kills.            *)
(***************************************************************************)
EXTENDS Heartbeat, TLAPS

\* Dates only grow: the file is never ahead of memory, nor memory of the
\* pass, nor the pass of the clock.
DatesAgree ==
  /\ saved <= heartbeat_last_sent
  /\ heartbeat_last_sent <= now.day
  /\ now.day <= day

\* Only between a heartbeat and its checkpoint does memory differ from the
\* file, and then by the date of the current pass.
MemoryIsSaved ==
  /\ pc # "checkpoint" => heartbeat_last_sent = saved
  /\ heartbeat_last_sent # saved => heartbeat_last_sent = now.day
  /\ acked => pc = "sent"

\* While a heartbeat is being sent, the day is not on record.
SentIsNew == pc = "sent" => heartbeat_last_sent < now.day

\* A day told more often than it was lost is on record, or about to be.
ToldIsOnRecord ==
  \A d \in Days :
    told[d] > lost[d] => d <= saved \/ (d = now.day /\ Unsaved)

\* What memory knows and the file does not has been told.
UnsavedIsTold == Unsaved => told[now.day] > 0

IInv ==
  /\ TypeOK
  /\ DatesAgree
  /\ MemoryIsSaved
  /\ SentIsNew
  /\ OncePerDay
  /\ ToldIsOnRecord
  /\ UnsavedIsTold
  /\ RecordedIsTold

\* The dates in play are numbers that can be compared.
LEMMA DatesAreInts ==
  TypeOK => /\ Days \subseteq Int
            /\ {day, now.day, heartbeat_last_sent, saved, Never} \subseteq Int
BY HeartbeatAssumption DEF TypeOK, Days, Never

\* Before the first run nothing was told and nothing is on record.
THEOREM Initially == Init => IInv
<1> SUFFICES ASSUME Init PROVE IInv
  OBVIOUS
<1>1. 0 \in Days
  BY HeartbeatAssumption DEF Days
<1>2. TypeOK
  BY <1>1 DEF Init, TypeOK
<1>3. DatesAgree /\ MemoryIsSaved /\ SentIsNew
  BY DEF Init, DatesAgree, MemoryIsSaved, SentIsNew, Never
<1>4. OncePerDay /\ ToldIsOnRecord
  BY DEF Init, OncePerDay, ToldIsOnRecord
<1>5. UnsavedIsTold /\ RecordedIsTold
  BY DEF Init, UnsavedIsTold, RecordedIsTold, Unsaved
<1> QED
  BY <1>2, <1>3, <1>4, <1>5 DEF IInv

\* Every step of the process, of the clock and of a kill keeps IInv.
THEOREM Preserved == IInv /\ [Next]_vars => IInv'
<1> SUFFICES ASSUME IInv, [Next]_vars PROVE IInv'
  OBVIOUS
<1> USE DatesAreInts DEF IInv
<1>1. CASE Tick
  <2>1. day' \in Days /\ day <= day'
    <3>1. CASE UNCHANGED day
      BY <3>1 DEF TypeOK
    <3>2. CASE day < LastDay /\ day' = day + 1
      BY <3>2, HeartbeatAssumption DEF TypeOK, Days
    <3> QED
      BY <1>1, <3>1, <3>2 DEF Tick
  <2>2. TypeOK'
    BY <1>1, <2>1 DEF Tick, history, TypeOK
  <2>3. DatesAgree' /\ MemoryIsSaved' /\ SentIsNew'
    BY <1>1, <2>1 DEF Tick, history, DatesAgree, MemoryIsSaved, SentIsNew
  <2>4. OncePerDay' /\ ToldIsOnRecord'
    BY <1>1 DEF Tick, history, OncePerDay, ToldIsOnRecord, Unsaved
  <2>5. UnsavedIsTold' /\ RecordedIsTold'
    BY <1>1 DEF Tick, history, UnsavedIsTold, RecordedIsTold, Unsaved
  <2> QED
    BY <2>2, <2>3, <2>4, <2>5 DEF IInv
<1>2. CASE Start
  <2>1. TypeOK'
    BY <1>2 DEF Start, clock, history, TypeOK
  <2>2. DatesAgree' /\ MemoryIsSaved' /\ SentIsNew'
    BY <1>2 DEF Start, clock, history, DatesAgree, MemoryIsSaved, SentIsNew
  <2>3. OncePerDay' /\ ToldIsOnRecord'
    BY <1>2 DEF Start, clock, history, TypeOK, DatesAgree, MemoryIsSaved, SentIsNew,
       OncePerDay, ToldIsOnRecord, Unsaved
  <2>4. UnsavedIsTold' /\ RecordedIsTold'
    BY <1>2 DEF Start, clock, history, TypeOK, MemoryIsSaved, UnsavedIsTold, RecordedIsTold, Unsaved
  <2> QED
    BY <2>1, <2>2, <2>3, <2>4 DEF IInv
<1>3. CASE BeginPass
  <2>1. TypeOK'
    BY <1>3 DEF BeginPass, clock, history, TypeOK
  <2>2. DatesAgree' /\ MemoryIsSaved' /\ SentIsNew'
    BY <1>3 DEF BeginPass, clock, history, DatesAgree, MemoryIsSaved, SentIsNew
  <2>3. OncePerDay' /\ ToldIsOnRecord'
    BY <1>3 DEF BeginPass, clock, history, TypeOK, DatesAgree, MemoryIsSaved, SentIsNew,
       OncePerDay, ToldIsOnRecord, Unsaved
  <2>4. UnsavedIsTold' /\ RecordedIsTold'
    BY <1>3 DEF BeginPass, clock, history, TypeOK, MemoryIsSaved, UnsavedIsTold, RecordedIsTold, Unsaved
  <2> QED
    BY <2>1, <2>2, <2>3, <2>4 DEF IInv
<1>4. CASE PassRaises
  <2>1. TypeOK'
    BY <1>4 DEF PassRaises, Save, clock, history, TypeOK
  <2>2. DatesAgree' /\ MemoryIsSaved' /\ SentIsNew'
    BY <1>4 DEF PassRaises, Save, clock, history, DatesAgree, MemoryIsSaved, SentIsNew
  <2>3. OncePerDay' /\ ToldIsOnRecord'
    BY <1>4 DEF PassRaises, Save, clock, history, TypeOK, DatesAgree, MemoryIsSaved, SentIsNew,
       OncePerDay, ToldIsOnRecord, Unsaved
  <2>4. UnsavedIsTold' /\ RecordedIsTold'
    BY <1>4 DEF PassRaises, Save, clock, history, TypeOK, MemoryIsSaved, UnsavedIsTold, RecordedIsTold, Unsaved
  <2> QED
    BY <2>1, <2>2, <2>3, <2>4 DEF IInv
<1>5. CASE NoHeartbeat
  <2>1. TypeOK'
    BY <1>5 DEF NoHeartbeat, clock, history, TypeOK
  <2>2. DatesAgree' /\ MemoryIsSaved' /\ SentIsNew'
    BY <1>5 DEF NoHeartbeat, clock, history, DatesAgree, MemoryIsSaved, SentIsNew
  <2>3. OncePerDay' /\ ToldIsOnRecord'
    BY <1>5 DEF NoHeartbeat, clock, history, TypeOK, DatesAgree, MemoryIsSaved, SentIsNew,
       OncePerDay, ToldIsOnRecord, Unsaved
  <2>4. UnsavedIsTold' /\ RecordedIsTold'
    BY <1>5 DEF NoHeartbeat, clock, history, TypeOK, MemoryIsSaved, UnsavedIsTold, RecordedIsTold, Unsaved
  <2> QED
    BY <2>1, <2>2, <2>3, <2>4 DEF IInv
<1>6. ASSUME NEW confirmed \in BOOLEAN, SendHeartbeat(confirmed) PROVE IInv'
  <2>1. TypeOK'
    BY <1>6 DEF SendHeartbeat, Due, clock, TypeOK
  <2>2. DatesAgree' /\ MemoryIsSaved' /\ SentIsNew'
    BY <1>6 DEF SendHeartbeat, Due, clock, DatesAgree, MemoryIsSaved, SentIsNew
  <2>3. OncePerDay' /\ ToldIsOnRecord'
    BY <1>6 DEF SendHeartbeat, Due, clock, TypeOK, DatesAgree, MemoryIsSaved, SentIsNew,
       OncePerDay, ToldIsOnRecord, Unsaved
  <2>4. UnsavedIsTold' /\ RecordedIsTold'
    BY <1>6 DEF SendHeartbeat, Due, clock, TypeOK, MemoryIsSaved, UnsavedIsTold, RecordedIsTold, Unsaved
  <2> QED
    BY <2>1, <2>2, <2>3, <2>4 DEF IInv
<1>7. CASE Record
  <2>1. TypeOK'
    BY <1>7 DEF Record, clock, history, TypeOK
  <2>2. DatesAgree' /\ MemoryIsSaved' /\ SentIsNew'
    BY <1>7 DEF Record, clock, history, DatesAgree, MemoryIsSaved, SentIsNew
  <2>3. OncePerDay' /\ ToldIsOnRecord'
    BY <1>7 DEF Record, clock, history, TypeOK, DatesAgree, MemoryIsSaved, SentIsNew,
       OncePerDay, ToldIsOnRecord, Unsaved
  <2>4. UnsavedIsTold' /\ RecordedIsTold'
    BY <1>7 DEF Record, clock, history, TypeOK, MemoryIsSaved, UnsavedIsTold, RecordedIsTold, Unsaved
  <2> QED
    BY <2>1, <2>2, <2>3, <2>4 DEF IInv
<1>8. CASE Checkpoint
  <2>1. TypeOK'
    BY <1>8 DEF Checkpoint, Save, clock, history, TypeOK
  <2>2. DatesAgree' /\ MemoryIsSaved' /\ SentIsNew'
    BY <1>8 DEF Checkpoint, Save, clock, history, DatesAgree, MemoryIsSaved, SentIsNew
  <2>3. OncePerDay' /\ ToldIsOnRecord'
    BY <1>8 DEF Checkpoint, Save, clock, history, TypeOK, DatesAgree, MemoryIsSaved, SentIsNew,
       OncePerDay, ToldIsOnRecord, Unsaved
  <2>4. UnsavedIsTold' /\ RecordedIsTold'
    BY <1>8 DEF Checkpoint, Save, clock, history, TypeOK, MemoryIsSaved, UnsavedIsTold, RecordedIsTold, Unsaved
  <2> QED
    BY <2>1, <2>2, <2>3, <2>4 DEF IInv
<1>9. CASE StopLoop
  <2>1. TypeOK'
    BY <1>9 DEF StopLoop, Save, clock, history, TypeOK
  <2>2. DatesAgree' /\ MemoryIsSaved' /\ SentIsNew'
    BY <1>9 DEF StopLoop, Save, clock, history, DatesAgree, MemoryIsSaved, SentIsNew
  <2>3. OncePerDay' /\ ToldIsOnRecord'
    BY <1>9 DEF StopLoop, Save, clock, history, TypeOK, DatesAgree, MemoryIsSaved, SentIsNew,
       OncePerDay, ToldIsOnRecord, Unsaved
  <2>4. UnsavedIsTold' /\ RecordedIsTold'
    BY <1>9 DEF StopLoop, Save, clock, history, TypeOK, MemoryIsSaved, UnsavedIsTold, RecordedIsTold, Unsaved
  <2> QED
    BY <2>1, <2>2, <2>3, <2>4 DEF IInv
<1>10. CASE Crash
  <2>1. TypeOK'
    <3>1. lost' \in [Days -> Nat]
      BY <1>10 DEF Crash, TypeOK
    <3>2. heartbeat_last_sent' \in Days \cup {Never} /\ acked' \in BOOLEAN
      BY <1>10 DEF Crash, TypeOK
    <3> QED
      BY <1>10, <3>1, <3>2 DEF Crash, clock, TypeOK
  <2>2. DatesAgree' /\ MemoryIsSaved' /\ SentIsNew'
    BY <1>10 DEF Crash, clock, DatesAgree, MemoryIsSaved, SentIsNew
  <2>3. OncePerDay' /\ ToldIsOnRecord'
    BY <1>10 DEF Crash, clock, TypeOK, DatesAgree, MemoryIsSaved, SentIsNew,
       OncePerDay, ToldIsOnRecord, Unsaved
  <2>4. UnsavedIsTold' /\ RecordedIsTold'
    BY <1>10 DEF Crash, clock, TypeOK, MemoryIsSaved, UnsavedIsTold, RecordedIsTold, Unsaved
  <2> QED
    BY <2>1, <2>2, <2>3, <2>4 DEF IInv
<1>11. CASE UNCHANGED vars
  <2>1. TypeOK'
    BY <1>11 DEF vars, clock, history, TypeOK
  <2>2. DatesAgree' /\ MemoryIsSaved' /\ SentIsNew'
    BY <1>11 DEF vars, clock, history, DatesAgree, MemoryIsSaved, SentIsNew
  <2>3. OncePerDay' /\ ToldIsOnRecord'
    BY <1>11 DEF vars, clock, history, OncePerDay, ToldIsOnRecord, Unsaved
  <2>4. UnsavedIsTold' /\ RecordedIsTold'
    BY <1>11 DEF vars, clock, history, UnsavedIsTold, RecordedIsTold, Unsaved
  <2> QED
    BY <2>1, <2>2, <2>3, <2>4 DEF IInv
<1> QED
  BY <1>1, <1>2, <1>3, <1>4, <1>5, <1>6, <1>7, <1>8, <1>9, <1>10, <1>11
     DEF Next, Process

\* IInv holds in every reachable state.
THEOREM Invariance == Spec => []IInv
<1>1. Init => IInv
  BY Initially
<1>2. IInv /\ [Next]_vars => IInv'
  BY Preserved
<1> QED
  BY <1>1, <1>2, PTL DEF Spec

\* Type correctness of the heartbeat.
THEOREM TypeCorrect == Spec => []TypeOK
<1>1. IInv => TypeOK
  BY DEF IInv
<1> QED
  BY <1>1, Invariance, PTL

\* One heartbeat a day, but for kills before its checkpoint.
THEOREM ToldOnce == Spec => []OncePerDay
<1>1. IInv => OncePerDay
  BY DEF IInv
<1> QED
  BY <1>1, Invariance, PTL

\* A day on record had its heartbeat.
THEOREM NoDayPassedOver == Spec => []RecordedIsTold
<1>1. IInv => RecordedIsTold
  BY DEF IInv
<1> QED
  BY <1>1, Invariance, PTL
=============================================================================
