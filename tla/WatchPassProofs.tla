--------------------------- MODULE WatchPassProofs ---------------------------
(***************************************************************************)
(* Proofs about WatchPass, for every set of config files, of moments and   *)
(* of answers.                                                             *)
(***************************************************************************)
EXTENDS WatchPass, SequenceLemmas

IsMonitor(monitor) ==
  monitor = [id |-> monitor.id, enabled |-> monitor.enabled,
             product |-> monitor.product, threshold |-> monitor.threshold,
             targets |-> monitor.targets, variants |-> monitor.variants,
             expires_at |-> monitor.expires_at]

HasTargets(monitor) ==
  \A target \in monitor.targets : target = [date |-> target.date, times |-> target.times]

\* What ActiveSlots comes to for one monitor
LeftOf(monitor, moment, slot) ==
  /\ monitor.enabled
  /\ ~Expired(monitor, moment)
  /\ \/ \E target \in monitor.targets : \E time \in RemainingTimes(target, moment) :
          slot = Session(monitor, target.date, time)
     \/ \E variant \in monitor.variants : slot = Option(monitor, variant)

-----------------------------------------------------------------------------
(* The moments are ordered.                                                *)

\* Earlier orders the moments.
LEMMA EarlierTransitive ==
  ASSUME NEW a \in Moments, NEW b \in Moments, NEW c \in Moments,
         Earlier(a, b), Earlier(b, c)
  PROVE  Earlier(a, c)
BY DEF Earlier, Moments

-----------------------------------------------------------------------------
(* Active slots.                                                           *)

\* What is left of a monitor keeps its id and product.
LEMMA RemainingIs ==
  ASSUME NEW monitor, IsMonitor(monitor), NEW moment
  PROVE  LET left == Remaining(monitor, moment)
             off == ~monitor.enabled \/ Expired(monitor, moment)
         IN  /\ left.id = monitor.id /\ left.product = monitor.product
             /\ off => left.targets = {} /\ left.variants = {}
             /\ ~off => /\ left.targets = RemainingTargets(monitor, moment)
                        /\ left.variants = monitor.variants
<1> DEFINE M == [id |-> monitor.id, enabled |-> monitor.enabled,
                 product |-> monitor.product, threshold |-> monitor.threshold,
                 targets |-> monitor.targets, variants |-> monitor.variants,
                 expires_at |-> monitor.expires_at]
<1>1. monitor = M
  BY DEF IsMonitor
<1>2. CASE ~monitor.enabled \/ Expired(monitor, moment)
  <2>1. Remaining(monitor, moment) = [monitor EXCEPT !.targets = {}, !.variants = {}]
    BY <1>2 DEF Remaining
  <2>2. [M EXCEPT !.targets = {}, !.variants = {}].targets = {}
    OBVIOUS
  <2> QED
    BY <1>1, <1>2, <2>1
<1>3. CASE ~(~monitor.enabled \/ Expired(monitor, moment))
  <2>1. Remaining(monitor, moment) = [monitor EXCEPT !.targets = RemainingTargets(monitor, moment)]
    BY <1>3 DEF Remaining
  <2> QED
    BY <1>1, <1>3, <2>1
<1> QED
  BY <1>2, <1>3

\* What is left of the targets are the targets with times that are left.
LEMMA RemainingTargetsAre ==
  ASSUME NEW monitor, HasTargets(monitor), NEW moment
  PROVE  /\ \A left \in RemainingTargets(monitor, moment) :
              \E target \in monitor.targets :
                left.date = target.date /\ left.times = RemainingTimes(target, moment)
         /\ \A target \in monitor.targets :
              RemainingTimes(target, moment) # {} =>
                \E left \in RemainingTargets(monitor, moment) :
                  left.date = target.date /\ left.times = RemainingTimes(target, moment)
<1>1. ASSUME NEW target \in monitor.targets, NEW times
      PROVE  /\ [target EXCEPT !.times = times].date = target.date
             /\ [target EXCEPT !.times = times].times = times
  <2>1. target = [date |-> target.date, times |-> target.times]
    BY DEF HasTargets
  <2>2. /\ [[date |-> target.date, times |-> target.times] EXCEPT !.times = times].date = target.date
        /\ [[date |-> target.date, times |-> target.times] EXCEPT !.times = times].times = times
    OBVIOUS
  <2> QED
    BY <2>1, <2>2
<1>2. ASSUME NEW left \in RemainingTargets(monitor, moment)
      PROVE  \E target \in monitor.targets :
               left.date = target.date /\ left.times = RemainingTimes(target, moment)
  <2>1. PICK target \in monitor.targets :
          left = [target EXCEPT !.times = RemainingTimes(target, moment)]
    BY <1>2 DEF RemainingTargets
  <2> QED
    BY <1>1, <2>1
<1>3. ASSUME NEW target \in monitor.targets, RemainingTimes(target, moment) # {}
      PROVE  \E left \in RemainingTargets(monitor, moment) :
               left.date = target.date /\ left.times = RemainingTimes(target, moment)
  <2>1. [target EXCEPT !.times = RemainingTimes(target, moment)] \in RemainingTargets(monitor, moment)
    BY <1>3 DEF RemainingTargets
  <2> QED
    BY <1>1, <2>1
<1> QED
  BY <1>2, <1>3

\* The slots of a monitor are its sessions and its options.
LEMMA SlotsOfAre ==
  ASSUME NEW monitor, NEW slot
  PROVE  slot \in SlotsOf(monitor) <=>
           \/ \E target \in monitor.targets : \E time \in target.times :
                slot = Session(monitor, target.date, time)
           \/ \E variant \in monitor.variants : slot = Option(monitor, variant)
<1> DEFINE Of(target) == {Session(monitor, target.date, time) : time \in target.times}
           Sessions == UNION {Of(target) : target \in monitor.targets}
           Options == {Option(monitor, variant) : variant \in monitor.variants}
<1>1. SlotsOf(monitor) = Sessions \cup Options
  BY Zenon DEF SlotsOf
<1>2. \A target : slot \in Of(target) <=> \E time \in target.times : slot = Session(monitor, target.date, time)
  BY DEF Session
<1>3. slot \in Options <=> \E variant \in monitor.variants : slot = Option(monitor, variant)
  BY DEF Option
<1> HIDE DEF Of
<1>4. slot \in Sessions <=> \E target \in monitor.targets : slot \in Of(target)
  OBVIOUS
<1> HIDE DEF Sessions, Options
<1> QED
  BY <1>1, <1>2, <1>3, <1>4

\* The slots of what is left of a monitor are those LeftOf names.
LEMMA SlotsOfRemaining ==
  ASSUME NEW monitor, IsMonitor(monitor), HasTargets(monitor), NEW moment, NEW slot
  PROVE  slot \in SlotsOf(Remaining(monitor, moment)) <=> LeftOf(monitor, moment, slot)
<1> DEFINE left == Remaining(monitor, moment)
           off == ~monitor.enabled \/ Expired(monitor, moment)
<1>1. /\ left.id = monitor.id /\ left.product = monitor.product
      /\ off => left.targets = {} /\ left.variants = {}
      /\ ~off => /\ left.targets = RemainingTargets(monitor, moment)
                 /\ left.variants = monitor.variants
  BY RemainingIs
<1>2. /\ \A date, time : Session(left, date, time) = Session(monitor, date, time)
      /\ \A variant : Option(left, variant) = Option(monitor, variant)
  BY <1>1 DEF Session, Option
<1> HIDE DEF left
<1>3. slot \in SlotsOf(left) <=>
        \/ \E target \in left.targets : \E time \in target.times : slot = Session(monitor, target.date, time)
        \/ \E variant \in left.variants : slot = Option(monitor, variant)
  <2>1. slot \in SlotsOf(left) <=>
          \/ \E target \in left.targets : \E time \in target.times : slot = Session(left, target.date, time)
          \/ \E variant \in left.variants : slot = Option(left, variant)
    BY SlotsOfAre
  <2> QED
    BY <1>2, <2>1
<1>4. CASE off
  <2>1. slot \notin SlotsOf(left)
    BY <1>1, <1>3, <1>4
  <2> QED
    BY <1>4, <2>1, Zenon DEF LeftOf, left
<1>5. CASE ~off
  <2>1. slot \in SlotsOf(left) <=>
          \/ \E target \in RemainingTargets(monitor, moment) : \E time \in target.times :
               slot = Session(monitor, target.date, time)
          \/ \E variant \in monitor.variants : slot = Option(monitor, variant)
    BY <1>1, <1>3, <1>5
  <2>2. (\E target \in RemainingTargets(monitor, moment) : \E time \in target.times :
           slot = Session(monitor, target.date, time))
        <=> \E target \in monitor.targets : \E time \in RemainingTimes(target, moment) :
              slot = Session(monitor, target.date, time)
    BY RemainingTargetsAre
  <2> QED
    BY <1>5, <2>1, <2>2, Zenon DEF LeftOf, left
<1> QED
  BY <1>4, <1>5

\* A slot is active where it is left of some monitor.
LEMMA ActiveSlotsAre ==
  ASSUME NEW monitors, \A m \in monitors : IsMonitor(m) /\ HasTargets(m), NEW moment, NEW slot
  PROVE  slot \in ActiveSlots(monitors, moment) <=> \E m \in monitors : LeftOf(m, moment, slot)
<1>1. ASSUME NEW m, slot \in SlotsOf(m)
      PROVE  m.targets # {} \/ m.variants # {}
  BY <1>1 DEF SlotsOf
<1>2. slot \in ActiveSlots(monitors, moment) <=> \E m \in monitors : slot \in SlotsOf(Remaining(m, moment))
  BY <1>1, Zenon DEF ActiveSlots, ActiveMonitors
<1> QED
  BY <1>2, SlotsOfRemaining

\* What is active at a moment was active at every moment before it.
LEMMA LeftShrinks ==
  ASSUME NEW monitor, NEW now_ \in Moments, NEW later \in Moments, Earlier(now_, later),
         \A target \in monitor.targets : target.date \in Int /\ target.times \subseteq Int,
         monitor.expires_at \in Moments \cup {None},
         NEW slot, LeftOf(monitor, later, slot)
  PROVE  LeftOf(monitor, now_, slot)
<1>1. ~Expired(monitor, now_)
  BY EarlierTransitive DEF LeftOf, Expired
<1>2. \A target \in monitor.targets : RemainingTimes(target, later) \subseteq RemainingTimes(target, now_)
  BY DEF RemainingTimes, Earlier, Moments
<1> QED
  BY <1>1, <1>2, Zenon DEF LeftOf

-----------------------------------------------------------------------------
(* Config files.                                                           *)

\* Monitors built from a config file have dates, times and ends that compare.
LEMMA MonitorsAreTyped ==
  ASSUME NEW file \in Configs, NEW monitor \in Monitors(file)
  PROVE  /\ IsMonitor(monitor) /\ HasTargets(monitor)
         /\ \A target \in monitor.targets : target.date \in Int /\ target.times \subseteq Int
         /\ monitor.expires_at \in Moments \cup {None}
<1>1. PICK entry \in Range(file.monitors) : monitor = MonitorOf(entry, file.defaults)
  BY DEF Monitors
<1>2. IsMonitor(monitor)
  BY <1>1 DEF MonitorOf, IsMonitor
<1>3. /\ monitor.targets = {[date |-> target.date, times |-> Range(target.times)] : target \in Range(Targets(entry))}
      /\ monitor.expires_at = ExpiresAt(entry)
  BY <1>1 DEF MonitorOf
<1>4. \A target \in Range(Targets(entry)) : target.date \in Int /\ Range(target.times) \subseteq Int
  <2>1. entry.targets \in Seq([date : Int, times : Seq(Int)])
    BY ConfigsAssumption
  <2>2. Targets(entry) \in Seq([date : Int, times : Seq(Int)])
    BY <2>1 DEF Targets, Given
  <2>3. ASSUME NEW S, NEW s \in Seq(S)
        PROVE  Range(s) \subseteq S
    BY DEF Range
  <2>4. Range(Targets(entry)) \subseteq [date : Int, times : Seq(Int)]
    BY <2>2, <2>3
  <2> QED
    BY <2>3, <2>4
<1>5. \A target \in monitor.targets : /\ target.date \in Int /\ target.times \subseteq Int
                                     /\ target = [date |-> target.date, times |-> target.times]
  BY <1>3, <1>4
<1>6. monitor.expires_at \in Moments \cup {None}
  BY <1>3, ConfigsAssumption DEF ExpiresAt, Given
<1> QED
  BY <1>2, <1>5, <1>6 DEF HasTargets

\* Time only takes slots away.
LEMMA ActiveShrinks ==
  ASSUME NEW file \in Configs, NEW before \in Moments, NEW later \in Moments, Earlier(before, later)
  PROVE  ActiveSlots(Monitors(file), later) \subseteq ActiveSlots(Monitors(file), before)
<1> SUFFICES ASSUME NEW slot \in ActiveSlots(Monitors(file), later)
             PROVE  slot \in ActiveSlots(Monitors(file), before)
  OBVIOUS
<1>1. PICK monitor \in Monitors(file) : LeftOf(monitor, later, slot)
  BY MonitorsAreTyped, ActiveSlotsAre
<1>2. LeftOf(monitor, before, slot)
  BY <1>1, MonitorsAreTyped, LeftShrinks
<1> QED
  BY <1>2, MonitorsAreTyped, ActiveSlotsAre

\* With ids that are used once, a state key is that of one slot.
LEMMA KeysAreUnique ==
  ASSUME NEW file \in Configs, Accepts(file), NEW moment,
         NEW a \in ActiveSlots(Monitors(file), moment),
         NEW b \in ActiveSlots(Monitors(file), moment),
         StateKey(a) = StateKey(b)
  PROVE  a = b
<1>1. PICK m \in Monitors(file) : LeftOf(m, moment, a)
  BY MonitorsAreTyped, ActiveSlotsAre
<1>2. PICK n \in Monitors(file) : LeftOf(n, moment, b)
  BY MonitorsAreTyped, ActiveSlotsAre
<1>3. /\ a = [id |-> m.id, product |-> m.product, date |-> a.date, item |-> a.item]
      /\ b = [id |-> n.id, product |-> n.product, date |-> b.date, item |-> b.item]
  BY <1>1, <1>2 DEF LeftOf, Session, Option
<1>4. a.id = b.id /\ a.date = b.date /\ a.item = b.item
  BY DEF StateKey
<1>5. m = n
  <2>1. m.id = n.id
    BY <1>3, <1>4
  <2>2. PICK i \in DOMAIN file.monitors : m = MonitorOf(file.monitors[i], file.defaults)
    BY DEF Monitors, Range
  <2>3. PICK j \in DOMAIN file.monitors : n = MonitorOf(file.monitors[j], file.defaults)
    BY DEF Monitors, Range
  <2>4. m.id = file.monitors[i].id /\ n.id = file.monitors[j].id
    BY <2>2, <2>3 DEF MonitorOf
  <2>5. i = j
    BY <2>1, <2>4 DEF Accepts, IsInjective
  <2> QED
    BY <2>2, <2>3, <2>5
<1> QED
  BY <1>3, <1>4, <1>5

\* An entry that is accepted names each of its sessions and options once.
LEMMA AcceptedNamesOnce ==
  ASSUME NEW file, Accepts(file), NEW entry \in Range(file.monitors)
  PROVE  NamedOnce(entry)
<1>1. AcceptsEntry(entry, file.defaults)
  BY DEF Accepts
<1>2. CASE entry.site = "yanolja"
  <2>1. Targets(entry) = <<>> /\ IsInjective(Variants(entry))
    BY <1>1, <1>2 DEF AcceptsEntry, AcceptsOptions, Has, Targets, Given
  <2> QED
    BY <2>1 DEF NamedOnce
<1>3. CASE entry.site = "naver"
  <2>1. /\ Targets(entry) = entry.targets /\ Variants(entry) = <<>>
        /\ IsInjective([i \in DOMAIN entry.targets |-> entry.targets[i].date])
        /\ \A target \in Range(entry.targets) : IsInjective(target.times)
    BY <1>1, <1>3 DEF AcceptsEntry, AcceptsSessions, Has, Targets, Variants, Given
  <2>2. \A i, j \in DOMAIN entry.targets :
          entry.targets[i].date = entry.targets[j].date => i = j
    BY <2>1 DEF IsInjective
  <2>3. \A i \in DOMAIN entry.targets : IsInjective(entry.targets[i].times)
    BY <2>1 DEF Range
  <2>4. IsInjective(<<>>)
    BY DEF IsInjective
  <2>5. ASSUME NEW i \in DOMAIN entry.targets, NEW j \in DOMAIN entry.targets,
               NEW k \in DOMAIN entry.targets[i].times, NEW l \in DOMAIN entry.targets[j].times,
               entry.targets[i].date = entry.targets[j].date,
               entry.targets[i].times[k] = entry.targets[j].times[l]
        PROVE  i = j /\ k = l
    <3>1. i = j
      BY <2>2, <2>5
    <3> QED
      BY <2>3, <2>5, <3>1 DEF IsInjective
  <2> QED
    BY <2>1, <2>4, <2>5 DEF NamedOnce
<1> QED
  BY <1>1, <1>2, <1>3 DEF AcceptsEntry

\* Whoever wrote an expiry under a key that was accepted gets it.
LEMMA ExpiredIsInactive ==
  ASSUME NEW file \in Configs, Accepts(file), NEW moment \in Moments,
         NEW entry \in Range(file.monitors), entry.expires_at # None,
         Earlier(entry.expires_at, moment),
         NEW slot \in ActiveSlots(Monitors(file), moment)
  PROVE  slot.id # entry.id
<1> SUFFICES ASSUME slot.id = entry.id PROVE FALSE
  OBVIOUS
<1>1. PICK monitor \in Monitors(file) : LeftOf(monitor, moment, slot)
  BY MonitorsAreTyped, ActiveSlotsAre
<1>2. PICK j \in DOMAIN file.monitors : monitor = MonitorOf(file.monitors[j], file.defaults)
  BY DEF Monitors, Range
<1>3. PICK i \in DOMAIN file.monitors : entry = file.monitors[i]
  BY DEF Range
<1>4. slot.id = file.monitors[j].id
  BY <1>1, <1>2 DEF LeftOf, Session, Option, MonitorOf
<1>5. monitor.expires_at = ExpiresAt(entry)
  BY <1>2, <1>3, <1>4 DEF Accepts, IsInjective, MonitorOf
<1>6. entry.keys \subseteq {"targets", "variants", "expires_at"}
  BY DEF Accepts, AcceptsEntry, NoUnknownKeys, KnownKeys
<1>7. ExpiresAt(entry) = entry.expires_at
  BY <1>6, ConfigsAssumption DEF ExpiresAt, Given
<1> QED
  BY <1>1, <1>5, <1>7 DEF LeftOf, Expired

-----------------------------------------------------------------------------
(* Requests and observations.                                              *)

\* The requests for some slots ask for each of them once.
LEMMA RequestsPartition ==
  ASSUME NEW slots
  PROVE  /\ Slots(Requests(slots)) = slots
         /\ \A a, b \in Requests(slots) : a # b => a.slots \cap b.slots = {}
<1> DEFINE R(slot) == [product |-> slot.product, date |-> slot.date,
                       slots |-> {other \in slots : OneRequest(slot, other)}]
<1>1. Requests(slots) = {R(slot) : slot \in slots}
  BY Zenon DEF Requests
<1>2. ASSUME NEW slot \in slots
      PROVE  slot \in R(slot).slots /\ R(slot) \in Requests(slots)
  BY <1>1 DEF OneRequest
<1>3. \A request \in Requests(slots) : request.slots \subseteq slots
  BY <1>1
<1>4. Slots(Requests(slots)) = slots
  BY <1>2, <1>3 DEF Slots
<1>5. ASSUME NEW a \in Requests(slots), NEW b \in Requests(slots), NEW common \in a.slots \cap b.slots
      PROVE  a = b
  <2>1. PICK s \in slots : a = R(s)
    BY <1>1
  <2>2. PICK t \in slots : b = R(t)
    BY <1>1
  <2>3. OneRequest(s, common) /\ OneRequest(t, common)
    BY <2>1, <2>2
  <2>4. s.product = t.product /\ s.date = t.date
    BY <2>3 DEF OneRequest
  <2>5. \A other : OneRequest(s, other) <=> OneRequest(t, other)
    BY <2>4 DEF OneRequest
  <2> QED
    BY <2>1, <2>2, <2>4, <2>5
<1> QED
  BY <1>4, <1>5

\* An answer is an observation for every slot of its request, and for no other.
LEMMA ObserveServes ==
  ASSUME NEW request, NEW reply
  PROVE  \A slot : slot \in request.slots <=> \E o \in Observe(request, reply) : slot = o.slot
<1> DEFINE O(slot) == IF IsSchedule(request) THEN ObserveSchedule(slot, reply) ELSE ObserveProduct(slot, reply)
<1>1. Observe(request, reply) = {O(slot) : slot \in request.slots}
  BY Zenon DEF Observe
<1>2. ASSUME NEW slot
      PROVE  O(slot).slot = slot
  <2>1. \A remaining, failure : Observation(slot, remaining, failure).slot = slot
    BY DEF Observation
  <2>2. ObserveSchedule(slot, reply).slot = slot
    BY <2>1, Zenon DEF ObserveSchedule, Missing
  <2>3. ObserveProduct(slot, reply).slot = slot
    BY <2>1, Zenon DEF ObserveProduct
  <2> QED
    BY <2>2, <2>3
<1> HIDE DEF O
<1> QED
  BY <1>1, <1>2

-----------------------------------------------------------------------------
(* What is read off an answer.                                             *)

\* What ObservationsAreTrue says of one observation
IsTrue(o, reply) ==
  /\ (o.failure = None) = (o.remaining # None)
  /\ o.remaining \in SeatsOf(o.slot) \cup {None}
  /\ o.failure = None => IsBorneOut(o, reply)

\* The fields of an observation
LEMMA ObservationIs ==
  ASSUME NEW slot, NEW remaining, NEW failure
  PROVE  /\ Observation(slot, remaining, failure).slot = slot
         /\ Observation(slot, remaining, failure).remaining = remaining
         /\ Observation(slot, remaining, failure).failure = failure
BY DEF Observation

\* A failure without a number is true, and a number that the answer bears out.
LEMMA TruthOf ==
  ASSUME NEW slot, NEW reply, NEW remaining, NEW failure,
         \/ remaining = None /\ failure # None
         \/ /\ remaining \in SeatsOf(slot) /\ failure = None
            /\ IsBorneOut(Observation(slot, remaining, failure), reply)
  PROVE  IsTrue(Observation(slot, remaining, failure), reply)
<1> DEFINE o == Observation(slot, remaining, failure)
<1>1. o.slot = slot /\ o.remaining = remaining /\ o.failure = failure
  BY ObservationIs
<1> HIDE DEF o
<1>2. /\ (o.failure = None) = (o.remaining # None)
      /\ o.remaining \in SeatsOf(o.slot) \cup {None}
  BY <1>1, AnswersAssumption DEF SeatsOf
<1> QED
  BY <1>1, <1>2, Zenon DEF IsTrue, o

\* What the parser makes of a schedule.
LEMMA ParseScheduleIs ==
  ASSUME NEW reply \in Schedules
  PROVE  LET schedule == ParseSchedule(reply)
         IN  \/ /\ reply.shape = "list" /\ WellFormed(reply.items)
                /\ schedule.items = reply.items /\ schedule.failure = None
             \/ schedule.items = <<>>
<1>1. /\ \A items : Parsed(items).items = items /\ Parsed(items).failure = None
      /\ \A kind : Failed(kind).items = <<>>
  BY DEF Parsed, Failed
<1>2. \/ reply.shape = "list" /\ WellFormed(reply.items) /\ ParseSchedule(reply) = Parsed(reply.items)
      \/ ParseSchedule(reply) = Failed("malformed_response")
      \/ ParseSchedule(reply) = Parsed(<<>>)
      \/ ParseSchedule(reply) = Failed(reply.shape)
  BY Zenon DEF ParseSchedule
<1> QED
  BY <1>1, <1>2

\* A session that an answer does not show is a failure, whatever the reason.
LEMMA MissingIsTrue ==
  ASSUME NEW slot, NEW schedule, NEW reply
  PROVE  IsTrue(Missing(slot, schedule), reply)
<1> DEFINE failure == IF schedule.failure = None THEN MissingReason(schedule) ELSE schedule.failure
<1>1. failure # None
  BY AnswersAssumption DEF MissingReason
<1>2. Missing(slot, schedule) = Observation(slot, None, failure)
  BY Zenon DEF Missing
<1> HIDE DEF failure
<1> QED
  BY <1>1, <1>2, TruthOf

\* A schedule that was understood bears out what its items say.
LEMMA ItemBearsOut ==
  ASSUME NEW slot, slot.date # None, NEW reply \in Schedules, reply.shape = "list",
         WellFormed(reply.items), NEW i \in 1..Len(reply.items),
         reply.items[i].date = slot.date, reply.items[i].time = slot.item
  PROVE  LET item == reply.items[i]
         IN  IsTrue(Observation(slot, Slot!ScheduleRemaining(item.stock, item.booked, item.on_sale), None), reply)
<1> DEFINE item == reply.items[i]
           remaining == Slot!ScheduleRemaining(item.stock, item.booked, item.on_sale)
           o == Observation(slot, remaining, None)
<1>1. /\ item \in Range(reply.items) /\ item.stock \in Int /\ item.booked \in Int
  <2>1. reply.items \in Seq(ScheduleItems)
    BY AnswersAssumption
  <2>2. item \in ScheduleItems /\ item \in Range(reply.items)
    BY <2>1, RangeIs
  <2> QED
    BY <2>2 DEF ScheduleItems
<1>2. Entries(reply) = Range(reply.items)
  BY DEF Entries
<1>3. o.slot = slot /\ o.remaining = remaining
  BY ObservationIs
<1>4. /\ remaining \in SeatsOf(slot)
      /\ remaining > 0 => item.stock - item.booked = remaining
  BY <1>1 DEF Slot!ScheduleRemaining, SeatsOf
<1>5. remaining > 0 => item.on_sale
  <2>1. ~item.on_sale => remaining = 0
    BY Zenon DEF Slot!ScheduleRemaining
  <2> QED
    BY <2>1
<1>6. Shows(item, slot)
  BY DEF Shows
<1> HIDE DEF item, remaining, o
<1>7. \A entry \in Entries(reply) : entry.well_formed
  BY <1>2, Zenon DEF WellFormed
<1>8. IsBorneOut(o, reply)
  <2>1. item \in Entries(reply)
    BY <1>1, <1>2
  <2> QED
    BY <1>3, <1>4, <1>5, <1>6, <1>7, <2>1, Zenon DEF IsBorneOut
<1> QED
  BY <1>4, <1>8, TruthOf DEF o, item, remaining

\* What is read off a schedule is borne out by it.
LEMMA ScheduleIsTrue ==
  ASSUME NEW slot, slot.date # None, NEW reply \in Schedules
  PROVE  IsTrue(ObserveSchedule(slot, reply), reply)
<1> DEFINE items == ParseSchedule(reply).items
           Matches == {i \in 1..Len(items) : items[i].date = slot.date /\ items[i].time = slot.item}
           found == IF Matches # {} THEN Min(Matches) ELSE 0
           item == items[found]
           remaining == Slot!ScheduleRemaining(item.stock, item.booked, item.on_sale)
<1>1. ObserveSchedule(slot, reply) =
        IF found = 0 THEN Missing(slot, ParseSchedule(reply)) ELSE Observation(slot, remaining, None)
  BY Zenon DEF ObserveSchedule, SelectInSeq
<1>2. Matches \subseteq Nat
  OBVIOUS
<1>3. CASE found = 0
  BY <1>1, <1>3, MissingIsTrue
<1>4. CASE found # 0
  <2>1. found \in 1..Len(items) /\ items[found].date = slot.date /\ items[found].time = slot.item
    <3>1. Matches # {} /\ found = Min(Matches)
      BY <1>4
    <3>2. Min(Matches) \in Matches
      <4> HIDE DEF Matches
      <4> QED
        BY <1>2, <3>1, MinIs
    <3> QED
      BY <3>1, <3>2
  <2> HIDE DEF found
  <2>2. items # <<>>
    BY <2>1
  <2>3. reply.shape = "list" /\ WellFormed(reply.items) /\ items = reply.items
    BY <2>2, ParseScheduleIs
  <2>4. ObserveSchedule(slot, reply) = Observation(slot, remaining, None)
    BY <1>1, <1>4
  <2> QED
    BY <2>1, <2>3, <2>4, ItemBearsOut
<1> QED
  BY <1>3, <1>4

\* What the parser makes of a page.
LEMMA ParsePageIs ==
  ASSUME NEW page \in Pages, NEW product
  PROVE  LET parsed == ParsePage(page, product)
         IN  \/ /\ page.shape = "groups" /\ page.product = product
                /\ \A group \in Range(page.groups) : GroupRead(group)
                /\ parsed.items = FlattenSeq([i \in DOMAIN page.groups |-> page.groups[i].items])
                /\ parsed.failure = None
             \/ parsed.items = <<>> /\ parsed.failure # None
<1> DEFINE items == FlattenSeq([i \in DOMAIN page.groups |-> page.groups[i].items])
<1>1. /\ Parsed(items).items = items /\ Parsed(items).failure = None
      /\ \A kind : Failed(kind).items = <<>> /\ Failed(kind).failure = kind
  BY DEF Parsed, Failed
<1> HIDE DEF items
<1>2. page.shape # None /\ "malformed_response" # None
  BY AnswersAssumption
<1>3. \/ /\ page.shape = "groups" /\ page.product = product
         /\ \A group \in Range(page.groups) : GroupRead(group)
         /\ ParsePage(page, product) = Parsed(items)
      \/ ParsePage(page, product) = Failed("malformed_response")
      \/ ParsePage(page, product) = Failed(page.shape)
  BY Zenon DEF ParsePage, FetchErrors, OwnPage, items
<1> QED
  BY <1>1, <1>2, <1>3 DEF items

\* The options of a page are the entries of its groups.
LEMMA PageItemsAre ==
  ASSUME NEW page \in Pages, page.shape = "groups",
         \A group \in Range(page.groups) : GroupRead(group)
  PROVE  LET items == FlattenSeq([i \in DOMAIN page.groups |-> page.groups[i].items])
         IN  /\ items \in Seq(OptionItems)
             /\ Range(items) = Entries(page)
             /\ \A entry \in Entries(page) : entry.well_formed
<1> DEFINE n == Len(page.groups)
           parts == [i \in DOMAIN page.groups |-> page.groups[i].items]
           Groups == [shape : {"list", "null", "missing"}, items : Seq(OptionItems)]
<1>1. /\ page.groups \in Seq(Groups)
      /\ \A group \in Range(page.groups) : group.shape # "list" => group.items = <<>>
  BY AnswersAssumption
<1>2. n \in Nat /\ DOMAIN page.groups = 1..n /\ \A i \in 1..n : page.groups[i].items \in Seq(OptionItems)
  <2>1. \A group \in Groups : group.items \in Seq(OptionItems)
    OBVIOUS
  <2> HIDE DEF Groups
  <2>2. n \in Nat /\ DOMAIN page.groups = 1..n /\ \A i \in 1..n : page.groups[i] \in Groups
    BY <1>1
  <2> QED
    BY <2>1, <2>2
<1>3. parts \in Seq(Seq(OptionItems)) /\ Len(parts) = n /\ \A i \in 1..n : parts[i] = page.groups[i].items
  BY <1>2
<1>4. FlattenSeq(parts) \in Seq(OptionItems)
      /\ Range(FlattenSeq(parts)) = UNION {Range(parts[i]) : i \in 1..n}
  <2> HIDE DEF parts, n
  <2> QED
    BY <1>3, FlattenSeqIs
<1>5. Entries(page) = UNION {Range(group.items) : group \in Range(page.groups)}
  BY DEF Entries
<1>6. \A group : group \in Range(page.groups) <=> \E i \in 1..n : group = page.groups[i]
  BY <1>1, RangeIs
<1>7. UNION {Range(parts[i]) : i \in 1..n} = Entries(page)
  <2> HIDE DEF parts, n
  <2>1. \A entry : entry \in Entries(page) <=> \E group \in Range(page.groups) : entry \in Range(group.items)
    BY <1>5
  <2>2. \A entry : entry \in Entries(page) <=> \E i \in 1..n : entry \in Range(page.groups[i].items)
    BY <1>6, <2>1
  <2> QED
    BY <1>3, <2>2
<1>8. ASSUME NEW entry \in Entries(page)
      PROVE  entry.well_formed
  <2>1. PICK group \in Range(page.groups) : entry \in Range(group.items)
    BY <1>5
  <2>2. CASE group.shape = "list"
    BY <2>1, <2>2, Zenon DEF GroupRead, WellFormed
  <2>3. CASE group.shape # "list"
    <3>1. group.items = <<>> /\ Range(<<>>) = {}
      BY <1>1, <2>3 DEF Range
    <3> QED
      BY <2>1, <3>1
  <2> QED
    BY <2>2, <2>3
<1> QED
  BY <1>4, <1>7, <1>8

\* What is read off a page is borne out by it.
LEMMA ProductIsTrue ==
  ASSUME NEW slot, slot.date = None, NEW page \in Pages
  PROVE  IsTrue(ObserveProduct(slot, page), page)
<1> DEFINE parsed == ParsePage(page, slot.product)
           items == parsed.items
           Matches == {i \in 1..Len(items) : items[i].variant = slot.item}
           found == IF Matches # {} THEN Max(Matches) ELSE 0
           failure == IF parsed.failure = None THEN "variant_not_found" ELSE parsed.failure
           remaining == Slot!VariantRemaining(items[found].on_sale)
<1>1. ObserveProduct(slot, page) =
        IF found = 0 THEN Observation(slot, None, failure) ELSE Observation(slot, remaining, None)
  BY Zenon DEF ObserveProduct, SelectLastInSeq
<1>2. CASE found = 0
  <2>1. failure # None
    BY AnswersAssumption
  <2> HIDE DEF failure, remaining, found
  <2> QED
    BY <1>1, <1>2, <2>1, TruthOf
<1>3. CASE found # 0
  <2>1. Matches # {} /\ found = Max(Matches)
    BY <1>3
  <2>2. items # <<>>
    BY <2>1
  <2>3. /\ page.shape = "groups" /\ page.product = slot.product
        /\ \A group \in Range(page.groups) : GroupRead(group)
        /\ items = FlattenSeq([i \in DOMAIN page.groups |-> page.groups[i].items])
    BY <2>2, ParsePageIs
  <2>4. /\ items \in Seq(OptionItems) /\ Range(items) = Entries(page)
        /\ \A entry \in Entries(page) : entry.well_formed
    BY <2>3, PageItemsAre
  <2> HIDE DEF items
  <2>5. found \in Matches
    <3>1. Len(items) \in Nat /\ Matches \subseteq 1..Len(items)
      BY <2>4
    <3> HIDE DEF Matches
    <3> QED
      BY <2>1, <3>1, MaxIs
  <2>6. found \in 1..Len(items) /\ items[found].variant = slot.item
    BY <2>5
  <2> HIDE DEF found, Matches
  <2>7. items[found] \in Entries(page) /\ Shows(items[found], slot)
    BY <2>4, <2>6, RangeIs DEF Shows
  <2>8. remaining \in SeatsOf(slot) /\ (remaining > 0 => items[found].on_sale)
    <3>1. /\ items[found].on_sale => remaining = 1
          /\ ~items[found].on_sale => remaining = 0
      BY Zenon DEF Slot!VariantRemaining
    <3> QED
      BY <3>1 DEF SeatsOf
  <2>9. \A group \in Range(page.groups) : group.shape # "missing"
    BY <2>3 DEF GroupRead
  <2> DEFINE o == Observation(slot, remaining, None)
  <2>10. o.slot = slot /\ o.remaining = remaining
    BY ObservationIs
  <2> HIDE DEF remaining, o
  <2>11. IsBorneOut(o, page)
    BY <2>3, <2>4, <2>7, <2>8, <2>9, <2>10, Zenon DEF IsBorneOut
  <2> QED
    BY <1>1, <1>3, <2>8, <2>11, TruthOf DEF o
<1> QED
  BY <1>2, <1>3

\* What is read off an answer for the slots of a request is borne out by it.
LEMMA ObserveIsTrue ==
  ASSUME NEW request, NEW reply \in IF IsSchedule(request) THEN Schedules ELSE Pages,
         \A slot \in request.slots : slot.date = request.date,
         NEW o \in Observe(request, reply)
  PROVE  IsTrue(o, reply)
<1>1. PICK slot \in request.slots :
        o = IF IsSchedule(request) THEN ObserveSchedule(slot, reply) ELSE ObserveProduct(slot, reply)
  BY Zenon DEF Observe
<1>2. CASE IsSchedule(request)
  BY <1>1, <1>2, ScheduleIsTrue DEF IsSchedule
<1>3. CASE ~IsSchedule(request)
  BY <1>1, <1>3, ProductIsTrue DEF IsSchedule
<1> QED
  BY <1>2, <1>3

-----------------------------------------------------------------------------
(* The inductive invariant.                                                *)

\* Whatever follows load_config works on a config that it accepted.
Loaded == pc \in {"loop", "fetching", "ended", "goes_on", "over"} => Accepts(config)

\* What is to be asked and what was observed make up the pass.
Covered ==
  pc = "fetching" =>
    Slots(todo) \cup Observed = Active(pass_now) /\ Slots(todo) \cap Observed = {}

\* Without active targets there never are any again.
NothingLeft == reason = "no_active_targets" => pc \in {"ended", "over"} /\ Active(now) = {}

\* The observations that the last answer was asked for are read off it; those
\* made before are of other slots, whose answers are gone.
LastAnswerRead ==
  /\ \A o \in observed :
       /\ (o.failure = None) = (o.remaining # None)
       /\ o.remaining \in SeatsOf(o.slot) \cup {None}
  /\ asked # None =>
       /\ answer \in IF IsSchedule(asked) THEN Schedules ELSE Pages
       /\ \A slot \in asked.slots : slot.date = asked.date
       /\ \A o \in observed : o.slot \in asked.slots => o \in Observe(asked, answer)

IInv == TypeOK /\ Loaded /\ Covered /\ NothingLeft /\ LastAnswerRead

\* The invariant holds before the config is loaded.
THEOREM Initially == Init => IInv
BY DEF Init, IInv, TypeOK, Loaded, Covered, NothingLeft, LastAnswerRead

\* The passing of time keeps the invariant: what has ended stays ended.
LEMMA TickKeeps == IInv /\ Tick => IInv'
<1> SUFFICES ASSUME IInv, Tick PROVE IInv'
  OBVIOUS
<1>1. /\ now' \in Instants /\ Earlier(now, now')
      /\ UNCHANGED <<config, pc, pass_now, todo, asked, answer, observed, reason>>
  BY DEF Tick, pass
<1>2. Active(now)' \subseteq Active(now)
  BY <1>1, ActiveShrinks, InstantsAssumption DEF Active, IInv, TypeOK
<1>3. TypeOK'
  BY <1>1 DEF IInv, TypeOK, Active
<1>4. Covered'
  BY <1>1 DEF IInv, Covered, Active, Observed
<1>5. LastAnswerRead'
  BY <1>1 DEF IInv, LastAnswerRead
<1> QED
  BY <1>1, <1>2, <1>3, <1>4, <1>5 DEF IInv, Loaded, NothingLeft

\* The beginning of a pass keeps the invariant.
LEMMA BeginPassKeeps == IInv /\ BeginPass => IInv'
<1> SUFFICES ASSUME IInv, BeginPass PROVE IInv'
  OBVIOUS
<1>1. /\ pc = "loop" /\ pc' = "fetching" /\ Active(now) # {}
      /\ pass_now' = now /\ todo' = Requests(Active(now)) /\ asked' = None /\ observed' = {}
      /\ UNCHANGED <<config, now, reason>>
  BY DEF BeginPass
<1>2. Active(pass_now)' = Active(now)
  BY <1>1 DEF Active
<1>3. TypeOK'
  BY <1>1, <1>2 DEF IInv, TypeOK
<1>4. Covered'
  <2>1. Slots(todo)' = Active(now) /\ Observed' = {}
    BY <1>1, RequestsPartition DEF Observed, Slots
  <2> QED
    BY <1>2, <2>1 DEF Covered
<1>5. LastAnswerRead'
  BY <1>1 DEF LastAnswerRead
<1> QED
  BY <1>1, <1>3, <1>4, <1>5 DEF IInv, Loaded, NothingLeft

\* A fetch keeps the invariant: what leaves todo is observed.
LEMMA FetchKeeps ==
  ASSUME IInv, NEW request \in todo,
         NEW reply \in IF IsSchedule(request) THEN Schedules ELSE Pages,
         Fetch(request, reply)
  PROVE  IInv'
<1>1. /\ pc = "fetching" /\ asked' = request /\ answer' = reply
      /\ todo' = todo \ {request} /\ observed' = observed \cup Observe(request, reply)
      /\ UNCHANGED <<config, pc, now, pass_now, reason>>
  BY DEF Fetch
<1>2. Active(pass_now)' = Active(pass_now) /\ Active(now)' = Active(now)
  BY <1>1 DEF Active
<1>3. TypeOK'
  BY <1>1, <1>2 DEF IInv, TypeOK
<1>4. Covered'
  <2>1. Slots(todo)' = Slots(todo) \ request.slots
    BY <1>1, RequestsPartition DEF IInv, TypeOK, Slots
  <2>2. Observed' = Observed \cup request.slots
    <3>1. \A slot : slot \in Observed <=> \E o \in observed : slot = o.slot
      BY Zenon DEF Observed
    <3>2. \A slot : slot \in Observed' <=> \E o \in observed' : slot = o.slot
      BY Zenon DEF Observed
    <3>3. \A slot : slot \in Observed' <=> slot \in Observed \/ slot \in request.slots
      <4>1. \A o : o \in observed' <=> o \in observed \/ o \in Observe(request, reply)
        BY <1>1
      <4>2. \A slot : slot \in request.slots <=> \E o \in Observe(request, reply) : slot = o.slot
        BY ObserveServes
      <4> QED
        BY <3>1, <3>2, <4>1, <4>2, Zenon
    <3> QED
      BY <3>3
  <2>3. request.slots \subseteq Slots(todo)
    BY DEF Slots
  <2> QED
    BY <1>1, <1>2, <2>1, <2>2, <2>3 DEF IInv, Covered
<1>5. LastAnswerRead'
  <2>1. \A slot \in request.slots : slot.date = request.date
    <3>1. request \in Requests(Active(pass_now))
      BY DEF IInv, TypeOK
    <3> QED
      BY <3>1 DEF Requests, OneRequest
  <2>2. \A o \in Observe(request, reply) :
          (o.failure = None) = (o.remaining # None) /\ o.remaining \in SeatsOf(o.slot) \cup {None}
    BY <2>1, ObserveIsTrue, Zenon DEF IsTrue
  <2>3. \A o \in observed : o.slot \notin request.slots
    <3>1. request.slots \subseteq Slots(todo)
      BY DEF Slots
    <3>2. \A o \in observed : o.slot \in Observed
      BY DEF Observed
    <3> QED
      BY <1>1, <3>1, <3>2 DEF IInv, Covered
  <2> QED
    BY <1>1, <2>1, <2>2, <2>3, Zenon DEF IInv, LastAnswerRead
<1> QED
  BY <1>1, <1>2, <1>3, <1>4, <1>5 DEF IInv, Loaded, NothingLeft

\* The other steps leave the pass and the clock alone.
LEMMA ControlKeeps ==
  IInv /\ (LoadConfig \/ EndPass \/ NothingActive \/ Deadline \/ HasActiveTargets \/ NextRun) => IInv'
<1> SUFFICES ASSUME IInv,
                    LoadConfig \/ EndPass \/ NothingActive \/ Deadline \/ HasActiveTargets \/ NextRun
             PROVE  IInv'
  OBVIOUS
<1> USE DEF LoadConfig, EndPass, NothingActive, Deadline, HasActiveTargets, NextRun
<1>1. /\ UNCHANGED <<config, now, pass_now, todo, asked, answer, observed>>
      /\ Active(pass_now)' = Active(pass_now) /\ Active(now)' = Active(now)
      /\ pc' # "fetching"
  BY DEF pass, Active
<1>2. TypeOK'
  BY <1>1 DEF IInv, TypeOK
<1>3. Loaded'
  BY <1>1 DEF IInv, Loaded
<1>4. NothingLeft'
  BY <1>1 DEF IInv, NothingLeft
<1>5. LastAnswerRead'
  BY <1>1 DEF IInv, LastAnswerRead
<1> QED
  BY <1>1, <1>2, <1>3, <1>4, <1>5 DEF IInv, Covered

\* Every step keeps the invariant.
THEOREM Step == IInv /\ [Next]_vars => IInv'
<1> SUFFICES ASSUME IInv, [Next]_vars PROVE IInv'
  OBVIOUS
<1>1. CASE Next
  BY <1>1, TickKeeps, BeginPassKeeps, FetchKeeps, ControlKeeps DEF Next
<1>2. CASE UNCHANGED vars
  BY <1>2 DEF vars, pass, IInv, TypeOK, Loaded, Covered, NothingLeft, LastAnswerRead, Active, Observed
<1> QED
  BY <1>1, <1>2

\* The invariant holds at every moment.
THEOREM Invariance == Spec => []IInv
BY Initially, Step, PTL DEF Spec

-----------------------------------------------------------------------------
(* The theorems.                                                           *)

\* Requests always belong to the pass they were made for.
THEOREM TypeCorrect == Spec => []TypeOK
<1>1. IInv => TypeOK
  BY DEF IInv
<1> QED
  BY Invariance, <1>1, PTL

\* Every active target is asked for in one request of the pass, once in it,
\* and no two share a stored state, however many monitors a config file has.
THEOREM AskedOnce == Spec => []EachSlotOnce
<1>1. IInv => EachSlotOnce
  <2> SUFFICES ASSUME IInv, pc = "fetching" PROVE EachSlotOnce
    BY DEF EachSlotOnce
  <2>1. \A a, b \in todo : a # b => a.slots \cap b.slots = {}
    BY RequestsPartition DEF IInv, TypeOK
  <2>2. \A a, b \in Active(pass_now) : StateKey(a) = StateKey(b) => a = b
    BY KeysAreUnique DEF IInv, TypeOK, Loaded, Active
  <2>3. \A entry \in Range(config.monitors) : NamedOnce(entry)
    BY AcceptedNamesOnce DEF IInv, Loaded
  <2> QED
    BY <2>1, <2>2, <2>3 DEF EachSlotOnce, IInv, Covered
<1> QED
  BY Invariance, <1>1, PTL

\* The two commands never disagree on whether anything is left to watch,
\* whatever the time between them.
THEOREM NoIdleChain == Spec => []ExitsAgree
<1>1. IInv => ExitsAgree
  BY DEF IInv, NothingLeft, ExitsAgree
<1> QED
  BY Invariance, <1>1, PTL

\* An expiry that was written is kept to, or the config was refused.
THEOREM ExpiryKept == Spec => []ExpiryHonoured
<1>1. IInv => ExpiryHonoured
  <2> SUFFICES ASSUME IInv, pc = "fetching" PROVE ExpiryHonoured
    BY DEF ExpiryHonoured
  <2>1. config \in Configs /\ Accepts(config) /\ pass_now \in Moments
    BY InstantsAssumption DEF IInv, TypeOK, Loaded
  <2> QED
    BY <2>1, ExpiredIsInactive DEF ExpiryHonoured, Active
<1> QED
  BY Invariance, <1>1, PTL

\* No answer, however malformed, is read as seats or as none: every reading
\* is of an entry that the answer to its request holds.
THEOREM ReadingsAreTrue == Spec => []ObservationsAreTrue
<1>1. IInv => ObservationsAreTrue
  <2> SUFFICES ASSUME IInv, NEW o \in observed
               PROVE  /\ (o.failure = None) = (o.remaining # None)
                      /\ o.remaining \in SeatsOf(o.slot) \cup {None}
                      /\ asked # None /\ o.slot \in asked.slots /\ o.failure = None => IsBorneOut(o, answer)
    BY Zenon DEF ObservationsAreTrue
  <2>1. (o.failure = None) = (o.remaining # None) /\ o.remaining \in SeatsOf(o.slot) \cup {None}
    BY DEF IInv, LastAnswerRead
  <2>2. ASSUME asked # None, o.slot \in asked.slots, o.failure = None
        PROVE  IsBorneOut(o, answer)
    <3>1. /\ answer \in IF IsSchedule(asked) THEN Schedules ELSE Pages
          /\ \A slot \in asked.slots : slot.date = asked.date
          /\ o \in Observe(asked, answer)
      BY <2>2 DEF IInv, LastAnswerRead
    <3>2. IsTrue(o, answer)
      BY <3>1, ObserveIsTrue
    <3> QED
      BY <2>2, <3>2 DEF IsTrue
  <2> QED
    BY <2>1, <2>2
<1> QED
  BY Invariance, <1>1, PTL

\* A target that has ended is never active again.
THEOREM EndedForGood == Spec => ExpiryIsFinal
<1>1. IInv /\ [Next]_vars => [Active(now') \subseteq Active(now)]_vars
  <2> SUFFICES ASSUME IInv, Next PROVE Active(now') \subseteq Active(now)
    BY DEF vars
  <2>1. CASE Tick
    BY <2>1, ActiveShrinks, InstantsAssumption DEF Tick, Active, IInv, TypeOK
  <2>2. CASE ~Tick
    <3>1. now' = now
      BY <2>2 DEF Next, LoadConfig, BeginPass, EndPass, NothingActive, Deadline,
                  HasActiveTargets, NextRun, Fetch
    <3> QED
      BY <3>1
  <2> QED
    BY <2>1, <2>2
<1> QED
  BY Invariance, <1>1, PTL DEF Spec, ExpiryIsFinal
=============================================================================
