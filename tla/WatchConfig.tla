----------------------------- MODULE WatchConfig -----------------------------
(***************************************************************************)
(* The configuration (booking_slot_watch/config.py, models.py): which      *)
(* monitors.json load_config accepts, which monitors and sessions are      *)
(* worth fetching at a given moment, and the requests that fetch them.     *)
(*                                                                         *)
(* A config is the parsed JSON file, duplicates included: its defaults and *)
(* the sequence of its entries.  Keys, ids, URLs and products are values;  *)
(* the checks of their spelling and of JSON types are left out, except     *)
(* that of unknown keys.  A moment is a day and a time of it, in KST.      *)
(***************************************************************************)
EXTENDS Integers, Sequences, Functions

CONSTANT None  \* a key that is not there

\* datetime comparison
Earlier(a, b) == a.day < b.day \/ (a.day = b.day /\ a.time < b.time)

-----------------------------------------------------------------------------
(* load_config                                                             *)

KnownKeys == {"targets", "variants", "expires_at"}

Merged(own, default, fallback) ==
  CASE own # None -> own
    [] own = None /\ default # None -> default
    [] OTHER -> fallback

ThresholdOf(entry, defaults) == Merged(entry.threshold, defaults.threshold, 1)

\* entry.get: what a misspelt key says is not read.
Given(entry, key, value, absent) == IF key \in entry.keys THEN value ELSE absent

Has(entry, key) == key \in entry.keys
ExpiresAt(entry) == Given(entry, "expires_at", entry.expires_at, None)
Variants(entry) == Given(entry, "variants", entry.variants, <<>>)
Targets(entry) == Given(entry, "targets", entry.targets, <<>>)

\* Mutant: keys nobody knows are ignored.
NoUnknownKeysIgnored(entry) == TRUE

NoUnknownKeys(entry) == entry.keys \subseteq KnownKeys

\* Mutant: an option needs no end.
AcceptsOptionsEndless(entry, threshold) ==
  /\ ~Has(entry, "targets")
  /\ IsInjective(Variants(entry))
  /\ entry.enabled => Variants(entry) # <<>>
  /\ threshold = 1

\* A Yanolja monitor: options have no time, so only expires_at ends it; its
\* remaining seats are never more than one.
AcceptsOptions(entry, threshold) ==
  /\ ~Has(entry, "targets")
  /\ IsInjective(Variants(entry))
  /\ entry.enabled => Variants(entry) # <<>> /\ ExpiresAt(entry) # None
  /\ threshold = 1

\* A Naver monitor: each date once, each time of it once.
AcceptsSessions(entry) ==
  /\ ~Has(entry, "variants") /\ Has(entry, "targets")
  /\ IsInjective([i \in DOMAIN entry.targets |-> entry.targets[i].date])
  /\ \A target \in Range(entry.targets) : target.times # <<>> /\ IsInjective(target.times)
  /\ entry.enabled => entry.targets # <<>>

AcceptsEntry(entry, defaults) ==
  LET threshold == ThresholdOf(entry, defaults) IN
  /\ NoUnknownKeys(entry)
  /\ entry.site \in {"naver", "yanolja"}
  /\ threshold >= 1
  /\ entry.site = "yanolja" => AcceptsOptions(entry, threshold)
  /\ entry.site = "naver" => AcceptsSessions(entry)

\* Mutant: two monitors may have one id.
AcceptsSharedIds(config) ==
  config.monitors # <<>> /\ \A entry \in Range(config.monitors) : AcceptsEntry(entry, config.defaults)

Accepts(config) ==
  /\ config.monitors # <<>>
  /\ \A entry \in Range(config.monitors) : AcceptsEntry(entry, config.defaults)
  /\ IsInjective([i \in DOMAIN config.monitors |-> config.monitors[i].id])

\* MonitorConfig
MonitorOf(entry, defaults) ==
  [id |-> entry.id, enabled |-> entry.enabled,
   product |-> entry.product, threshold |-> ThresholdOf(entry, defaults),
   targets |-> {[date |-> target.date, times |-> Range(target.times)] : target \in Range(Targets(entry))},
   variants |-> Range(Variants(entry)),
   expires_at |-> ExpiresAt(entry)]

Monitors(config) ==
  {MonitorOf(entry, config.defaults) : entry \in Range(config.monitors)}

-----------------------------------------------------------------------------
(* active_monitors                                                         *)

\* Mutant: a time of day is over for the sessions of every date.
RemainingTimesAnyDay(target, now) ==
  IF target.date < now.day THEN {} ELSE {time \in target.times : time > now.time}

\* _remaining_target: a session that begins now has begun.
RemainingTimes(target, now) ==
  CASE target.date < now.day -> {}
    [] target.date > now.day -> target.times
    [] OTHER -> {time \in target.times : time > now.time}

RemainingTargets(monitor, now) ==
  {[target EXCEPT !.times = RemainingTimes(target, now)] :
     target \in {t \in monitor.targets : RemainingTimes(t, now) # {}}}

Expired(monitor, now) ==
  monitor.expires_at # None /\ Earlier(monitor.expires_at, now)

\* What is left of a monitor: nothing, if it is off or has expired.
Remaining(monitor, now) ==
  IF ~monitor.enabled \/ Expired(monitor, now)
  THEN [monitor EXCEPT !.targets = {}, !.variants = {}]
  ELSE [monitor EXCEPT !.targets = RemainingTargets(monitor, now)]

ActiveMonitors(monitors, now) ==
  {m \in {Remaining(monitor, now) : monitor \in monitors} : m.targets # {} \/ m.variants # {}}

-----------------------------------------------------------------------------
(* Slots, and the requests that ask for them.                              *)

\* A pair of a monitor and a time or an option; options have no date.
Session(monitor, date, time) ==
  [id |-> monitor.id, product |-> monitor.product, date |-> date, item |-> time]
Option(monitor, variant) ==
  [id |-> monitor.id, product |-> monitor.product, date |-> None, item |-> variant]

\* slot_key, variant_key: where the state of a slot is stored.
StateKey(slot) == <<slot.id, slot.date, slot.item>>

SlotsOf(monitor) ==
  (UNION {{Session(monitor, target.date, time) : time \in target.times} : target \in monitor.targets})
    \cup {Option(monitor, variant) : variant \in monitor.variants}

\* target_count, and what has-active-targets looks at
ActiveSlots(monitors, now) == UNION {SlotsOf(m) : m \in ActiveMonitors(monitors, now)}

\* One call answers for one product and, where there are sessions, one date.
OneRequest(slot, other) == slot.product = other.product /\ slot.date = other.date

\* group_requests
Requests(slots) ==
  {[product |-> slot.product, date |-> slot.date,
    slots |-> {other \in slots : OneRequest(slot, other)}] : slot \in slots}

\* Sessions are fetched before options.
IsSchedule(request) == request.date # None
=============================================================================
