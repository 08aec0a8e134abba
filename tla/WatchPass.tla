------------------------------ MODULE WatchPass ------------------------------
(***************************************************************************)
(* What is watched, from the config file to the observations: the monitor  *)
(* command loads the config, each pass fetches what is active at its       *)
(* start, and has-active-targets decides after the loop whether the chain  *)
(* goes on (__main__.py, monitor.py).  What becomes of the observations is *)
(* in SlotWatch.                                                           *)
(***************************************************************************)
EXTENDS Answers

CONSTANTS
  Configs,    \* parsed config files
  Instants,   \* moments, in KST
  Schedules,  \* Naver's answers
  Pages       \* Yanolja's answers

Moments == [day : Int, time : Int]

ASSUME InstantsAssumption == Instants \subseteq Moments

\* Dates and times are parsed; an expiry is written under a key of its own,
\* which may be misspelt.
ASSUME ConfigsAssumption ==
  \A file \in Configs : \A entry \in Range(file.monitors) :
    /\ entry.targets \in Seq([date : Int, times : Seq(Int)])
    /\ entry.expires_at \in Moments \cup {None}
    /\ entry.expires_at # None => \E key \in entry.keys : key \notin {"targets", "variants"}

\* What an answer of the expected shape holds; the flag of an item that lacks
\* a field or has one of the wrong type says so, and its fields say nothing.
ScheduleItems ==
  [date : Int, time : Int, stock : Int, booked : Int, on_sale : BOOLEAN, well_formed : BOOLEAN]
OptionItems == [variant : Int, on_sale : BOOLEAN, well_formed : BOOLEAN]

ASSUME AnswersAssumption ==
  /\ None \notin Int
  /\ None \notin {"malformed_response", "empty_schedule", "slot_not_found", "variant_not_found"}
  /\ \A reply \in Schedules :
       /\ reply.shape # None
       /\ reply.shape = "list" => reply.items \in Seq(ScheduleItems)
  /\ \A reply \in Pages :
       /\ reply.shape # None
       /\ reply.shape = "groups" =>
            /\ reply.groups \in Seq([shape : {"list", "null", "missing"}, items : Seq(OptionItems)])
            /\ \A group \in Range(reply.groups) : group.shape # "list" => group.items = <<>>

VARIABLES
  config,    \* the config file
  pc,        \* where the commands of the job are
  now,       \* the clock
  pass_now,  \* the moment the pass began
  todo,      \* the requests of the pass that have not been sent
  asked,     \* the request sent last
  answer,    \* its answer
  observed,  \* what was observed in the pass
  reason     \* LoopResult.stopped_reason

pass == <<pass_now, todo, asked, answer, observed>>
vars == <<config, pc, now, pass, reason>>

Active(moment) == ActiveSlots(Monitors(config), moment)
Slots(requests) == UNION {request.slots : request \in requests}
Observed == {o.slot : o \in observed}

TypeOK ==
  /\ config \in Configs
  /\ pc \in {"load", "refused", "loop", "fetching", "ended", "goes_on", "over"}
  /\ now \in Instants /\ pass_now \in Instants
  /\ todo \subseteq Requests(Active(pass_now))
  /\ reason \in {"none", "deadline", "no_active_targets"}

Init ==
  /\ config \in Configs
  /\ pc = "load"
  /\ now \in Instants /\ pass_now = now
  /\ todo = {} /\ asked = None /\ answer = None /\ observed = {}
  /\ reason = "none"

-----------------------------------------------------------------------------
\* Time passes between any two steps.
Tick ==
  /\ \E moment \in Instants : Earlier(now, moment) /\ now' = moment
  /\ UNCHANGED <<config, pc, pass, reason>>

\* load_config; a config that is refused ends the command with exit 2.
LoadConfig ==
  /\ pc = "load"
  /\ pc' = IF Accepts(config) THEN "loop" ELSE "refused"
  /\ UNCHANGED <<config, now, pass, reason>>

\* check_once is given the time of the loop's clock, once for the whole pass.
BeginPass ==
  /\ pc = "loop" /\ Active(now) # {}
  /\ pc' = "fetching"
  /\ pass_now' = now
  /\ todo' = Requests(Active(now))
  /\ asked' = None /\ answer' = None /\ observed' = {}
  /\ UNCHANGED <<config, now, reason>>

\* Schedules are fetched before products, in the order of the file.
Fetch(request, reply) ==
  /\ pc = "fetching" /\ request \in todo
  /\ IsSchedule(request) \/ ~\E other \in todo : IsSchedule(other)
  /\ todo' = todo \ {request}
  /\ asked' = request /\ answer' = reply
  /\ observed' = observed \cup Observe(request, reply)
  /\ UNCHANGED <<config, pc, now, pass_now, reason>>

EndPass ==
  /\ pc = "fetching" /\ todo = {}
  /\ pc' = "loop"
  /\ UNCHANGED <<config, now, pass, reason>>

\* The pass finds nothing active: CheckOutcome.monitors_active is 0.
NothingActive ==
  /\ pc = "loop" /\ Active(now) = {}
  /\ pc' = "ended" /\ reason' = "no_active_targets"
  /\ UNCHANGED <<config, now, pass>>

\* LOOP_MINUTES are over, perhaps in the middle of a pass (should_continue).
Deadline ==
  /\ pc \in {"loop", "fetching"}
  /\ pc' = "ended" /\ reason' = "deadline"
  /\ UNCHANGED <<config, now, pass>>

\* has-active-targets, a command of its own with a clock of its own.
HasActiveTargets ==
  /\ pc = "ended"
  /\ pc' = IF Active(now) = {} THEN "over" ELSE "goes_on"
  /\ UNCHANGED <<config, now, pass, reason>>

\* The next run of the chain, by the same config.
NextRun ==
  /\ pc = "goes_on"
  /\ pc' = "load" /\ reason' = "none"
  /\ UNCHANGED <<config, now, pass>>

Next ==
  \/ Tick \/ LoadConfig \/ BeginPass \/ EndPass \/ NothingActive \/ Deadline
  \/ HasActiveTargets \/ NextRun
  \/ \E request \in todo :
       \E reply \in IF IsSchedule(request) THEN Schedules ELSE Pages : Fetch(request, reply)

Spec == Init /\ [][Next]_vars

\* Time goes on, and so does the program; a loop runs into its deadline.
FairSpec ==
  /\ Spec
  /\ WF_vars(Tick) /\ WF_vars(LoadConfig) /\ WF_vars(NothingActive)
  /\ WF_vars(HasActiveTargets) /\ WF_vars(NextRun) /\ WF_vars(Deadline)

-----------------------------------------------------------------------------
(* Properties.                                                             *)

\* No session and no option twice in one entry: a pass goes through lists, and
\* would observe and judge such a slot twice.
NamedOnce(entry) ==
  /\ \A i, j \in DOMAIN Targets(entry) :
       \A k \in DOMAIN Targets(entry)[i].times, l \in DOMAIN Targets(entry)[j].times :
         /\ Targets(entry)[i].date = Targets(entry)[j].date
         /\ Targets(entry)[i].times[k] = Targets(entry)[j].times[l]
         => i = j /\ k = l
  /\ IsInjective(Variants(entry))

\* A pass asks for every active slot in exactly one request and once in it, and
\* no two slots share the state that their observations are recorded in.
EachSlotOnce ==
  pc = "fetching" =>
    /\ Slots(todo) \cup Observed = Active(pass_now)
    /\ Slots(todo) \cap Observed = {}
    /\ \A a, b \in todo : a # b => a.slots \cap b.slots = {}
    /\ \A a, b \in Active(pass_now) : StateKey(a) = StateKey(b) => a = b
    /\ \A entry \in Range(config.monitors) : NamedOnce(entry)

\* The entries of an answer, whatever they are worth
Entries(reply) ==
  CASE reply.shape = "list" -> Range(reply.items)
    [] reply.shape = "groups" -> UNION {Range(group.items) : group \in Range(reply.groups)}
    [] OTHER -> {}

Shows(entry, slot) ==
  IF slot.date = None THEN entry.variant = slot.item
  ELSE entry.date = slot.date /\ entry.time = slot.item

\* A reading of an answer that is understood in every part, of a target that
\* it shows; seats that are free are on sale and not booked.
IsBorneOut(o, reply) ==
  /\ reply.shape = "groups" =>
       /\ reply.product = o.slot.product
       /\ \A group \in Range(reply.groups) : group.shape # "missing"
  /\ \A entry \in Entries(reply) : entry.well_formed
  /\ \E entry \in Entries(reply) :
       /\ Shows(entry, o.slot)
       /\ o.remaining > 0 => entry.on_sale
       /\ o.remaining > 0 /\ o.slot.date # None => entry.stock - entry.booked = o.remaining

\* The numbers that seats come in: an option is on sale or not.
SeatsOf(slot) == IF slot.date = None THEN 0..1 ELSE Nat

\* Nothing is read off an answer of which some part is not understood, off
\* another product's page or for a target it does not show, sold out least of
\* all; and free seats are on sale and not booked, never fewer than none
\* (comments of naver.py and yanolja.py on malformed answers).
ObservationsAreTrue ==
  \A o \in observed :
    /\ (o.failure = None) = (o.remaining # None)
    /\ o.remaining \in SeatsOf(o.slot) \cup {None}
    /\ o.slot \in (IF asked = None THEN {} ELSE asked.slots) /\ o.failure = None => IsBorneOut(o, answer)

\* What has ended never comes back while the config stays as it is: the clock
\* that ends a pass and the clock of has-active-targets may differ.
ExpiryIsFinal == [][Active(now') \subseteq Active(now)]_vars

\* A loop that ended for want of active targets ends the chain too: no run is
\* started that would end at once and start the next.
ExitsAgree == reason = "no_active_targets" => pc # "goes_on"

\* Nothing is watched after the end its author wrote, even where the key is
\* misspelt (comment at _ROOT_KEYS).
ExpiryHonoured ==
  pc = "fetching" =>
    \A entry \in Range(config.monitors) :
      entry.expires_at # None /\ Earlier(entry.expires_at, pass_now) =>
        \A slot \in Active(pass_now) : slot.id # entry.id

\* Every config that is accepted ends some day, and the chain with it (comment
\* at the check of expires_at in _build_monitor).
WatchEnds == <>[](pc \in {"refused", "over"})
=============================================================================
