------------------------------- MODULE Answers -------------------------------
(***************************************************************************)
(* From a provider's answer to observations: parse_hourly_schedule and     *)
(* HourlySchedule.find (naver.py), parse_product_page (yanolja.py), and    *)
(* _observe_schedule and _observe_product (monitor.py).                    *)
(*                                                                         *)
(* An answer is a record of what the parsers look at; its shape says how   *)
(* far down it is what they expect.  An item that lacks a field, or has one *)
(* of the wrong type, is not well formed.                                  *)
(***************************************************************************)
EXTENDS WatchConfig, SequencesExt

Slot == INSTANCE SlotState WITH ErrorCap <- 1

\* A parsed answer, or the error that the fetch or the parser raised.
Failed(kind) == [failure |-> kind, items |-> <<>>]
Parsed(items) == [failure |-> None, items |-> items]

\* What a fetch may raise for want of an answer, whichever the provider
FetchErrors == {"timeout", "network_error", "rate_limited", "http_error"}

WellFormed(items) == \A item \in Range(items) : item.well_formed

Observation(slot, remaining, failure) ==
  [slot |-> slot, remaining |-> remaining, failure |-> failure]

-----------------------------------------------------------------------------
(* Naver: an answer for one product and date.                              *)

\* "hourly" is a list or, where there are no sessions, null; all other shapes
\* are failures and named after their kind.
ParseSchedule(answer) ==
  CASE answer.shape = "list" /\ WellFormed(answer.items) -> Parsed(answer.items)
    [] answer.shape = "list" /\ ~WellFormed(answer.items) -> Failed("malformed_response")
    [] answer.shape = "null" -> Parsed(<<>>)
    [] OTHER -> Failed(answer.shape)

MissingReason(schedule) == IF schedule.items = <<>> THEN "empty_schedule" ELSE "slot_not_found"

\* Mutant: a session that the answer does not hold is sold out.
MissingSoldOut(slot, schedule) ==
  Observation(slot, IF schedule.failure = None THEN 0 ELSE None, schedule.failure)

Missing(slot, schedule) ==
  Observation(slot, None, IF schedule.failure = None THEN MissingReason(schedule) ELSE schedule.failure)

\* HourlySchedule.find takes the first item that starts at the date and time.
ObserveSchedule(slot, answer) ==
  LET schedule == ParseSchedule(answer)
      found == SelectInSeq(schedule.items, LAMBDA item : item.date = slot.date /\ item.time = slot.item)
      item == schedule.items[found]
  IN  IF found = 0
      THEN Missing(slot, schedule)
      ELSE Observation(slot, Slot!ScheduleRemaining(item.stock, item.booked, item.on_sale), None)

-----------------------------------------------------------------------------
(* Yanolja: the page of one product, its options in groups.                *)

OwnPage(page, product) == page.product = product

\* A group's "variants" may be null, but not missing.
GroupRead(group) == group.shape = "null" \/ (group.shape = "list" /\ WellFormed(group.items))

\* A challenge or queue page has no product at all.
ParsePage(page, product) ==
  CASE /\ page.shape = "groups" /\ OwnPage(page, product)
       /\ \A group \in Range(page.groups) : GroupRead(group) ->
         Parsed(FlattenSeq([i \in DOMAIN page.groups |-> page.groups[i].items]))
    [] page.shape \in FetchErrors -> Failed(page.shape)
    [] OTHER -> Failed("malformed_response")

\* An option that the page names twice is the last of the two.
ObserveProduct(slot, page) ==
  LET parsed == ParsePage(page, slot.product)
      found == SelectLastInSeq(parsed.items, LAMBDA item : item.variant = slot.item)
  IN  IF found = 0
      THEN Observation(slot, None, IF parsed.failure = None THEN "variant_not_found" ELSE parsed.failure)
      ELSE Observation(slot, Slot!VariantRemaining(parsed.items[found].on_sale), None)

-----------------------------------------------------------------------------
\* _observe: one answer serves all slots of its request.
Observe(request, answer) ==
  {IF IsSchedule(request) THEN ObserveSchedule(slot, answer) ELSE ObserveProduct(slot, answer)
     : slot \in request.slots}
=============================================================================
