----------------------------- MODULE MCWatchPass -----------------------------
(***************************************************************************)
(* Config files and answers that tell the cases of WatchPass apart.  Days  *)
(* 1 and 2 have sessions at times 1 and 2; on day 3 all of it is over.     *)
(***************************************************************************)
EXTENDS WatchPass

MCInstants == [day : 1..3, time : 0..2]

Moment(day, time) == [day |-> day, time |-> time]
On(date, times) == [date |-> date, times |-> times]

Naver(id, targets) ==
  [id |-> id, enabled |-> TRUE, site |-> "naver", product |-> "show", threshold |-> None,
   keys |-> {"targets"}, targets |-> targets, variants |-> <<>>, expires_at |-> None]

Yanolja(id, variants) ==
  [id |-> id, enabled |-> TRUE, site |-> "yanolja", product |-> "ride", threshold |-> None,
   keys |-> {"variants", "expires_at"}, targets |-> <<>>, variants |-> variants,
   expires_at |-> Moment(2, 1)]

\* A monitor's expires_at, under the key it is written at
Expiring(entry, key, moment) == [entry EXCEPT !.keys = @ \cup {key}, !.expires_at = moment]

OneDay == Naver("a", <<On(1, <<1, 2>>)>>)
TwoDays == Naver("a", <<On(1, <<2>>), On(2, <<1>>)>>)
Ride == Yanolja("b", <<7, 8>>)

\* Entries that stand alone, most of them with one thing wrong
Entry == {
  OneDay, TwoDays, Ride,
  Expiring(TwoDays, "expires_at", Moment(1, 1)),
  Expiring(TwoDays, "expire_at", Moment(1, 1)),
  Naver("a", <<On(1, <<1>>), On(1, <<2>>)>>),
  Naver("a", <<On(1, <<1, 1>>)>>), Naver("a", <<On(1, <<>>)>>), Naver("a", <<>>),
  [OneDay EXCEPT !.keys = @ \cup {"variants"}],
  [OneDay EXCEPT !.enabled = FALSE],
  [OneDay EXCEPT !.site = "elsewhere"],
  [OneDay EXCEPT !.threshold = 0],
  [OneDay EXCEPT !.threshold = 2],
  [Ride EXCEPT !.keys = {"variants"}, !.expires_at = None],
  [Ride EXCEPT !.keys = {}, !.enabled = FALSE, !.variants = <<>>, !.expires_at = None],
  [Ride EXCEPT !.keys = @ \cup {"targets"}],
  [Ride EXCEPT !.variants = <<7, 7>>], [Ride EXCEPT !.variants = <<>>],
  [Ride EXCEPT !.threshold = 2]}

Pairs == {
  <<TwoDays, Ride>>, <<Ride, [Ride EXCEPT !.id = "a", !.variants = <<8>>]>>,
  <<TwoDays, [OneDay EXCEPT !.id = "b"]>>,
  <<OneDay, [TwoDays EXCEPT !.product = "play"]>>,
  <<OneDay, [OneDay EXCEPT !.id = "b", !.product = "play"]>>}

MCConfigs ==
  {[defaults |-> [threshold |-> threshold], monitors |-> monitors] :
     threshold \in {None, 2}, monitors \in {<<entry>> : entry \in Entry} \cup Pairs \cup {<<>>}}

Seats(date, time, stock, booked, on_sale, well_formed) ==
  [date |-> date, time |-> time, stock |-> stock, booked |-> booked,
   on_sale |-> on_sale, well_formed |-> well_formed]

List(items) == [shape |-> "list", items |-> items]

MCSchedules ==
  {[shape |-> kind] : kind \in {"timeout", "graphql_errors", "malformed_response", "null"}}
  \cup {List(<<>>),
        List(<<Seats(1, 1, 2, 1, TRUE, TRUE), Seats(1, 2, 1, 2, TRUE, TRUE)>>),
        List(<<Seats(2, 1, 1, 0, TRUE, TRUE), Seats(1, 2, 2, 0, FALSE, TRUE)>>),
        List(<<Seats(1, 2, 1, 0, TRUE, TRUE), Seats(1, 1, 1, 0, TRUE, FALSE)>>)}

Opt(variant, on_sale, well_formed) ==
  [variant |-> variant, on_sale |-> on_sale, well_formed |-> well_formed]
Group(shape, items) == [shape |-> shape, items |-> items]
Page(product, groups) == [shape |-> "groups", product |-> product, groups |-> groups]

MCPages ==
  {[shape |-> kind] : kind \in {"rate_limited", "challenge"}}
  \cup {Page("ride", <<>>), Page("other", <<Group("list", <<Opt(7, TRUE, TRUE)>>)>>),
        Page("ride", <<Group("null", <<>>), Group("list", <<Opt(7, TRUE, TRUE), Opt(8, FALSE, TRUE)>>)>>),
        Page("ride", <<Group("list", <<Opt(8, FALSE, TRUE)>>), Group("list", <<Opt(8, TRUE, TRUE)>>)>>),
        Page("ride", <<Group("missing", <<>>), Group("list", <<Opt(8, TRUE, TRUE)>>)>>),
        Page("ride", <<Group("list", <<Opt(7, TRUE, TRUE), Opt(8, TRUE, FALSE)>>)>>)}
=============================================================================
