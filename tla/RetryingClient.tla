---------------------------- MODULE RetryingClient ----------------------------
(***************************************************************************)
(* One provider's HTTP client: the retries of a fetch, the sleeps between  *)
(* its attempts, which a stop signal cannot interrupt, and the backoff     *)
(* that fetches answered 403/429 leave behind (RetryingClient in           *)
(* booking_slot_watch/http_client.py, with the error kinds its subclasses  *)
(* raise in naver.py and yanolja.py).                                      *)
(***************************************************************************)
EXTENDS Integers, Sequences

CONSTANTS
  RetryDelays,         \* RETRY_DELAYS_SEC: the sleep before each retry
  MaxRateLimitBackoff  \* MAX_RATE_LIMIT_BACKOFF

ASSUME RetryingClientAssumption ==
  /\ RetryDelays \in Seq(Nat)
  /\ MaxRateLimitBackoff \in Nat \ {0}

Retryable == {"timeout", "network_error", "rate_limited", "http_5xx"}
Final == {"http_4xx", "malformed_response"}
Kinds == Retryable \cup Final

VARIABLES
  pc,                  \* "idle", or "fetching" inside _run_with_retry
  rate_limit_streak,
  session_was_reset,
  backoff,             \* the factor of this fetch's sleeps
  index,               \* retries made in this fetch
  slept,               \* history: time asleep in this fetch
  blocked,             \* history: fetches in a row that ended blocked (403/429)
  recent               \* history: how the last fetch ended

vars == <<pc, rate_limit_streak, session_was_reset, backoff, index, slept, blocked, recent>>

\* The counters are only compared with the cap, and stop there.
Capped(n) == IF n > MaxRateLimitBackoff THEN MaxRateLimitBackoff ELSE n

TypeOK ==
  /\ pc \in {"idle", "fetching"}
  /\ rate_limit_streak \in 0..MaxRateLimitBackoff
  /\ session_was_reset \in BOOLEAN
  /\ backoff \in 1..MaxRateLimitBackoff
  /\ index \in 0..Len(RetryDelays)
  /\ slept \in Nat
  /\ blocked \in 0..MaxRateLimitBackoff
  /\ recent \in Kinds \cup {"none", "ok", "raised"}

Init ==
  /\ pc = "idle"
  /\ rate_limit_streak = 0
  /\ session_was_reset = FALSE
  /\ backoff = 1 /\ index = 0 /\ slept = 0
  /\ blocked = 0 /\ recent = "none"

\* Mutant: no cap.
BeginUncapped ==
  /\ pc = "idle"
  /\ pc' = "fetching"
  /\ session_was_reset' = FALSE
  /\ backoff' = 1 + rate_limit_streak
  /\ index' = 0 /\ slept' = 0
  /\ UNCHANGED <<rate_limit_streak, blocked, recent>>

Begin ==
  /\ pc = "idle"
  /\ pc' = "fetching"
  /\ session_was_reset' = FALSE
  /\ backoff' = Capped(1 + rate_limit_streak)
  /\ index' = 0 /\ slept' = 0
  /\ UNCHANGED <<rate_limit_streak, blocked, recent>>

\* Mutant: a good answer leaves the streak.
SucceedCautiously ==
  /\ pc = "fetching"
  /\ pc' = "idle"
  /\ blocked' = 0 /\ recent' = "ok"
  /\ UNCHANGED <<rate_limit_streak, session_was_reset, backoff, index, slept>>

Succeed ==
  /\ pc = "fetching"
  /\ pc' = "idle"
  /\ rate_limit_streak' = 0
  /\ blocked' = 0 /\ recent' = "ok"
  /\ UNCHANGED <<session_was_reset, backoff, index, slept>>

\* The attempt failed in a way worth another one: sleep, then the next.
Retry(kind) ==
  /\ pc = "fetching"
  /\ kind \in Retryable /\ index < Len(RetryDelays)
  /\ slept' = slept + RetryDelays[index + 1] * backoff
  /\ index' = index + 1
  /\ UNCHANGED <<pc, rate_limit_streak, session_was_reset, backoff, blocked, recent>>

\* Mutant: only the first blocked fetch counts.
GiveUpFlat(kind) ==
  /\ pc = "fetching"
  /\ kind \in Final \/ index = Len(RetryDelays)
  /\ pc' = "idle"
  /\ rate_limit_streak' = IF kind = "rate_limited" THEN 1 ELSE rate_limit_streak
  /\ blocked' = IF kind = "rate_limited" THEN Capped(blocked + 1) ELSE 0
  /\ recent' = kind
  /\ UNCHANGED <<session_was_reset, backoff, index, slept>>

\* Not worth retrying, or no retry left: the failure is raised.
GiveUp(kind) ==
  /\ pc = "fetching"
  /\ kind \in Final \/ index = Len(RetryDelays)
  /\ pc' = "idle"
  /\ rate_limit_streak' = IF kind = "rate_limited"
                          THEN Capped(rate_limit_streak + 1) ELSE rate_limit_streak
  /\ blocked' = IF kind = "rate_limited" THEN Capped(blocked + 1) ELSE 0
  /\ recent' = kind
  /\ UNCHANGED <<session_was_reset, backoff, index, slept>>

\* Anything but a FetchError passes through untouched.
RaiseOther ==
  /\ pc = "fetching"
  /\ pc' = "idle"
  /\ blocked' = 0 /\ recent' = "raised"
  /\ UNCHANGED <<rate_limit_streak, session_was_reset, backoff, index, slept>>

\* reset_session, called by the loop between fetches.
ResetSession ==
  /\ pc = "idle"
  /\ session_was_reset' = TRUE
  /\ UNCHANGED <<pc, rate_limit_streak, backoff, index, slept, blocked, recent>>

Next ==
  \/ Begin \/ Succeed \/ RaiseOther \/ ResetSession
  \/ \E kind \in Kinds : Retry(kind) \/ GiveUp(kind)

Spec == Init /\ [][Next]_vars

-----------------------------------------------------------------------------
(* Properties.                                                             *)

\* What the sleeps before the first n retries come to without backoff
DelayUpTo[n \in 0..Len(RetryDelays)] ==
  IF n = 0 THEN 0 ELSE DelayUpTo[n - 1] + RetryDelays[n]

TotalDelay == DelayUpTo[Len(RetryDelays)]

\* However long the provider blocks, one fetch sleeps no longer than this: the
\* sleep ignores stop signals and must fit the grace of a cancelled job
\* (comment on MAX_RATE_LIMIT_BACKOFF).
BoundedSleep == slept <= MaxRateLimitBackoff * TotalDelay

\* Every fetch that ends blocked makes the next one wait longer, up to the
\* cap, whatever sessions were changed in between.
GrowingCaution == pc = "fetching" => backoff >= Capped(1 + blocked)

\* A fetch after a good one starts without backoff.
CalmAfterSuccess == pc = "fetching" /\ recent = "ok" => backoff = 1
=============================================================================
