----------------------------- MODULE MCSlotWatch -----------------------------
(* Instances of SlotWatch for TLC. *)
EXTENDS SlotWatch, TLC
CONSTANTS s1, s2, v1, m1, m2, p1, p2

\* Two sessions of one monitor on one day: one request, one product.
TwoSessions == {s1, s2}
OneMonitor == [t \in Targets |-> m1]
OneDay == [t \in Targets |-> "day"]
One1 == [m \in {m1} |-> 1]
On1 == [m \in {m1} |-> TRUE]
Off1 == [m \in {m1} |-> FALSE]

\* A session and a Yanolja option, of two monitors with different settings.
Mixed == {s1, v1}
MixedMonitors == s1 :> m1 @@ v1 :> m2
MixedDay == s1 :> "day" @@ v1 :> "none"
MixedThreshold == m1 :> 1 @@ m2 :> 1
MixedInitial == m1 :> FALSE @@ m2 :> TRUE
MixedIncrease == m1 :> TRUE @@ m2 :> FALSE
=============================================================================
