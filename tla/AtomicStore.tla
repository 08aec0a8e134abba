---------------------------- MODULE AtomicStore ----------------------------
(***************************************************************************)
(* What the watcher expects of its state file: it is read once, when a     *)
(* process starts, and every change of it by the process is one step that  *)
(* makes it say what the process holds at that moment.  A process may end  *)
(* at any moment; a power loss brings back what the disk had; people may   *)
(* put anything in its place.  StateFile implements this.                  *)
(***************************************************************************)
CONSTANTS Values, Unreadable, None

VARIABLES
  stored,   \* what a reader would find: a value, or Unreadable
  safe,     \* what a reader would find after a power loss
  working   \* what the process holds, or None without one

view == <<stored, safe, working>>

Init ==
  /\ stored \in Values
  /\ safe = stored
  /\ working = None

Load ==
  /\ working = None /\ stored \in Values
  /\ working' = stored
  /\ UNCHANGED <<stored, safe>>

Change ==
  /\ working # None
  /\ working' \in Values
  /\ UNCHANGED <<stored, safe>>

\* The disk may have it at once, or catch up later.
Save ==
  /\ working # None
  /\ stored' = working
  /\ safe' \in {safe, working}
  /\ UNCHANGED working

CatchUp == safe' = stored /\ UNCHANGED <<stored, working>>

End == working' = None /\ UNCHANGED <<stored, safe>>

PowerLoss == working' = None /\ stored' = safe /\ UNCHANGED safe

Foreign ==
  /\ stored' \in Values \cup {Unreadable}
  /\ safe' = stored'
  /\ UNCHANGED working

Next == Load \/ Change \/ Save \/ CatchUp \/ End \/ PowerLoss \/ Foreign

Spec == Init /\ [][Next]_view
=============================================================================
