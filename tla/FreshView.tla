------------------------------ MODULE FreshView ------------------------------
(***************************************************************************)
(* What a client of a caching service is promised: its view is the service *)
(* as it was at some moment, and a later look never shows an earlier       *)
(* moment.  Nothing is said of how old a view may be.                      *)
(***************************************************************************)
EXTENDS Naturals

VARIABLES
  current,   \* how often the truth has changed
  view       \* the change the client's view goes back to

Init == current = 0 /\ view = 0

\* The truth moves on.
Change == current' = current + 1 /\ UNCHANGED view

\* The client's view catches up with some state it had not passed yet.
Refresh == view' \in view..current /\ UNCHANGED current

Next == Change \/ Refresh

Spec == Init /\ [][Next]_<<current, view>>

=============================================================================
