------------------------------- MODULE PyList -------------------------------
(***************************************************************************)
(* What the Python lists of the event loop do that sequences do not.       *)
(***************************************************************************)
EXTENDS Naturals, Sequences

\* list.remove(e), if e is in the list: what follows the first e moves up by one.
Remove(s, e) ==
  IF \E j \in 1..Len(s) : s[j] = e
  THEN [j \in 1..(Len(s) - 1) |-> IF \E i \in 1..j : s[i] = e THEN s[j + 1] ELSE s[j]]
  ELSE s
=============================================================================
