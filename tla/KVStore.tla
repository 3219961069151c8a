------------------------------- MODULE KVStore -------------------------------
(***************************************************************************)
(* What norcow.h promises its callers while the power stays on: a mapping  *)
(* from keys to values in a space of a given capacity.  Each entry takes   *)
(* its length and one cell more.                                           *)
(***************************************************************************)
EXTENDS Naturals, Sequences, FiniteSetsExt

CONSTANTS Keys, Values,
          Blank,       \* contents of a cell that has been allocated only
          Capacity     \* space for entries

VARIABLE store         \* for each key, the set of its value, or the empty set

\* The space that the entries of the keys in K take.
Space(K) == MapThenSumSet(LAMBDA k : MapThenSumSet(LAMBDA v : 1 + Len(v), store[k]), K)

Fits(k, v) == Space(Keys \ {k}) + 1 + Len(v) <= Capacity

\* An entry that does not fit is not stored, and the old one is gone.
Put(k, v) == store' = [store EXCEPT ![k] = IF Fits(k, v) THEN {v} ELSE {}]

Set(k, v) == Put(k, v)

Allocate(k, v) == Put(k, [i \in DOMAIN v |-> Blank])

\* Overwrite the value from index i on.
Update(k, v, i) ==
  \E old \in store[k] :
    /\ Len(old) = Len(v)
    /\ store' = [store EXCEPT ![k] = {[j \in DOMAIN v |-> IF j < i THEN old[j] ELSE v[j]]}]

Delete(k) == store' = [store EXCEPT ![k] = {}]

Wipe == store' = [k \in Keys |-> {}]

Next ==
  \/ \E k \in Keys, v \in Values :
       Set(k, v) \/ Allocate(k, v) \/ \E i \in DOMAIN v : Update(k, v, i)
  \/ \E k \in Keys : Delete(k)
  \/ Wipe

Init == \A k \in Keys : store[k] = {} \/ \E v \in Values : store[k] = {v}

Spec == Init /\ [][Next]_store

=============================================================================
