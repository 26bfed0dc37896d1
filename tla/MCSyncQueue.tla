----------------------------- MODULE MCSyncQueue -----------------------------
(* Instances of SyncQueue for TLC. *)
EXTENDS SyncQueue, Integers

CONSTANTS j1, j2, one1, batch1, refresh1

MCKindOf == [c \in Calls |->
  IF c = one1 THEN "one" ELSE IF c = batch1 THEN "batch" ELSE "refresh"]
MCJobOf == [c \in Calls |-> j1]

\* Bound: nothing is promised after a race, and of the other hazards and the
\* updates of entries one at a time is explored; the entry of j2 is always ready.
OneHazard ==
  /\ "race" \notin hazards
  /\ Cardinality(hazards) + Cardinality(updated) <= 1
  /\ entry[j2] \in {"absent", "ready"}

=============================================================================
