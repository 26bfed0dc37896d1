--------------------------- MODULE MCMetadataQueue ---------------------------
(* An import of two files and a reapply of one of them, two workers.       *)
EXTENDS MetadataQueue

CONSTANTS import, reapply, f1, f2

MCBatches == {import, reapply}
MCFiles   == {f1, f2}
MCFilesOf == [b \in MCBatches |-> IF b = import THEN <<f1, f2>> ELSE <<f2>>]

Retried == \E t \in Tasks : t[3] = 2 /\ at[t] # "off"

\* Behaviours that meet one crash, one retry or one kind of hazard, each in turn.
\* States that meet one of the other hazards are reached but not left; a read that
\* failed is followed for as long as one batch has been started.
OneDisturbance ==
  /\ Cardinality(hazards) + crashes + (IF Retried THEN 1 ELSE 0) <= 1
  /\ hazards \subseteq {"unsaved", "unlisted", "unjournaled", "torn", "unread", "stuck",
                        "unresumed"}
  /\ "unread" \in hazards => started # Batches

==============================================================================
