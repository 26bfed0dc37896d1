---------------------------- MODULE MCArchiveCopy ----------------------------
(* An instance of ArchiveCopy for TLC: three jobs of one device.  The second   *)
(* one has a file whose own name is the first renaming of the first one's; of  *)
(* the third there is only the entry that does not fit into the manifest.      *)
EXTENDS ArchiveCopy

CONSTANTS d1, j1, j2, j3, img, img1, a, a_1, a_2, a_1_1, rawA, rawB, rawB2, rawF, x1, x2

MCDeviceOf == [j \in Jobs |-> d1]
MCItemsOf  == [j \in Jobs |-> CASE j = j1 -> <<img>> [] j = j2 -> <<img1>> [] OTHER -> << >>]
MCNameOf   == [i \in Items |-> IF i = img THEN a ELSE a_1]
MCSuffixOf == [n \in Names |->
  CASE n = a -> <<a_1, a_2>> [] n = a_1 -> <<a_1_1>> [] OTHER -> << >>]
MCRawOf    == [i \in Items |-> IF i = img THEN rawA ELSE rawB]
MCXmpOf    == [i \in Items |-> IF i = img THEN <<x1, x2>> ELSE << >>]
MCEditsOf  == [i \in Items |-> IF i = img1 THEN {rawB2} ELSE {}]
MCMaxRuns  == [j \in Jobs |-> CASE j = j1 -> 2 [] j = j2 -> 1 [] OTHER -> 0]
MCForeign  == {<<a, "raw", rawF>>, <<a, "xmp", x2>>}

\* At most one kind of hazard, and none of those that leave little of what the
\* properties say: nobody else in the folder, and the third entry is as good as lost.
Bounded ==
  /\ Cardinality(hazards) <= 1
  /\ hazards \subseteq {"overlap", "sidecar", "rewritten", "renumbered"}
  /\ \A k \in {"append", "renumber"} : saving[<<k, j3>>].at = "idle"

=============================================================================
