----------------------------- MODULE MCEventJson -----------------------------
(* Instances of EventJson for TLC: one device with its single chain, and    *)
(* two devices that share the event folder on the NAS.                      *)
EXTENDS EventJson

CONSTANTS d1, d2, imp1, imp2, meta1, scan1, scan2, edit1, edit2, sync1

MCDeviceOf == [p \in Procs |-> IF p \in {imp2, scan2, edit2} THEN d2 ELSE d1]
OneDevice  == [p \in Procs |-> d1]
MCKindOf == [p \in Procs |->
  CASE p \in {imp1, imp2} -> "import"
    [] p \in {scan1, scan2} -> "scan"
    [] p \in {edit1, edit2} -> "edit"
    [] p = meta1 -> "meta"
    [] OTHER -> "sync"]

\* Every invariant of the runs under this constraint is vacuous once two
\* windows overlapped.
NoOverlapYet == "overlap" \notin hazards

=============================================================================
