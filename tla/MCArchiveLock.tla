---------------------------- MODULE MCArchiveLock ----------------------------
(* Instances of ArchiveLock for TLC: two devices, the second one's clock    *)
(* ahead of the first one's by one tick.                                    *)
EXTENDS ArchiveLock

CONSTANTS d1, d2, sync1, retry1, direct2

MCDeviceOf == [s \in Sessions |-> IF s \in {sync1, retry1} THEN d1 ELSE d2]
MCKindOf == [s \in Sessions |-> IF s = direct2 THEN "direct" ELSE "sync"]
\* retry1 is a second run of sync1's job: same jobId, same device.
MCJobOf == [s \in Sessions |-> IF s = retry1 THEN sync1 ELSE s]
MCSkew == [d \in Devices |-> IF d = d1 THEN 0 ELSE 1]

\* After two open windows, and with a forced clear, most invariants are vacuous;
\* a lapse or a late heartbeat is followed until another hazard.
OneHazardAtMost == hazards \in {{}, {"lapse"}, {"late"}}

=============================================================================
