----------------------------- MODULE MCSyncSlot -----------------------------
(* Two devices; d1 syncs one job and a batch, d2 one job.                  *)
EXTENDS SyncSlot, FiniteSets

CONSTANTS d1, d2, job1, batch1, job2

MCDevices  == {d1, d2}
MCCalls    == {job1, batch1, job2}
MCDeviceOf == [c \in MCCalls |-> IF c = job2 THEN d2 ELSE d1]
MCKindOf   == [c \in MCCalls |-> IF c = batch1 THEN "batch" ELSE "one"]
MCMaxSockets == [d \in MCDevices |-> IF d = d1 THEN 2 ELSE 1]

\* Behaviours that meet one kind of hazard, each kind in turn.
OneHazard == Cardinality(hazards) <= 1
=============================================================================
