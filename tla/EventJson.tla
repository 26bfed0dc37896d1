------------------------------ MODULE EventJson ------------------------------
(***************************************************************************)
(* event.json and the processes that write it: src/main/eventJsonStore.js  *)
(* (updateEventJsonAtomic, one promise chain per path and process) and its *)
(* clients in main.js and metadataSyncService.js.                          *)
(*                                                                         *)
(* One event folder is modelled.  A device is one running application,     *)
(* with one chain for the event's path; several devices share the folder   *)
(* when it is on the NAS.  A process is one use of the document:           *)
(*   import  one import transaction: the renderer marks the event, then    *)
(*           import:commitTransaction commits or rolls back                *)
(*   meta    the end of a metadata batch (batch_complete)                  *)
(*   scan    one pass of master:scanEvents over the event                  *)
(*   edit    the event editor, from showing the event to saving it         *)
(*   sync    one syncEventMetadata, which does not use the chain           *)
(***************************************************************************)
EXTENDS EventJsonDoc, Integers, Sequences

CONSTANTS Devices, DeviceOf, KindOf, None

Kinds == {"import", "meta", "scan", "edit", "sync"}

ASSUME EventJsonConstants ==
  /\ DeviceOf \in [Procs -> Devices]
  /\ KindOf \in [Procs -> Kinds]
  /\ None \notin Mutators /\ None \notin Docs
  /\ Old # Absent /\ Old \notin Procs /\ Absent \notin Procs

VARIABLES
  file,    \* event.json
  tmp,     \* event.json.tmp, whose name every writer shares
  chain,   \* device -> pending calls of updateEventJsonAtomic, the head runs
  pc,      \* process -> where it is
  call,    \* process -> the mutator it waits for, or None
  snap,    \* process -> the document its running call read
  orig,    \* process -> the document it read for itself, before any call
  hazards  \* history: what the store does not protect against, once met

vars == <<file, tmp, chain, pc, call, snap, orig, hazards>>

InCall == {"queued", "read", "written"}
Window == {"read", "written"}
\* "unaudited" is an import that is done without an audit entry.
Ended  == {"done", "unaudited", "failed", "dead"}
PcValues == {"idle", "loading", "copying", "rollingBack", "givingUp",
             "viewing", "stating", "recording"} \union InCall \union Ended

TypeOK ==
  /\ file \in Docs
  /\ tmp \in Docs \union {None}
  /\ chain \in [Devices -> Seq(Procs)]
  /\ pc \in [Procs -> PcValues]
  /\ call \in [Procs -> Mutators \union {None}]
  /\ snap \in [Procs -> Docs]
  /\ orig \in [Procs -> Docs]
  /\ hazards \subseteq {"overlap", "rollback", "reset", "edit"}

Init ==
  /\ file \in {[Empty EXCEPT !.run = v, !.state = v, !.index = i] :
                v \in {Old, Absent}, i \in {Old, Absent}}
  /\ tmp = None
  /\ chain = [d \in Devices |-> << >>]
  /\ pc = [p \in Procs |-> "idle"]
  /\ call = [p \in Procs |-> None]
  /\ snap = [p \in Procs |-> Empty]
  /\ orig = [p \in Procs |-> Empty]
  /\ hazards = {}

-----------------------------------------------------------------------------
(* updateEventJsonAtomic and the unchained read-modify-write               *)

Chained(p) == KindOf[p] # "sync"

\* p's call is submitted: it joins the chain of its device's process.
Submit(p, op) ==
  /\ call' = [call EXCEPT ![p] =
       [op |-> op, by |-> p,
        base |-> IF op \in {"rollback", "edit"} THEN orig[p] ELSE Empty]]
  /\ pc' = [pc EXCEPT ![p] = "queued"]
  /\ chain' = IF Chained(p)
                THEN [chain EXCEPT ![DeviceOf[p]] = Append(@, p)]
                ELSE chain

\* Mutant: the store without its chain of promises.
TurnAlways(p) == TRUE
Turn(p) ==
  Chained(p) => /\ chain[DeviceOf[p]] # << >>
                /\ Head(chain[DeviceOf[p]]) = p

\* Where p goes on once its call settled.
After(p, ok) ==
  CASE call[p].op = "start"    -> "loading"
    [] call[p].op = "commit"   -> IF ok THEN "done" ELSE "rollingBack"
    [] call[p].op = "commitBare" -> IF ok THEN "unaudited" ELSE "rollingBack"
    [] call[p].op = "rollback" -> "givingUp"
    [] call[p].op = "run"      -> "stating"
    [] call[p].op = "index"    -> IF ok THEN "done" ELSE "recording"
    [] call[p].op = "syncError" -> "failed"
    [] OTHER -> IF ok /\ KindOf[p] # "import" THEN "done" ELSE "failed"

\* Mutant: a rejection stays in the chain and jams it.
SettleJams(p, ok) ==
  /\ call' = [call EXCEPT ![p] = None]
  /\ snap' = [snap EXCEPT ![p] = Empty]
  /\ pc' = [pc EXCEPT ![p] = After(p, ok)]
  /\ chain' = IF Chained(p) /\ ok
                THEN [chain EXCEPT ![DeviceOf[p]] = Tail(@)]
                ELSE chain

\* The call settles and the next one of the chain may run, even after a
\* failure (prior.catch).
Settle(p, ok) ==
  /\ call' = [call EXCEPT ![p] = None]
  /\ snap' = [snap EXCEPT ![p] = Empty]
  /\ pc' = [pc EXCEPT ![p] = After(p, ok)]
  /\ chain' = IF Chained(p)
                THEN [chain EXCEPT ![DeviceOf[p]] = Tail(@)]
                ELSE chain

\* An import between the renderer's mark and its end, seen from a scan.
Importing(p) == KindOf[p] = "import" /\ pc[p] \notin {"idle"} \union Ended

\* What m is about to undo of the current document.
Undone(m) ==
  {h \in {"rollback", "reset", "edit"} :
     \/ /\ h = "rollback" /\ m.op = "rollback"
        /\ [Merge(m, file) EXCEPT !.status = file.status] # file
     \/ /\ h = "reset" /\ m.op = "reset" /\ KindOf[m.by] = "scan"
        /\ file.status # "in-progress" \/ \E q \in Procs : Importing(q)
     \/ /\ h = "edit" /\ m.op = "edit"
        /\ m.base.status # file.status}

Overlap == \E p, q \in Procs : p # q /\ pc[p] \in Window /\ pc[q] \in Window
OverlapNow == IF Overlap' THEN {"overlap"} ELSE {}

Read(p) ==
  /\ pc[p] = "queued" /\ Turn(p)
  /\ snap' = [snap EXCEPT ![p] = file]
  /\ pc' = [pc EXCEPT ![p] = "read"]
  /\ UNCHANGED <<file, tmp, chain, call, orig>>
  /\ hazards' = hazards \union OverlapNow

\* The read, the parse or the mutator throws.
ReadFails(p) ==
  /\ pc[p] = "queued" /\ Turn(p)
  /\ Settle(p, FALSE)
  /\ UNCHANGED <<file, tmp, orig, hazards>>

WriteTmp(p) ==
  /\ pc[p] = "read"
  /\ tmp' = Merge(call[p], snap[p])
  /\ pc' = [pc EXCEPT ![p] = "written"]
  /\ UNCHANGED <<file, chain, call, snap, orig>>
  /\ hazards' = hazards \union OverlapNow

\* rename(tmp, event.json): whatever the shared tmp holds by then.
Rename(p) ==
  /\ pc[p] = "written" /\ tmp # None
  /\ file' = tmp
  /\ tmp' = None
  /\ Settle(p, TRUE)
  /\ UNCHANGED orig
  /\ hazards' = hazards \union Undone(call[p]) \union OverlapNow

\* The write or the rename fails: the tmp file is removed, except by the
\* last-resort error record of syncEventMetadata.
WriteFails(p) ==
  /\ pc[p] \in Window
  /\ tmp' = IF call[p].op = "syncError" THEN tmp ELSE None
  /\ Settle(p, FALSE)
  /\ UNCHANGED <<file, orig, hazards>>

Idle == UNCHANGED <<file, tmp, snap, hazards>>

-----------------------------------------------------------------------------
(* Clients                                                                 *)

\* The renderer marks the event; its importRunning flag keeps imports of one
\* device apart.
StartImport(p) ==
  /\ pc[p] = "idle" /\ KindOf[p] = "import"
  /\ \A q \in Procs : Importing(q) => DeviceOf[q] # DeviceOf[p]
  /\ Submit(p, "start")
  /\ Idle /\ UNCHANGED orig

\* commitTransaction reads originalEventJson, then copies the files.  After a
\* failed read the rollback only sets the status.
LoadOriginal(p) ==
  /\ pc[p] = "loading"
  /\ \E original \in {file, Empty} : orig' = [orig EXCEPT ![p] = original]
  /\ pc' = [pc EXCEPT ![p] = "copying"]
  /\ Idle /\ UNCHANGED <<chain, call>>

\* An import that copied nothing (every file was there) may have no entry: then
\* none is made up when buildAuditImportEntries throws or returns none.
Commit(p) ==
  /\ pc[p] = "copying"
  /\ \E op \in {"commit", "commitBare"} : Submit(p, op)
  /\ Idle /\ UNCHANGED orig

\* The copy failed, was aborted or lost its lock, or the commit failed.
Rollback(p) ==
  /\ pc[p] \in {"copying", "rollingBack"}
  /\ Submit(p, "rollback")
  /\ Idle /\ UNCHANGED orig

\* The renderer's own catch resets the status once more.
GiveUp(p) ==
  /\ pc[p] = "givingUp"
  /\ Submit(p, "reset")
  /\ Idle /\ UNCHANGED orig

\* batch_complete: _writeLastMetadataRun, whose failure is only logged ...
BatchComplete(p) ==
  /\ pc[p] = "idle" /\ KindOf[p] = "meta"
  /\ Submit(p, "run")
  /\ Idle /\ UNCHANGED orig

\* ... then _persistMetadataStateAndCompact.
PersistState(p) ==
  /\ pc[p] = "stating"
  /\ Submit(p, "state")
  /\ Idle /\ UNCHANGED orig

\* The scan reads the document; an in-progress status is reset.
Scan(p) ==
  /\ pc[p] = "idle" /\ KindOf[p] = "scan"
  /\ IF file.status = "in-progress"
       THEN Submit(p, "reset")
       ELSE pc' = [pc EXCEPT ![p] = "done"] /\ UNCHANGED <<call, chain>>
  /\ Idle /\ UNCHANGED orig

\* The editor shows the event, and saves it with the status it has shown.
View(p) ==
  /\ pc[p] = "idle" /\ KindOf[p] = "edit"
  /\ orig' = [orig EXCEPT ![p] = file]
  /\ pc' = [pc EXCEPT ![p] = "viewing"]
  /\ Idle /\ UNCHANGED <<chain, call>>

Save(p) ==
  /\ pc[p] = "viewing"
  /\ Submit(p, "edit")
  /\ Idle /\ UNCHANGED orig

\* Metadata sync: a read-modify-write of its own, then one for the error.
SyncMetadata(p) ==
  /\ pc[p] = "idle" /\ KindOf[p] = "sync"
  /\ Submit(p, "index")
  /\ Idle /\ UNCHANGED orig

RecordError(p) ==
  /\ pc[p] = "recording"
  /\ Submit(p, "syncError")
  /\ Idle /\ UNCHANGED orig

\* The application of device d dies; the files stay.
Crash(d) ==
  /\ \E p \in Procs : DeviceOf[p] = d /\ pc[p] \notin {"idle"} \union Ended
  /\ pc' = [p \in Procs |-> IF DeviceOf[p] = d /\ pc[p] \notin {"idle"} \union Ended
                              THEN "dead" ELSE pc[p]]
  /\ call' = [p \in Procs |-> IF DeviceOf[p] = d THEN None ELSE call[p]]
  /\ snap' = [p \in Procs |-> IF DeviceOf[p] = d THEN Empty ELSE snap[p]]
  /\ chain' = [chain EXCEPT ![d] = << >>]
  /\ UNCHANGED <<file, tmp, orig, hazards>>

-----------------------------------------------------------------------------
Store(p) == Read(p) \/ ReadFails(p) \/ WriteTmp(p) \/ Rename(p) \/ WriteFails(p)

Import(p) == StartImport(p) \/ LoadOriginal(p) \/ Commit(p) \/ Rollback(p) \/ GiveUp(p)

Client(p) ==
  \/ Import(p)
  \/ BatchComplete(p) \/ PersistState(p)
  \/ Scan(p)
  \/ View(p) \/ Save(p)
  \/ SyncMetadata(p) \/ RecordError(p)

Next ==
  \/ \E p \in Procs : Store(p) \/ Client(p)
  \/ \E d \in Devices : Crash(d)

Spec == Init /\ [][Next]_vars

\* File operations and promise callbacks do complete.
FairSpec == Spec /\ \A p \in Procs : WF_vars(Store(p))

-----------------------------------------------------------------------------
(* Properties                                                              *)

\* The premise of the module's comment: every writer is in this process and
\* goes through updateEventJsonAtomic.
OneChain ==
  /\ \A p, q \in Procs : DeviceOf[p] = DeviceOf[q]
  /\ \A p \in Procs : Chained(p)

\* A chain holds pending calls of its own device, and only its head has
\* started.
ChainMembers ==
  \A d \in Devices : \A i \in 1..Len(chain[d]) :
    /\ DeviceOf[chain[d][i]] = d /\ Chained(chain[d][i])
    /\ pc[chain[d][i]] \in InCall
    /\ i > 1 => pc[chain[d][i]] = "queued"

ChainDistinct ==
  \A d \in Devices : \A i, j \in 1..Len(chain[d]) :
    chain[d][i] = chain[d][j] => i = j

ChainComplete ==
  \A p \in Procs : Chained(p) /\ pc[p] \in InCall =>
    \E i \in 1..Len(chain[DeviceOf[p]]) : chain[DeviceOf[p]][i] = p

CallsPending ==
  \A p \in Procs :
    /\ call[p] # None <=> pc[p] \in InCall
    /\ call[p] # None => call[p].by = p

ChainOK == ChainMembers /\ ChainDistinct /\ ChainComplete /\ CallsPending

\* eventJsonStore.js: "every write reads the truly-latest on-disk document".
\* Between read and rename the document is still the one that was read, as
\* long as two such windows were never open at once.
Fresh ==
  "overlap" \notin hazards =>
    /\ ~Overlap
    /\ \A p \in Procs :
         /\ pc[p] \in Window => snap[p] = file
         /\ pc[p] = "written" => tmp = Merge(call[p], file)

\* With one chain the windows never overlap: the calls are serialized.
Serialized == OneChain => "overlap" \notin hazards

\* The inductive invariant of the proofs.
IInv == TypeOK /\ ChainOK /\ Fresh /\ Serialized

\* A write reported as done is not lost: the audit entry of a committed import
\* that has one, the metadata state of a finished batch and the index of a finished
\* sync are in the document.  Short of overlapping windows and of a rollback
\* that restores older values.
NoLostUpdate ==
  hazards \intersect {"overlap", "rollback"} = {} =>
    \A p \in Procs : pc[p] = "done" =>
      /\ KindOf[p] = "import" => p \in file.imports
      /\ KindOf[p] = "meta" => file.state \in Procs
      /\ KindOf[p] = "sync" => file.index \in Procs

\* An audit entry is in the document, or an import is done without one.
Audited == file.imports # {} \/ \E p \in Procs : pc[p] = "unaudited"

\* main.js: "This guarantees imports[] / lastImport are never silently blank after
\* a successful copy".  A complete event has an audit entry, whatever rollbacks,
\* resets and stale edits did, short of overlapping windows and of an import that
\* was done without an entry (it copied nothing).
CompleteHasAudit ==
  "overlap" \notin hazards => (file.status = "complete" => Audited)

\* The status of a completed import stays: scans on any device, editors and
\* metadata writers never take an event back from complete unless they acted on
\* what they had read before (reset, edit), or two windows overlapped, or a new
\* import began.  A rollback does not: the import it belongs to has begun.
CommitSticks ==
  hazards \intersect {"overlap", "reset", "edit"} = {} =>
    \A p \in Procs : KindOf[p] = "import" /\ pc[p] \in {"done", "unaudited"} =>
      \/ file.status = "complete"
      \/ \E q \in Procs \ {p} : KindOf[q] = "import" /\ pc[q] # "idle"

\* eventJsonStore.js: "a prior failure must not permanently jam this path's
\* chain".  Every submitted call settles, or its application dies.
ChainNeverJams == \A p \in Procs : pc[p] = "queued" ~> pc[p] \notin InCall

\* With one chain (OneChain) event.json is the atomic object that the store
\* promises: every call is applied to the current document in one step, its
\* rename, or not at all.
Register == INSTANCE EventJsonRegister WITH doc <- file
AtomicDocument == Register!Spec

-----------------------------------------------------------------------------
(* The invariant behind what stays in the document                         *)

\* Each process calls what its kind calls.
OpsOf(p) ==
  CASE KindOf[p] = "import" -> {"start", "commit", "commitBare", "rollback", "reset"}
    [] KindOf[p] = "meta"   -> {"run", "state"}
    [] KindOf[p] = "scan"   -> {"reset"}
    [] KindOf[p] = "edit"   -> {"edit"}
    [] OTHER                -> {"index", "syncError"}

Roles ==
  \A p \in Procs :
    /\ call[p] # None => call[p].op \in OpsOf(p)
    /\ pc[p] \in {"loading", "copying", "rollingBack", "givingUp"} => KindOf[p] = "import"
    /\ pc[p] = "stating" => KindOf[p] = "meta"
    /\ pc[p] = "viewing" => KindOf[p] = "edit"
    /\ pc[p] = "recording" => KindOf[p] = "sync"

\* Who has seen the event complete, has seen it after an import was done.
SeenComplete ==
  "overlap" \notin hazards =>
    \A p \in Procs :
      /\ orig[p].status = "complete" => Audited
      /\ call[p] # None /\ call[p].op = "edit" /\ call[p].base.status = "complete"
           => Audited

Kept == Roles /\ SeenComplete /\ NoLostUpdate /\ CompleteHasAudit /\ CommitSticks

-----------------------------------------------------------------------------
(* A claim of the code that does not hold                                  *)

\* main.js, restoreCreatedStatus: the rollback discards no field that a
\* concurrent operation wrote in the meantime.
RollbackDiscardsNothing ==
  [][\A p \in Procs : Rename(p) /\ call[p].op = "rollback"
       => [file' EXCEPT !.status = file.status] = file]_vars

=============================================================================
