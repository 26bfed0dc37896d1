---------------------------- MODULE TransferProofs ----------------------------
(***************************************************************************)
(* What Transfer promises for any folders, files, calls and faults: an ok  *)
(* run has brought every file of its scope, and no file of the archive is  *)
(* overwritten.  The invariant follows what is recorded from the engine to *)
(* the checkpoint and back to the engine that resumes it.                  *)
(***************************************************************************)
EXTENDS Transfer, TLAPS

\* A step that takes nothing back: what is recorded stays recorded and there.
Keeps ==
  /\ drive' = drive /\ late \subseteq late'
  /\ (doubled => doubled') /\ hazards \subseteq hazards'
  /\ \A id \in Ids : outcomes[id] \subseteq outcomes'[id]
  /\ unseen \subseteq unseen'
  /\ \A k \in Calls : At(k) \in Active => seen'[k] = seen[k]
  /\ \A n \in Names : archive[n] # None => archive'[n] # None
  /\ doubled \/ \A id \in Ids, n \in Names :
                  n \in outcomes[id] => archive'[n] \in {archive[n], drive[n[1]]}

-----------------------------------------------------------------------------
(* What such a step keeps                                                  *)

LEMMA FilesOfBatches ==
  \A b \in BatchNos : \A i \in DOMAIN Batches[b] : Batches[b][i] \in Files
BY TransferConstants DEF BatchNos

LEMMA HasKept ==
  ASSUME Keeps
  PROVE  /\ \A id \in Ids : Excused(id) => Excused(id)'
         /\ \A id \in Ids, u \in BOOLEAN, f \in Files :
              Excused(id) \/ Has(id, u, f) => Excused(id)' \/ Has(id, u, f)'
<1>1. \A id \in Ids : Excused(id) => Excused(id)'
  BY DEF Keeps, Excused
<1>2. ASSUME NEW id \in Ids, NEW u \in BOOLEAN, NEW f \in Files, Has(id, u, f), ~doubled
      PROVE  Has(id, u, f)'
  <2>1. CASE f \in late
    BY <2>1 DEF Keeps, Has
  <2>2. ASSUME NEW n \in 0..MaxSuffix, <<f, n>> \in outcomes[id],
               IF u THEN archive[<<f, n>>] # None ELSE Same(f, <<f, n>>)
        PROVE  Has(id, u, f)'
    <3>1. <<f, n>> \in Names
      BY DEF Names
    <3>2. /\ <<f, n>> \in outcomes'[id] /\ drive'[f] = drive[f]
          /\ archive'[<<f, n>>] = archive[<<f, n>>] \/ archive'[<<f, n>>] = drive[f]
          /\ archive[<<f, n>>] # None => archive'[<<f, n>>] # None
      BY <1>2, <2>2, <3>1 DEF Keeps
    <3>3. (IF u THEN archive[<<f, n>>] # None ELSE Same(f, <<f, n>>))'
      BY <2>2, <3>2 DEF Same, Size
    <3>4. QED
      BY <3>2, <3>3 DEF Has
  <2>3. QED
    BY <1>2, <2>1, <2>2 DEF Has
<1>3. QED
  BY <1>1, <1>2 DEF Keeps, Excused

LEMMA SeededKept ==
  ASSUME Keeps
  PROVE  \A id \in Ids, list \in SUBSET Files : SeededIn(id, list) => SeededIn(id, list)'
BY HasKept DEF SeededIn, Keeps

LEMMA HasAllKept ==
  ASSUME Keeps
  PROVE  \A r \in Engine \union Checkpoint, b \in BatchNos :
           /\ HasAll(r, b) => HasAll(r, b)'
           /\ \A i \in Nat : HasTo(r, b, i) => HasTo(r, b, i)'
<1> SUFFICES ASSUME NEW r \in Engine \union Checkpoint, NEW b \in BatchNos
             PROVE  /\ HasAll(r, b) => HasAll(r, b)'
                    /\ \A i \in Nat : HasTo(r, b, i) => HasTo(r, b, i)'
  OBVIOUS
<1>1. r.id \in Ids /\ r.update \in BOOLEAN
  BY DEF Engine, Checkpoint
<1>2. \A n \in DOMAIN Batches[b] :
        Excused(r.id) \/ Has(r.id, r.update, Batches[b][n])
          => Excused(r.id)' \/ Has(r.id, r.update, Batches[b][n])'
  BY <1>1, HasKept, FilesOfBatches
<1>3. QED
  BY <1>1, <1>2, HasKept DEF HasAll, HasTo

LEMMA RunKept ==
  ASSUME Keeps
  PROVE  /\ \A r \in Engine : /\ Place(r) => Place(r)'
                              /\ Place(r) /\ WholeRun(r) => WholeRun(r)'
         /\ \A k \in Calls, r \in Engine :
              At(k) \in Active /\ SeededRun(k, r) => SeededRun(k, r)'
         /\ \A c \in Checkpoint : WholeCheckpoint(c) => WholeCheckpoint(c)'
<1>0. \A r \in Engine : Place(r) => Place(r)'
  BY DEF Keeps, Place
<1>1. ASSUME NEW k \in Calls, NEW r \in Engine, At(k) \in Active, SeededRun(k, r)
      PROVE  SeededRun(k, r)'
  <2>1. r.id \in Ids /\ r.list \in SUBSET Files
    BY DEF Engine
  <2>2. seen'[k] = seen[k]
    BY <1>1 DEF Keeps
  <2>3. ToSeed(k, r) => ToSeed(k, r)'
    BY <2>1, <2>2, HasKept DEF ToSeed, SeenAs
  <2>4. QED
    BY <1>1, <2>1, <2>3, SeededKept DEF SeededRun
<1>2. ASSUME NEW r \in Engine, Place(r), WholeRun(r)
      PROVE  WholeRun(r)'
  <2>1. r.i \in Nat /\ r.done \subseteq BatchNos
    BY DEF Engine
  <2>2. QED
    BY <1>2, <2>1, HasAllKept DEF WholeRun, Place
<1>3. ASSUME NEW c \in Checkpoint, WholeCheckpoint(c)
      PROVE  WholeCheckpoint(c)'
  <2>1. c.done \subseteq BatchNos
    BY DEF Checkpoint
  <2>2. QED
    BY <1>3, <2>1, HasAllKept DEF WholeCheckpoint
<1>4. QED
  BY <1>0, <1>1, <1>2, <1>3

-----------------------------------------------------------------------------
(* Types                                                                   *)

LEMMA RestTyped ==
  \A k \in Calls, m \in {"plain", "update", "resume"} : Rest(k, m) \in Engine
BY DEF Rest, Engine, Ids

LEMMA GoneTyped ==
  ASSUME TypeOK
  PROVE  \A k \in Calls, s \in {"idle", "scanned", "called", "done", "refused", "hung", "dead"} :
           /\ Gone(k, s) \in Engine /\ Gone(k, s).at = s
           /\ Gone(k, s).errors = 0 /\ Gone(k, s).done = {} /\ Gone(k, s).id = k
<1> SUFFICES ASSUME NEW k \in Calls,
                    NEW s \in {"idle", "scanned", "called", "done", "refused", "hung", "dead"}
             PROVE  /\ Gone(k, s) \in Engine /\ Gone(k, s).at = s
                    /\ Gone(k, s).errors = 0 /\ Gone(k, s).done = {} /\ Gone(k, s).id = k
  OBVIOUS
<1> DEFINE m == run[k].mode
<1>1. m \in {"plain", "update", "resume"}
  BY DEF TypeOK, Engine
<1>2. PICK r \in Engine : r = Rest(k, m) /\ r.errors = 0 /\ r.done = {} /\ r.id = k
  BY <1>1, RestTyped DEF Rest
<1>3. /\ [r EXCEPT !.at = s] \in Engine /\ [r EXCEPT !.at = s].at = s
      /\ [r EXCEPT !.at = s].errors = 0 /\ [r EXCEPT !.at = s].done = {}
      /\ [r EXCEPT !.at = s].id = k
  BY <1>2 DEF Engine
<1>4. QED
  BY <1>2, <1>3 DEF Gone

LEMMA FileAt ==
  ASSUME TypeOK, NEW k \in Calls, run[k].b \in BatchNos, run[k].i \in DOMAIN Batches[run[k].b]
  PROVE  Current(k) \in Files /\ drive[Current(k)] \in Contents
BY FilesOfBatches DEF Current, TypeOK

LEMMA CheckpointTyped ==
  ASSUME TypeOK, NEW k \in Calls, NEW complete \in BOOLEAN, NEW done \in SUBSET BatchNos,
         WriteCheckpoint(k, complete, done)
  PROVE  /\ checkpoint' \in Checkpoint \union {None} /\ faults' \in Nat
         /\ \/ checkpoint' = checkpoint
            \/ checkpoint' = [complete |-> complete, id |-> run[k].id,
                              update |-> run[k].update, list |-> run[k].list,
                              done |-> done, errors |-> run[k].errors]
BY DEF WriteCheckpoint, MayFail, Fault, TypeOK, Engine, Checkpoint

LEMMA InitTyped ==
  Init => TypeOK
<1> SUFFICES ASSUME Init
             PROVE  TypeOK
  OBVIOUS
<1>1. drive \in [Files -> Contents] /\ archive \in [Names -> Contents \union {Torn, None}]
  BY TransferConstants DEF Init, Names
<1>2. seen \in [Calls -> Inventories] /\ outcomes \in [Ids -> SUBSET Names]
  BY DEF Init, Inventories, Entry
<1>3. run \in [Calls -> Engine]
  BY RestTyped DEF Init
<1>4. QED
  BY <1>1, <1>2, <1>3 DEF Init, TypeOK

\* An engine that begins, and one that goes on from a checkpoint.
Begun(r, list) == [r EXCEPT !.at = "first", !.list = list]

LEMMA BegunIs ==
  ASSUME NEW r \in Engine, NEW l \in SUBSET Files, NEW e, e = Begun(r, l)
  PROVE  /\ e \in Engine /\ e.at = "first" /\ e.id = r.id /\ e.update = r.update
         /\ e.list = l /\ e.done = r.done
BY DEF Begun, Engine

Resumed(r, c, s) == [r EXCEPT !.at = s, !.id = c.id, !.update = c.update,
                              !.list = c.list, !.done = c.done]

LEMMA ResumedIs ==
  ASSUME NEW r \in Engine, NEW c \in Checkpoint, NEW s \in {"batch", "first"},
         NEW e, e = Resumed(r, c, s)
  PROVE  /\ e \in Engine /\ e.at = s /\ e.id = c.id /\ e.update = c.update
         /\ e.list = c.list /\ e.done = c.done
<1>1. PICK r1 \in Engine : r1 = [r EXCEPT !.at = s]
  BY DEF Engine
<1>2. PICK r2 \in Engine : r2 = [r1 EXCEPT !.id = c.id]
  BY DEF Engine, Checkpoint
<1>3. PICK r3 \in Engine : r3 = [r2 EXCEPT !.update = c.update]
  BY DEF Engine, Checkpoint
<1>4. PICK r4 \in Engine : r4 = [r3 EXCEPT !.list = c.list]
  BY DEF Engine, Checkpoint
<1>5. e = [r4 EXCEPT !.done = c.done]
  BY <1>1, <1>2, <1>3, <1>4 DEF Resumed
<1>6. r1.at = s
  BY <1>1 DEF Engine
<1>7. r2.at = s /\ r2.id = c.id
  BY <1>2, <1>6 DEF Engine
<1>8. r3.at = s /\ r3.id = c.id /\ r3.update = c.update
  BY <1>3, <1>7 DEF Engine
<1>9. r4.at = s /\ r4.id = c.id /\ r4.update = c.update /\ r4.list = c.list
  BY <1>4, <1>8 DEF Engine
<1>10. QED
  BY <1>5, <1>9 DEF Engine, Checkpoint

\* What the code may see of the archive.
LEMMA InventorySays ==
  ASSUME NEW lost, NEW blind, NEW f \in Files
  PROVE  LET state == Inventory(lost, blind)[f].state IN
         /\ state = "error" => f \in lost
         /\ state \in {"missing", "same-size", "changed-size", "error"}
         /\ state \in {"same-size", "changed-size"} => archive[<<f, 0>>] # None
<1>1. CASE f \in lost
  BY <1>1 DEF Inventory, Entry
<1>2. CASE f \notin lost /\ (f \in blind \/ archive[<<f, 0>>] = None)
  BY <1>2 DEF Inventory, Entry
<1>3. CASE f \notin lost /\ ~(f \in blind \/ archive[<<f, 0>>] = None)
  <2> DEFINE state == IF Size(archive[<<f, 0>>]) = Size(drive[f])
                      THEN "same-size" ELSE "changed-size"
  <2>1. Inventory(lost, blind)[f]
          = Entry(state, Size(drive[f]), Size(archive[<<f, 0>>]))
    BY <1>3 DEF Inventory
  <2>2. state \in {"same-size", "changed-size"}
    OBVIOUS
  <2> HIDE DEF state
  <2>3. Inventory(lost, blind)[f].state = state
    BY <2>1 DEF Entry
  <2>4. QED
    BY <1>3, <2>2, <2>3
<1>4. QED
  BY <1>1, <1>2, <1>3

LEMMA InventoryTyped ==
  ASSUME TypeOK, NEW lost \in SUBSET Files, NEW blind \in SUBSET Files
  PROVE  Inventory(lost, blind) \in Inventories
<1>1. \A c : Size(c) \in Int
  BY TransferConstants DEF Size
<1>2. QED
  BY <1>1 DEF Inventory, Inventories, Entry

LEMMA CallsTyped ==
  ASSUME TypeOK, NEW k \in Calls,
         Scan(k) \/ Call(k) \/ RunImport(k) \/ ResumeImportFromCheckpoint(k)
  PROVE  TypeOK'
<1>1. \A r \in Engine : [r EXCEPT !.at = "scanned"] \in Engine
                        /\ [r EXCEPT !.at = "called"] \in Engine
                        /\ [r EXCEPT !.at = "refused"] \in Engine
  BY DEF Engine
<1>2. CASE Scan(k)
  <2>1. PICK lost \in SUBSET Files, blind \in SUBSET Files :
          /\ FaultIf(lost \union blind # {})
          /\ seen' = [seen EXCEPT ![k] = Inventory(lost, blind)]
    BY <1>2 DEF Scan
  <2>2. seen' \in [Calls -> Inventories] /\ faults' \in Nat
    BY <2>1, InventoryTyped DEF FaultIf, Fault, TypeOK
  <2>3. QED
    BY <1>1, <1>2, <2>2 DEF Scan, Go, TypeOK, flagVars, histVars
<1>3. CASE Call(k)
  BY <1>1, <1>3 DEF Call, Go, TypeOK, flagVars, histVars
<1>4. ASSUME NEW e \in Engine, Claim(k, e)
      PROVE  /\ run' \in [Calls -> Engine] /\ running' \in BOOLEAN
             /\ statePaused' \in BOOLEAN /\ isPaused' \in BOOLEAN /\ doubled' \in BOOLEAN
  BY <1>4, GoneTyped DEF Claim, TypeOK
<1>5. CASE RunImport(k)
  <2>1. CASE Go(k, "refused") /\ UNCHANGED <<flagVars, doubled, hazards>> /\ faults' \in Nat
    BY <1>1, <1>5, <2>1 DEF RunImport, Go, TypeOK, flagVars
  <2>2. ASSUME NEW list \in SUBSET Files, Claim(k, Begun(run[k], list)), faults' \in Nat,
               hazards' \subseteq Ids \X Kinds
        PROVE  TypeOK'
    <3>1. PICK r \in Engine : r = run[k]
      BY DEF TypeOK
    <3>2. PICK e : e = Begun(r, list)
      OBVIOUS
    <3>3. e \in Engine /\ Claim(k, e)
      BY <2>2, <3>1, <3>2, BegunIs
    <3>4. QED
      BY <1>4, <1>5, <2>2, <3>3 DEF RunImport, TypeOK
  <2>3. CASE Claim(k, [run[k] EXCEPT !.at = "first"]) /\ UNCHANGED <<faults, hazards>>
    <3>1. PICK list \in SUBSET Files : list = run[k].list
      BY DEF TypeOK, Engine
    <3>2. Begun(run[k], list) = [run[k] EXCEPT !.at = "first"]
      BY <3>1 DEF TypeOK, Engine, Begun
    <3>3. QED
      BY <2>2, <2>3, <3>1, <3>2 DEF TypeOK
  <2>4. ASSUME NEW lost \in SUBSET Files, NEW some, FaultIf(some),
               Claim(k, Begun(run[k], SeenAs(k, {"missing"}))),
               hazards' = IF lost = {} THEN hazards ELSE hazards \union {<<k, "unread">>}
        PROVE  TypeOK'
    <3>1. faults' \in Nat /\ hazards' \subseteq Ids \X Kinds
      BY <2>4 DEF FaultIf, Fault, TypeOK, Ids, Kinds
    <3>2. PICK list \in SUBSET Files : list = SeenAs(k, {"missing"})
      BY DEF SeenAs
    <3>3. QED
      BY <2>2, <2>4, <3>1, <3>2
  <2>5. \A some : FaultIf(some) => faults' \in Nat
    BY DEF FaultIf, Fault, TypeOK
  <2>6. QED
    BY <1>5, <2>1, <2>3, <2>4, <2>5 DEF RunImport, Begun
<1>6. CASE ResumeImportFromCheckpoint(k)
  <2>1. CASE Go(k, "refused") /\ UNCHANGED <<flagVars, doubled, hazards>>
    BY <1>1, <1>6, <2>1 DEF ResumeImportFromCheckpoint, Go, TypeOK, flagVars
  <2>2. ASSUME checkpoint # None, NEW s \in {"batch", "first"},
               Claim(k, Resumed(run[k], checkpoint, s)),
               hazards' = IF checkpoint.errors > 0
                          THEN hazards \union {<<checkpoint.id, "forgotten">>} ELSE hazards
        PROVE  TypeOK'
    <3>1. PICK r \in Engine : r = run[k]
      BY DEF TypeOK
    <3>2. PICK c \in Checkpoint : c = checkpoint /\ c.id \in Ids
      BY <2>2 DEF TypeOK, Checkpoint
    <3>3. PICK e : e = Resumed(r, c, s)
      OBVIOUS
    <3>4. e \in Engine /\ Claim(k, e)
      BY <2>2, <3>1, <3>2, <3>3, ResumedIs
    <3>5. hazards' \subseteq Ids \X Kinds
      BY <2>2, <3>2 DEF TypeOK, Kinds
    <3>6. QED
      BY <1>4, <1>6, <3>4, <3>5 DEF ResumeImportFromCheckpoint, TypeOK
  <2>3. CASE ~(checkpoint = None \/ (checkpoint # None /\ checkpoint.complete))
    <3>1. PICK s \in {"batch", "first"} : s = IF checkpoint.update THEN "batch" ELSE "first"
      OBVIOUS
    <3>2. Claim(k, Resumed(run[k], checkpoint, s))
      BY <1>6, <2>3, <3>1 DEF ResumeImportFromCheckpoint, Resumed
    <3>3. hazards' = IF checkpoint.errors > 0
                     THEN hazards \union {<<checkpoint.id, "forgotten">>} ELSE hazards
      BY <1>6, <2>3 DEF ResumeImportFromCheckpoint
    <3>4. QED
      BY <2>2, <2>3, <3>2, <3>3
  <2>4. QED
    BY <1>6, <2>1, <2>3 DEF ResumeImportFromCheckpoint
<1>7. QED
  BY <1>2, <1>3, <1>5, <1>6

-----------------------------------------------------------------------------
(* How an engine moves                                                     *)

\* e is r at another place of the same run.
SameRun(e, r) == /\ e.id = r.id /\ e.update = r.update /\ e.list = r.list

LEMMA GoesTo ==
  ASSUME NEW r \in Engine,
         NEW s \in {"seed", "batch", "waitbatch", "gobatch", "file", "waitfile", "gofile",
                   "copy", "end"},
         NEW e, e = [r EXCEPT !.at = s]
  PROVE  /\ e \in Engine /\ e.at = s /\ SameRun(e, r)
         /\ e.done = r.done /\ e.b = r.b /\ e.i = r.i /\ e.errors = r.errors
BY DEF Engine, SameRun

\* e is one file further than r.
Passed(e, r) ==
  /\ SameRun(e, r) /\ e.at = "file" /\ e.done = r.done /\ e.b = r.b /\ e.i = r.i + 1

NextFile(r) == [r EXCEPT !.at = "file", !.i = @ + 1, !.to = None, !.free = FALSE]
FileFailed(r) == [r EXCEPT !.at = "file", !.i = @ + 1, !.to = None, !.free = FALSE,
                           !.errors = @ + 1]

LEMMA GoesOn ==
  ASSUME NEW r \in Engine, NEW e, e = NextFile(r)
  PROVE  e \in Engine /\ Passed(e, r) /\ e.errors = r.errors
<1>1. PICK j \in Nat \ {0} : j = r.i + 1
  BY DEF Engine
<1> DEFINE x == [r EXCEPT !.at = "file", !.i = j]
<1>2. /\ x \in Engine /\ SameRun(x, r) /\ x.at = "file" /\ x.done = r.done
      /\ x.b = r.b /\ x.i = j /\ x.errors = r.errors
  BY DEF Engine, SameRun
<1>3. e = [x EXCEPT !.to = None, !.free = FALSE]
  BY <1>1 DEF NextFile
<1> HIDE DEF x
<1>4. e \in Engine /\ SameRun(e, x) /\ e.at = "file" /\ e.done = x.done
      /\ e.b = x.b /\ e.i = x.i /\ e.errors = x.errors
  BY <1>2, <1>3 DEF Engine, SameRun
<1>5. QED
  BY <1>1, <1>2, <1>4 DEF SameRun, Passed

LEMMA GoesOnFailed ==
  ASSUME NEW r \in Engine, NEW e, e = FileFailed(r)
  PROVE  e \in Engine /\ Passed(e, r) /\ e.errors > 0
<1> DEFINE x == NextFile(r)
<1>1. x \in Engine /\ Passed(x, r) /\ x.errors = r.errors
  BY GoesOn
<1> HIDE DEF x
<1>2. e = [x EXCEPT !.errors = r.errors + 1]
  BY DEF x, FileFailed, NextFile
<1>3. QED
  BY <1>1, <1>2 DEF Engine, SameRun, Passed

\* e is r at another batch.
AtBatch(r, n) == [r EXCEPT !.at = "file", !.b = n, !.i = 1]
AtEnd(r, n) == [r EXCEPT !.at = "end", !.b = n]
AtCopy(r, n, x) == [r EXCEPT !.at = "copy", !.to = n, !.free = x]
AfterBatch(r, d) == [r EXCEPT !.at = "batch", !.done = d]

LEMMA GoesToBatch ==
  ASSUME NEW r \in Engine, NEW n \in BatchNos, NEW e, e = AtBatch(r, n)
  PROVE  /\ e \in Engine /\ SameRun(e, r) /\ e.at = "file" /\ e.done = r.done
         /\ e.b = n /\ e.i = 1 /\ e.errors = r.errors
<1>1. n \in Nat \ {0} /\ 1 \in Nat \ {0}
  BY TransferConstants DEF BatchNos
<1> DEFINE x == [r EXCEPT !.at = "file", !.b = n]
<1>2. /\ x \in Engine /\ SameRun(x, r) /\ x.at = "file" /\ x.done = r.done
      /\ x.b = n /\ x.errors = r.errors
  BY <1>1 DEF Engine, SameRun
<1>3. e = [x EXCEPT !.i = 1]
  BY DEF AtBatch
<1> HIDE DEF x
<1>4. QED
  BY <1>1, <1>2, <1>3 DEF Engine, SameRun

LEMMA GoesToEnd ==
  ASSUME NEW r \in Engine, NEW n \in BatchNos, NEW e, e = AtEnd(r, n)
  PROVE  e \in Engine /\ SameRun(e, r) /\ e.at = "end" /\ e.done = r.done /\ e.b = n
<1>1. n \in Nat \ {0}
  BY TransferConstants DEF BatchNos
<1>2. QED
  BY <1>1 DEF Engine, SameRun, AtEnd

LEMMA GoesToCopy ==
  ASSUME NEW r \in Engine, NEW n \in Names, NEW x \in BOOLEAN,
         NEW e, e = AtCopy(r, n, x)
  PROVE  /\ e \in Engine /\ SameRun(e, r) /\ e.at = "copy" /\ e.done = r.done
         /\ e.b = r.b /\ e.i = r.i /\ e.to = n /\ e.free = x /\ e.errors = r.errors
BY DEF Engine, SameRun, AtCopy

LEMMA EndsBatch ==
  ASSUME NEW r \in Engine, NEW d \in SUBSET BatchNos, NEW e, e = AfterBatch(r, d)
  PROVE  /\ e \in Engine /\ SameRun(e, r) /\ e.at = "batch" /\ e.done = d
         /\ e.errors = r.errors
BY DEF Engine, SameRun, AfterBatch

-----------------------------------------------------------------------------
(* What is left to show of a step that keeps what is recorded              *)

\* An engine that seeds goes on seeding, or has seeded.
SeedsOn ==
  \A k \in Calls, id \in Ids, list \in SUBSET Files :
    At(k) = "seed" /\ run[k].id = id /\ run[k].list = list =>
      run'[k] = run[k] \/ SeededIn(id, list)'

LEMMA CheckpointKept ==
  ASSUME TypeOK, Keeps, SeedsOn, NEW c \in Checkpoint, SeededCheckpoint(c), WholeCheckpoint(c)
  PROVE  SeededCheckpoint(c)' /\ WholeCheckpoint(c)'
<1>1. WholeCheckpoint(c)'
  BY RunKept
<1>2. SeededCheckpoint(c)'
  <2> SUFFICES ASSUME c.update
               PROVE  SeededCheckpoint(c)'
    BY DEF SeededCheckpoint
  <2>1. c.id \in Ids /\ c.list \in SUBSET Files
    BY DEF Checkpoint
  <2>3. CASE SeededIn(c.id, c.list)
    BY <2>1, <2>3, SeededKept DEF SeededCheckpoint
  <2>4. ASSUME NEW k \in Calls, At(k) = "seed", run[k].id = c.id,
               run[k].list = c.list
        PROVE  SeededCheckpoint(c)'
    <3>1. CASE run'[k] = run[k]
      BY <2>4, <3>1 DEF SeededCheckpoint, At
    <3>2. CASE SeededIn(c.id, c.list)'
      BY <3>2 DEF SeededCheckpoint
    <3>3. QED
      BY <2>1, <2>4, <3>1, <3>2 DEF SeedsOn
  <2>5. QED
    BY <2>3, <2>4 DEF SeededCheckpoint
<1>3. QED
  BY <1>1, <1>2

LEMMA EngineMoves ==
  ASSUME IInv, TypeOK', Keeps, NEW k \in Calls, At(k) \in Active, NEW e \in Engine,
         run' = [run EXCEPT ![k] = e], doubled' = doubled,
         \/ e.at \in Active /\ running' = running /\ SeededRun(k, e)' /\ WholeRun(e)'
         \/ e.at = "done",
         Place(e)', Recorded',
         checkpoint' # None => SeededCheckpoint(checkpoint)' /\ WholeCheckpoint(checkpoint)'
  PROVE  IInv'
<1>1. \A j \in Calls : run'[j] = IF j = k THEN e ELSE run[j]
  BY DEF IInv, TypeOK
<1>2. \A j \in Calls \ {k} : At(j)' = At(j) /\ run'[j] = run[j]
  BY <1>1 DEF At
<1>3. At(k)' = e.at /\ run'[k] = e
  BY <1>1 DEF At
<1>4. Fresh'
  <2>1. ASSUME NEW j \in Calls \ {k}, At(j)' \in {"idle", "scanned", "called"}
        PROVE  (run[j] = Gone(j, At(j)))'
    BY <1>2, <2>1 DEF IInv, Fresh, Gone
  <2>2. At(k)' \notin {"idle", "scanned", "called"}
    BY <1>3 DEF Active, Waiting
  <2>3. QED
    BY <2>1, <2>2 DEF Fresh
<1>5. AtFile'
  <2>1. ASSUME NEW j \in Calls \ {k}
        PROVE  Place(run[j])'
    <3>1. PICK r \in Engine : r = run[j] /\ r = run'[j] /\ Place(r)
      BY <1>2 DEF IInv, TypeOK, AtFile
    <3>2. Place(r)'
      BY <3>1, RunKept
    <3>3. QED
      BY <3>1, <3>2
  <2>2. Place(run[k])'
    BY <1>3
  <2>3. QED
    BY <2>1, <2>2 DEF AtFile
<1>6. OneEngine'
  <2>1. CASE doubled
    BY <2>1 DEF OneEngine
  <2>2. CASE ~doubled
    <3>1. \A j \in Calls \ {k} : At(j)' \notin Active
      BY <1>2, <2>2 DEF IInv, OneEngine
    <3>2. running' \/ At(k)' \notin Active
      BY <1>3, <2>2 DEF IInv, OneEngine, Active, Waiting
    <3>3. QED
      BY <3>1, <3>2 DEF OneEngine
  <2>3. QED
    BY <2>1, <2>2
<1>7. ASSUME NEW j \in Calls, At(j)' \in Active
      PROVE  SeededRun(j, run[j])' /\ WholeRun(run[j])'
  <2>1. CASE j = k
    BY <1>3, <1>7, <2>1 DEF Active, Waiting
  <2>2. CASE j # k
    <3>1. At(j) \in Active /\ run'[j] = run[j]
      BY <1>2, <1>7, <2>2
    <3>2. PICK r \in Engine : r = run[j] /\ r = run'[j]
      BY <3>1 DEF IInv, TypeOK
    <3>3. SeededRun(j, r) /\ WholeRun(r) /\ Place(r)
      BY <3>1, <3>2 DEF IInv, Seeded, Whole, AtFile
    <3>4. SeededRun(j, r)' /\ WholeRun(r)'
      BY <3>1, <3>3, RunKept
    <3>5. QED
      BY <3>2, <3>4
  <2>3. QED
    BY <2>1, <2>2
<1>8. QED
  BY <1>4, <1>5, <1>6, <1>7 DEF IInv, Seeded, Whole

LEMMA OtherSeedsOn ==
  ASSUME TypeOK, NEW k \in Calls, At(k) # "seed", NEW e, run' = [run EXCEPT ![k] = e]
  PROVE  SeedsOn
BY DEF SeedsOn, TypeOK, At

LEMMA SameCheckpoint ==
  ASSUME IInv, Keeps, SeedsOn, checkpoint' = checkpoint, checkpoint' # None
  PROVE  SeededCheckpoint(checkpoint)' /\ WholeCheckpoint(checkpoint)'
<1>1. PICK c \in Checkpoint : c = checkpoint /\ c = checkpoint'
  BY DEF IInv, TypeOK
<1>2. SeededCheckpoint(c) /\ WholeCheckpoint(c)
  BY <1>1 DEF IInv, Seeded, Whole
<1>3. SeededCheckpoint(c)' /\ WholeCheckpoint(c)'
  BY <1>2, CheckpointKept DEF IInv
<1>4. QED
  BY <1>1, <1>3

\* The checkpoint of an engine that has seeded is as good as the engine.
LEMMA NewCheckpoint ==
  ASSUME IInv, Keeps, NEW k \in Calls, At(k) \in Active \ {"first", "seed"},
         NEW r \in Engine, r = run[k], NEW c \in Checkpoint, c = checkpoint',
         SameRun(c, r), c.errors = r.errors,
         c.errors = 0 => \A b \in c.done : HasAll(r, b)
  PROVE  SeededCheckpoint(checkpoint)' /\ WholeCheckpoint(checkpoint)'
<1>1. c.id \in Ids /\ c.list \in SUBSET Files /\ c.done \in SUBSET BatchNos
  BY DEF Checkpoint
<1>2. SeededRun(k, r) /\ r.at \notin {"first", "seed"}
  BY DEF IInv, Seeded, At
<1>3. c.update => SeededIn(c.id, c.list)
  BY <1>2 DEF SameRun, SeededRun
<1>4. c.update => SeededIn(c.id, c.list)'
  BY <1>1, <1>3, SeededKept
<1>5. \A b \in BatchNos : HasAll(r, b) => HasAll(c, b)
  BY DEF HasAll, SameRun
<1>6. WholeCheckpoint(c)'
  BY <1>1, <1>5, HasAllKept DEF WholeCheckpoint
<1>7. SeededCheckpoint(c)'
  BY <1>4 DEF SeededCheckpoint
<1>8. QED
  BY <1>6, <1>7

LEMMA RecordedKept ==
  ASSUME IInv, Keeps, UNCHANGED seen,
         \A id \in Ids, n \in Names :
           n \in outcomes'[id] => n \in outcomes[id] \/ archive'[n] # None
  PROVE  Recorded'
<1>1. \A id \in Ids, n \in Names : n \in outcomes'[id] => archive'[n] # None
  BY DEF IInv, Recorded, Keeps
<1>2. \A f \in Files : <<f, 0>> \in Names
  BY TransferConstants DEF Names
<1>3. ASSUME NEW k \in Calls, NEW f \in SeenAs(k, {"same-size", "changed-size"})'
      PROVE  archive'[<<f, 0>>] # None
  <2>1. f \in Files /\ f \in SeenAs(k, {"same-size", "changed-size"})
    BY <1>3 DEF SeenAs
  <2>2. QED
    BY <1>2, <2>1 DEF IInv, Recorded, Keeps
<1>4. QED
  BY <1>1, <1>3 DEF Recorded

LEMMA RecordMade ==
  ASSUME TypeOK, NEW k \in Calls, NEW n \in Names, Record(k, n)
  PROVE  /\ outcomes' \in [Ids -> SUBSET Names] /\ hazards' \subseteq Ids \X Kinds
         /\ faults' \in Nat /\ hazards \subseteq hazards'
         /\ \A id \in Ids : /\ outcomes[id] \subseteq outcomes'[id]
                            /\ outcomes'[id] \subseteq outcomes[id] \union {n}
                            /\ id = run[k].id => n \in outcomes'[id] \/ Excused(id)'
<1>1. run[k].id \in Ids
  BY DEF TypeOK, Engine
<1>2. CASE outcomes' = [outcomes EXCEPT ![run[k].id] = @ \union {n}]
           /\ UNCHANGED <<hazards, faults>>
  BY <1>1, <1>2 DEF TypeOK
<1>3. CASE UNCHANGED outcomes /\ hazards' = hazards \union {<<run[k].id, "unrecorded">>}
           /\ Fault
  BY <1>1, <1>3 DEF TypeOK, Kinds, Fault, Excused
<1>4. QED
  BY <1>2, <1>3 DEF Record, MayFail

\* Past a file the archive has, and has on record, e is as whole as r.
LEMMA PassedWhole ==
  ASSUME Keeps, NEW r \in Engine, NEW e \in Engine, Passed(e, r), e.errors = r.errors,
         Place(r), WholeRun(r), r.at \in {"file", "gofile", "copy"},
         Excused(r.id)' \/ Has(r.id, r.update, Batches[r.b][r.i])'
  PROVE  WholeRun(e)'
<1> SUFFICES ASSUME e.errors = 0
             PROVE  WholeRun(e)'
  BY DEF WholeRun
<1>1. r.b \in BatchNos /\ r.done \subseteq BatchNos /\ r.i \in Nat
  BY DEF Place, Engine
<1>2. \A b \in r.done : HasAll(r, b)'
  BY <1>1, HasAllKept DEF WholeRun
<1>3. HasTo(r, r.b, r.i)'
  BY <1>1, HasAllKept DEF WholeRun
<1>4. \A b \in e.done : HasAll(e, b)'
  BY <1>2 DEF Passed, SameRun, HasAll
<1>5. \A n \in DOMAIN Batches[r.b] : n \in Nat /\ (n < r.i + 1 => n < r.i \/ n = r.i)
  <2>1. Batches[r.b] \in Seq(Files)
    BY <1>1, TransferConstants DEF BatchNos
  <2>2. QED
    BY <1>1, <2>1
<1>6. HasTo(e, e.b, e.i)'
  BY <1>3, <1>5 DEF Passed, SameRun, HasTo
<1>7. QED
  BY <1>4, <1>6 DEF WholeRun, Passed

LEMMA MovedWhole ==
  ASSUME Keeps, NEW r \in Engine, NEW e \in Engine, SameRun(e, r), e.done = r.done,
         e.errors = r.errors, Place(r), WholeRun(r),
         \/ e.at \in {"first", "seed", "batch", "waitbatch", "gobatch"}
         \/ /\ {e.at, r.at} \subseteq {"file", "waitfile", "gofile", "copy"}
            /\ e.b = r.b /\ e.i = r.i
  PROVE  WholeRun(e)'
<1>1. WholeRun(r)'
  BY RunKept
<1>2. WholeRun(e)'
  BY <1>1 DEF WholeRun, HasAll, HasTo, SameRun
<1>3. QED
  BY <1>2

LEMMA MovedSeeded ==
  ASSUME Keeps, NEW k \in Calls, At(k) \in Active, NEW r \in Engine, NEW e \in Engine,
         SameRun(e, r), SeededRun(k, r),
         {r.at, e.at} \intersect {"first", "seed"} = {}
  PROVE  SeededRun(k, e)'
<1>1. SeededRun(k, r)'
  BY RunKept
<1>2. QED
  BY <1>1 DEF SeededRun, SameRun

LEMMA KeepsSame ==
  ASSUME UNCHANGED <<drive, archive, outcomes, late>>, doubled => doubled',
         hazards \subseteq hazards', unseen \subseteq unseen',
         UNCHANGED seen \/ \A k \in Calls : At(k) \in Active => seen'[k] = seen[k]
  PROVE  Keeps
BY DEF Keeps

LEMMA EngineOf ==
  ASSUME IInv, NEW k \in Calls, At(k) \in Active
  PROVE  \E r \in Engine :
           r = run[k] /\ r.at = At(k) /\ Place(r) /\ SeededRun(k, r) /\ WholeRun(r)
BY DEF IInv, TypeOK, AtFile, Seeded, Whole, At

-----------------------------------------------------------------------------
(* The steps of the engine                                                 *)

LEMMA FirstStep ==
  ASSUME IInv, NEW k \in Calls, First(k)
  PROVE  IInv'
<1>0. At(k) \in Active /\ At(k) = "first"
  BY DEF First, Active
<1>1. PICK r \in Engine :
        r = run[k] /\ r.at = At(k) /\ Place(r) /\ SeededRun(k, r) /\ WholeRun(r)
  BY <1>0, EngineOf
<1>2. PICK s \in {"seed", "batch"} : s = (IF r.update THEN "seed" ELSE "batch")
  OBVIOUS
<1>3. PICK e \in Engine : /\ e = [r EXCEPT !.at = s] /\ e.at = s /\ SameRun(e, r)
                          /\ e.done = r.done /\ e.errors = r.errors
  <2>1. PICK e : e = [r EXCEPT !.at = s]
    OBVIOUS
  <2>2. QED
    BY <1>1, <2>1, GoesTo
<1>4. run' = [run EXCEPT ![k] = e]
  BY <1>1, <1>2, <1>3 DEF First, Go
<1>5. Keeps
  BY KeepsSame DEF First, histVars
<1>6. r.done \in SUBSET BatchNos
  BY DEF Engine
<1>7. /\ checkpoint' \in Checkpoint \union {None} /\ faults' \in Nat
      /\ \/ checkpoint' = checkpoint
         \/ checkpoint' = [complete |-> FALSE, id |-> r.id, update |-> r.update,
                           list |-> r.list, done |-> r.done, errors |-> r.errors]
  BY <1>1, <1>6, CheckpointTyped DEF First, IInv
<1>8. TypeOK'
  BY <1>1, <1>3, <1>4, <1>7 DEF IInv, First, TypeOK, flagVars, histVars
<1>9. Place(e)'
  BY <1>2, <1>3 DEF Place, SameRun
<1>10. SeededRun(k, e)'
  <2>1. SeededRun(k, r)'
    BY <1>0, <1>1, <1>5, RunKept
  <2>2. r.update => e.at = "seed"
    BY <1>2, <1>3
  <2>3. QED
    BY <1>0, <1>1, <1>3, <2>1, <2>2 DEF SeededRun, ToSeed, SameRun
<1>11. WholeRun(e)'
  BY <1>1, <1>3, <1>5, MovedWhole
<1>12. Recorded'
  BY <1>0, <1>3, <1>4, <1>5, RecordedKept DEF First, histVars
<1>13. ASSUME checkpoint' # None
       PROVE  SeededCheckpoint(checkpoint)' /\ WholeCheckpoint(checkpoint)'
  <2>1. CASE checkpoint' = checkpoint
    BY <1>0, <1>4, <1>5, <1>13, <2>1, OtherSeedsOn, SameCheckpoint DEF IInv
  <2>2. CASE checkpoint' # checkpoint
    <3>1. PICK c \in Checkpoint : /\ c = checkpoint' /\ c.id = r.id /\ c.update = r.update
                                  /\ c.list = r.list /\ c.done = r.done /\ c.errors = r.errors
      BY <1>7, <1>13, <2>2
    <3>2. WholeCheckpoint(c)'
      BY <1>3, <1>11, <3>1 DEF WholeCheckpoint, WholeRun, HasAll, SameRun
    <3>4. c.update => At(k)' = "seed" /\ run'[k].id = c.id
                      /\ run'[k].list = c.list
      BY <1>1, <1>2, <1>3, <1>4, <3>1 DEF IInv, TypeOK, At, SameRun
    <3>5. SeededCheckpoint(c)'
      BY <3>4 DEF SeededCheckpoint
    <3>6. QED
      BY <3>1, <3>2, <3>5
  <2>3. QED
    BY <2>1, <2>2
<1>14. e.at \in Active /\ running' = running /\ doubled' = doubled
  BY <1>3 DEF First, Active, flagVars, histVars
<1>15. QED
  BY <1>0, <1>4, <1>5, <1>8, <1>9, <1>10, <1>11, <1>12, <1>13, <1>14, EngineMoves

LEMMA SeedStep ==
  ASSUME IInv, NEW k \in Calls, Seed(k)
  PROVE  IInv'
<1>0. At(k) \in Active /\ At(k) = "seed"
  BY DEF Seed, Active
<1>1. PICK r \in Engine :
        r = run[k] /\ r.at = At(k) /\ Place(r) /\ SeededRun(k, r) /\ WholeRun(r)
  BY <1>0, EngineOf
<1>2. PICK e \in Engine : /\ e = [r EXCEPT !.at = "batch"] /\ e.at = "batch"
                          /\ SameRun(e, r) /\ e.done = r.done /\ e.errors = r.errors
  <2>1. PICK e : e = [r EXCEPT !.at = "batch"]
    OBVIOUS
  <2>2. QED
    BY <1>1, <2>1, GoesTo
<1>3. run' = [run EXCEPT ![k] = e]
  BY <1>1, <1>2 DEF Seed, Go
<1>4. r.id \in Ids /\ r.list \in SUBSET Files
  BY DEF Engine
<1>5. \A f \in Files : <<f, 0>> \in Names
  BY TransferConstants DEF Names
<1> DEFINE found == {<<f, 0>> : f \in SeenAs(k, {"same-size", "changed-size"})}
<1>6. found \subseteq Names
  BY <1>5 DEF SeenAs
<1>7. \/ /\ outcomes' = [outcomes EXCEPT ![r.id] = @ \union found]
         /\ UNCHANGED <<hazards, faults>>
      \/ /\ hazards' = hazards \union {<<r.id, "unrecorded">>}
         /\ UNCHANGED outcomes /\ Fault
  BY <1>1 DEF Seed, MayFail
<1>8. /\ outcomes' \in [Ids -> SUBSET Names] /\ hazards' \subseteq Ids \X Kinds
      /\ faults' \in Nat /\ hazards \subseteq hazards'
      /\ \A id \in Ids : /\ outcomes[id] \subseteq outcomes'[id]
                         /\ outcomes'[id] \subseteq outcomes[id] \union
                                                  (IF id = r.id THEN found ELSE {})
      /\ found \subseteq outcomes'[r.id] \/ Excused(r.id)'
  BY <1>4, <1>6, <1>7 DEF IInv, TypeOK, Kinds, Fault, Excused
<1>9. Keeps
  BY <1>8 DEF Seed, Keeps
<1>10. TypeOK'
  BY <1>1, <1>2, <1>3, <1>8 DEF IInv, Seed, TypeOK, flagVars
<1>11. r.update /\ SeededIn(r.id, r.list)'
  <2>1. r.update
    BY <1>0, <1>1 DEF Place
  <2>2. Excused(r.id) \/ Files \ r.list \subseteq SeenAs(k, {"same-size", "changed-size"})
    BY <1>0, <1>1, <2>1 DEF SeededRun, ToSeed
  <2>3. Excused(r.id) => Excused(r.id)'
    BY <1>4, <1>9, HasKept
  <2>4. QED
    BY <1>8, <2>1, <2>2, <2>3 DEF SeededIn
<1>12. SeededRun(k, e)'
  BY <1>2, <1>11 DEF SeededRun, SameRun
<1>13. WholeRun(e)'
  BY <1>1, <1>2, <1>9, MovedWhole
<1>14. Recorded'
  <2>1. ASSUME NEW id \in Ids, NEW n \in Names, n \in outcomes'[id]
        PROVE  n \in outcomes[id] \/ archive'[n] # None
    <3>1. \A f \in SeenAs(k, {"same-size", "changed-size"}) : archive[<<f, 0>>] # None
      BY DEF IInv, Recorded
    <3>2. n \in outcomes[id] \/ n \in found
      BY <1>8, <2>1
    <3>3. QED
      BY <3>1, <3>2 DEF Seed
  <2>2. QED
    BY <1>0, <1>2, <1>3, <1>9, <2>1, RecordedKept DEF Seed
<1>15. SeedsOn
  BY <1>1, <1>3, <1>11 DEF SeedsOn, IInv, TypeOK
<1>16. ASSUME checkpoint' # None
       PROVE  SeededCheckpoint(checkpoint)' /\ WholeCheckpoint(checkpoint)'
  BY <1>9, <1>15, <1>16, SameCheckpoint DEF Seed
<1>17. /\ e.at \in Active /\ running' = running /\ doubled' = doubled /\ Place(e)'
  BY <1>2 DEF Seed, Active, flagVars, Place
<1>18. QED
  BY <1>0, <1>3, <1>9, <1>10, <1>12, <1>13, <1>14, <1>16, <1>17, EngineMoves

LEMMA EndOfFilesStep ==
  ASSUME IInv, NEW k \in Calls, EndOfFiles(k)
  PROVE  IInv'
<1>0. At(k) \in Active /\ At(k) = "file"
  BY DEF EndOfFiles, Active
<1>1. PICK r \in Engine :
        r = run[k] /\ r.at = At(k) /\ Place(r) /\ SeededRun(k, r) /\ WholeRun(r)
  BY <1>0, EngineOf
<1>2. PICK e \in Engine : /\ e = [r EXCEPT !.at = "end"] /\ e.at = "end"
                          /\ SameRun(e, r) /\ e.done = r.done /\ e.errors = r.errors
                          /\ e.b = r.b
  <2>1. PICK e : e = [r EXCEPT !.at = "end"]
    OBVIOUS
  <2>2. QED
    BY <1>1, <2>1, GoesTo
<1>3. run' = [run EXCEPT ![k] = e]
  BY <1>1, <1>2 DEF EndOfFiles, Go
<1>4. Keeps
  BY KeepsSame DEF EndOfFiles, histVars
<1>5. TypeOK'
  BY <1>1, <1>2, <1>3 DEF IInv, EndOfFiles, TypeOK, flagVars, histVars
<1>6. SeededRun(k, e)'
  BY <1>0, <1>1, <1>2, <1>4, MovedSeeded
<1>7. WholeRun(e)'
  <2> SUFFICES ASSUME e.errors = 0
               PROVE  WholeRun(e)'
    BY DEF WholeRun
  <2>1. r.b \in BatchNos /\ r.i \in Nat \ {0} /\ r.i \notin DOMAIN Batches[r.b]
    BY <1>0, <1>1, <1>2, TransferConstants DEF EndOfFiles, Place, Engine
  <2>2. \A n \in DOMAIN Batches[r.b] : n < r.i
    <3>1. Batches[r.b] \in Seq(Files)
      BY <2>1, TransferConstants DEF BatchNos
    <3>2. QED
      BY <2>1, <3>1
  <2>3. WholeRun(r)'
    BY <1>1, <1>4, RunKept
  <2>4. HasTo(r, r.b, r.i)' /\ \A b \in r.done : HasAll(r, b)'
    BY <1>0, <1>1, <1>2, <2>3 DEF WholeRun
  <2>5. HasAll(r, r.b)'
    BY <2>2, <2>4 DEF HasTo, HasAll
  <2>6. HasAll(e, e.b)' /\ \A b \in e.done : HasAll(e, b)'
    BY <1>2, <2>4, <2>5 DEF HasAll, SameRun
  <2>7. QED
    BY <1>2, <2>6 DEF WholeRun
<1>8. Recorded'
  BY <1>0, <1>2, <1>3, <1>4, RecordedKept DEF EndOfFiles, histVars
<1>9. ASSUME checkpoint' # None
      PROVE  SeededCheckpoint(checkpoint)' /\ WholeCheckpoint(checkpoint)'
  BY <1>0, <1>3, <1>4, <1>9, OtherSeedsOn, SameCheckpoint DEF IInv, EndOfFiles
<1>10. /\ e.at \in Active /\ running' = running /\ doubled' = doubled /\ Place(e)'
  BY <1>0, <1>1, <1>2 DEF EndOfFiles, Active, flagVars, histVars, Place
<1>11. QED
  BY <1>0, <1>3, <1>4, <1>5, <1>6, <1>7, <1>8, <1>9, <1>10, EngineMoves

\* A step within a batch, which leaves the checkpoint alone.
LEMMA WithinBatch ==
  ASSUME IInv, TypeOK', Keeps, NEW k \in Calls, At(k) \in Active \ {"first", "seed"},
         NEW e \in Engine, run' = [run EXCEPT ![k] = e],
         NEW r \in Engine, r = run[k], SameRun(e, r),
         e.at \in Active \ {"first", "seed"}, Place(e)', WholeRun(e)',
         UNCHANGED <<seen, running, doubled, checkpoint>>,
         \A id \in Ids, n \in Names :
           n \in outcomes'[id] => n \in outcomes[id] \/ archive'[n] # None
  PROVE  IInv'
<1>1. SeededRun(k, r) /\ r.at \notin {"first", "seed"}
  BY DEF IInv, Seeded, At
<1>2. SeededRun(k, e)'
  BY <1>1, MovedSeeded
<1>3. Recorded'
  BY RecordedKept
<1>4. ASSUME checkpoint' # None
      PROVE  SeededCheckpoint(checkpoint)' /\ WholeCheckpoint(checkpoint)'
  BY <1>4, OtherSeedsOn, SameCheckpoint DEF IInv
<1>5. QED
  BY <1>2, <1>3, <1>4, EngineMoves

LEMMA BatchStep ==
  ASSUME IInv, NEW k \in Calls, Batch(k)
  PROVE  IInv'
<1>0. /\ At(k) \in Active \ {"first", "seed"} /\ At(k) \in {"batch", "gobatch"}
  BY DEF Batch, Waits, Passes, Active
<1>1. PICK r \in Engine :
        r = run[k] /\ r.at = At(k) /\ Place(r) /\ SeededRun(k, r) /\ WholeRun(r)
  BY <1>0, EngineOf
<1>u. UNCHANGED <<drive, archive, seen, running, statePaused, isPaused, checkpoint,
                  outcomes, doubled, raced, unseen, late>>
  BY DEF Batch, flagVars
<1>2. CASE Waits(k, "batch", "waitbatch") /\ UNCHANGED <<faults, hazards>>
  <2>1. PICK e \in Engine : /\ e = [r EXCEPT !.at = "waitbatch"] /\ e.at = "waitbatch"
                            /\ SameRun(e, r) /\ e.done = r.done /\ e.errors = r.errors
    <3>1. PICK e : e = [r EXCEPT !.at = "waitbatch"]
      OBVIOUS
    <3>2. QED
      BY <3>1, GoesTo
  <2>2. run' = [run EXCEPT ![k] = e]
    BY <1>1, <1>2, <2>1 DEF Waits, Go
  <2>3. Keeps
    BY <1>2, <1>u, KeepsSame
  <2>4. TypeOK'
    BY <1>2, <2>1, <2>2, <1>u DEF IInv, TypeOK
  <2>5. WholeRun(e)' /\ Place(e)'
    BY <1>1, <2>1, <2>3, MovedWhole DEF Place
  <2>6. e.at \in Active \ {"first", "seed"}
    BY <2>1 DEF Active, Waiting
  <2>7. QED
    BY <1>0, <1>1, <2>1, <2>2, <2>3, <2>4, <2>5, <2>6, <1>u, WithinBatch
<1>3. ASSUME NEW n \in BatchNos,
             run' = [run EXCEPT ![k].at = "file", ![k].b = n, ![k].i = 1],
             UNCHANGED <<faults, hazards>>
      PROVE  IInv'
  <2>e. PICK e : e = AtBatch(r, n)
    OBVIOUS
  <2>1. /\ e \in Engine /\ SameRun(e, r) /\ e.at = "file" /\ e.done = r.done
        /\ e.b = n /\ e.i = 1 /\ e.errors = r.errors
    BY <2>e, GoesToBatch
  <2>2. run' = [run EXCEPT ![k] = e]
    BY <1>1, <1>3, <2>e DEF AtBatch
  <2>0. UNCHANGED <<faults, hazards>>
    BY <1>3
  <2>3. Keeps
    BY <1>3, <1>u, KeepsSame
  <2>4. TypeOK'
    BY <2>0, <2>1, <2>2, <1>u DEF IInv, TypeOK
  <2>5. WholeRun(e)'
    <3>1. WholeRun(r)'
      BY <1>1, <2>3, RunKept
    <3>2. \A m \in DOMAIN Batches[n] : ~(m < 1)
      <4>1. Batches[n] \in Seq(Files)
        BY TransferConstants DEF BatchNos
      <4>2. QED
        BY <4>1
    <3>3. HasTo(e, e.b, e.i)'
      BY <2>1, <3>2 DEF HasTo
    <3>4. e.errors = 0 => \A b \in e.done : HasAll(e, b)'
      BY <2>1, <3>1 DEF WholeRun, HasAll, SameRun
    <3>5. QED
      BY <2>1, <3>3, <3>4 DEF WholeRun
  <2>6. e.at \in Active \ {"first", "seed"} /\ Place(e)'
    BY <2>1 DEF Active, Waiting, Place
  <2>7. QED
    BY <1>0, <1>1, <2>1, <2>2, <2>3, <2>4, <2>5, <2>6, <1>u, WithinBatch
<1>4. ASSUME NEW n \in BatchNos, Fault,
             run' = [run EXCEPT ![k].at = "end", ![k].b = n],
             hazards' = hazards \union {<<run[k].id, "unread">>}
      PROVE  IInv'
  <2>e. PICK e : e = AtEnd(r, n)
    OBVIOUS
  <2>1. e \in Engine /\ SameRun(e, r) /\ e.at = "end" /\ e.done = r.done /\ e.b = n
    BY <2>e, GoesToEnd
  <2>2. run' = [run EXCEPT ![k] = e]
    BY <1>1, <1>4, <2>e DEF AtEnd
  <2>3. Keeps
    BY <1>4, <1>u, KeepsSame
  <2>4. r.id \in Ids
    BY DEF Engine
  <2>5. hazards' \subseteq Ids \X Kinds /\ faults' \in Nat
    BY <1>1, <1>4, <2>4 DEF IInv, TypeOK, Kinds, Fault
  <2>6. TypeOK'
    BY <2>1, <2>2, <2>5, <1>u DEF IInv, TypeOK
  <2>7. Excused(e.id)'
    BY <1>1, <1>4, <2>1 DEF Excused, Kinds, SameRun
  <2>8. WholeRun(e)'
    BY <2>7 DEF WholeRun, HasAll, HasTo
  <2>9. e.at \in Active \ {"first", "seed"} /\ Place(e)'
    BY <2>1 DEF Active, Waiting, Place
  <2>10. QED
    BY <1>0, <1>1, <2>1, <2>2, <2>3, <2>6, <2>8, <2>9, <1>u, WithinBatch
<1>5. QED
  BY <1>2, <1>3, <1>4 DEF Batch

LEMMA FilePassed ==
  ASSUME IInv, Keeps, NEW k \in Calls, At(k) \in {"file", "gofile", "copy"},
         run[k].i \in DOMAIN Batches[run[k].b],
         ToNext(k), UNCHANGED <<drive, seen, running, statePaused, isPaused, checkpoint,
                                doubled, unseen, late>>,
         archive' \in [Names -> Contents \union {Torn, None}], raced' \subseteq Names,
         NEW n \in Names, Record(k, n) \/ UNCHANGED <<outcomes, hazards, faults>>,
         \A id \in Ids : n \in outcomes'[id] => n \in outcomes[id] \/ archive'[n] # None,
         \A id \in Ids, u \in BOOLEAN : id = run[k].id /\ u = run[k].update =>
           \/ Excused(id)' \/ Has(id, u, Current(k))
           \/ /\ Record(k, n)
              /\ n \in outcomes'[id] => \A f \in Files : f = Current(k) => Has(id, u, f)'
  PROVE  IInv'
<1>0. At(k) \in Active \ {"first", "seed"}
  BY DEF Active
<1>1. PICK r \in Engine :
        r = run[k] /\ r.at = At(k) /\ Place(r) /\ SeededRun(k, r) /\ WholeRun(r)
  BY <1>0, EngineOf
<1>e. PICK e : e = NextFile(r)
  OBVIOUS
<1>2. e \in Engine /\ Passed(e, r) /\ e.errors = r.errors
  BY <1>e, GoesOn
<1>3. run' = [run EXCEPT ![k] = e]
  BY <1>1, <1>e DEF ToNext, NextFile
<1>4. r.id \in Ids /\ r.update \in BOOLEAN
  BY DEF Engine
<1>5. /\ outcomes' \in [Ids -> SUBSET Names] /\ hazards' \subseteq Ids \X Kinds
      /\ faults' \in Nat
      /\ \A id \in Ids, m \in Names :
           m \in outcomes'[id] => m \in outcomes[id] \/ archive'[m] # None
  <2>1. CASE Record(k, n)
    BY <2>1, RecordMade DEF IInv
  <2>2. CASE UNCHANGED <<outcomes, hazards, faults>>
    BY <2>2 DEF IInv, TypeOK
  <2>3. QED
    BY <2>1, <2>2
<1>6. TypeOK'
  BY <1>2, <1>3, <1>5 DEF IInv, TypeOK
<1>7. r.b \in BatchNos /\ r.i \in DOMAIN Batches[r.b] /\ Current(k) = Batches[r.b][r.i]
  BY <1>1 DEF Place, Current
<1>8. PICK f \in Files : f = Current(k) /\ f = Batches[r.b][r.i]
  BY <1>7, FilesOfBatches
<1>9. Excused(r.id)' \/ Has(r.id, r.update, f)'
  <2>1. CASE Excused(r.id)' \/ Has(r.id, r.update, f)
    BY <1>4, <2>1, HasKept
  <2>2. CASE Record(k, n) /\ (n \in outcomes'[r.id] => Has(r.id, r.update, f)')
    BY <1>1, <1>4, <2>2, RecordMade DEF IInv
  <2>3. QED
    BY <1>1, <1>4, <1>8, <2>1, <2>2
<1>10. WholeRun(e)'
  BY <1>1, <1>2, <1>8, <1>9, PassedWhole
<1>11. e.at \in Active \ {"first", "seed"} /\ Place(e)' /\ SameRun(e, r)
  BY <1>2, <1>7 DEF Active, Place, Passed
<1>12. QED
  BY <1>0, <1>1, <1>2, <1>3, <1>5, <1>6, <1>10, <1>11, WithinBatch

LEMMA FileFails ==
  ASSUME IInv, NEW k \in Calls, At(k) \in {"file", "gofile", "copy"},
         run[k].i \in DOMAIN Batches[run[k].b],
         Failed(k), faults' \in Nat,
         UNCHANGED <<drive, archive, seen, running, statePaused, isPaused, checkpoint,
                     outcomes, doubled, raced, unseen, late, hazards>>
  PROVE  IInv'
<1>0. At(k) \in Active \ {"first", "seed"}
  BY DEF Active
<1>1. PICK r \in Engine :
        r = run[k] /\ r.at = At(k) /\ Place(r) /\ SeededRun(k, r) /\ WholeRun(r)
  BY <1>0, EngineOf
<1>e. PICK e : e = FileFailed(r)
  OBVIOUS
<1>2. e \in Engine /\ Passed(e, r) /\ e.errors > 0
  BY <1>e, GoesOnFailed
<1>3. run' = [run EXCEPT ![k] = e]
  BY <1>1, <1>e DEF Failed, FileFailed
<1>4. Keeps
  BY KeepsSame
<1>5. TypeOK'
  BY <1>2, <1>3 DEF IInv, TypeOK
<1>6. WholeRun(e)'
  BY <1>2 DEF WholeRun
<1>7. e.at \in Active \ {"first", "seed"} /\ Place(e)' /\ SameRun(e, r)
  BY <1>1, <1>2 DEF Active, Place, Passed
<1>8. QED
  BY <1>0, <1>1, <1>2, <1>3, <1>4, <1>5, <1>6, <1>7, WithinBatch

LEMMA CopyBegins ==
  ASSUME IInv, NEW k \in Calls, At(k) \in {"file", "gofile"},
         run[k].i \in DOMAIN Batches[run[k].b],
         NEW n \in Names, n[1] = Current(k), Copying(k, n), faults' \in Nat,
         unseen' = unseen \union {m \in {n} : archive[m] # None},
         UNCHANGED <<drive, archive, seen, running, statePaused, isPaused, checkpoint,
                     outcomes, doubled, raced, late, hazards>>
  PROVE  IInv'
<1>0. At(k) \in Active \ {"first", "seed"}
  BY DEF Active
<1>1. PICK r \in Engine :
        r = run[k] /\ r.at = At(k) /\ Place(r) /\ SeededRun(k, r) /\ WholeRun(r)
  BY <1>0, EngineOf
<1>x. PICK x \in BOOLEAN : x = (archive[n] = None)
  OBVIOUS
<1>e. PICK e : e = AtCopy(r, n, x)
  OBVIOUS
<1>2. /\ e \in Engine /\ SameRun(e, r) /\ e.at = "copy" /\ e.done = r.done
      /\ e.b = r.b /\ e.i = r.i /\ e.to = n /\ e.free = x /\ e.errors = r.errors
  BY <1>e, GoesToCopy
<1>3. run' = [run EXCEPT ![k] = e]
  BY <1>1, <1>x, <1>e DEF Copying, AtCopy
<1>4. Keeps
  BY KeepsSame
<1>5. TypeOK'
  BY <1>2, <1>3 DEF IInv, TypeOK
<1>6. WholeRun(e)'
  BY <1>1, <1>2, <1>4, MovedWhole
<1>7. e.at \in Active \ {"first", "seed"} /\ Place(e)'
  BY <1>1, <1>x, <1>2 DEF Active, Place, Current
<1>8. QED
  BY <1>0, <1>1, <1>2, <1>3, <1>4, <1>5, <1>6, <1>7, WithinBatch

LEMMA ProbeStep ==
  ASSUME IInv, NEW k \in Calls, Probe(k)
  PROVE  IInv'
<1>0. /\ At(k) \in Active \ {"first", "seed"} /\ At(k) \in {"file", "gofile"}
      /\ run[k].i \in DOMAIN Batches[run[k].b]
  BY DEF Probe, Active
<1>u. UNCHANGED <<drive, archive, seen, running, statePaused, isPaused, checkpoint,
                  doubled, raced, late>>
  BY DEF Probe, flagVars
<1>1. PICK r \in Engine :
        r = run[k] /\ r.at = At(k) /\ Place(r) /\ SeededRun(k, r) /\ WholeRun(r)
  BY <1>0, EngineOf
<1>2. r.id \in Ids /\ r.update \in BOOLEAN
  BY DEF Engine
<1>3. PICK f \in Files : f = Current(k)
  BY <1>0, <1>1, FilesOfBatches DEF Place, Current
<1>4. 0 \in 0..MaxSuffix
  BY TransferConstants
<1>5. PICK own \in Names : own = <<f, 0>>
  BY <1>4 DEF Names
<1>6. CASE ToNext(k) /\ UNCHANGED <<outcomes, hazards, faults, unseen>> /\ r.update /\ f \notin r.list
  <2>1. Keeps
    BY <1>6, <1>u, KeepsSame
  <2>2. SeededIn(r.id, r.list)
    BY <1>0, <1>1, <1>6 DEF SeededRun
  <2>3. Excused(r.id) \/ Has(r.id, r.update, f)
    <3>1. Excused(r.id) \/ own \in outcomes[r.id]
      BY <1>3, <1>5, <1>6, <2>2 DEF SeededIn
    <3>2. own \in outcomes[r.id] => archive[own] # None
      BY <1>2 DEF IInv, Recorded
    <3>3. QED
      BY <1>3, <1>4, <1>5, <1>6, <3>1, <3>2 DEF Has
  <2>4. ASSUME NEW id \in Ids, NEW u \in BOOLEAN, id = run[k].id, u = run[k].update
        PROVE  Excused(id)' \/ Has(id, u, Current(k))
    <3>1. Excused(id) \/ Has(id, u, Current(k))
      BY <1>1, <1>3, <2>3, <2>4
    <3>2. Excused(id) => Excused(id)'
      BY <2>1, HasKept
    <3>3. QED
      BY <3>1, <3>2
  <2>5. archive' \in [Names -> Contents \union {Torn, None}] /\ raced' \subseteq Names
    BY <1>u DEF IInv, TypeOK
  <2>6. outcomes' = outcomes
    BY <1>6
  <2>7. QED
    BY <1>0, <1>6, <1>u, <2>1, <2>4, <2>5, <2>6, FilePassed
<1>7. CASE /\ Same(f, own) \/ (run[k].update /\ archive[own] # None)
           /\ ToNext(k) /\ Record(k, own) /\ UNCHANGED unseen
  <2>1. archive[own] # None
    BY <1>7 DEF Same
  <2>2. Keeps
    <3>1. hazards \subseteq hazards' /\ \A id \in Ids : outcomes[id] \subseteq outcomes'[id]
      BY <1>7, RecordMade DEF IInv
    <3>2. QED
      BY <1>7, <1>u, <3>1 DEF Keeps
  <2>3. ASSUME NEW id \in Ids, NEW u \in BOOLEAN, u = run[k].update, own \in outcomes'[id]
        PROVE  Has(id, u, f)'
    <3>1. IF u THEN archive[<<f, 0>>] # None ELSE Same(f, <<f, 0>>)
      BY <1>5, <1>7, <2>1, <2>3
    <3>2. (IF u THEN archive[<<f, 0>>] # None ELSE Same(f, <<f, 0>>))'
      BY <1>u, <3>1 DEF Same, Size
    <3>3. QED
      BY <1>5, <1>4, <2>3, <3>2 DEF Has
  <2>4. archive' \in [Names -> Contents \union {Torn, None}] /\ raced' \subseteq Names
    BY <1>u DEF IInv, TypeOK
  <2>5. archive'[own] # None
    BY <1>u, <2>1
  <2>6. ASSUME NEW id \in Ids, NEW u \in BOOLEAN, id = run[k].id, u = run[k].update,
               own \in outcomes'[id], NEW g \in Files, g = Current(k)
        PROVE  Has(id, u, g)'
    BY <1>3, <2>3, <2>6
  <2>7. QED
    BY <1>0, <1>7, <1>u, <2>2, <2>4, <2>5, <2>6, FilePassed
<1>8. ASSUME NEW n \in 0..MaxSuffix, Copying(k, <<f, n>>),
             FaultIf(archive[<<f, n>>] # None),
             unseen' = unseen \union {m \in {<<f, n>>} : archive[m] # None},
             UNCHANGED <<outcomes, hazards>>
      PROVE  IInv'
  <2>1. PICK m \in Names : m = <<f, n>>
    BY <1>3, <1>8 DEF Names
  <2>2. m[1] = Current(k) /\ Copying(k, m)
    BY <1>3, <1>8, <2>1
  <2>3. faults' \in Nat
    BY <1>8 DEF FaultIf, Fault, IInv, TypeOK
  <2>4. unseen' = unseen \union {x \in {m} : archive[x] # None}
    BY <1>8, <2>1
  <2>5. QED
    BY <1>0, <1>8, <1>u, <2>2, <2>3, <2>4, CopyBegins
<1>10. CASE Fault /\ Failed(k) /\ UNCHANGED <<outcomes, hazards, unseen>>
  <2>1. faults' \in Nat
    BY <1>10 DEF Fault, IInv, TypeOK
  <2>2. QED
    BY <1>0, <1>10, <1>u, <2>1, FileFails
<1>11. CASE Waits(k, "file", "waitfile") /\ UNCHANGED <<outcomes, hazards, faults, unseen>>
  <2>e. PICK e : e = [r EXCEPT !.at = "waitfile"]
    OBVIOUS
  <2>1. /\ e \in Engine /\ e.at = "waitfile" /\ SameRun(e, r)
        /\ e.done = r.done /\ e.b = r.b /\ e.i = r.i /\ e.errors = r.errors
    BY <2>e, GoesTo
  <2>2. run' = [run EXCEPT ![k] = e]
    BY <1>1, <1>11, <2>e DEF Waits, Go
  <2>3. Keeps
    BY <1>11, <1>u, KeepsSame
  <2>4. TypeOK'
    BY <1>11, <1>u, <2>1, <2>2 DEF IInv, TypeOK
  <2>5. WholeRun(e)'
    <3>1. {e.at, r.at} \subseteq {"file", "waitfile", "gofile", "copy"}
      BY <1>0, <1>1, <2>1
    <3>2. QED
      BY <1>1, <2>1, <2>3, <3>1, MovedWhole
  <2>6. e.at \in Active \ {"first", "seed"} /\ Place(e)'
    BY <1>0, <1>1, <2>1 DEF Active, Waiting, Place
  <2>7. QED
    BY <1>0, <1>1, <1>11, <1>u, <2>1, <2>2, <2>3, <2>4, <2>5, <2>6, WithinBatch
<1>12. QED
  BY <1>1, <1>3, <1>5, <1>6, <1>7, <1>8, <1>10, <1>11 DEF Probe

LEMMA RenameStep ==
  ASSUME IInv, NEW k \in Calls, Rename(k)
  PROVE  IInv'
<1>0. At(k) \in Active \ {"first", "seed"} /\ At(k) = "copy"
  BY DEF Rename, Active
<1>u. UNCHANGED <<drive, seen, running, statePaused, isPaused, checkpoint, doubled,
                  unseen, late>>
  BY DEF Rename, flagVars
<1>1. PICK r \in Engine :
        r = run[k] /\ r.at = At(k) /\ Place(r) /\ SeededRun(k, r) /\ WholeRun(r)
  BY <1>0, EngineOf
<1>2. /\ run[k].i \in DOMAIN Batches[run[k].b] /\ run[k].to \in Names
      /\ run[k].to[1] = Current(k)
  BY <1>0, <1>1 DEF Place, Current
<1>3. PICK f \in Files : f = Current(k) /\ drive[f] \in Contents
  BY <1>0, <1>1, FileAt DEF Place, IInv
<1>4. PICK to \in Names : to = run[k].to
  BY <1>2
<1>5. CASE /\ \E c \in {drive[Current(k)]} \union (IF Shared(k) THEN {Torn} ELSE {}) :
                archive' = [archive EXCEPT ![run[k].to] = c]
           /\ raced' = IF run[k].free /\ archive[run[k].to] # None
                       THEN raced \union {run[k].to} ELSE raced
           /\ ToNext(k) /\ Record(k, run[k].to)
  <2>1. PICK c \in Contents \union {Torn} :
          archive' = [archive EXCEPT ![to] = c] /\ (c = drive[f] \/ Shared(k))
    BY <1>3, <1>4, <1>5
  <2>2. c # None
    BY TransferConstants
  <2>3. /\ archive' \in [Names -> Contents \union {Torn, None}] /\ raced' \subseteq Names
        /\ archive'[to] = c /\ \A n \in Names : n # to => archive'[n] = archive[n]
    BY <1>4, <1>5, <2>1 DEF IInv, TypeOK
  <2>4. Record(k, to)
    BY <1>4, <1>5
  <2>5. /\ hazards \subseteq hazards'
        /\ \A id \in Ids : outcomes[id] \subseteq outcomes'[id]
    BY <2>4, RecordMade DEF IInv
  <2>6. doubled \/ ~Shared(k)
    BY <1>0 DEF IInv, OneEngine, Shared, Active
  <2>7. doubled \/ archive'[to] = drive[to[1]]
    BY <1>2, <1>3, <1>4, <2>1, <2>3, <2>6
  <2>8. Keeps
    BY <1>u, <2>2, <2>3, <2>5, <2>7 DEF Keeps
  <2>9. ASSUME NEW id \in Ids, NEW u \in BOOLEAN, id = run[k].id, u = run[k].update
        PROVE  \/ Excused(id)' \/ Has(id, u, Current(k))
               \/ /\ Record(k, to)
                  /\ to \in outcomes'[id] => \A g \in Files : g = Current(k) => Has(id, u, g)'
    <3>1. CASE doubled
      BY <1>u, <3>1 DEF Excused
    <3>2. CASE ~doubled /\ to \in outcomes'[id]
      <4>1. PICK n \in 0..MaxSuffix : to = <<f, n>>
        BY <1>2, <1>3, <1>4 DEF Names
      <4>2. archive'[<<f, n>>] = drive'[f] /\ drive'[f] # None
        BY <1>3, <1>u, <2>1, <2>3, <2>6, <3>2, <4>1, TransferConstants
      <4>3. (IF u THEN archive[<<f, n>>] # None ELSE Same(f, <<f, n>>))'
        BY <4>2 DEF Same, Size
      <4>4. Has(id, u, f)'
        BY <3>2, <4>1, <4>3 DEF Has
      <4>5. QED
        BY <1>3, <2>4, <4>4
    <3>3. CASE to \notin outcomes'[id]
      BY <2>4, <3>3
    <3>4. QED
      BY <3>1, <3>2, <3>3
  <2>10. ToNext(k) /\ At(k) \in {"file", "gofile", "copy"}
    BY <1>0, <1>5
  <2>11. Record(k, to) => archive'[to] # None
    BY <2>2, <2>3
  <2>12. QED
    BY <1>2, <1>u, <2>3, <2>4, <2>8, <2>9, <2>10, <2>11, FilePassed
<1>6. CASE /\ Fault \/ (doubled /\ UNCHANGED faults)
           /\ Failed(k)
           /\ UNCHANGED <<archive, raced, outcomes, hazards>>
  <2>1. faults' \in Nat
    BY <1>6 DEF Fault, IInv, TypeOK
  <2>2. At(k) \in {"file", "gofile", "copy"}
    BY <1>0
  <2>3. QED
    BY <1>2, <1>6, <1>u, <2>1, <2>2, FileFails
<1>7. QED
  BY <1>5, <1>6 DEF Rename

LEMMA EndBatchStep ==
  ASSUME IInv, NEW k \in Calls, EndBatch(k)
  PROVE  IInv'
<1>0. At(k) \in Active \ {"first", "seed"} /\ At(k) = "end"
  BY DEF EndBatch, Active
<1>u. UNCHANGED <<drive, archive, seen, running, statePaused, isPaused, outcomes, doubled,
                  raced, unseen, late, hazards>>
  BY DEF EndBatch, flagVars, histVars
<1>1. PICK r \in Engine :
        r = run[k] /\ r.at = At(k) /\ Place(r) /\ SeededRun(k, r) /\ WholeRun(r)
  BY <1>0, EngineOf
<1>2. r.b \in BatchNos
  BY <1>0, <1>1 DEF Place
<1>3. PICK d \in SUBSET BatchNos : d = r.done \union {r.b}
  BY <1>2 DEF Engine
<1>e. PICK e : e = AfterBatch(r, d)
  OBVIOUS
<1>4. /\ e \in Engine /\ SameRun(e, r) /\ e.at = "batch" /\ e.done = d
      /\ e.errors = r.errors
  BY <1>e, EndsBatch
<1>5. run' = [run EXCEPT ![k] = e] /\ WriteCheckpoint(k, FALSE, d)
  BY <1>1, <1>3, <1>e DEF EndBatch, AfterBatch
<1>6. Keeps
  BY <1>u, KeepsSame
<1>7. /\ checkpoint' \in Checkpoint \union {None} /\ faults' \in Nat
      /\ \/ checkpoint' = checkpoint
         \/ checkpoint' = [complete |-> FALSE, id |-> r.id, update |-> r.update,
                           list |-> r.list, done |-> d, errors |-> r.errors]
  BY <1>1, <1>5, CheckpointTyped DEF IInv
<1>8. TypeOK'
  BY <1>u, <1>4, <1>5, <1>7 DEF IInv, TypeOK
<1>9. r.errors = 0 => \A b \in d : HasAll(r, b)
  BY <1>0, <1>1, <1>3 DEF WholeRun
<1>10. WholeRun(e)'
  <2>1. r.errors = 0 => \A b \in d : HasAll(r, b)'
    BY <1>6, <1>9, HasAllKept
  <2>2. QED
    BY <1>4, <2>1 DEF WholeRun, HasAll, SameRun
<1>11. SeededRun(k, e)'
  BY <1>0, <1>1, <1>4, <1>6, MovedSeeded
<1>12. Recorded'
  BY <1>0, <1>4, <1>5, <1>6, <1>u, RecordedKept
<1>13. ASSUME checkpoint' # None
       PROVE  SeededCheckpoint(checkpoint)' /\ WholeCheckpoint(checkpoint)'
  <2>1. CASE checkpoint' = checkpoint
    BY <1>0, <1>5, <1>6, <1>13, <2>1, OtherSeedsOn, SameCheckpoint DEF IInv
  <2>2. CASE checkpoint' # checkpoint
    <3>1. PICK c \in Checkpoint : /\ c = checkpoint' /\ SameRun(c, r)
                                  /\ c.done = d /\ c.errors = r.errors
      BY <1>7, <1>13, <2>2 DEF SameRun
    <3>2. QED
      BY <1>0, <1>1, <1>6, <1>9, <3>1, NewCheckpoint
  <2>3. QED
    BY <2>1, <2>2
<1>14. e.at \in Active /\ Place(e)'
  BY <1>4 DEF Active, Place
<1>15. QED
  BY <1>0, <1>u, <1>4, <1>5, <1>6, <1>8, <1>10, <1>11, <1>12, <1>13, <1>14, EngineMoves

LEMMA FinishStep ==
  ASSUME IInv, NEW k \in Calls, Finish(k)
  PROVE  IInv'
<1>0. At(k) \in Active \ {"first", "seed"} /\ At(k) \in {"batch", "gobatch"}
  BY DEF Finish, Passes, Active
<1>u. UNCHANGED <<drive, archive, seen, isPaused, outcomes, doubled, raced, unseen, late,
                  hazards>>
  BY DEF Finish, histVars
<1>1. PICK r \in Engine :
        r = run[k] /\ r.at = At(k) /\ Place(r) /\ SeededRun(k, r) /\ WholeRun(r)
  BY <1>0, EngineOf
<1>2. PICK e \in Engine : e = Gone(k, "done") /\ e.at = "done"
  BY GoneTyped DEF IInv
<1>3. /\ run' = [run EXCEPT ![k] = e] /\ WriteCheckpoint(k, TRUE, r.done)
      /\ running' = FALSE /\ statePaused' = FALSE
  BY <1>1, <1>2 DEF Finish
<1>4. r.done \in SUBSET BatchNos
  BY DEF Engine
<1>5. Keeps
  BY <1>u, KeepsSame
<1>6. /\ checkpoint' \in Checkpoint \union {None} /\ faults' \in Nat
      /\ \/ checkpoint' = checkpoint
         \/ checkpoint' = [complete |-> TRUE, id |-> r.id, update |-> r.update,
                           list |-> r.list, done |-> r.done, errors |-> r.errors]
  BY <1>1, <1>3, <1>4, CheckpointTyped DEF IInv
<1>7. TypeOK'
  BY <1>u, <1>3, <1>6 DEF IInv, TypeOK
<1>8. Recorded'
  BY <1>0, <1>2, <1>3, <1>5, <1>u, RecordedKept
<1>9. ASSUME checkpoint' # None
      PROVE  SeededCheckpoint(checkpoint)' /\ WholeCheckpoint(checkpoint)'
  <2>1. CASE checkpoint' = checkpoint
    BY <1>0, <1>3, <1>5, <1>9, <2>1, OtherSeedsOn, SameCheckpoint DEF IInv
  <2>2. CASE checkpoint' # checkpoint
    <3>1. PICK c \in Checkpoint : /\ c = checkpoint' /\ SameRun(c, r)
                                  /\ c.done = r.done /\ c.errors = r.errors
      BY <1>6, <1>9, <2>2 DEF SameRun
    <3>2. c.errors = 0 => \A b \in c.done : HasAll(r, b)
      BY <1>1, <3>1 DEF WholeRun
    <3>3. QED
      BY <1>0, <1>1, <1>5, <3>1, <3>2, NewCheckpoint
  <2>3. QED
    BY <2>1, <2>2
<1>10. Place(e)'
  BY <1>2 DEF Place
<1>11. QED
  BY <1>0, <1>u, <1>2, <1>3, <1>5, <1>7, <1>8, <1>9, <1>10, EngineMoves

-----------------------------------------------------------------------------
(* The calls                                                               *)

\* A step that leaves the running engines alone, or ends them.
LEMMA EnginesStay ==
  ASSUME IInv, TypeOK', Keeps, SeedsOn, Fresh', Recorded',
         checkpoint' = checkpoint \/ checkpoint' = None,
         \A j \in Calls : At(j)' \in Active => At(j) \in Active /\ run'[j] = run[j],
         running' = running \/ \A j \in Calls : At(j)' \notin Active
  PROVE  IInv'
<1>1. ASSUME NEW j \in Calls, At(j)' \in Active
      PROVE  SeededRun(j, run[j])' /\ WholeRun(run[j])' /\ Place(run[j])'
  <2>1. At(j) \in Active /\ run'[j] = run[j]
    BY <1>1
  <2>2. PICK r \in Engine :
          r = run[j] /\ r.at = At(j) /\ Place(r) /\ SeededRun(j, r) /\ WholeRun(r)
    BY <2>1, EngineOf
  <2>3. SeededRun(j, r)' /\ WholeRun(r)' /\ Place(r)'
    BY <2>1, <2>2, RunKept
  <2>4. r = run'[j]
    BY <2>1, <2>2
  <2>5. QED
    BY <2>2, <2>3, <2>4
<1>2. AtFile'
  <2>1. ASSUME NEW j \in Calls
        PROVE  Place(run[j])'
    <3>1. CASE At(j)' \in Active
      BY <1>1, <3>1
    <3>2. CASE At(j)' \notin Active
      BY <3>2 DEF At, Active, Waiting, Place
    <3>3. QED
      BY <3>1, <3>2
  <2>2. QED
    BY <2>1 DEF AtFile
<1>3. OneEngine'
  <2>1. doubled => doubled'
    BY DEF Keeps
  <2>2. QED
    BY <2>1 DEF IInv, OneEngine
<1>4. ASSUME checkpoint' # None
      PROVE  SeededCheckpoint(checkpoint)' /\ WholeCheckpoint(checkpoint)'
  BY <1>4, SameCheckpoint
<1>5. QED
  BY <1>1, <1>2, <1>3, <1>4 DEF IInv, Seeded, Whole

Resting(k, m, s) == [Rest(k, m) EXCEPT !.at = s]

LEMMA FreshMoves ==
  ASSUME NEW k \in Calls, NEW m \in {"plain", "update", "resume"},
         NEW s \in {"idle", "scanned", "called"}, NEW t \in {"scanned", "called"}
  PROVE  /\ [Resting(k, m, s) EXCEPT !.at = t] = Resting(k, m, t)
         /\ Resting(k, m, t).mode = m
BY DEF Rest, Resting

\* A call that moves to s before it runs, or is refused.
LEMMA CallMoves ==
  ASSUME IInv, TypeOK', NEW k \in Calls, At(k) \in {"idle", "scanned", "called"},
         NEW s \in {"scanned", "called", "refused"}, Go(k, s),
         \A j \in Calls \ {k} : seen'[j] = seen[j],
         \A f \in Files : f \in SeenAs(k, {"same-size", "changed-size"})' =>
           f \in SeenAs(k, {"same-size", "changed-size"}) \/ archive[<<f, 0>>] # None,
         UNCHANGED <<drive, archive, running, checkpoint, outcomes, doubled, unseen, late,
                     hazards>>
  PROVE  IInv'
<1>1. \A j \in Calls \ {k} : run'[j] = run[j] /\ At(j)' = At(j)
  BY DEF Go, IInv, TypeOK, At
<1>2. run'[k] = [run[k] EXCEPT !.at = s] /\ At(k)' = s
  BY DEF Go, IInv, TypeOK, At, Engine
<1>3. Keeps
  <2>1. k \in Calls /\ At(k) \notin Active
    BY DEF Active, Waiting
  <2>2. \A j \in Calls : At(j) \in Active => seen'[j] = seen[j]
    BY <2>1
  <2>3. QED
    BY <2>2, KeepsSame
<1>4. SeedsOn
  BY <1>1 DEF SeedsOn
<1>5. Fresh'
  <2>1. ASSUME NEW j \in Calls \ {k}, At(j)' \in {"idle", "scanned", "called"}
        PROVE  (run[j] = Gone(j, At(j)))'
    BY <1>1, <2>1 DEF IInv, Fresh, Gone
  <2>2. CASE s = "refused"
    BY <1>2, <2>1, <2>2 DEF Fresh
  <2>3. CASE s \in {"scanned", "called"}
    <3>1. PICK m \in {"plain", "update", "resume"} : m = run[k].mode
      BY DEF IInv, TypeOK, Engine
    <3>2. run[k] = Resting(k, m, At(k))
      BY <3>1 DEF IInv, Fresh, Gone, Resting
    <3>3. run'[k] = Resting(k, m, s)
      BY <1>2, <2>3, <3>2, FreshMoves
    <3>4. run'[k].mode = m
      BY <2>3, <3>3, FreshMoves
    <3>5. (run[k] = Gone(k, At(k)))'
      BY <1>2, <3>3, <3>4 DEF Gone, Resting
    <3>6. QED
      BY <2>1, <3>5 DEF Fresh
  <2>4. QED
    BY <2>2, <2>3
<1>6. \A j \in Calls : At(j)' \in Active => At(j) \in Active /\ run'[j] = run[j]
  BY <1>1, <1>2 DEF Active, Waiting
<1>7. Recorded'
  <2>1. ASSUME NEW j \in Calls, NEW f \in SeenAs(j, {"same-size", "changed-size"})'
        PROVE  archive'[<<f, 0>>] # None
    <3>1. f \in Files
      BY <2>1 DEF SeenAs
    <3>2. CASE j = k
      BY <2>1, <3>1, <3>2 DEF IInv, Recorded
    <3>3. CASE j # k
      BY <2>1, <3>1, <3>3 DEF IInv, Recorded, SeenAs
    <3>4. QED
      BY <3>2, <3>3
  <2>2. QED
    BY <2>1 DEF IInv, Recorded
<1>8. QED
  BY <1>3, <1>4, <1>5, <1>6, <1>7, EnginesStay

\* A call that becomes an engine; those that wait for a pause to end are lost.
LEMMA ClaimMade ==
  ASSUME IInv, TypeOK', NEW k \in Calls, At(k) = "called", NEW e \in Engine, Claim(k, e),
         e.at \in {"first", "batch"}, SeededRun(k, e)', WholeRun(e)',
         UNCHANGED <<drive, archive, seen, checkpoint, outcomes, unseen, late>>,
         hazards \subseteq hazards'
  PROVE  IInv'
<1>1. doubled' = (doubled \/ \E j \in Calls : At(j) \in Active) /\ running' = TRUE
  BY DEF Claim
<1>2. Keeps
  BY <1>1, KeepsSame
<1>3. run'[k] = e /\ At(k)' = e.at
  BY DEF Claim, IInv, TypeOK, At
<1>4. \A j \in Calls \ {k} : IF At(j) \in Waiting THEN run'[j] = Gone(j, "hung") /\ At(j)' = "hung"
                              ELSE run'[j] = run[j] /\ At(j)' = At(j)
  BY GoneTyped DEF Claim, IInv, TypeOK, At
<1>5. Fresh'
  BY <1>3, <1>4 DEF IInv, Fresh, Gone
<1>6. ASSUME NEW j \in Calls, At(j)' \in Active
      PROVE  SeededRun(j, run[j])' /\ WholeRun(run[j])' /\ Place(run[j])'
  <2>1. CASE j = k
    <3>1. Place(e)'
      BY DEF Place
    <3>2. QED
      BY <1>3, <2>1, <3>1
  <2>2. CASE j # k
    <3>1. At(j) \in Active /\ run'[j] = run[j]
      BY <1>4, <1>6, <2>2 DEF Active, Waiting
    <3>2. PICK r \in Engine :
            r = run[j] /\ r.at = At(j) /\ Place(r) /\ SeededRun(j, r) /\ WholeRun(r)
      BY <3>1, EngineOf
    <3>3. SeededRun(j, r)' /\ WholeRun(r)' /\ Place(r)'
      BY <1>2, <3>1, <3>2, RunKept
    <3>4. r = run'[j]
      BY <3>1, <3>2
    <3>5. QED
      BY <3>2, <3>3, <3>4
  <2>3. QED
    BY <2>1, <2>2
<1>7. AtFile'
  <2>1. ASSUME NEW j \in Calls
        PROVE  Place(run[j])'
    <3>1. CASE At(j)' \in Active
      BY <1>6, <3>1
    <3>2. CASE At(j)' \notin Active
      BY <3>2 DEF At, Active, Waiting, Place
    <3>3. QED
      BY <3>1, <3>2
  <2>2. QED
    BY <2>1 DEF AtFile
<1>8. OneEngine'
  <2>1. CASE \E j \in Calls : At(j) \in Active
    BY <1>1, <2>1 DEF OneEngine
  <2>2. CASE \A j \in Calls : At(j) \notin Active
    <3>1. \A j \in Calls \ {k} : At(j)' \notin Active
      BY <1>4, <2>2 DEF Active, Waiting
    <3>2. QED
      BY <1>1, <3>1 DEF OneEngine
  <2>3. QED
    BY <2>1, <2>2
<1>9. Recorded'
  BY <1>2, RecordedKept
<1>10. SeedsOn
  BY <1>4 DEF SeedsOn, Waiting
<1>11. ASSUME checkpoint' # None
       PROVE  SeededCheckpoint(checkpoint)' /\ WholeCheckpoint(checkpoint)'
  BY <1>2, <1>10, <1>11, SameCheckpoint
<1>12. QED
  BY <1>5, <1>6, <1>7, <1>8, <1>9, <1>11 DEF IInv, Seeded, Whole

LEMMA CalledIs ==
  ASSUME IInv, NEW k \in Calls, At(k) = "called"
  PROVE  /\ run[k] \in Engine /\ run[k].done = {} /\ run[k].errors = 0
         /\ run[k].id = k /\ run[k].update = (run[k].mode = "update")
<1>1. run[k] = Gone(k, "called")
  BY DEF IInv, Fresh
<1>2. run[k] \in Engine /\ run[k].done = {} /\ run[k].errors = 0 /\ run[k].id = k
  BY <1>1, GoneTyped DEF IInv
<1>3. PICK m \in {"plain", "update", "resume"} : m = run[k].mode
  BY <1>2 DEF Engine
<1>4. Resting(k, m, "called").update = (m = "update")
  BY DEF Resting, Rest
<1>5. QED
  BY <1>1, <1>2, <1>3, <1>4 DEF Gone, Resting

LEMMA RunImportStep ==
  ASSUME IInv, NEW k \in Calls, RunImport(k)
  PROVE  IInv'
<1>1. TypeOK' /\ At(k) = "called"
  BY CallsTyped DEF IInv, RunImport
<1>u. UNCHANGED <<drive, archive, seen, checkpoint, outcomes, raced, unseen, late>>
  BY DEF RunImport
<1>2. CASE Go(k, "refused") /\ UNCHANGED <<flagVars, doubled, hazards>>
  <2>1. \A s : SeenAs(k, s)' = SeenAs(k, s)
    BY <1>u DEF SeenAs
  <2>2. QED
    BY <1>1, <1>2, <1>u, <2>1, CallMoves DEF flagVars
<1>3. ASSUME NEW list \in SUBSET Files, Claim(k, Begun(run[k], list)),
             hazards \subseteq hazards',
             run[k].mode = "update" =>
               \/ Excused(k)'
               \/ Files \ list \subseteq SeenAs(k, {"same-size", "changed-size"})
      PROVE  IInv'
  <2>1. PICK r \in Engine : /\ r = run[k] /\ r.done = {} /\ r.id = k
                            /\ r.update = (r.mode = "update")
    BY <1>1, CalledIs
  <2>2. PICK e : e = Begun(r, list)
    OBVIOUS
  <2>3. /\ e \in Engine /\ e.at = "first" /\ e.id = k /\ e.update = r.update
        /\ e.list = list /\ e.done = {}
    BY <2>1, <2>2, BegunIs
  <2>4. SeededRun(k, e)'
    BY <1>3, <1>u, <2>1, <2>3 DEF SeededRun, ToSeed, SeenAs
  <2>5. WholeRun(e)'
    BY <2>3 DEF WholeRun
  <2>6. QED
    BY <1>1, <1>3, <1>u, <2>1, <2>2, <2>3, <2>4, <2>5, ClaimMade
<1>4. CASE run[k].mode = "plain" /\ Claim(k, [run[k] EXCEPT !.at = "first"])
           /\ UNCHANGED hazards
  <2>1. PICK list \in SUBSET Files : list = run[k].list
    BY <1>1, CalledIs DEF Engine
  <2>2. Begun(run[k], list) = [run[k] EXCEPT !.at = "first"]
    BY <1>1, <2>1, CalledIs DEF Engine, Begun
  <2>3. QED
    BY <1>3, <1>4, <2>1, <2>2
<1>5. ASSUME NEW lost \in SUBSET Files, NEW blind \in SUBSET Files,
             Inventory(lost, blind) = seen[k],
             Claim(k, Begun(run[k], SeenAs(k, {"missing"}))),
             hazards' = IF lost = {} THEN hazards ELSE hazards \union {<<k, "unread">>}
      PROVE  IInv'
  <2>1. PICK list \in SUBSET Files : list = SeenAs(k, {"missing"})
    BY DEF SeenAs
  <2>2. CASE lost = {}
    <3>1. \A f \in Files : seen[k][f].state \in {"missing", "same-size", "changed-size"}
      <4>1. \A f \in Files : f \notin lost
        BY <2>2
      <4>2. \A f \in Files : Inventory(lost, blind)[f].state \in
                             {"missing", "same-size", "changed-size"}
        BY <4>1, InventorySays
      <4>3. QED
        BY <1>5, <4>2
    <3>2. Files \ list \subseteq SeenAs(k, {"same-size", "changed-size"})
      BY <2>1, <3>1 DEF SeenAs
    <3>3. QED
      BY <1>3, <1>5, <2>1, <2>2, <3>2
  <2>3. CASE lost # {}
    <3>1. Excused(k)'
      BY <1>5, <2>3 DEF Excused, Kinds
    <3>2. QED
      BY <1>3, <1>5, <2>1, <2>3, <3>1
  <2>4. QED
    BY <2>2, <2>3
<1>6. QED
  BY <1>2, <1>4, <1>5 DEF RunImport, Begun

LEMMA ResumeImportFromCheckpointStep ==
  ASSUME IInv, NEW k \in Calls, ResumeImportFromCheckpoint(k)
  PROVE  IInv'
<1>1. TypeOK' /\ At(k) = "called"
  BY CallsTyped DEF IInv, ResumeImportFromCheckpoint
<1>u. UNCHANGED <<drive, archive, seen, checkpoint, outcomes, faults, raced, unseen, late>>
  BY DEF ResumeImportFromCheckpoint
<1>2. CASE Go(k, "refused") /\ UNCHANGED <<flagVars, doubled, hazards>>
  <2>1. \A s : SeenAs(k, s)' = SeenAs(k, s)
    BY <1>u DEF SeenAs
  <2>2. QED
    BY <1>1, <1>2, <1>u, <2>1, CallMoves DEF flagVars
<1>3. ASSUME checkpoint # None, NEW s \in {"batch", "first"},
             s = IF checkpoint.update THEN "batch" ELSE "first",
             Claim(k, Resumed(run[k], checkpoint, s)),
             hazards' = IF checkpoint.errors > 0
                        THEN hazards \union {<<checkpoint.id, "forgotten">>} ELSE hazards
      PROVE  IInv'
  <2>1. PICK c \in Checkpoint : c = checkpoint
    BY <1>3 DEF IInv, TypeOK
  <2>2. PICK r \in Engine : r = run[k]
    BY <1>1, CalledIs
  <2>3. PICK e : e = Resumed(r, c, s)
    OBVIOUS
  <2>4. /\ e \in Engine /\ e.at = s /\ e.id = c.id /\ e.update = c.update
        /\ e.list = c.list /\ e.done = c.done
    BY <1>3, <2>3, ResumedIs
  <2>5. /\ c.id \in Ids /\ c.errors \in Nat /\ c.done \in SUBSET BatchNos
        /\ c.list \in SUBSET Files
    BY DEF Checkpoint
  <2>6. SeededCheckpoint(c) /\ WholeCheckpoint(c)
    BY <1>3, <2>1 DEF IInv, Seeded, Whole
  <2>7. /\ doubled' = (doubled \/ \E j \in Calls : At(j) \in Active)
        /\ hazards \subseteq hazards'
    BY <1>3 DEF Claim
  <2>8. Keeps
    BY <1>u, <2>7, KeepsSame
  <2>9. SeededRun(k, e)'
    <3>1. ASSUME c.update
          PROVE  SeededIn(c.id, c.list)'
      <4>1. CASE SeededIn(c.id, c.list)
        BY <2>5, <2>8, <4>1, SeededKept
      <4>2. ASSUME NEW j \in Calls, At(j) = "seed"
            PROVE  SeededIn(c.id, c.list)'
        <5>1. doubled'
          BY <2>7, <4>2 DEF Active
        <5>2. QED
          BY <5>1 DEF SeededIn, Excused
      <4>3. QED
        BY <2>6, <3>1, <4>1, <4>2 DEF SeededCheckpoint
    <3>2. QED
      BY <1>3, <2>1, <2>4, <3>1 DEF SeededRun
  <2>10. WholeRun(e)'
    <3>1. CASE c.errors = 0
      <4>1. \A b \in c.done : HasAll(c, b)'
        BY <2>5, <2>6, <2>8, <3>1, HasAllKept DEF WholeCheckpoint
      <4>2. \A b \in e.done : HasAll(e, b)'
        BY <2>4, <4>1 DEF HasAll
      <4>3. QED
        BY <1>3, <2>4, <4>2 DEF WholeRun
    <3>2. CASE c.errors # 0
      <4>1. Excused(e.id)'
        BY <1>3, <2>1, <2>4, <2>5, <3>2 DEF Excused, Kinds
      <4>2. QED
        BY <1>3, <2>4, <4>1 DEF WholeRun, HasAll
    <3>3. QED
      BY <3>1, <3>2
  <2>11. QED
    BY <1>1, <1>3, <1>u, <2>1, <2>2, <2>3, <2>4, <2>7, <2>9, <2>10, ClaimMade
<1>4. CASE ~(checkpoint = None \/ (checkpoint # None /\ checkpoint.complete))
  <2>1. PICK s \in {"batch", "first"} : s = IF checkpoint.update THEN "batch" ELSE "first"
    OBVIOUS
  <2>2. Claim(k, Resumed(run[k], checkpoint, s))
    BY <1>4, <2>1 DEF ResumeImportFromCheckpoint, Resumed
  <2>3. hazards' = IF checkpoint.errors > 0
                   THEN hazards \union {<<checkpoint.id, "forgotten">>} ELSE hazards
    BY <1>4 DEF ResumeImportFromCheckpoint
  <2>4. QED
    BY <1>3, <1>4, <2>1, <2>2, <2>3
<1>5. QED
  BY <1>2, <1>4 DEF ResumeImportFromCheckpoint

LEMMA ScanStep ==
  ASSUME IInv, NEW k \in Calls, Scan(k)
  PROVE  IInv'
<1>1. TypeOK'
  BY CallsTyped DEF IInv
<1>2. PICK lost \in SUBSET Files, blind \in SUBSET Files :
        seen' = [seen EXCEPT ![k] = Inventory(lost, blind)]
  BY DEF Scan
<1>3. \A j \in Calls : seen'[j] = IF j = k THEN Inventory(lost, blind) ELSE seen[j]
  BY <1>2 DEF IInv, TypeOK
<1>4. ASSUME NEW f \in Files, f \in SeenAs(k, {"same-size", "changed-size"})'
      PROVE  archive[<<f, 0>>] # None
  BY <1>3, <1>4, InventorySays DEF SeenAs
<1>5. QED
  BY <1>1, <1>3, <1>4, CallMoves DEF Scan, flagVars, histVars

LEMMA CallStep ==
  ASSUME IInv, NEW k \in Calls, Call(k)
  PROVE  IInv'
<1>1. TypeOK' /\ At(k) \in {"idle", "scanned", "called"}
  BY CallsTyped DEF IInv, Call
<1>2. \A s : SeenAs(k, s)' = SeenAs(k, s)
  BY DEF Call, SeenAs
<1>3. QED
  BY <1>1, <1>2, CallMoves DEF Call, flagVars, histVars

-----------------------------------------------------------------------------
(* The operator and the world                                              *)

LEMMA ResumeImportStep ==
  ASSUME IInv, ResumeImport
  PROVE  IInv'
<1>u. UNCHANGED <<drive, archive, seen, running, checkpoint, outcomes, faults, doubled,
                  raced, unseen, late, hazards>> /\ statePaused' = FALSE /\ isPaused' = FALSE
  BY DEF ResumeImport, histVars
<1>1. Keeps
  BY <1>u, KeepsSame
<1>2. ASSUME NEW j \in Calls
      PROVE  \/ run'[j] = run[j] /\ At(j)' = At(j)
             \/ \E r, e \in Engine :
                  /\ r = run[j] /\ e = run'[j] /\ SameRun(e, r)
                  /\ e.done = r.done /\ e.b = r.b /\ e.i = r.i /\ e.errors = r.errors
                  /\ <<r.at, e.at>> \in {<<"waitbatch", "gobatch">>, <<"waitfile", "gofile">>}
  <2>1. PICK r \in Engine : r = run[j] /\ r.at = At(j)
    BY DEF IInv, TypeOK, At
  <2>2. CASE At(j) = "waitbatch"
    <3>1. PICK e : e = [r EXCEPT !.at = "gobatch"]
      OBVIOUS
    <3>2. /\ e \in Engine /\ e.at = "gobatch" /\ SameRun(e, r)
          /\ e.done = r.done /\ e.b = r.b /\ e.i = r.i /\ e.errors = r.errors
      BY <3>1, GoesTo
    <3>3. e = run'[j]
      BY <2>1, <2>2, <3>1 DEF ResumeImport
    <3>4. QED
      BY <2>1, <2>2, <3>2, <3>3
  <2>3. CASE At(j) = "waitfile"
    <3>1. PICK e : e = [r EXCEPT !.at = "gofile"]
      OBVIOUS
    <3>2. /\ e \in Engine /\ e.at = "gofile" /\ SameRun(e, r)
          /\ e.done = r.done /\ e.b = r.b /\ e.i = r.i /\ e.errors = r.errors
      BY <3>1, GoesTo
    <3>3. e = run'[j]
      BY <2>1, <2>3, <3>1 DEF ResumeImport
    <3>4. QED
      BY <2>1, <2>3, <3>2, <3>3
  <2>4. CASE At(j) \notin {"waitbatch", "waitfile"}
    BY <2>4 DEF ResumeImport, At
  <2>5. QED
    BY <2>2, <2>3, <2>4
<1>3. \A j \in Calls : \/ run'[j] = run[j] /\ At(j)' = At(j)
                      \/ /\ At(j) \in {"waitbatch", "waitfile"}
                         /\ At(j)' \in {"gobatch", "gofile"}
                         /\ run'[j] \in Engine
  BY <1>2 DEF At
<1>4. TypeOK'
  <2>1. run' \in [Calls -> Engine]
    <3>1. \A j \in Calls : run'[j] \in Engine
      BY <1>3 DEF IInv, TypeOK
    <3>2. QED
      BY <3>1 DEF ResumeImport
  <2>2. QED
    BY <1>u, <2>1 DEF IInv, TypeOK
<1>5. Fresh'
  BY <1>3 DEF IInv, Fresh, Gone
<1>6. OneEngine' /\ Recorded'
  BY <1>u, <1>1, <1>3, RecordedKept DEF IInv, OneEngine, Active, Waiting
<1>7. ASSUME NEW j \in Calls
      PROVE  /\ Place(run[j])'
             /\ At(j)' \in Active => SeededRun(j, run[j])' /\ WholeRun(run[j])'
  <2>1. CASE run'[j] = run[j] /\ At(j)' = At(j)
    <3>1. PICK r \in Engine : r = run[j] /\ r = run'[j]
      BY <2>1 DEF IInv, TypeOK
    <3>2. Place(r) /\ (At(j) \in Active => SeededRun(j, r) /\ WholeRun(r))
      BY <3>1 DEF IInv, AtFile, Seeded, Whole
    <3>3. Place(r)' /\ (At(j) \in Active => SeededRun(j, r)' /\ WholeRun(r)')
      BY <1>1, <3>2, RunKept
    <3>4. QED
      BY <2>1, <3>1, <3>2, <3>3
  <2>2. ASSUME NEW r \in Engine, NEW e \in Engine,
               r = run[j], e = run'[j], SameRun(e, r),
               e.done = r.done, e.b = r.b, e.i = r.i, e.errors = r.errors,
               <<r.at, e.at>> \in {<<"waitbatch", "gobatch">>, <<"waitfile", "gofile">>}
        PROVE  /\ Place(run[j])'
               /\ At(j)' \in Active => SeededRun(j, run[j])' /\ WholeRun(run[j])'
    <3>1. At(j) \in Active
      BY <2>2 DEF At, Active, Waiting
    <3>2. Place(r) /\ SeededRun(j, r) /\ WholeRun(r)
      BY <2>2, <3>1 DEF IInv, AtFile, Seeded, Whole
    <3>3. WholeRun(e)'
      <4>1. \/ e.at = "gobatch"
            \/ {e.at, r.at} \subseteq {"file", "waitfile", "gofile", "copy"}
        BY <2>2
      <4>2. QED
        BY <1>1, <2>2, <3>2, <4>1, MovedWhole
    <3>4. SeededRun(j, e)'
      BY <1>1, <2>2, <3>1, <3>2, MovedSeeded
    <3>5. Place(e)'
      BY <2>2, <3>2 DEF Place
    <3>6. QED
      BY <2>2, <3>3, <3>4, <3>5
  <2>3. QED
    BY <1>2, <2>1, <2>2
<1>8. SeedsOn
  BY <1>3 DEF SeedsOn
<1>9. ASSUME checkpoint' # None
      PROVE  SeededCheckpoint(checkpoint)' /\ WholeCheckpoint(checkpoint)'
  BY <1>u, <1>1, <1>8, <1>9, SameCheckpoint
<1>10. QED
  BY <1>4, <1>5, <1>6, <1>7, <1>9 DEF IInv, AtFile, Seeded, Whole

LEMMA PauseImportStep ==
  ASSUME IInv, PauseImport \/ ClearImportCheckpoint
  PROVE  IInv'
<1>1. /\ UNCHANGED <<drive, archive, seen, run, running, outcomes, faults, doubled, raced,
                     unseen, late, hazards>>
      /\ checkpoint' = checkpoint \/ checkpoint' = None
  BY DEF PauseImport, ClearImportCheckpoint, flagVars, histVars
<1>2. TypeOK'
  BY <1>1 DEF PauseImport, ClearImportCheckpoint, flagVars, IInv, TypeOK
<1>3. Keeps
  BY <1>1, KeepsSame
<1>4. Fresh' /\ SeedsOn
  BY <1>1 DEF IInv, Fresh, Gone, At, SeedsOn
<1>5. \A j \in Calls : At(j)' = At(j) /\ run'[j] = run[j]
  BY <1>1 DEF At
<1>6. Recorded'
  BY <1>1, <1>3, RecordedKept
<1>7. QED
  BY <1>1, <1>2, <1>3, <1>4, <1>5, <1>6, EnginesStay

LEMMA OtherWritesStep ==
  ASSUME IInv, NEW f \in Files, OtherWrites(f)
  PROVE  IInv'
<1>1. UNCHANGED <<drive, seen, run, running, statePaused, isPaused, checkpoint, outcomes,
                  faults, doubled, raced, unseen, late, hazards>>
  BY DEF OtherWrites, flagVars, histVars
<1>2. <<f, 0>> \in Names
  BY TransferConstants DEF Names
<1>3. /\ archive' = [archive EXCEPT ![<<f, 0>>] = OtherOf[f]] /\ archive[<<f, 0>>] = None
      /\ OtherOf[f] # None /\ OtherOf[f] \in Contents
  BY TransferConstants DEF OtherWrites
<1>4. archive' \in [Names -> Contents \union {Torn, None}]
  BY <1>2, <1>3 DEF IInv, TypeOK
<1>5. TypeOK'
  BY <1>1, <1>4 DEF IInv, TypeOK
<1>6. \A n \in Names : archive'[n] = archive[n] \/ (archive[n] = None /\ archive'[n] # None)
  <2>1. PICK own \in Names : own = <<f, 0>>
    BY <1>2
  <2>2. archive' = [archive EXCEPT ![own] = OtherOf[f]] /\ archive[own] = None
    BY <1>3, <2>1
  <2>3. archive'[own] = OtherOf[f] /\ \A n \in Names : n # own => archive'[n] = archive[n]
    BY <2>2 DEF IInv, TypeOK
  <2>4. archive'[own] # None /\ archive[own] = None
    BY <1>3, <2>2, <2>3
  <2>5. QED
    BY <2>3, <2>4
<1>7. \A id \in Ids, n \in Names : n \in outcomes[id] => archive'[n] = archive[n]
  BY <1>6 DEF IInv, Recorded
<1>8. Keeps
  BY <1>1, <1>6, <1>7 DEF Keeps
<1>9. Fresh' /\ SeedsOn
  BY <1>1 DEF IInv, Fresh, Gone, At, SeedsOn
<1>10. \A j \in Calls : At(j)' = At(j) /\ run'[j] = run[j]
  BY <1>1 DEF At
<1>11. Recorded'
  BY <1>1, <1>8, RecordedKept
<1>12. QED
  BY <1>1, <1>5, <1>8, <1>9, <1>10, <1>11, EnginesStay

LEMMA CrashStep ==
  ASSUME IInv, Crash
  PROVE  IInv'
<1>1. /\ UNCHANGED <<drive, archive, seen, checkpoint, outcomes, doubled, raced, unseen,
                    late>>
      /\ running' = FALSE /\ statePaused' = FALSE /\ isPaused' = FALSE /\ Fault
  BY DEF Crash
<1> DEFINE Lost == {<<run[k].id, "unrecorded">> :
                      k \in {k \in Calls : At(k) \in {"first", "seed"} /\ run[k].update}}
<1>2. hazards' = hazards \union Lost
  BY DEF Crash
<1>3. \A k \in Calls : run[k].id \in Ids
  BY DEF IInv, TypeOK, Engine
<1>4. \A j \in Calls : IF At(j) \in Active \union {"called", "hung"}
                      THEN run'[j] = Gone(j, "dead") /\ At(j)' = "dead"
                      ELSE run'[j] = run[j] /\ At(j)' = At(j)
  BY GoneTyped DEF Crash, At, IInv
<1>5. TypeOK'
  <2>1. \A j \in Calls : run'[j] \in Engine
    BY <1>4, GoneTyped DEF IInv, TypeOK
  <2>2. run' \in [Calls -> Engine]
    BY <2>1 DEF Crash
  <2>3. hazards' \subseteq Ids \X Kinds
    BY <1>2, <1>3 DEF IInv, TypeOK, Kinds
  <2>4. faults' \in Nat
    BY <1>1 DEF Fault, IInv, TypeOK
  <2>5. QED
    BY <1>1, <2>2, <2>3, <2>4 DEF IInv, TypeOK
<1>6. Keeps
  BY <1>1, <1>2, KeepsSame
<1>7. SeedsOn
  <2> SUFFICES ASSUME NEW k \in Calls, NEW id \in Ids, NEW list \in SUBSET Files,
                      At(k) = "seed", run[k].id = id
               PROVE  SeededIn(id, list)'
    BY DEF SeedsOn
  <2>1. run[k].update
    BY DEF IInv, AtFile, Place, At
  <2>2. <<id, "unrecorded">> \in hazards'
    BY <1>2, <2>1
  <2>3. QED
    BY <2>2 DEF SeededIn, Excused, Kinds
<1>8. Fresh'
  BY <1>4 DEF IInv, Fresh, Gone
<1>9. \A j \in Calls : At(j)' \notin Active
  BY <1>4 DEF Active, Waiting
<1>10. Recorded'
  BY <1>1, <1>6, RecordedKept
<1>11. QED
  BY <1>1, <1>5, <1>6, <1>7, <1>8, <1>9, <1>10, EnginesStay

\* A file that is edited while a checkpoint is unfinished is late.
LEMMA EditStep ==
  ASSUME IInv, NEW f \in Files, Edit(f)
  PROVE  IInv'
<1>1. /\ UNCHANGED <<archive, seen, run, running, statePaused, isPaused, checkpoint,
                     outcomes, faults, doubled, raced, unseen, hazards>>
      /\ drive' = [drive EXCEPT ![f] = EditOf[f]]
      /\ late' = IF checkpoint # None THEN late \union {f} ELSE late
      /\ EditOf[f] \in Contents
  BY TransferConstants DEF Edit, flagVars
<1>2. TypeOK'
  BY <1>1 DEF IInv, TypeOK
<1>3. \A j \in Calls : At(j)' = At(j) /\ run'[j] = run[j] /\ At(j) \notin Active
  BY <1>1 DEF Edit, At
<1>4. Fresh' /\ OneEngine' /\ Recorded' /\ AtFile'
  BY <1>1, <1>3 DEF IInv, Fresh, Gone, OneEngine, Recorded, SeenAs, AtFile,
     Place, Active
<1>5. ASSUME checkpoint' # None
      PROVE  SeededCheckpoint(checkpoint)' /\ WholeCheckpoint(checkpoint)'
  <2>1. PICK c \in Checkpoint : c = checkpoint /\ c = checkpoint'
    BY <1>1, <1>5 DEF IInv, TypeOK
  <2>2. SeededCheckpoint(c) /\ WholeCheckpoint(c)
    BY <1>1, <1>5, <2>1 DEF IInv, Seeded, Whole
  <2>3. \A id : Excused(id)' = Excused(id)
    BY <1>1 DEF Excused
  <2>4. SeededCheckpoint(c)'
    BY <1>1, <1>3, <2>2, <2>3 DEF SeededCheckpoint, SeededIn
  <2>5. \A id \in Ids, u \in BOOLEAN, g \in Files : Has(id, u, g) => Has(id, u, g)'
    <3> SUFFICES ASSUME NEW id \in Ids, NEW u \in BOOLEAN, NEW g \in Files, Has(id, u, g),
                        g \notin late'
                 PROVE  Has(id, u, g)'
      BY DEF Has
    <3>1. drive'[g] = drive[g] /\ g \notin late
      BY <1>1, <1>5 DEF IInv, TypeOK
    <3>2. PICK n \in 0..MaxSuffix : /\ <<g, n>> \in outcomes[id]
                                   /\ IF u THEN archive[<<g, n>>] # None ELSE Same(g, <<g, n>>)
      BY <3>1 DEF Has
    <3>3. (IF u THEN archive[<<g, n>>] # None ELSE Same(g, <<g, n>>))'
      BY <1>1, <3>1, <3>2 DEF Same, Size
    <3>4. <<g, n>> \in outcomes'[id]
      BY <1>1, <3>2
    <3>5. QED
      BY <3>3, <3>4 DEF Has
  <2>6. WholeCheckpoint(c)'
    <3>1. c.id \in Ids /\ c.update \in BOOLEAN /\ c.done \subseteq BatchNos
      BY DEF Checkpoint
    <3>2. \A b \in BatchNos : HasAll(c, b) => HasAll(c, b)'
      BY <2>3, <2>5, <3>1, FilesOfBatches DEF HasAll
    <3>3. QED
      BY <2>2, <3>1, <3>2 DEF WholeCheckpoint
  <2>7. QED
    BY <2>1, <2>4, <2>6
<1>6. QED
  BY <1>2, <1>3, <1>4, <1>5 DEF IInv, Seeded, Whole

-----------------------------------------------------------------------------
(* The theorems                                                            *)

LEMMA InitHolds ==
  Init => IInv
<1> SUFFICES ASSUME Init
             PROVE  IInv
  OBVIOUS
<1>1. PICK m \in [Calls -> {"plain", "update", "resume"}] :
        run = [k \in Calls |-> Rest(k, m[k])]
  BY DEF Init
<1>2. ASSUME NEW k \in Calls
      PROVE  run[k] = Rest(k, m[k]) /\ At(k) = "idle" /\ run[k].mode = m[k]
  BY <1>1 DEF Rest, At
<1>3. Fresh
  <2>1. \A k \in Calls, v \in {"plain", "update", "resume"} :
          Rest(k, v) = Resting(k, v, "idle")
    <3>1. \A r \in Engine : r.at = "idle" => [r EXCEPT !.at = "idle"] = r
      BY DEF Engine
    <3>2. \A k \in Calls, v \in {"plain", "update", "resume"} : Rest(k, v).at = "idle"
      BY DEF Rest
    <3>3. QED
      BY <3>1, <3>2, RestTyped DEF Resting
  <2>2. QED
    BY <1>2, <2>1 DEF Fresh, Gone, Resting
<1>4. AtFile
  BY <1>2 DEF AtFile, Place, At
<1>5. \A k \in Calls : At(k) \notin Active
  BY <1>2 DEF Active, Waiting
<1>6. Recorded
  BY <1>2 DEF Init, Recorded, SeenAs, Entry
<1>7. QED
  BY <1>3, <1>4, <1>5, <1>6, InitTyped DEF Init, IInv, OneEngine, Seeded, Whole

LEMMA StepHolds ==
  IInv /\ [Next]_vars => IInv'
<1> SUFFICES ASSUME IInv, [Next]_vars
             PROVE  IInv'
  OBVIOUS
<1>1. CASE UNCHANGED vars
  <2>1. UNCHANGED <<drive, archive, seen, run, running, statePaused, isPaused, checkpoint,
                    outcomes, faults, doubled, raced, unseen, late, hazards>>
    BY <1>1 DEF vars
  <2>2. TypeOK' /\ Keeps
    BY <2>1, KeepsSame DEF IInv, TypeOK
  <2>3. Fresh' /\ SeedsOn
    BY <2>1 DEF IInv, Fresh, Gone, At, SeedsOn
  <2>4. \A j \in Calls : At(j)' = At(j) /\ run'[j] = run[j]
    BY <2>1 DEF At
  <2>5. Recorded'
    BY <2>1, <2>2, RecordedKept
  <2>6. QED
    BY <2>1, <2>2, <2>3, <2>4, <2>5, EnginesStay
<1>2. ASSUME NEW k \in Calls,
             Scan(k) \/ Call(k) \/ RunImport(k) \/ ResumeImportFromCheckpoint(k)
               \/ EngineStep(k)
      PROVE  IInv'
  BY <1>2, ScanStep, CallStep, RunImportStep, ResumeImportFromCheckpointStep, FirstStep,
     SeedStep, BatchStep, EndOfFilesStep, ProbeStep, RenameStep, EndBatchStep, FinishStep
     DEF EngineStep
<1>3. ASSUME NEW f \in Files, Edit(f) \/ OtherWrites(f)
      PROVE  IInv'
  BY <1>3, EditStep, OtherWritesStep
<1>4. QED
  BY <1>1, <1>2, <1>3, PauseImportStep, ResumeImportStep, CrashStep DEF Next

\* The invariant that carries what is recorded from the engine to the checkpoint and
\* to the engine that resumes it (transferImportService.js).
THEOREM Invariance == Spec => []IInv
<1>1. QED
  BY InitHolds, StepHolds, PTL DEF Spec

\* Every variable of the import keeps its type.
THEOREM TypeCorrect == Spec => []TypeOK
<1>1. IInv => TypeOK
  BY DEF IInv
<1>2. QED
  BY <1>1, Invariance, PTL

\* Only _finishImport makes a run done.
LEMMA DoneByFinish ==
  ASSUME IInv, Next, NEW k \in Calls, At(k) # "done", run'[k].at = "done"
  PROVE  Finish(k)
<1>1. TypeOK
  BY DEF IInv
<1>2. ASSUME NEW j \in Calls,
             NEW s \in {"scanned", "called", "refused", "seed", "batch", "waitbatch",
                       "waitfile", "end"},
             Go(j, s)
      PROVE  FALSE
  BY <1>1, <1>2 DEF Go, TypeOK, Engine, At
<1>3. ASSUME NEW j \in Calls, NEW e, e.at # "done", Claim(j, e)
      PROVE  FALSE
  BY <1>1, <1>3, GoneTyped DEF Claim, TypeOK, At
<1>4. ASSUME NEW j \in Calls, NEW e, e.at # "done", run' = [run EXCEPT ![j] = e]
      PROVE  FALSE
  BY <1>1, <1>4 DEF TypeOK, At
<1>5. ASSUME NEW j \in Calls
      PROVE  ~Scan(j) /\ ~Call(j) /\ ~First(j) /\ ~Seed(j) /\ ~EndOfFiles(j)
  <2>1. \A s \in {"scanned", "called", "refused", "seed", "batch", "waitbatch", "waitfile",
                  "end"} : ~Go(j, s)
    BY <1>2
  <2>2. Call(j) => Go(j, "refused") \/ Go(j, "called")
    BY DEF Call
  <2>3. First(j) => Go(j, "seed") \/ Go(j, "batch")
    BY DEF First
  <2>4. QED
    BY <2>1, <2>2, <2>3 DEF Scan, Seed, EndOfFiles
<1>6. ASSUME NEW j \in Calls, RunImport(j)
      PROVE  FALSE
  <2>1. PICK r \in Engine : r = run[j]
    BY <1>1 DEF TypeOK
  <2>2. ~Go(j, "refused")
    BY <1>2
  <2>3. [r EXCEPT !.at = "first"].at # "done"
        /\ \A l : [r EXCEPT !.at = "first", !.list = l].at # "done"
    BY DEF Engine
  <2>4. \/ Claim(j, [r EXCEPT !.at = "first"])
        \/ Claim(j, [r EXCEPT !.at = "first", !.list = SeenAs(j, {"missing"})])
    BY <1>6, <2>1, <2>2 DEF RunImport
  <2>5. QED
    BY <1>3, <2>3, <2>4
<1>7. ASSUME NEW j \in Calls, ResumeImportFromCheckpoint(j)
      PROVE  FALSE
  <2>1. PICK r \in Engine : r = run[j]
    BY <1>1 DEF TypeOK
  <2>2. ~Go(j, "refused")
    BY <1>2
  <2>3. checkpoint \in Checkpoint
    BY <1>1, <1>7, <2>2 DEF ResumeImportFromCheckpoint, TypeOK
  <2>4. PICK s \in {"batch", "first"} : Claim(j, Resumed(r, checkpoint, s))
    BY <1>7, <2>1, <2>2 DEF ResumeImportFromCheckpoint, Resumed
  <2>5. Resumed(r, checkpoint, s).at # "done"
    BY <2>3, <2>4, ResumedIs
  <2>6. QED
    BY <1>3, <2>4, <2>5
<1>8. ASSUME NEW j \in Calls, Batch(j)
      PROVE  FALSE
  <2>1. PICK r \in Engine : r = run[j]
    BY <1>1 DEF TypeOK
  <2>2. ~Waits(j, "batch", "waitbatch")
    BY <1>2 DEF Waits
  <2>3. ASSUME NEW n \in BatchNos, run' = [run EXCEPT ![j].at = "file", ![j].b = n, ![j].i = 1]
        PROVE  FALSE
    <3>1. PICK e : e = AtBatch(r, n)
      OBVIOUS
    <3>2. run' = [run EXCEPT ![j] = e]
      BY <2>1, <2>3, <3>1 DEF AtBatch
    <3>3. e.at # "done"
      BY <3>1, GoesToBatch
    <3>4. QED
      BY <1>4, <3>2, <3>3
  <2>4. ASSUME NEW n \in BatchNos, run' = [run EXCEPT ![j].at = "end", ![j].b = n]
        PROVE  FALSE
    <3>1. PICK e : e = AtEnd(r, n)
      OBVIOUS
    <3>2. run' = [run EXCEPT ![j] = e]
      BY <2>1, <2>4, <3>1 DEF AtEnd
    <3>3. e.at # "done"
      BY <3>1, GoesToEnd
    <3>4. QED
      BY <1>4, <3>2, <3>3
  <2>5. QED
    BY <1>8, <2>2, <2>3, <2>4 DEF Batch
<1>9. ASSUME NEW j \in Calls, Probe(j) \/ Rename(j)
      PROVE  FALSE
  <2>1. PICK r \in Engine : r = run[j]
    BY <1>1 DEF TypeOK
  <2>2. ~Waits(j, "file", "waitfile")
    BY <1>2 DEF Waits
  <2>3. ~ToNext(j)
    <3>1. PICK e : e = NextFile(r)
      OBVIOUS
    <3>2. ToNext(j) => run' = [run EXCEPT ![j] = e]
      BY <2>1, <3>1 DEF ToNext, NextFile
    <3>3. e.at # "done"
      BY <3>1, GoesOn DEF Passed
    <3>4. QED
      BY <1>4, <3>2, <3>3
  <2>4. ~Failed(j)
    <3>1. PICK e : e = FileFailed(r)
      OBVIOUS
    <3>2. Failed(j) => run' = [run EXCEPT ![j] = e]
      BY <2>1, <3>1 DEF Failed, FileFailed
    <3>3. e.at # "done"
      BY <3>1, GoesOnFailed DEF Passed
    <3>4. QED
      BY <1>4, <3>2, <3>3
  <2>5. ASSUME NEW n, Copying(j, n)
        PROVE  FALSE
    <3>1. PICK x : x = (archive[n] = None)
      OBVIOUS
    <3>2. PICK e : e = [r EXCEPT !.at = "copy", !.to = n, !.free = x]
      OBVIOUS
    <3>3. run' = [run EXCEPT ![j] = e]
      BY <2>1, <2>5, <3>1, <3>2 DEF Copying
    <3>4. e.at # "done"
      BY <3>2 DEF Engine
    <3>5. QED
      BY <1>4, <3>3, <3>4
  <2>6. QED
    BY <1>9, <2>2, <2>3, <2>4, <2>5 DEF Probe, Rename
<1>10. ASSUME NEW j \in Calls, EndBatch(j)
       PROVE  FALSE
  <2>1. PICK r \in Engine : r = run[j]
    BY <1>1 DEF TypeOK
  <2>2. PICK e : e = [r EXCEPT !.at = "batch", !.done = r.done \union {r.b}]
    OBVIOUS
  <2>3. run' = [run EXCEPT ![j] = e]
    BY <1>10, <2>1, <2>2 DEF EndBatch
  <2>4. e.at # "done"
    BY <2>2 DEF Engine
  <2>5. QED
    BY <1>4, <2>3, <2>4
<1>11. ASSUME NEW j \in Calls, Finish(j)
       PROVE  j = k
  BY <1>1, <1>11 DEF Finish, TypeOK, At
<1>12. ~Crash /\ ~ResumeImport
  <2>1. ASSUME Crash
        PROVE  FALSE
    BY <1>1, <2>1, GoneTyped DEF Crash, At
  <2>2. ASSUME ResumeImport
        PROVE  FALSE
    BY <1>1, <2>2 DEF ResumeImport, At, TypeOK, Engine
  <2>3. QED
    BY <2>1, <2>2
<1>13. ~PauseImport /\ ~ClearImportCheckpoint /\ \A f \in Files : ~Edit(f) /\ ~OtherWrites(f)
  BY DEF PauseImport, ClearImportCheckpoint, Edit, OtherWrites, At
<1>14. QED
  BY <1>5, <1>6, <1>7, <1>8, <1>9, <1>10, <1>11, <1>12, <1>13 DEF Next, EngineStep

\* A run of status ok has brought every file of its scope and recorded it, whatever
\* crashes, pauses and resumptions it has been through (_finishImport).
THEOREM OkIsWholeCorrect == Spec => OkIsWhole
<1>1. ASSUME IInv, [Next]_vars, NEW k \in Calls, At(k) # "done", run'[k].at = "done",
             run[k].errors = 0
      PROVE  \/ Excused(run[k].id)
             \/ \A b \in BatchNos : \A i \in DOMAIN Batches[b] :
                  Has(run[k].id, run[k].update, Batches[b][i])
  <2>1. Next
    BY <1>1 DEF vars, At
  <2>2. Finish(k)
    BY <1>1, <2>1, DoneByFinish
  <2>3. At(k) \in {"batch", "gobatch"} /\ At(k) \in Active
    BY <2>2 DEF Finish, Passes, Active
  <2>4. CASE run[k].done = BatchNos
    <3>1. WholeRun(run[k])
      BY <1>1, <2>3 DEF IInv, Whole
    <3>2. \A b \in BatchNos : HasAll(run[k], b)
      BY <1>1, <2>4, <3>1 DEF WholeRun
    <3>3. QED
      BY <3>2 DEF HasAll
  <2>5. CASE run[k].done # BatchNos
    <3>1. ~running
      BY <2>2, <2>5 DEF Finish
    <3>2. QED
      BY <1>1, <2>3, <3>1 DEF IInv, OneEngine, Excused
  <2>6. QED
    BY <2>4, <2>5
<1>2. IInv /\ [Next]_vars =>
        [\A k \in Calls :
           (At(k) # "done" /\ run'[k].at = "done" /\ run[k].errors = 0)
             => \/ Excused(run[k].id)
                \/ \A b \in BatchNos : \A i \in DOMAIN Batches[b] :
                     Has(run[k].id, run[k].update, Batches[b][i])]_vars
  BY <1>1
<1>3. QED
  BY <1>2, Invariance, PTL DEF Spec, OkIsWhole

\* No file of the archive is overwritten but under a name another writer took after
\* the probe, or one the engine could not look at (_copyFileSafe).
THEOREM NothingOverwrittenCorrect == Spec => NothingOverwritten
<1>1. ASSUME IInv, Next, NEW n \in Names, archive[n] # None
      PROVE  \/ archive'[n] = archive[n] \/ n \in raced'
             \/ /\ n \in unseen
                /\ \E k \in Calls : At(k) = "copy" /\ run[k].to = n /\ ~run[k].free
  <2>1. ASSUME NEW k \in Calls, Rename(k), archive' # archive
        PROVE  \/ archive'[n] = archive[n] \/ n \in raced'
               \/ n \in unseen /\ At(k) = "copy" /\ run[k].to = n /\ ~run[k].free
    <3>1. At(k) = "copy" /\ run[k].to \in Names /\ (run[k].free \/ run[k].to \in unseen)
      BY <1>1, <2>1 DEF IInv, AtFile, Place, Rename, At
    <3>2. /\ \A m \in Names : m # run[k].to => archive'[m] = archive[m]
          /\ archive[run[k].to] # None /\ run[k].free => run[k].to \in raced'
      BY <1>1, <2>1, <3>1 DEF Rename, IInv, TypeOK
    <3>3. QED
      BY <1>1, <3>1, <3>2
  <2>2. ASSUME NEW f \in Files, OtherWrites(f)
        PROVE  archive'[n] = archive[n]
    <3>1. <<f, 0>> # n
      BY <1>1, <2>2 DEF OtherWrites
    <3>2. QED
      BY <1>1, <2>2, <3>1 DEF OtherWrites, IInv, TypeOK
  <2>3. archive' = archive \/ (\E k \in Calls : Rename(k))
        \/ \E f \in Files : OtherWrites(f)
    BY <1>1 DEF Next, EngineStep, Scan, Call, RunImport, ResumeImportFromCheckpoint, First,
       Seed, Batch, EndOfFiles, Probe, EndBatch, Finish, Edit, PauseImport, ResumeImport,
       ClearImportCheckpoint, Crash
  <2>4. QED
    BY <2>1, <2>2, <2>3
<1>2. IInv /\ [Next]_vars =>
        [\A n \in Names : archive[n] # None =>
           \/ archive'[n] = archive[n] \/ n \in raced'
           \/ /\ n \in unseen
              /\ \E k \in Calls : At(k) = "copy" /\ run[k].to = n /\ ~run[k].free]_vars
  BY <1>1
<1>3. QED
  BY <1>2, Invariance, PTL DEF Spec, NothingOverwritten
=============================================================================
