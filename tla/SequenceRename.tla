---------------------------- MODULE SequenceRename ----------------------------
(***************************************************************************)
(* event:applyPhotographerSequence (src/main/main.js) renames the          *)
(* photographer folders of an event in two phases                          *)
(* (photographerSequenceService.js), and then the records that name them:  *)
(* the intent of event.json, its sequences and the staging manifest.       *)
(* Imports that route files into those folders go on meanwhile.            *)
(*                                                                         *)
(* A folder name is <<photographer, sequence>>, 0 for the plain name, or   *)
(* <<run, sequence>> for a temporary name.  A folder holds the imports     *)
(* whose files are in it.  The guard on running syncs is left out: a sync  *)
(* changes nothing here.                                                   *)
(***************************************************************************)
EXTENDS Integers, Sequences, FiniteSets

CONSTANTS
  Scopes,        \* the event root, or its component folders
  Photographers,
  Imports,
  ScopeOf,       \* import -> scope
  ByOf,          \* import -> photographer
  Already,       \* imports that are done at the start, under plain names
  Plans,         \* sequences of [scope, ordered]; ordered: a sequence of
                 \* <<photographer, sequence>>
  MaxSeq,        \* bound on sequence numbers
  MaxRuns,       \* bound on runs of the handler
  MaxFaults,     \* bound on I/O errors and crashes
  NoFolder

ASSUME SequenceRenameConstants ==
  /\ ScopeOf \in [Imports -> Scopes] /\ ByOf \in [Imports -> Photographers]
  /\ Already \subseteq Imports
  /\ Plans \subseteq Seq([scope : Scopes, ordered : Seq(Photographers \X (1..MaxSeq))])
  /\ \A plan \in Plans :
       /\ plan # << >>
       /\ \A k, l \in DOMAIN plan : plan[k].scope = plan[l].scope => k = l
       /\ \A k \in DOMAIN plan : \A i, j \in DOMAIN plan[k].ordered :
            plan[k].ordered[i][2] = plan[k].ordered[j][2] => i = j
  /\ MaxSeq \in Nat /\ MaxRuns \in Nat /\ MaxFaults \in Nat
  /\ Photographers \intersect Nat = {}

VARIABLES
  dirs,       \* scope -> folder name -> the imports in it, or NoFolder
  intent,     \* import -> folder its intent in event.json names, or NoFolder
  manifest,   \* import -> folder its job in event.sync.json names, or NoFolder
  seqs,       \* scope -> photographer -> sequence in event.json, or 0
  h,          \* the handler
  saved,      \* the intents, or the manifest, it has read
  before,     \* the sequences it wrote over
  imp,        \* import -> [at, to]
  runs, faults,
  split,      \* history: <<scope, photographer>> an import was routed to during a run or
              \* without a look at the folders, or whose number a commit wrote over
  mishaps     \* history: what the handler does not undo

diskVars   == <<dirs>>
recordVars == <<intent, manifest, seqs>>
seqVars == <<dirs, intent, manifest, seqs, h, saved, before, imp, runs, faults, split, mishaps>>

Real == Photographers \X (0..MaxSeq)
Temp == (1..MaxRuns) \X (1..MaxSeq)
Folders == Real \union Temp

ASSUME NoFolderIsNone == NoFolder \notin Folders /\ \A ms \in SUBSET Imports : NoFolder # ms

Move == [from : Folders, tmp : Folders, to : Folders]

\* k, i: scope and entry it is at; cur: the folder found; moved: the renames of
\* phase 1; done: how many phase 2 has completed; renames: those of earlier scopes.
Handler == [at : {"idle", "scan", "move", "back", "place", "undo", "remap",
                  "sequences", "number", "read", "write"},
            plan : Plans \union {<< >>}, k : Nat, i : Nat, cur : Folders \union {NoFolder},
            moved : Seq(Move), done : Nat, ok : BOOLEAN,
            renames : SUBSET (Scopes \X Folders \X Folders)]

SeqTypeOK ==
  /\ dirs \in [Scopes -> [Folders -> (SUBSET Imports) \union {NoFolder}]]
  /\ intent \in [Imports -> Folders \union {NoFolder}]
  /\ manifest \in [Imports -> Folders \union {NoFolder}]
  /\ seqs \in [Scopes -> [Photographers -> 0..MaxSeq]]
  /\ h \in Handler
  /\ saved \in [Imports -> Folders \union {NoFolder}]
  /\ before \in [Scopes -> [Photographers -> 0..MaxSeq]]
  /\ imp \in [Imports -> [at : {"idle", "planned", "resolved", "made", "copied",
                                "committed", "done", "failed"},
                          to : Folders]]
  /\ runs \in Nat /\ faults \in Nat
  /\ split \subseteq Scopes \X Photographers
  /\ mishaps \subseteq {"scan", "place", "rollback", "partial", "record", "lost", "crash"}

Rest == [at |-> "idle", plan |-> << >>, k |-> 1, i |-> 1, cur |-> NoFolder,
         moved |-> << >>, done |-> 0, ok |-> TRUE, renames |-> {}]

Plain(m) == <<ByOf[m], 0>>

SeqInit ==
  /\ dirs = [s \in Scopes |-> [n \in Folders |->
               LET ms == {m \in Already : ScopeOf[m] = s /\ Plain(m) = n} IN
               IF ms = {} THEN NoFolder ELSE ms]]
  /\ intent = [m \in Imports |-> IF m \in Already THEN Plain(m) ELSE NoFolder]
  /\ manifest = intent
  /\ seqs = [s \in Scopes |-> [p \in Photographers |-> 0]]
  /\ h = Rest
  /\ saved = [m \in Imports |-> NoFolder] /\ before = seqs
  /\ imp = [m \in Imports |-> [at |-> IF m \in Already THEN "done" ELSE "idle",
                               to |-> Plain(m)]]
  /\ runs = 0 /\ faults = 0
  /\ split = {} /\ mishaps = {}

Fault == faults < MaxFaults /\ faults' = faults + 1

InFlight(m) == imp[m].at \in {"planned", "resolved", "made", "copied", "committed"}
Split == {<<ScopeOf[m], ByOf[m]>> : m \in {m \in Imports : InFlight(m)}}
SplitIfRunning == split' = split \union (IF h'.at # "idle" THEN Split' ELSE {})

There(s, n) == dirs[s][n] # NoFolder

\* rename: the target is absent, or an empty folder.
CanRename(s, n) == dirs[s][n] \in {NoFolder, {}}
Renamed(s, from, to) ==
  [dirs EXCEPT ![s] = [@ EXCEPT ![to] = dirs[s][from], ![from] = NoFolder]]

-----------------------------------------------------------------------------
(* applyRenames                                                            *)

Scope == h.plan[h.k].scope
Ordered == h.plan[h.k].ordered
Entry == Ordered[h.i]

\* The renderer numbers the folders a scan found: a photographer is listed twice
\* only if he had two folders (see OneFolderEach).
Numbered(plan) ==
  \A k \in DOMAIN plan : \A i, j \in DOMAIN plan[k].ordered :
    i # j /\ plan[k].ordered[i][1] = plan[k].ordered[j][1]
      => <<plan[k].scope, plan[k].ordered[i][1]>> \in split

Apply(plan) ==
  /\ h.at = "idle" /\ runs < MaxRuns
  /\ Numbered(plan)
  /\ runs' = runs + 1
  /\ h' = [Rest EXCEPT !.at = "scan", !.plan = plan]
  /\ UNCHANGED <<dirs, recordVars, saved, before, imp, faults, mishaps>>
  /\ SplitIfRunning

\* The result of applyRenames is at hand; on failure only earlier scopes count.
Failed(why) ==
  /\ h' = [h EXCEPT !.at = "remap", !.ok = FALSE]
  /\ mishaps' = mishaps \union why \union (IF h.renames # {} THEN {"partial"} ELSE {})

\* One entry of phase 1: the folder of that canonical name, whichever readdir has
\* first, unless it has its name already.
Scan ==
  /\ h.at = "scan" /\ h.i \in DOMAIN Ordered
  /\ LET found == {n \in Real : n[1] = Entry[1] /\ There(Scope, n)} IN
     \/ /\ \E n \in found :
             h' = IF n = Entry THEN [h EXCEPT !.i = @ + 1]
                  ELSE [h EXCEPT !.at = "move", !.cur = n]
        /\ UNCHANGED <<faults, mishaps>>
     \/ /\ found = {}
        /\ h' = [h EXCEPT !.i = @ + 1]
        /\ UNCHANGED <<faults, mishaps>>
     \/ /\ Fault                         \* the moved ones are not moved back
        /\ Failed(IF h.moved # << >> THEN {"scan"} ELSE {})
  /\ UNCHANGED <<dirs, recordVars, saved, before, imp, runs, split>>

\* Phase 1: current -> temp.
ToTemp ==
  /\ h.at = "move"
  /\ LET tmp == <<runs, Entry[2]>> IN
     \/ /\ dirs' = Renamed(Scope, h.cur, tmp)
        /\ h' = [h EXCEPT !.at = "scan", !.i = @ + 1,
                          !.moved = Append(@, [from |-> h.cur, tmp |-> tmp, to |-> Entry])]
        /\ UNCHANGED faults
     \/ /\ Fault
        /\ h' = [h EXCEPT !.at = "back"]
        /\ UNCHANGED dirs
  /\ UNCHANGED <<recordVars, saved, before, imp, runs, split, mishaps>>

\* Mutant: the rollback of phase 1 forgets the last folder it moved.
BackButOne ==
  /\ h.at = "back"
  /\ Failed({})
  /\ UNCHANGED <<dirs, recordVars, saved, before, imp, runs, faults, split>>

\* A rename of phase 1 failed: the others are renamed back, last first; a rename
\* that fails is passed over.
Back ==
  /\ h.at = "back"
  /\ IF h.moved = << >>
     THEN Failed({}) /\ UNCHANGED <<dirs, faults>>
     ELSE LET r == h.moved[Len(h.moved)] IN
          /\ h' = [h EXCEPT !.moved = SubSeq(@, 1, Len(@) - 1)]
          /\ \/ /\ CanRename(Scope, r.from)
                /\ dirs' = Renamed(Scope, r.tmp, r.from)
                /\ UNCHANGED <<faults, mishaps>>
             \/ /\ (~CanRename(Scope, r.from) /\ UNCHANGED faults) \/ Fault
                /\ mishaps' = mishaps \union {"rollback"}
                /\ UNCHANGED dirs
  /\ UNCHANGED <<recordVars, saved, before, imp, runs, split>>

\* Phase 2 of this scope begins: nothing is left to scan.
EndOfPhase1 ==
  /\ h.at = "scan" /\ h.i \notin DOMAIN Ordered
  /\ h' = [h EXCEPT !.at = "place"]
  /\ UNCHANGED <<dirs, recordVars, saved, before, imp, runs, faults, split, mishaps>>

\* Phase 2: temp -> final; then the next scope, or the end.
Place ==
  /\ h.at = "place"
  /\ IF h.done = Len(h.moved)
     THEN /\ h' = [h EXCEPT !.at = IF h.k < Len(h.plan) THEN "scan" ELSE "remap",
                            !.k = IF h.k < Len(h.plan) THEN @ + 1 ELSE @, !.i = 1,
                            !.moved = << >>, !.done = 0,
                            !.renames = @ \union {<<Scope, h.moved[x].from, h.moved[x].to>> :
                                                    x \in DOMAIN h.moved}]
          /\ UNCHANGED <<dirs, faults, mishaps>>
     ELSE LET r == h.moved[h.done + 1] IN
          \/ /\ CanRename(Scope, r.to)
             /\ dirs' = Renamed(Scope, r.tmp, r.to)
             /\ h' = [h EXCEPT !.done = @ + 1]
             /\ UNCHANGED <<faults, mishaps>>
          \/ /\ (~CanRename(Scope, r.to) /\ UNCHANGED faults) \/ Fault
             /\ h' = [h EXCEPT !.at = "undo"]
             /\ mishaps' = mishaps \union {"place"}
             /\ UNCHANGED dirs
  /\ UNCHANGED <<recordVars, saved, before, imp, runs, split>>

\* A rename of phase 2 failed: the completed ones are undone, the failed one and
\* those after it keep their temporary names.
Undo ==
  /\ h.at = "undo"
  /\ IF h.done = 0
     THEN Failed({}) /\ UNCHANGED <<dirs, faults>>
     ELSE LET r == h.moved[h.done] IN
          /\ h' = [h EXCEPT !.done = @ - 1]
          /\ \/ /\ There(Scope, r.to) /\ CanRename(Scope, r.from)
                /\ dirs' = Renamed(Scope, r.to, r.from)
                /\ UNCHANGED <<faults, mishaps>>
             \/ /\ \/ ~(There(Scope, r.to) /\ CanRename(Scope, r.from)) /\ UNCHANGED faults
                   \/ Fault
                /\ mishaps' = mishaps \union {"rollback"}
                /\ UNCHANGED dirs
  /\ UNCHANGED <<recordVars, saved, before, imp, runs, split>>

-----------------------------------------------------------------------------
(* The records                                                             *)

\* Mutant: after a failure no key is moved.
RemapIfOk ==
  /\ h.at = "remap"
  /\ intent' = [m \in Imports |->
       LET r == {x \in h.renames : x[1] = ScopeOf[m] /\ x[2] = intent[m]} IN
       IF r = {} \/ ~h.ok THEN intent[m] ELSE (CHOOSE x \in r : TRUE)[3]]
  /\ h' = IF h.ok THEN [h EXCEPT !.at = "sequences"] ELSE Rest
  /\ UNCHANGED <<dirs, manifest, seqs, saved, before, imp, runs, faults, split, mishaps>>

\* _remapEventIntentForRenames, for the renames in effect; its failure is logged.
Remap ==
  /\ h.at = "remap"
  /\ \/ /\ intent' = [m \in Imports |->
             LET r == {x \in h.renames : x[1] = ScopeOf[m] /\ x[2] = intent[m]} IN
             IF r = {} THEN intent[m] ELSE (CHOOSE x \in r : TRUE)[3]]
        /\ UNCHANGED <<faults, mishaps>>
     \/ /\ h.renames # {} /\ Fault
        /\ mishaps' = mishaps \union {"record"}
        /\ UNCHANGED intent
  /\ h' = IF h.ok THEN [h EXCEPT !.at = "sequences"] ELSE Rest
  /\ UNCHANGED <<dirs, manifest, seqs, saved, before, imp, runs, split>>

\* The sequence numbers of the plan, by scope; the last one listed for a
\* photographer stands, and a scope it leaves out has none.
Planned(s, p) ==
  LET last == {e \in Photographers \X (1..MaxSeq) : e[1] = p /\
                 \E k \in DOMAIN h.plan : h.plan[k].scope = s /\
                   \E i \in DOMAIN h.plan[k].ordered :
                     /\ h.plan[k].ordered[i] = e
                     /\ \A j \in DOMAIN h.plan[k].ordered :
                          h.plan[k].ordered[j][1] = p => j <= i}
  IN IF last = {} THEN 0 ELSE (CHOOSE e \in last : TRUE)[2]

\* writeSequencesToEventJson reads event.json, on its own and not in the chain of its
\* writers ...
ReadSequences ==
  /\ h.at = "sequences"
  /\ \/ /\ saved' = intent
        /\ h' = [h EXCEPT !.at = "number"]
        /\ UNCHANGED <<faults, mishaps>>
     \/ /\ Fault
        /\ h' = Rest
        /\ mishaps' = mishaps \union {"record"}
        /\ UNCHANGED saved
  /\ UNCHANGED <<dirs, recordVars, before, imp, runs, split>>

\* ... and writes it with the numbers, over what was committed meanwhile.
WriteSequences ==
  /\ h.at = "number"
  /\ \/ /\ seqs' = [s \in Scopes |-> [p \in Photographers |-> Planned(s, p)]]
        /\ intent' = saved /\ before' = seqs
        /\ h' = [h EXCEPT !.at = "read"]
        /\ UNCHANGED <<faults, mishaps>>
     \/ /\ Fault
        /\ h' = Rest
        /\ mishaps' = mishaps \union {"record"}
        /\ UNCHANGED <<seqs, intent, before>>
  /\ UNCHANGED <<dirs, manifest, saved, imp, runs, split>>

\* updateManifestAfterRename reads the manifest ...
ReadManifest ==
  /\ h.at = "read"
  /\ saved' = manifest
  /\ h' = [h EXCEPT !.at = "write"]
  /\ UNCHANGED <<dirs, recordVars, before, imp, runs, faults, split, mishaps>>

\* Mutant: the sequence number is counted from one twice.
MovedOneOff(m, n) ==
  IF n # NoFolder /\ n \in Real /\ Planned(ScopeOf[m], n[1]) # 0
  THEN <<n[1], Planned(ScopeOf[m], n[1]) + 1>> ELSE n

\* Where a path of the manifest points after the renames: by its canonical name.
Moved(m, n) ==
  IF n # NoFolder /\ n \in Real /\ Planned(ScopeOf[m], n[1]) # 0
  THEN <<n[1], Planned(ScopeOf[m], n[1])>> ELSE n

\* Mutant: only paths under a plain name are rewritten.
WriteManifestPlain ==
  /\ h.at = "write"
  /\ manifest' = [m \in Imports |-> IF saved[m] # NoFolder /\ saved[m][2] # 0
                                    THEN saved[m] ELSE Moved(m, saved[m])]
  /\ h' = Rest
  /\ UNCHANGED <<dirs, intent, seqs, saved, before, imp, runs, faults, split, mishaps>>

\* ... and writes it back, if a path has changed, over what was appended meanwhile.
WriteManifest ==
  LET new == [m \in Imports |-> Moved(m, saved[m])] IN
  /\ h.at = "write"
  /\ \/ /\ manifest' = IF new = saved THEN manifest ELSE new
        /\ mishaps' = mishaps \union
             (IF new # saved /\ saved # manifest THEN {"lost"} ELSE {})
        /\ UNCHANGED faults
     \/ /\ new # saved /\ Fault
        /\ mishaps' = mishaps \union {"record"}
        /\ UNCHANGED manifest
  /\ h' = Rest
  /\ UNCHANGED <<dirs, intent, seqs, saved, before, imp, runs, split>>

-----------------------------------------------------------------------------
(* An import into a photographer folder                                    *)

\* The router's folder name: by the sequences of event.json.
PlanImport(m) ==
  /\ imp[m].at = "idle"
  /\ imp' = [imp EXCEPT ![m] = [at |-> "planned",
                                to |-> <<ByOf[m], seqs[ScopeOf[m]][ByOf[m]]>>]]
  /\ UNCHANGED <<dirs, recordVars, h, saved, before, runs, faults, mishaps>>
  /\ SplitIfRunning

\* Mutant: a folder that is not there is not looked for under its sequenced name.
ResolveNothing(m) ==
  /\ imp[m].at = "planned"
  /\ imp' = [imp EXCEPT ![m].at = "resolved"]
  /\ UNCHANGED <<dirs, recordVars, h, saved, before, runs, faults, split, mishaps>>

\* _resolveSeqPhotographerFolders: if it is not there, the one sequenced folder of
\* that canonical name; a readdir that fails leaves the name as it is.
Resolve(m) ==
  LET s == ScopeOf[m]
      found == {n \in Real : n[1] = ByOf[m] /\ n[2] # 0 /\ There(s, n)} IN
  /\ imp[m].at = "planned"
  /\ \/ /\ imp' = [imp EXCEPT ![m] =
             [at |-> "resolved",
              to |-> IF ~There(s, imp[m].to) /\ Cardinality(found) = 1
                     THEN CHOOSE n \in found : TRUE ELSE imp[m].to]]
        /\ UNCHANGED <<faults, split>>
     \/ /\ ~There(s, imp[m].to) /\ Fault
        /\ imp' = [imp EXCEPT ![m].at = "resolved"]
        /\ split' = split \union {<<s, ByOf[m]>>}
  /\ UNCHANGED <<dirs, recordVars, h, saved, before, runs, mishaps>>

\* mkdir of copyFileJobs.
MakeDir(m) ==
  /\ imp[m].at = "resolved"
  /\ dirs' = IF There(ScopeOf[m], imp[m].to) THEN dirs
             ELSE [dirs EXCEPT ![ScopeOf[m]][imp[m].to] = {}]
  /\ imp' = [imp EXCEPT ![m].at = "made"]
  /\ UNCHANGED <<recordVars, h, saved, before, runs, faults, split, mishaps>>

\* The files are copied, if their folder is still there.
CopyFiles(m) ==
  /\ imp[m].at = "made"
  /\ IF There(ScopeOf[m], imp[m].to)
     THEN /\ dirs' = [dirs EXCEPT ![ScopeOf[m]][imp[m].to] = @ \union {m}]
          /\ imp' = [imp EXCEPT ![m].at = "copied"]
     ELSE /\ imp' = [imp EXCEPT ![m].at = "failed"]
          /\ UNCHANGED dirs
  /\ UNCHANGED <<recordVars, h, saved, before, runs, faults, split, mishaps>>

\* The commit writes the intent, keyed by where the files were copied to; one that has
\* read event.json before the handler wrote it puts the old sequences back ...
CommitIntent(m) ==
  /\ imp[m].at = "copied"
  /\ intent' = [intent EXCEPT ![m] = imp[m].to]
  /\ imp' = [imp EXCEPT ![m].at = "committed"]
  /\ \/ UNCHANGED <<seqs, split>>
     \/ /\ <<ScopeOf[m], ByOf[m]>> \in split
        /\ seqs' = before
        /\ split' = split \union {f \in Scopes \X Photographers :
                                      seqs[f[1]][f[2]] # before[f[1]][f[2]]}
  /\ UNCHANGED <<dirs, manifest, h, saved, before, runs, faults, mishaps>>

\* ... and the manifest gets its job.
AppendJob(m) ==
  /\ imp[m].at = "committed"
  /\ manifest' = [manifest EXCEPT ![m] = imp[m].to]
  /\ imp' = [imp EXCEPT ![m].at = "done"]
  /\ UNCHANGED <<dirs, intent, seqs, h, saved, before, runs, faults, split, mishaps>>

\* The application ends: nothing looks for half-done renames when it starts again.
AppEnds ==
  /\ h.at # "idle" \/ \E m \in Imports : InFlight(m)
  /\ Fault
  /\ h' = Rest
  /\ imp' = [m \in Imports |-> IF InFlight(m) THEN [imp[m] EXCEPT !.at = "failed"] ELSE imp[m]]
  /\ mishaps' = IF h.at # "idle" THEN mishaps \union {"crash"} ELSE mishaps
  /\ UNCHANGED <<dirs, recordVars, saved, before, runs, split>>

HandlerStep == Scan \/ ToTemp \/ Back \/ EndOfPhase1 \/ Place \/ Undo \/ Remap
               \/ ReadSequences \/ WriteSequences \/ ReadManifest \/ WriteManifest

ImportStep(m) == PlanImport(m) \/ Resolve(m) \/ MakeDir(m) \/ CopyFiles(m)
                 \/ CommitIntent(m) \/ AppendJob(m)

SeqNext ==
  \/ \E p \in Plans : Apply(p)
  \/ HandlerStep
  \/ \E m \in Imports : ImportStep(m)
  \/ AppEnds

SeqSpec == SeqInit /\ [][SeqNext]_seqVars

-----------------------------------------------------------------------------
(* Properties                                                              *)

AtRest == h.at = "idle" /\ \A m \in Imports : ~InFlight(m)

\* After the handler no folder keeps a temporary name, which no scan takes for a
\* photographer's: a rename of phase 1 that fails is rolled back whole.  A scan or a
\* rename of phase 2 that fails, a rollback that fails and a crash are not undone
\* (photographerSequenceService.js:194, :224).
NothingHidden ==
  h.at = "idle" => \/ \A s \in Scopes, n \in Temp : ~There(s, n)
                   \/ mishaps \intersect {"scan", "place", "rollback", "crash"} # {}

\* The intent of an import is keyed by the folder its files are in, even when a
\* later scope failed, unless an import was under way or the handler was cut off.
IntentFollows ==
  AtRest => \A m \in Imports :
    \/ imp[m].at # "done"
    \/ <<ScopeOf[m], ByOf[m]>> \in split
    \/ mishaps \intersect {"scan", "place", "rollback", "record", "crash"} # {}
    \/ There(ScopeOf[m], intent[m]) /\ m \in dirs[ScopeOf[m]][intent[m]]

\* So is its job in the manifest, unless a later scope failed as well: the handler
\* then returns before it gets there (main.js:5447).
ManifestFollows ==
  AtRest => \A m \in Imports :
    \/ imp[m].at # "done"
    \/ <<ScopeOf[m], ByOf[m]>> \in split
    \/ mishaps # {}
    \/ There(ScopeOf[m], manifest[m]) /\ m \in dirs[ScopeOf[m]][manifest[m]]

\* One photographer has one folder in a scope, by any of its names, unless an import
\* was routed to it while the handler ran, or without a look at the folders since
\* readdir failed (main.js:670), or a commit wrote over its number: what the handler
\* fails to undo, and a crash, leave a folder hidden and never a second one to be seen.
OneFolderEach ==
  \A s \in Scopes, p \in Photographers :
    \/ <<s, p>> \in split
    \/ Cardinality({n \in Real : n[1] = p /\ There(s, n)}) <= 1
=============================================================================
