---------------------------- MODULE EventJsonDoc ----------------------------
(***************************************************************************)
(* The event.json document as its writers see it, and what each of the     *)
(* writers' mutators changes.  A field holds the process that wrote it     *)
(* last, Old (written before this history starts) or Absent.               *)
(***************************************************************************)
CONSTANTS Procs, Old, Absent

Status == {"created", "in-progress", "complete"}
Writer == Procs \union {Old, Absent}

Docs == [status  : Status,
         imports : SUBSET Procs,  \* audit entries, by importing transaction
         run     : Writer,        \* lastMetadataRun, metadataSummary
         state   : Writer,        \* metadataState
         index   : Writer]        \* metadataIndex, lastMetadataSync

\* No document at all, as an original to restore.
Empty == [status |-> "created", imports |-> {},
          run |-> Absent, state |-> Absent, index |-> Absent]

Ops == {"start", "commit", "commitBare", "rollback", "reset", "edit",
        "run", "state", "index", "syncError"}

\* A call of updateEventJsonAtomic: by is the caller, base the document its
\* closure captured, if any.
Mutators == [op : Ops, by : Procs, base : Docs]

\* Spreading an old document restores only the keys it has.
Restored(old, new) == IF old = Absent THEN new ELSE old

\* Mutants: no entry of the import, no status.
MergeNoEntry(m, doc) ==
  [doc EXCEPT !.status = IF m.op \in {"commit", "commitBare"} THEN "complete" ELSE @]

MergeNoStatus(m, doc) ==
  [doc EXCEPT !.imports = IF m.op = "commit" THEN @ \union {m.by} ELSE @,
              !.status = IF m.op = "start" THEN "in-progress" ELSE @]

\* { ...doc, ...partialChanges }, where partialChanges is what mutator m
\* returns for doc.
Merge(m, doc) ==
  CASE m.op = "start"    -> [doc EXCEPT !.status = "in-progress"]
    [] m.op = "commit"   -> [doc EXCEPT !.status = "complete",
                                        !.imports = @ \union {m.by}]
    [] m.op = "commitBare" -> [doc EXCEPT !.status = "complete"]
    [] m.op = "rollback" -> [status  |-> "created",
                             imports |-> IF m.base.imports = {} THEN doc.imports
                                                                ELSE m.base.imports,
                             run     |-> Restored(m.base.run, doc.run),
                             state   |-> Restored(m.base.state, doc.state),
                             index   |-> Restored(m.base.index, doc.index)]
    [] m.op = "reset"    -> [doc EXCEPT !.status = "created"]
    [] m.op = "edit"     -> [doc EXCEPT !.status = m.base.status]
    [] m.op = "run"      -> [doc EXCEPT !.run = m.by]
    [] m.op = "state"    -> [doc EXCEPT !.state = m.by]
    [] m.op = "index"    -> [doc EXCEPT !.index = m.by]
    [] OTHER             -> doc

=============================================================================
