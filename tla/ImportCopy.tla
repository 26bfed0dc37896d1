------------------------------ MODULE ImportCopy ------------------------------
(***************************************************************************)
(* The copy engine of an import (src/main/fileManager.js) under the        *)
(* transaction that drives it (import:commitTransaction of main.js) and    *)
(* the renderer that starts one import at a time, or means to.             *)
(*                                                                         *)
(* A job is one file of one operation's list: [op, position].  The pause   *)
(* and abort flags are the module's, shared by every operation.  All       *)
(* operations here copy into one folder; each worker step ends where the   *)
(* code awaits.  What the transaction writes to event.json is EventJson's. *)
(***************************************************************************)
EXTENDS Integers, Sequences, FiniteSets

CONSTANTS
  Ops,          \* operations: imports, and retries of them
  Quick,        \* those that are a Quick Import (copyFiles)
  Direct,       \* those that hold the archive lock of the folder
  Sources,      \* cards and folders
  Cards,        \* those of them that are memory cards; the others stay
  SourceOf,     \* operation -> its source
  Files,        \* source files; each stands for its contents
  ListOf,       \* operation -> the sequence of its files
  Names,        \* basenames in the folder
  NameOf,       \* file -> its basename
  SuffixOf,     \* name -> name_1, name_2, ..., in order (bounded)
  SizeOf,       \* file -> its size, above 0
  Before,       \* name -> what the folder holds at the start, a file or None
  Concurrency,  \* workers of one operation
  MaxRetries,   \* MAX_RETRIES
  MaxFaults,    \* bound on I/O errors and crashes of the application
  Torn,         \* part of a file, or parts of several
  None

ASSUME ImportCopyConstants ==
  /\ Quick \subseteq Ops /\ Direct \subseteq Ops \ Quick
  /\ SourceOf \in [Ops -> Sources] /\ Cards \subseteq Sources
  /\ ListOf \in [Ops -> Seq(Files)]
  /\ NameOf \in [Files -> Names]
  /\ SuffixOf \in [Names -> Seq(Names)]
  /\ SizeOf \in [Files -> Nat \ {0}]
  /\ Before \in [Names -> Files \union {None}]
  /\ Concurrency \in Nat \ {0} /\ MaxRetries \in Nat
  /\ MaxFaults \in Nat
  /\ Torn \notin Files /\ None \notin Files \union {Torn} \union Ops

VARIABLES
  op,         \* operation -> [at, aborted: wasAborted of its result, lost: its heartbeat failed]
  next,       \* operation -> queueIndex
  work,       \* operation -> position -> its worker
  index,      \* operation -> the sizes buildDestIndex found, of a Quick Import
  dest,       \* the folder: name -> contents
  isPaused,   \* isPaused; pauseResolvers are the workers that are parked
  isAborted,  \* isAborted
  running,    \* importRunning of the renderer
  active,     \* the operation whose card the renderer watches, or None
  gone,       \* cards that were pulled
  lock,       \* operation that holds the archive lock of the folder, or None
  faults,     \* I/O errors and crashes so far
  raced,      \* history: names two workers held at once
  left,       \* history: names where a crash or a failed unlink left a part
  unsure,     \* history: names where a part passed for a file by its size, or a
              \* whole copy could not be verified
  hazards     \* history: what the flags did to another operation

flagVars  == <<isPaused, isAborted>>
viewVars  == <<running, active>>
histVars  == <<raced, left, unsure, hazards>>
vars == <<op, next, work, index, dest, isPaused, isAborted, running, active,
          gone, lock, faults, raced, left, unsure, hazards>>

Jobs == UNION {{o} \X DOMAIN ListOf[o] : o \in Ops}
FileOf(j) == ListOf[j[1]][j[2]]
At(j) == work[j[1]][j[2]].at
ToOf(j) == work[j[1]][j[2]].to

\* A worker whose destination is settled and not yet final holds that name.
Holding == {"copy", "writing", "verify", "unlink"}
Counted == {"copied", "skipped", "error"}
Final   == Counted \union {"dropped", "dead"}
Busy    == {"parked", "stat", "resolve"} \union Holding
Worker  == [at : {"queued"} \union Busy \union Final, n : Nat, to : Names, tries : Nat]

Ended == {"committed", "rolledback", "reported", "crashed"}

TypeOK ==
  /\ op \in [Ops -> [at : {"idle", "preparing", "indexing", "copying", "drained",
                           "metadata"} \union Ended,
                     aborted : BOOLEAN, lost : BOOLEAN]]
  /\ next \in [Ops -> Nat \ {0}]
  /\ work = [o \in Ops |-> work[o]]
  /\ \A o \in Ops : work[o] \in [DOMAIN ListOf[o] -> Worker]
  /\ index \in [Ops -> [Names -> Nat]]
  /\ dest \in [Names -> Files \union {Torn, None}]
  /\ isPaused \in BOOLEAN /\ isAborted \in BOOLEAN /\ running \in BOOLEAN
  /\ active \in Ops \union {None}
  /\ gone \subseteq Cards
  /\ lock \in Ops \union {None}
  /\ faults \in Nat
  /\ raced \subseteq Names /\ left \subseteq Names /\ unsure \subseteq Names
  /\ hazards \subseteq {"reset", "stranded", "stray"}

Fresh(f) == [at |-> "queued", n |-> 0, to |-> NameOf[f], tries |-> 0]

Init ==
  /\ op = [o \in Ops |-> [at |-> "idle", aborted |-> FALSE, lost |-> FALSE]]
  /\ next = [o \in Ops |-> 1]
  /\ work = [o \in Ops |-> [i \in DOMAIN ListOf[o] |-> Fresh(ListOf[o][i])]]
  /\ index = [o \in Ops |-> [n \in Names |-> 0]]
  /\ dest = Before
  /\ isPaused = FALSE /\ isAborted = FALSE
  /\ running = FALSE /\ active = None
  /\ gone = {}
  /\ lock = None
  /\ faults = 0
  /\ raced = {} /\ left = {} /\ unsure = {} /\ hazards = {}

Fault == faults < MaxFaults /\ faults' = faults + 1

To(o, s) == op' = [op EXCEPT ![o].at = s]

\* The worker goes to s.
Step(j, s) == work' = [work EXCEPT ![j[1]][j[2]].at = s]

-----------------------------------------------------------------------------
(* The shared flags                                                        *)

\* Mutant: an abort clears the pause and wakes nobody.
AbortWithoutWake ==
  /\ isAborted' = TRUE
  /\ isPaused' = FALSE
  /\ UNCHANGED work

\* abortCopy: the paused workers wake and return; setPaused(false) does nothing
\* if the engine is not paused, whoever is parked.
AbortCopy ==
  /\ isAborted' = TRUE
  /\ isPaused' = FALSE
  /\ work' = [o \in Ops |-> [i \in DOMAIN work[o] |->
                IF isPaused /\ work[o][i].at = "parked"
                THEN [work[o][i] EXCEPT !.at = "dropped"] ELSE work[o][i]]]

\* copy:pause, the button of the progress dialog.
Pause ==
  /\ running /\ ~isPaused
  /\ isPaused' = TRUE
  /\ UNCHANGED <<op, next, work, index, dest, isAborted, viewVars, gone, lock,
                 faults, histVars>>

\* copy:resume.
Resume ==
  /\ isPaused
  /\ isPaused' = FALSE
  /\ work' = [o \in Ops |-> [i \in DOMAIN work[o] |->
                IF work[o][i].at = "parked"
                THEN [work[o][i] EXCEPT !.at = IF isAborted THEN "dropped" ELSE "stat"]
                ELSE work[o][i]]]
  /\ UNCHANGED <<op, next, index, dest, isAborted, viewVars, gone, lock,
                 faults, histVars>>

-----------------------------------------------------------------------------
(* The transaction                                                         *)

\* The renderer starts an import; a Direct Archive import takes its lock, or is
\* refused.
Begin(o) ==
  /\ op[o].at = "idle" /\ ~running /\ SourceOf[o] \notin gone
  /\ active' = o
  /\ IF o \in Direct /\ lock # None
     THEN To(o, "rolledback") /\ UNCHANGED <<running, lock>>
     ELSE To(o, "preparing") /\ running' = TRUE
          /\ lock' = IF o \in Direct THEN o ELSE lock
  /\ UNCHANGED <<next, work, index, dest, flagVars, gone, faults, histVars>>

\* copyFiles and copyFileJobs always start fresh: whatever another operation's
\* abort or pause had set is gone.
Start(o) ==
  /\ op[o].at = "preparing"
  /\ To(o, IF o \in Quick THEN "indexing" ELSE "copying")
  /\ isPaused' = FALSE /\ isAborted' = FALSE
  /\ hazards' = hazards
       \union (IF isAborted /\ \E p \in Ops \ {o} : op[p].at \in {"indexing", "copying"}
               THEN {"reset"} ELSE {})
       \union (IF \E j \in Jobs : At(j) = "parked" THEN {"stranded"} ELSE {})
  /\ UNCHANGED <<next, work, index, dest, viewVars, gone, lock, faults,
                 raced, left, unsure>>

\* The destination folder, or the event, cannot be prepared.
NotPrepared(o) ==
  /\ op[o].at \in {"preparing", "indexing"} /\ Fault
  /\ To(o, IF o \in Quick THEN "reported" ELSE "rolledback")
  /\ running' = FALSE
  /\ lock' = IF lock = o THEN None ELSE lock
  /\ UNCHANGED <<next, work, index, dest, flagVars, active, gone, histVars>>

\* The sizes a name may be found with: that of its file; a part may have any.
Sizes(n) == IF dest[n] \in Files THEN {SizeOf[dest[n]]}
            ELSE IF dest[n] = Torn THEN {0} \union {SizeOf[f] : f \in Files} ELSE {0}

\* The names a Quick Import looks up.
LookedUp(o) == {NameOf[ListOf[o][i]] : i \in DOMAIN ListOf[o]}

\* buildDestIndex; 0 stands for a name that is free, cannot be looked at, or is not
\* looked up.
BuildDestIndex(o) ==
  /\ op[o].at = "indexing"
  /\ To(o, "copying")
  /\ \E found \in [Names -> {0} \union {SizeOf[f] : f \in Files}] :
       /\ \A n \in Names :
            found[n] \in {0} \union (IF n \in LookedUp(o) THEN Sizes(n) ELSE {})
       /\ IF \A n \in LookedUp(o) : found[n] \in Sizes(n) THEN UNCHANGED faults ELSE Fault
       /\ index' = [index EXCEPT ![o] = found]
       /\ unsure' = unsure \union {n \in Names : dest[n] = Torn /\ found[n] # 0}
  /\ UNCHANGED <<next, work, dest, flagVars, viewVars, gone, lock, raced,
                 left, hazards>>

\* Mutant: the result says nothing of an abort.
DrainSilently(o) ==
  /\ op[o].at = "copying"
  /\ \A i \in DOMAIN work[o] : work[o][i].at \in Final
  /\ op' = [op EXCEPT ![o].at = IF o \in Quick THEN "reported" ELSE "drained"]
  /\ running' = IF o \in Quick THEN FALSE ELSE running
  /\ UNCHANGED <<next, work, index, dest, flagVars, active, gone, lock,
                 faults, histVars>>

\* The queue is empty and no worker is left: the result.
Drain(o) ==
  /\ op[o].at = "copying"
  /\ \A i \in DOMAIN work[o] : work[o][i].at \in Final
  /\ op' = [op EXCEPT ![o].at = IF o \in Quick THEN "reported" ELSE "drained",
                      ![o].aborted = isAborted]
  /\ running' = IF o \in Quick THEN FALSE ELSE running
  /\ UNCHANGED <<next, work, index, dest, flagVars, active, gone, lock,
                 faults, histVars>>

\* An import that was aborted, or whose lock was lost, is rolled back; another
\* is committed, and keeps its lock while its metadata is written, if it is.
Finish(o) ==
  /\ op[o].at = "drained"
  /\ \/ /\ op[o].aborted \/ op[o].lost
        /\ To(o, "rolledback")
        /\ lock' = IF lock = o THEN None ELSE lock
        /\ UNCHANGED faults
     \/ /\ ~op[o].aborted /\ ~op[o].lost
        /\ To(o, "committed")
        /\ lock' = IF lock = o THEN None ELSE lock
        /\ UNCHANGED faults
     \/ /\ ~op[o].aborted /\ ~op[o].lost /\ lock = o
        /\ To(o, "metadata")
        /\ UNCHANGED <<lock, faults>>
     \/ /\ Fault                            \* event.json cannot be written
        /\ To(o, "rolledback")
        /\ lock' = IF lock = o THEN None ELSE lock
  /\ running' = FALSE
  /\ UNCHANGED <<next, work, index, dest, flagVars, active, gone, histVars>>

\* batch_complete.
BatchComplete(o) ==
  /\ op[o].at = "metadata"
  /\ To(o, "committed")
  /\ lock' = IF lock = o THEN None ELSE lock
  /\ UNCHANGED <<next, work, index, dest, flagVars, viewVars, gone, faults,
                 histVars>>

\* A heartbeat finds the lock gone, or taken: abortCopy, whose copy it may be.
HeartbeatFails(o) ==
  /\ lock = o /\ op[o].at \in {"preparing", "copying", "drained", "metadata"}
  /\ lock' = None
  /\ op' = [op EXCEPT ![o].lost = TRUE]
  /\ AbortCopy
  /\ hazards' = hazards \union
       (IF \E p \in Ops \ {o} : op[p].at \in {"indexing", "copying"} THEN {"stray"} ELSE {})
  /\ UNCHANGED <<next, index, dest, viewVars, gone, faults, raced, left, unsure>>

-----------------------------------------------------------------------------
(* A worker: processJob of copyFileJobs, processFile of copyFiles          *)

\* next(): the engine takes the next file when it has a worker to spare.
Take(o) ==
  /\ op[o].at = "copying" /\ next[o] \in DOMAIN ListOf[o]
  /\ Cardinality({i \in DOMAIN work[o] : work[o][i].at \in Busy}) < Concurrency
  /\ next' = [next EXCEPT ![o] = @ + 1]
  /\ Step(<<o, next[o]>>,
          IF isAborted THEN "dropped" ELSE IF isPaused THEN "parked" ELSE "stat")
  /\ UNCHANGED <<op, index, dest, flagVars, viewVars, gone, lock, faults,
                 histVars>>

\* The source file is looked at; if its folder is gone too, the copy is aborted.
SourceLost(j) ==
  /\ At(j) = "stat"
  /\ SourceOf[j[1]] \in gone
  /\ isAborted' = TRUE /\ isPaused' = FALSE
  /\ work' = [o \in Ops |-> [i \in DOMAIN work[o] |->
                IF <<o, i>> = j \/ (isPaused /\ work[o][i].at = "parked")
                THEN [work[o][i] EXCEPT !.at = "dropped"] ELSE work[o][i]]]
  /\ hazards' = hazards \union
       (IF \E p \in Ops \ {j[1]} : op[p].at \in {"indexing", "copying"}
        THEN {"stray"} ELSE {})
  /\ UNCHANGED <<op, next, index, dest, viewVars, gone, lock, faults, raced,
                 left, unsure>>

Stat(j) ==
  /\ At(j) = "stat"
  /\ \/ /\ SourceOf[j[1]] \notin gone
        /\ Step(j, IF j[1] \in Quick /\ index[j[1]][NameOf[FileOf(j)]] = SizeOf[FileOf(j)]
                   THEN "skipped" ELSE "resolve")
        /\ UNCHANGED faults
     \/ /\ Fault
        /\ Step(j, "error")
  /\ UNCHANGED <<op, next, index, dest, flagVars, viewVars, gone, lock, histVars>>

\* The n-th name resolveDestPath probes.
Candidate(f, n) == IF n = 0 THEN NameOf[f] ELSE SuffixOf[NameOf[f]][n]

\* Mutant: a name that is taken by a file of another size is free.
ProbeTakesAny(j) ==
  /\ At(j) = "resolve"
  /\ Step(j, IF SizeOf[FileOf(j)] \in Sizes(ToOf(j)) THEN "skipped" ELSE "copy")
  /\ UNCHANGED <<op, next, index, dest, flagVars, viewVars, gone, lock, faults,
                 histVars>>

\* Mutant: a file of any size counts as the same file.
ProbeSkipsAny(j) ==
  /\ At(j) = "resolve"
  /\ Step(j, IF dest[ToOf(j)] = None THEN "copy" ELSE "skipped")
  /\ UNCHANGED <<op, next, index, dest, flagVars, viewVars, gone, lock, faults,
                 histVars>>

\* One probe of resolveDestPath: free, the same size, or on to the next name.  A
\* part of the same size, whosever, counts as the file.
Probe(j) ==
  LET w == work[j[1]][j[2]]
      f == FileOf(j) IN
  /\ At(j) = "resolve"
  /\ \/ /\ dest[w.to] = None
        /\ Step(j, "copy")
        /\ raced' = raced \union
             (IF \E k \in Jobs \ {j} : At(k) \in Holding /\ ToOf(k) = w.to
              THEN {w.to} ELSE {})
        /\ UNCHANGED <<unsure, faults>>
     \/ /\ dest[w.to] # None /\ SizeOf[f] \in Sizes(w.to)
        /\ Step(j, "skipped")
        /\ unsure' = unsure \union (IF dest[w.to] = Torn THEN {w.to} ELSE {})
        /\ UNCHANGED <<raced, faults>>
     \/ /\ dest[w.to] # None /\ Sizes(w.to) \ {SizeOf[f]} # {}
        /\ work' = [work EXCEPT ![j[1]][j[2]] =
             IF w.n + 1 \in DOMAIN SuffixOf[NameOf[f]]
             THEN [w EXCEPT !.n = w.n + 1, !.to = Candidate(f, w.n + 1)]
             ELSE [w EXCEPT !.at = "error"]]
        /\ UNCHANGED <<raced, unsure, faults>>
     \/ /\ Fault
        /\ Step(j, "error")
        /\ UNCHANGED <<raced, unsure>>
  /\ UNCHANGED <<op, next, index, dest, flagVars, viewVars, gone, lock, left,
                 hazards>>

\* An attempt begins, unless the copy was aborted: the destination is cut to
\* nothing, or, when the source is gone, never opened.
Copy(j) ==
  /\ At(j) = "copy"
  /\ IF isAborted
     THEN Step(j, "dropped") /\ UNCHANGED dest
     ELSE IF SourceOf[j[1]] \in gone
     THEN Step(j, "unlink") /\ UNCHANGED dest
     ELSE Step(j, "writing") /\ dest' = [dest EXCEPT ![ToOf(j)] = Torn]
  /\ UNCHANGED <<op, next, index, flagVars, viewVars, gone, lock, faults,
                 histVars>>

\* What copyFile leaves: the file, or a mixture with what another worker wrote.
Written(j) ==
  {FileOf(j)} \union
  (IF ToOf(j) \in raced
   THEN {Torn} \union {FileOf(k) : k \in {k \in Jobs : ToOf(k) = ToOf(j)}}
   ELSE {})

Write(j) ==
  /\ At(j) = "writing"
  /\ \/ /\ SourceOf[j[1]] \notin gone
        /\ \E c \in Written(j) : dest' = [dest EXCEPT ![ToOf(j)] = c]
        /\ Step(j, "verify")
        /\ UNCHANGED faults
     \/ /\ (SourceOf[j[1]] \in gone /\ UNCHANGED faults) \/ Fault
        /\ Step(j, "unlink")
        /\ UNCHANGED dest
  /\ UNCHANGED <<op, next, index, flagVars, viewVars, gone, lock, histVars>>

\* Verified by its size alone.  A copy that cannot be looked at is unlinked too,
\* whole as it is.
Verify(j) ==
  /\ At(j) = "verify"
  /\ \/ /\ SizeOf[FileOf(j)] \in Sizes(ToOf(j))
        /\ Step(j, "copied")
        /\ UNCHANGED <<unsure, faults>>
     \/ /\ Sizes(ToOf(j)) \ {SizeOf[FileOf(j)]} # {}
        /\ Step(j, "unlink")
        /\ UNCHANGED <<unsure, faults>>
     \/ /\ Fault
        /\ Step(j, "unlink")
        /\ unsure' = unsure \union {ToOf(j)}
  /\ UNCHANGED <<op, next, index, dest, flagVars, viewVars, gone, lock, raced,
                 left, hazards>>

\* Another attempt under the same name, or an error.
NextTry(j) ==
  LET w == work[j[1]][j[2]] IN
  work' = [work EXCEPT ![j[1]][j[2]] =
    [w EXCEPT !.at = IF w.tries < MaxRetries THEN "copy" ELSE "error",
              !.tries = w.tries + 1]]

\* Mutant: what a failed attempt leaves stays.
UnlinkNothing(j) ==
  /\ At(j) = "unlink"
  /\ NextTry(j)
  /\ UNCHANGED <<op, next, index, dest, flagVars, viewVars, gone, lock, faults,
                 histVars>>

\* The destination of a failed attempt is unlinked, whosever file is there.
Unlink(j) ==
  /\ At(j) = "unlink"
  /\ NextTry(j)
  /\ \/ /\ dest' = [dest EXCEPT ![ToOf(j)] = None]
        /\ UNCHANGED <<faults, left>>
     \/ /\ Fault                            \* nor can it be unlinked
        /\ left' = left \union {ToOf(j)}
        /\ UNCHANGED dest
  /\ UNCHANGED <<op, next, index, flagVars, viewVars, gone, lock, raced,
                 unsure, hazards>>

-----------------------------------------------------------------------------
(* The world                                                               *)

\* A card is pulled.
Pulled(s) ==
  /\ s \notin gone
  /\ \E o \in Ops : SourceOf[o] = s /\ op[o].at # "idle"   \* else it cannot begin
  /\ gone' = gone \union {s}
  /\ UNCHANGED <<op, next, work, index, dest, flagVars, viewVars, lock, faults,
                 histVars>>

\* The renderer notices, aborts and lets the operator start anew, while the copy
\* drains.
CardDisconnected(o) ==
  /\ active = o /\ SourceOf[o] \in gone
  /\ AbortCopy
  /\ running' = FALSE /\ active' = None
  /\ hazards' = hazards \union
       (IF \E p \in Ops \ {o} : op[p].at \in {"indexing", "copying"} THEN {"stray"} ELSE {})
  /\ UNCHANGED <<op, next, index, dest, gone, lock, faults, raced, left, unsure>>

\* The application ends and is started again.
Crash ==
  /\ Fault
  /\ \E o \in Ops : op[o].at \notin {"idle"} \union Ended
  /\ op' = [o \in Ops |-> IF op[o].at \in {"idle"} \union Ended THEN op[o]
                          ELSE [op[o] EXCEPT !.at = "crashed"]]
  /\ work' = [o \in Ops |-> [i \in DOMAIN work[o] |->
                IF op[o].at = "idle" \/ work[o][i].at \in Final THEN work[o][i]
                ELSE [work[o][i] EXCEPT !.at = "dead"]]]
  /\ left' = left \union {n \in Names : dest[n] = Torn}
  /\ isPaused' = FALSE /\ isAborted' = FALSE
  /\ running' = FALSE /\ active' = None
  /\ lock' = None
  /\ UNCHANGED <<next, index, dest, gone, raced, unsure, hazards>>

WorkerStep(j) == Stat(j) \/ SourceLost(j) \/ Probe(j) \/ Copy(j) \/ Write(j)
                 \/ Verify(j) \/ Unlink(j)
OpStep(o) == Start(o) \/ BuildDestIndex(o) \/ Take(o) \/ Drain(o) \/ Finish(o)

Next ==
  \/ \E o \in Ops : \/ Begin(o) \/ OpStep(o) \/ NotPrepared(o)
                    \/ BatchComplete(o) \/ HeartbeatFails(o) \/ CardDisconnected(o)
  \/ \E j \in Jobs : WorkerStep(j)
  \/ \E s \in Cards : Pulled(s)
  \/ Pause \/ Resume \/ Crash

\* Some awaited call returns while there is one, whosever, and the operator does
\* not leave a copy paused for ever.
Fairness ==
  /\ WF_vars((\E o \in Ops : OpStep(o)) \/ (\E j \in Jobs : WorkerStep(j)))
  /\ WF_vars(Resume)

Spec == Init /\ [][Next]_vars /\ Fairness

-----------------------------------------------------------------------------
(* Properties                                                              *)

\* An import is committed only when each of its files was copied, skipped or
\* counted as an error (main.js:1180: an aborted copy must not be committed),
\* unless another copy had reset the flags under it.
CommittedIsAccounted ==
  \A j \in Jobs :
    op[j[1]].at \in {"metadata", "committed"}
      => At(j) \in Counted \/ "reset" \in hazards

\* The copy a worker has just made under n and could not verify.
Unverified(n) ==
  /\ n \in unsure
  /\ \E j \in Jobs : At(j) \in {"copy", "unlink"} /\ ToOf(j) = n /\ dest[n] = FileOf(j)

\* A whole file in the folder is never replaced, cut or removed, under a name that
\* two workers did not both find free (fileManager.js:157); a worker takes back no
\* file but the copy of its own that it could not verify.
NothingOverwritten ==
  [][\A n \in Names : dest[n] \in Files =>
        dest'[n] = dest[n] \/ n \in raced \/ Unverified(n)]_vars

\* The same without the exception, as the documents put it.
NoOverwrite == [][\A n \in Names : dest[n] \in Files => dest'[n] = dest[n]]_vars

\* A part of a file is in the folder only while its worker is at it, or where a
\* crash, an unlink that failed or two workers at one name left it.
NothingTorn ==
  \A n \in Names : dest[n] = Torn =>
    \/ n \in left \union raced
    \/ \E j \in Jobs : At(j) \in {"writing", "unlink"} /\ ToOf(j) = n

\* A copied file is there, under the name the result gives; so is a skipped one
\* whose own name was found with its size, if no other file has that size, unless
\* what was found was a part, or a copy its worker could not verify and took back
\* (fileManager.js:136, 164): the metadata of both is written to that path.
ResultsAreTrue ==
  \A j \in Jobs :
    \/ ToOf(j) \in raced
    \/ /\ At(j) = "copied" => dest[ToOf(j)] = FileOf(j)
       /\ At(j) = "skipped" /\ ToOf(j) = NameOf[FileOf(j)] /\ ToOf(j) \notin unsure
            /\ (\A f \in Files : SizeOf[f] = SizeOf[FileOf(j)] => f = FileOf(j))
            => dest[ToOf(j)] = FileOf(j)

\* Every import that begins comes to its end, paused, aborted or without its card,
\* unless another copy had reset the pause its workers wait under: there are so many
\* imports, and in the end none is under way.
OpEnds ==
  <>[](\/ \A o \in Ops : op[o].at \in {"idle", "metadata"} \union Ended
       \/ "stranded" \in hazards)

-----------------------------------------------------------------------------
(* The invariant behind them                                               *)

\* A file is at work only while its operation copies.
Stages ==
  \A j \in Jobs :
    /\ At(j) \in Busy => op[j[1]].at = "copying"
    /\ op[j[1]].at \in {"idle", "preparing", "indexing"} => At(j) = "queued"
    /\ op[j[1]].at \in {"drained", "metadata", "committed"} => At(j) \in Final
    /\ At(j) = "dead" => op[j[1]].at \in Ended \ {"committed"}

\* What the queue has not given out waits.
InQueue == \A j \in Jobs : j[2] >= next[j[1]] => At(j) \in {"queued", "dead"}

\* A file that was dropped is one of an operation that knows of an abort.
Dropped ==
  \A j \in Jobs : At(j) = "dropped" =>
    LET o == op[j[1]] IN
    \/ "reset" \in hazards
    \/ o.at = "copying" /\ isAborted
    \/ o.at = "drained" /\ o.aborted
    \/ o.at \in Ended \ {"committed"}

\* A name has one worker, at it or done, or is known to have had two.
OneHolder ==
  \A j, k \in Jobs :
    {At(j), At(k)} \subseteq Holding \union {"copied"} /\ ToOf(j) = ToOf(k)
      => j = k \/ ToOf(j) \in raced

\* A worker replaces, and unlinks, no file but the copy it could not verify; what
\* it verifies is its own.
Held ==
  \A j \in Jobs :
    \/ ToOf(j) \in raced
    \/ /\ At(j) \in {"copy", "writing", "unlink"} =>
            \/ dest[ToOf(j)] \notin Files
            \/ At(j) # "writing" /\ ToOf(j) \in unsure /\ dest[ToOf(j)] = FileOf(j)
       /\ At(j) = "verify" => dest[ToOf(j)] = FileOf(j)

\* What the index of a Quick Import found stays.
IndexTrue ==
  \A o \in Ops, n \in Names :
    index[o][n] # 0 => \/ n \in raced \union unsure
                       \/ dest[n] \in Files /\ SizeOf[dest[n]] = index[o][n]

Control == Stages /\ InQueue /\ Dropped
Folder  == OneHolder /\ Held /\ NothingTorn /\ IndexTrue /\ ResultsAreTrue
IInv == TypeOK /\ Control /\ Folder
=============================================================================
