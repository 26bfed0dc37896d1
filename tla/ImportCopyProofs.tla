--------------------------- MODULE ImportCopyProofs ---------------------------
(***************************************************************************)
(* Proofs about ImportCopy, for every set of operations, files and names,  *)
(* any number of workers, retries and faults.                              *)
(***************************************************************************)
EXTENDS ImportCopy, TLAPS

W(k) == work[k[1]][k[2]]

Status == {"queued"} \union Busy \union Final

Stage == {"idle", "preparing", "indexing", "copying", "drained", "metadata"} \union Ended

WorkType ==
  /\ work = [o \in Ops |-> work[o]]
  /\ \A o \in Ops : work[o] \in [DOMAIN ListOf[o] -> Worker]

-----------------------------------------------------------------------------
(* Jobs and their workers                                                  *)

\* A job is a position in the list of an operation.
LEMMA JobType ==
  ASSUME NEW j \in Jobs
  PROVE  /\ j[1] \in Ops /\ j[2] \in DOMAIN ListOf[j[1]]
         /\ j = <<j[1], j[2]>>
         /\ FileOf(j) \in Files /\ j[2] \in Nat \ {0}
<1>1. PICK o \in Ops : j \in {o} \X DOMAIN ListOf[o]
  BY DEF Jobs
<1>2. j[1] = o /\ j[2] \in DOMAIN ListOf[o] /\ j = <<j[1], j[2]>>
  BY <1>1
<1>3. ListOf[o] \in Seq(Files)
  BY ImportCopyConstants
<1>4. FileOf(j) \in Files /\ j[2] \in Nat \ {0}
  BY <1>2, <1>3 DEF FileOf
<1> QED
  BY <1>2, <1>4

LEMMA JobMade ==
  ASSUME NEW o \in Ops, NEW i \in DOMAIN ListOf[o]
  PROVE  <<o, i>> \in Jobs
BY DEF Jobs

LEMMA WorkerType ==
  ASSUME WorkType, NEW j \in Jobs
  PROVE  W(j) \in Worker /\ At(j) \in Status /\ ToOf(j) \in Names
         /\ At(j) = W(j).at /\ ToOf(j) = W(j).to
<1>1. j[1] \in Ops /\ j[2] \in DOMAIN ListOf[j[1]]
  BY JobType
<1>2. W(j) \in Worker
  BY <1>1 DEF WorkType, W
<1> QED
  BY <1>2 DEF Worker, At, ToOf, W, Status

\* The worker of one job is replaced.
LEMMA Replaced ==
  ASSUME WorkType, NEW j \in Jobs, NEW e \in Worker,
         work' = [work EXCEPT ![j[1]][j[2]] = e]
  PROVE  /\ WorkType'
         /\ W(j)' = e /\ At(j)' = e.at /\ ToOf(j)' = e.to
         /\ \A k \in Jobs \ {j} : W(k)' = W(k)
<1>1. j[1] \in Ops /\ j[2] \in DOMAIN ListOf[j[1]] /\ j = <<j[1], j[2]>>
  BY JobType
<1>2. /\ work' = [o \in Ops |-> work'[o]]
      /\ \A o \in Ops : work'[o] = IF o = j[1] THEN [work[o] EXCEPT ![j[2]] = e] ELSE work[o]
  BY <1>1 DEF WorkType
<1>3. \A o \in Ops : work'[o] \in [DOMAIN ListOf[o] -> Worker]
  BY <1>1, <1>2 DEF WorkType
<1>4. WorkType'
  BY <1>2, <1>3 DEF WorkType
<1>5. work'[j[1]][j[2]] = e
  BY <1>1, <1>2 DEF WorkType
<1>6. ASSUME NEW k \in Jobs \ {j} PROVE W(k)' = W(k)
  <2>1. k[1] \in Ops /\ k[2] \in DOMAIN ListOf[k[1]] /\ k = <<k[1], k[2]>>
    BY JobType
  <2>2. k[1] # j[1] \/ k[2] # j[2]
    BY <2>1, <1>1
  <2> QED
    BY <2>1, <2>2, <1>1, <1>2 DEF WorkType, W
<1> QED
  BY <1>4, <1>5, <1>6 DEF W, At, ToOf

\* One worker goes to s.
LEMMA Stepped ==
  ASSUME WorkType, NEW j \in Jobs, NEW s \in Status, Step(j, s)
  PROVE  /\ WorkType'
         /\ At(j)' = s /\ ToOf(j)' = ToOf(j)
         /\ \A k \in Jobs \ {j} : W(k)' = W(k)
<1>1. PICK e : e = [W(j) EXCEPT !.at = s]
  OBVIOUS
<1>2. W(j) \in Worker /\ ToOf(j) = W(j).to
  BY WorkerType
<1>3. e \in Worker /\ e.at = s /\ e.to = ToOf(j)
  BY <1>1, <1>2 DEF Worker, Status
<1>4. work' = [work EXCEPT ![j[1]][j[2]] = e]
  BY <1>1 DEF Step, W
<1> QED
  BY <1>3, <1>4, Replaced

\* Facts about a worker that is as it was.
LEMMA Unmoved ==
  ASSUME NEW k \in Jobs, W(k)' = W(k)
  PROVE  At(k)' = At(k) /\ ToOf(k)' = ToOf(k)
BY DEF W, At, ToOf

\* Parked workers wake, dropped or not.
LEMMA Woken ==
  ASSUME WorkType, NEW t \in {"dropped", "stat"}, NEW yes \in BOOLEAN,
         work' = [o \in Ops |-> [i \in DOMAIN work[o] |->
                    IF yes /\ work[o][i].at = "parked"
                    THEN [work[o][i] EXCEPT !.at = t] ELSE work[o][i]]]
  PROVE  /\ WorkType'
         /\ \A k \in Jobs : \/ W(k)' = W(k)
                            \/ At(k) = "parked" /\ At(k)' = t /\ ToOf(k)' = ToOf(k)
<1>1. ASSUME NEW o \in Ops PROVE work'[o] \in [DOMAIN ListOf[o] -> Worker]
  <2>1. work[o] \in [DOMAIN ListOf[o] -> Worker]
    BY DEF WorkType
  <2>2. ASSUME NEW i \in DOMAIN ListOf[o]
        PROVE  (IF yes /\ work[o][i].at = "parked"
                THEN [work[o][i] EXCEPT !.at = t] ELSE work[o][i]) \in Worker
    <3>1. work[o][i] \in Worker
      BY <2>1
    <3> QED
      BY <3>1 DEF Worker, Busy, Final
  <2> QED
    BY <2>1, <2>2
<1>2. work' = [o \in Ops |-> work'[o]]
  OBVIOUS
<1>3. ASSUME NEW k \in Jobs
      PROVE  \/ W(k)' = W(k)
             \/ At(k) = "parked" /\ At(k)' = t /\ ToOf(k)' = ToOf(k)
  <2>1. k[1] \in Ops /\ k[2] \in DOMAIN ListOf[k[1]]
    BY JobType
  <2>2. DOMAIN work[k[1]] = DOMAIN ListOf[k[1]]
    BY <2>1 DEF WorkType
  <2>3. W(k) \in Worker /\ At(k) = W(k).at /\ ToOf(k) = W(k).to
    BY WorkerType
  <2>4. W(k)' = IF yes /\ W(k).at = "parked" THEN [W(k) EXCEPT !.at = t] ELSE W(k)
    BY <2>1, <2>2 DEF W
  <2>5. At(k)' = W(k)'.at /\ ToOf(k)' = W(k)'.to
    BY DEF At, ToOf, W
  <2> QED
    BY <2>3, <2>4, <2>5 DEF Worker
<1> QED
  BY <1>1, <1>2, <1>3 DEF WorkType

-----------------------------------------------------------------------------
(* What most steps keep                                                    *)

\* Nobody begins or ends, nobody takes from a queue, no abort is taken back, and
\* whoever is dropped is dropped by an abort.
LEMMA ControlKept ==
  ASSUME WorkType, WorkType', Control,
         \A o \in Ops : op'[o].at = op[o].at /\ op'[o].aborted = op[o].aborted,
         next' = next, hazards \subseteq hazards', isAborted => isAborted',
         \A k \in Jobs :
           \/ W(k)' = W(k)
           \/ /\ At(k) \in Busy /\ At(k)' \in (Busy \union Final) \ {"dead"}
              /\ At(k)' = "dropped" => isAborted'
  PROVE  Control'
<1> USE DEF Control
<1>1. ASSUME NEW k \in Jobs
      PROVE  /\ k[1] \in Ops
             /\ \/ At(k)' = At(k)
                \/ /\ At(k) \in Busy /\ At(k)' \in (Busy \union Final) \ {"dead"}
                   /\ At(k)' = "dropped" => isAborted'
             /\ op'[k[1]].at = op[k[1]].at /\ op'[k[1]].aborted = op[k[1]].aborted
  BY JobType, Unmoved
<1>2. Stages'
  BY <1>1 DEF Stages, Busy, Final, Holding, Counted
<1>3. InQueue'
  BY <1>1 DEF InQueue, Busy, Holding
<1>4. Dropped'
  <2>1. ASSUME NEW k \in Jobs, At(k)' = "dropped"
        PROVE  \/ "reset" \in hazards'
               \/ op'[k[1]].at = "copying" /\ isAborted'
               \/ op'[k[1]].at = "drained" /\ op'[k[1]].aborted
               \/ op'[k[1]].at \in Ended \ {"committed"}
    <3>1. CASE At(k) = "dropped"
      BY <1>1, <3>1 DEF Dropped
    <3>2. CASE At(k) \in Busy /\ isAborted'
      BY <1>1, <3>2 DEF Stages
    <3> QED
      BY <1>1, <2>1, <3>1, <3>2
  <2> QED
    BY <2>1 DEF Dropped
<1> QED
  BY <1>2, <1>3, <1>4

\* The folder is as it was, and whoever moved neither took nor left a name, or left
\* it with a part of a file in it.
LEMMA FolderKept ==
  ASSUME WorkType, WorkType', Folder,
         dest' = dest, index' = index, raced' = raced, left \subseteq left',
         unsure \subseteq unsure',
         \A k \in Jobs : \/ W(k)' = W(k)
                         \/ At(k)' \notin Holding \union {"copied", "skipped"},
         \A k \in Jobs : \/ W(k)' = W(k)
                         \/ At(k) \notin {"writing", "unlink"}
                         \/ \A n \in Names : dest[n] = Torn => n \in left'
  PROVE  Folder'
<1> USE DEF Folder
<1>1. ASSUME NEW k \in Jobs
      PROVE  /\ ToOf(k) \in Names
             /\ FileOf(k)' = FileOf(k)
             /\ \/ At(k)' = At(k) /\ ToOf(k)' = ToOf(k)
                \/ At(k)' \notin Holding \union {"copied", "skipped"}
             /\ \/ At(k)' = At(k) /\ ToOf(k)' = ToOf(k)
                \/ At(k) \notin {"writing", "unlink"}
                \/ \A n \in Names : dest[n] = Torn => n \in left'
  BY Unmoved, WorkerType DEF FileOf
<1>2. OneHolder'
  BY <1>1 DEF OneHolder
<1>3. Held'
  BY <1>1 DEF Held, Holding
<1>4. NothingTorn'
  <2>1. ASSUME NEW n \in Names, dest[n] = Torn
        PROVE  \/ n \in left' \union raced
               \/ \E j \in Jobs : At(j)' \in {"writing", "unlink"} /\ ToOf(j)' = n
    <3>1. CASE n \in left \union raced
      BY <3>1
    <3>2. ASSUME NEW j \in Jobs, At(j) \in {"writing", "unlink"}, ToOf(j) = n
          PROVE  \/ n \in left'
                 \/ At(j)' \in {"writing", "unlink"} /\ ToOf(j)' = n
      BY <1>1, <2>1, <3>2
    <3> QED
      BY <2>1, <3>1, <3>2 DEF NothingTorn
  <2> QED
    BY <2>1 DEF NothingTorn
<1>5. IndexTrue'
  BY DEF IndexTrue
<1>6. ResultsAreTrue'
  BY <1>1 DEF ResultsAreTrue
<1> QED
  BY <1>2, <1>3, <1>4, <1>5, <1>6

\* An abort drops the parked, and nothing else.
LEMMA Aborts ==
  ASSUME IInv, AbortCopy
  PROVE  /\ WorkType' /\ isAborted' = TRUE /\ isPaused' = FALSE
         /\ \A k \in Jobs : \/ W(k)' = W(k)
                            \/ At(k) = "parked" /\ At(k)' = "dropped"
<1>1. WorkType /\ isPaused \in BOOLEAN
  BY DEF IInv, TypeOK, WorkType
<1>2. work' = [o \in Ops |-> [i \in DOMAIN work[o] |->
                 IF isPaused /\ work[o][i].at = "parked"
                 THEN [work[o][i] EXCEPT !.at = "dropped"] ELSE work[o][i]]]
  BY DEF AbortCopy
<1> QED
  BY <1>1, <1>2, Woken DEF AbortCopy

-----------------------------------------------------------------------------
(* The beginning                                                           *)

LEMMA InitInv ==
  ASSUME Init
  PROVE  IInv
<1> USE DEF Init
<1>1. WorkType
  <2>1. ASSUME NEW o \in Ops, NEW i \in DOMAIN ListOf[o]
        PROVE  Fresh(ListOf[o][i]) \in Worker
    <3>1. ListOf[o][i] \in Files
      BY ImportCopyConstants
    <3>2. NameOf[ListOf[o][i]] \in Names
      BY <3>1, ImportCopyConstants
    <3> QED
      BY <3>2 DEF Fresh, Worker
  <2> QED
    BY <2>1 DEF WorkType
<1>2. TypeOK
  <2>1. /\ op \in [Ops -> [at : Stage, aborted : BOOLEAN, lost : BOOLEAN]]
        /\ next \in [Ops -> Nat \ {0}] /\ index \in [Ops -> [Names -> Nat]]
    BY DEF Stage
  <2>2. dest \in [Names -> Files \union {Torn, None}]
    BY ImportCopyConstants
  <2> QED
    BY <1>1, <2>1, <2>2 DEF TypeOK, WorkType, Stage
<1>3. ASSUME NEW k \in Jobs
      PROVE  At(k) = "queued" /\ k[1] \in Ops
  BY JobType DEF At, Fresh
<1>4. Control
  BY <1>3 DEF Control, Stages, InQueue, Dropped, Busy, Holding, Ended
<1>5. Folder
  <2>1. \A n \in Names : dest[n] # Torn
    BY ImportCopyConstants
  <2> QED
    BY <1>3, <2>1 DEF Folder, OneHolder, Held, Holding, NothingTorn, IndexTrue, ResultsAreTrue
<1> QED
  BY <1>2, <1>4, <1>5 DEF IInv

-----------------------------------------------------------------------------
(* The transaction                                                         *)

LEMMA OpMoved ==
  ASSUME TypeOK, NEW o \in Ops, NEW s \in Stage, To(o, s)
  PROVE  /\ op' \in [Ops -> [at : Stage, aborted : BOOLEAN, lost : BOOLEAN]]
         /\ op'[o].at = s /\ op'[o].aborted = op[o].aborted
         /\ \A p \in Ops \ {o} : op'[p] = op[p]
BY DEF TypeOK, To, Stage

\* The workers are as they were; so are the facts about them.
LEMMA Idle ==
  ASSUME TypeOK, UNCHANGED work
  PROVE  /\ WorkType /\ WorkType'
         /\ \A k \in Jobs : /\ k[1] \in Ops /\ k[2] \in Nat \ {0}
                            /\ W(k)' = W(k) /\ At(k)' = At(k)
<1>1. WorkType /\ WorkType'
  BY DEF TypeOK, WorkType
<1>2. \A k \in Jobs : /\ k[1] \in Ops /\ k[2] \in Nat \ {0}
                      /\ W(k)' = W(k) /\ At(k)' = At(k)
  BY JobType DEF W, At
<1> QED
  BY <1>1, <1>2

\* One operation moves on and its workers fit where it is.
LEMMA ControlMoved ==
  ASSUME TypeOK, Control, UNCHANGED <<work, next>>, NEW o \in Ops,
         \A p \in Ops \ {o} : op'[p] = op[p],
         hazards \subseteq hazards',
         \/ isAborted => isAborted'
         \/ \A k \in Jobs : k[1] # o /\ At(k) = "dropped" /\ op[k[1]].at = "copying"
                              => "reset" \in hazards',
         \A k \in Jobs : k[1] = o =>
           /\ At(k) \in Busy => op'[o].at = "copying"
           /\ op'[o].at \in {"idle", "preparing", "indexing"} => At(k) = "queued"
           /\ op'[o].at \in {"drained", "metadata", "committed"} => At(k) \in Final
           /\ At(k) = "dead" => op'[o].at \in Ended \ {"committed"}
           /\ At(k) = "dropped" =>
                \/ "reset" \in hazards'
                \/ op'[o].at = "copying" /\ isAborted'
                \/ op'[o].at = "drained" /\ op'[o].aborted
                \/ op'[o].at \in Ended \ {"committed"}
  PROVE  Control'
<1> USE DEF Control
<1>1. \A k \in Jobs : k[1] \in Ops /\ At(k)' = At(k)
  BY Idle
<1>2. Stages'
  BY <1>1 DEF Stages
<1>3. InQueue'
  BY <1>1 DEF InQueue
<1>4. Dropped'
  <2>1. ASSUME NEW k \in Jobs, At(k) = "dropped", k[1] # o
        PROVE  \/ "reset" \in hazards'
               \/ op'[k[1]].at = "copying" /\ isAborted'
               \/ op'[k[1]].at = "drained" /\ op'[k[1]].aborted
               \/ op'[k[1]].at \in Ended \ {"committed"}
    <3>1. op'[k[1]] = op[k[1]]
      BY <1>1, <2>1
    <3> QED
      BY <2>1, <3>1 DEF Dropped
  <2> QED
    BY <1>1, <2>1 DEF Dropped
<1> QED
  BY <1>2, <1>3, <1>4

\* The folder and its workers are as they were.
LEMMA FolderIdle ==
  ASSUME TypeOK, Folder, UNCHANGED <<work, dest, index, raced, unsure>>, left \subseteq left'
  PROVE  Folder'
BY Idle, FolderKept

LEMMA BeginInv ==
  ASSUME IInv, NEW o \in Ops, Begin(o)
  PROVE  IInv'
<1> USE DEF IInv
<1>1. PICK s \in {"rolledback", "preparing"} : To(o, s)
  BY DEF Begin
<1>2. /\ op' \in [Ops -> [at : Stage, aborted : BOOLEAN, lost : BOOLEAN]]
      /\ op'[o].at = s /\ \A p \in Ops \ {o} : op'[p] = op[p]
  BY <1>1, OpMoved DEF Stage, Ended
<1>3. UNCHANGED <<next, work, index, dest, isPaused, isAborted, gone, faults, raced, left, unsure, hazards>>
  BY DEF Begin, flagVars, histVars
<1>4. TypeOK'
  BY <1>2, <1>3 DEF TypeOK, Begin, Stage
<1>5. \A k \in Jobs : k[1] = o => At(k) = "queued"
  BY DEF Control, Stages, Begin
<1>6. Control'
  BY <1>2, <1>3, <1>5, ControlMoved DEF Busy, Holding, Ended
<1> QED
  BY <1>3, <1>4, <1>6, FolderIdle

LEMMA StartInv ==
  ASSUME IInv, NEW o \in Ops, Start(o)
  PROVE  IInv'
<1> USE DEF IInv
<1>1. PICK s \in {"indexing", "copying"} : To(o, s)
  BY DEF Start
<1>2. /\ op' \in [Ops -> [at : Stage, aborted : BOOLEAN, lost : BOOLEAN]]
      /\ op'[o].at = s /\ \A p \in Ops \ {o} : op'[p] = op[p]
  BY <1>1, OpMoved DEF Stage
<1>3. UNCHANGED <<next, work, index, dest, running, active, gone, lock, faults, raced, left, unsure>>
  BY DEF Start, viewVars
<1>4. /\ isPaused' = FALSE /\ isAborted' = FALSE /\ hazards \subseteq hazards'
      /\ hazards' \subseteq hazards \union {"reset", "stranded"}
  BY DEF Start
<1>5. TypeOK'
  BY <1>2, <1>3, <1>4 DEF TypeOK, Stage
<1>6. \A k \in Jobs : k[1] = o => At(k) = "queued"
  BY DEF Control, Stages, Start
<1>7. ASSUME NEW k \in Jobs, k[1] # o, At(k) = "dropped", op[k[1]].at = "copying"
      PROVE  "reset" \in hazards'
  <2>1. k[1] \in Ops \ {o}
    BY <1>7, JobType
  <2>2. "reset" \in hazards \/ isAborted
    BY <1>7 DEF Control, Dropped, Ended
  <2> QED
    BY <1>7, <2>1, <2>2 DEF Start
<1>8. Control'
  BY <1>2, <1>3, <1>4, <1>6, <1>7, ControlMoved DEF Busy, Holding, Ended
<1> QED
  BY <1>3, <1>5, <1>8, FolderIdle

LEMMA NotPreparedInv ==
  ASSUME IInv, NEW o \in Ops, NotPrepared(o)
  PROVE  IInv'
<1> USE DEF IInv
<1>1. PICK s \in {"reported", "rolledback"} : To(o, s)
  BY DEF NotPrepared
<1>2. /\ op' \in [Ops -> [at : Stage, aborted : BOOLEAN, lost : BOOLEAN]]
      /\ op'[o].at = s /\ \A p \in Ops \ {o} : op'[p] = op[p]
  BY <1>1, OpMoved DEF Stage, Ended
<1>3. UNCHANGED <<next, work, index, dest, isPaused, isAborted, active, gone, raced, left, unsure, hazards>>
  BY DEF NotPrepared, flagVars, histVars
<1>4. TypeOK'
  <2>1. running' = FALSE /\ lock' \in {lock, None} /\ faults' \in Nat
    BY DEF NotPrepared, Fault, TypeOK
  <2> QED
    BY <1>2, <1>3, <2>1 DEF TypeOK, Stage
<1>5. \A k \in Jobs : k[1] = o => At(k) = "queued"
  BY DEF Control, Stages, NotPrepared
<1>6. Control'
  BY <1>2, <1>3, <1>5, ControlMoved DEF Busy, Holding, Ended
<1> QED
  BY <1>3, <1>4, <1>6, FolderIdle

\* The index of a Quick Import holds what is there.
LEMMA BuildDestIndexInv ==
  ASSUME IInv, NEW o \in Ops, BuildDestIndex(o)
  PROVE  IInv'
<1> USE DEF IInv
<1>1. To(o, "copying") /\ op[o].at = "indexing"
  BY DEF BuildDestIndex
<1>2. /\ op' \in [Ops -> [at : Stage, aborted : BOOLEAN, lost : BOOLEAN]]
      /\ op'[o].at = "copying" /\ \A p \in Ops \ {o} : op'[p] = op[p]
  BY <1>1, OpMoved DEF Stage
<1>3. /\ UNCHANGED <<next, work, dest, isPaused, isAborted, running, active, gone, lock>>
      /\ UNCHANGED <<raced, left, hazards>>
  BY DEF BuildDestIndex, flagVars, viewVars
<1>4. PICK found \in [Names -> {0} \union {SizeOf[f] : f \in Files}] :
        /\ \A n \in Names : found[n] \in {0} \union Sizes(n)
        /\ index' = [index EXCEPT ![o] = found]
        /\ unsure' = unsure \union {n \in Names : dest[n] = Torn /\ found[n] # 0}
        /\ faults' \in Nat
  <2>1. PICK found \in [Names -> {0} \union {SizeOf[f] : f \in Files}] :
          /\ \A n \in Names : found[n] \in {0} \union (IF n \in LookedUp(o) THEN Sizes(n) ELSE {})
          /\ index' = [index EXCEPT ![o] = found]
          /\ unsure' = unsure \union {n \in Names : dest[n] = Torn /\ found[n] # 0}
          /\ IF \A n \in LookedUp(o) : found[n] \in Sizes(n) THEN UNCHANGED faults ELSE Fault
    BY DEF BuildDestIndex
  <2>2. faults' \in Nat
    BY <2>1 DEF TypeOK, Fault
  <2>3. \A n \in Names : found[n] \in {0} \union Sizes(n)
    BY <2>1
  <2> QED
    BY <2>1, <2>2, <2>3
<1>5. \A n \in Names : /\ found[n] \in Nat
                       /\ found[n] # 0 => \/ n \in unsure'
                                          \/ dest[n] \in Files /\ SizeOf[dest[n]] = found[n]
  BY <1>4, ImportCopyConstants DEF Sizes
<1>6. /\ index' \in [Ops -> [Names -> Nat]]
      /\ \A p \in Ops, n \in Names : index'[p][n] = IF p = o THEN found[n] ELSE index[p][n]
  BY <1>4, <1>5 DEF TypeOK
<1>7. TypeOK'
  <2>1. unsure' \subseteq Names
    BY <1>4 DEF TypeOK
  <2> QED
    BY <1>2, <1>3, <1>4, <1>6, <2>1 DEF TypeOK, Stage
<1>8. \A k \in Jobs : k[1] = o => At(k) = "queued"
  BY <1>1 DEF Control, Stages
<1>9. Control'
  BY <1>2, <1>3, <1>8, ControlMoved DEF Busy, Holding, Ended
<1>10. (OneHolder /\ Held /\ NothingTorn /\ ResultsAreTrue)'
  BY <1>3, <1>4, Idle DEF Folder, OneHolder, Held, NothingTorn, ResultsAreTrue, ToOf, FileOf, At
<1>11. IndexTrue'
  BY <1>3, <1>4, <1>5, <1>6 DEF Folder, IndexTrue
<1> QED
  BY <1>7, <1>9, <1>10, <1>11 DEF Folder

\* What is left of an operation that drains is final; nobody died.
LEMMA DrainInv ==
  ASSUME IInv, NEW o \in Ops, Drain(o)
  PROVE  IInv'
<1> USE DEF IInv
<1>1. /\ op[o].at = "copying" /\ \A i \in DOMAIN work[o] : work[o][i].at \in Final
  BY DEF Drain
<1>2. /\ op' \in [Ops -> [at : Stage, aborted : BOOLEAN, lost : BOOLEAN]]
      /\ op'[o].at \in {"reported", "drained"} /\ op'[o].aborted = isAborted
      /\ \A p \in Ops \ {o} : op'[p] = op[p]
  BY DEF Drain, TypeOK, Stage, Ended
<1>3. /\ UNCHANGED <<next, work, index, dest, isPaused, isAborted, active, gone, lock, faults>>
      /\ UNCHANGED <<raced, left, unsure, hazards>>
  BY DEF Drain, flagVars, histVars
<1>4. TypeOK'
  <2>1. running' \in BOOLEAN
    BY DEF Drain, TypeOK
  <2> QED
    BY <1>2, <1>3, <2>1 DEF TypeOK, Stage
<1>5. ASSUME NEW k \in Jobs, k[1] = o
      PROVE  /\ At(k) \in Final \ {"dead"}
             /\ At(k) = "dropped" => "reset" \in hazards \/ isAborted
  <2>1. k[2] \in DOMAIN work[o]
    BY <1>5, JobType DEF TypeOK
  <2>2. At(k) \in Final
    BY <1>1, <1>5, <2>1 DEF At
  <2>3. At(k) # "dead"
    BY <1>1, <1>5 DEF Control, Stages, Ended
  <2>4. At(k) = "dropped" => "reset" \in hazards \/ isAborted
    BY <1>1, <1>5 DEF Control, Dropped, Ended
  <2> QED
    BY <2>2, <2>3, <2>4
<1>6. Control'
  BY <1>2, <1>3, <1>5, ControlMoved DEF Busy, Holding, Final, Counted, Ended
<1> QED
  BY <1>3, <1>4, <1>6, FolderIdle

LEMMA FinishInv ==
  ASSUME IInv, NEW o \in Ops, Finish(o)
  PROVE  IInv'
<1> USE DEF IInv
<1>1. PICK s \in {"rolledback", "committed", "metadata"} :
        To(o, s) /\ (s # "rolledback" => ~op[o].aborted)
  BY DEF Finish
<1>2. /\ op' \in [Ops -> [at : Stage, aborted : BOOLEAN, lost : BOOLEAN]]
      /\ op'[o].at = s /\ op'[o].aborted = op[o].aborted
      /\ \A p \in Ops \ {o} : op'[p] = op[p]
  BY <1>1, OpMoved DEF Stage, Ended
<1>3. UNCHANGED <<next, work, index, dest, isPaused, isAborted, active, gone, raced, left, unsure, hazards>>
  BY DEF Finish, flagVars, histVars
<1>4. TypeOK'
  <2>1. running' = FALSE /\ lock' \in {lock, None} /\ faults' \in Nat
    BY DEF Finish, Fault, TypeOK
  <2> QED
    BY <1>2, <1>3, <2>1 DEF TypeOK, Stage
<1>5. ASSUME NEW k \in Jobs, k[1] = o
      PROVE  /\ At(k) \in Final \ {"dead"}
             /\ At(k) = "dropped" => "reset" \in hazards \/ op[o].aborted
  <2>1. op[o].at = "drained"
    BY DEF Finish
  <2> QED
    BY <1>5, <2>1 DEF Control, Stages, Dropped, Ended
<1>6. Control'
  BY <1>1, <1>2, <1>3, <1>5, ControlMoved DEF Busy, Holding, Final, Counted, Ended
<1> QED
  BY <1>3, <1>4, <1>6, FolderIdle

LEMMA BatchCompleteInv ==
  ASSUME IInv, NEW o \in Ops, BatchComplete(o)
  PROVE  IInv'
<1> USE DEF IInv
<1>1. To(o, "committed") /\ op[o].at = "metadata"
  BY DEF BatchComplete
<1>2. /\ op' \in [Ops -> [at : Stage, aborted : BOOLEAN, lost : BOOLEAN]]
      /\ op'[o].at = "committed" /\ \A p \in Ops \ {o} : op'[p] = op[p]
  BY <1>1, OpMoved DEF Stage, Ended
<1>3. /\ UNCHANGED <<next, work, index, dest, isPaused, isAborted, running, active, gone, faults>>
      /\ UNCHANGED <<raced, left, unsure, hazards>>
  BY DEF BatchComplete, flagVars, viewVars, histVars
<1>4. TypeOK'
  <2>1. lock' \in {lock, None}
    BY DEF BatchComplete
  <2> QED
    BY <1>2, <1>3, <2>1 DEF TypeOK, Stage
<1>5. ASSUME NEW k \in Jobs, k[1] = o
      PROVE  At(k) \in Final \ {"dead"} /\ (At(k) = "dropped" => "reset" \in hazards)
  BY <1>1, <1>5 DEF Control, Stages, Dropped, Ended
<1>6. Control'
  BY <1>2, <1>3, <1>5, ControlMoved DEF Busy, Holding, Final, Counted, Ended
<1> QED
  BY <1>3, <1>4, <1>6, FolderIdle

-----------------------------------------------------------------------------
(* Aborts and pauses                                                       *)

LEMMA HeartbeatFailsInv ==
  ASSUME IInv, NEW o \in Ops, HeartbeatFails(o)
  PROVE  IInv'
<1> USE DEF IInv
<1>1. /\ WorkType' /\ isAborted' = TRUE /\ isPaused' = FALSE
      /\ \A k \in Jobs : W(k)' = W(k) \/ (At(k) = "parked" /\ At(k)' = "dropped")
  BY Aborts DEF HeartbeatFails
<1>2. /\ op' \in [Ops -> [at : Stage, aborted : BOOLEAN, lost : BOOLEAN]]
      /\ \A p \in Ops : op'[p].at = op[p].at /\ op'[p].aborted = op[p].aborted
  BY DEF HeartbeatFails, TypeOK, Stage
<1>3. /\ UNCHANGED <<next, index, dest, running, active, gone, faults, raced, left, unsure>>
      /\ lock' = None /\ hazards \subseteq hazards' /\ hazards' \subseteq hazards \union {"stray"}
  BY DEF HeartbeatFails, viewVars
<1>4. WorkType
  BY DEF TypeOK, WorkType
<1>5. TypeOK'
  BY <1>1, <1>2, <1>3 DEF TypeOK, WorkType, Stage
<1>6. Control'
  BY <1>1, <1>2, <1>3, <1>4, ControlKept DEF Busy, Final
<1>7. Folder'
  BY <1>1, <1>3, <1>4, FolderKept DEF Holding
<1> QED
  BY <1>5, <1>6, <1>7

LEMMA CardDisconnectedInv ==
  ASSUME IInv, NEW o \in Ops, CardDisconnected(o)
  PROVE  IInv'
<1> USE DEF IInv
<1>1. /\ WorkType' /\ isAborted' = TRUE /\ isPaused' = FALSE
      /\ \A k \in Jobs : W(k)' = W(k) \/ (At(k) = "parked" /\ At(k)' = "dropped")
  BY Aborts DEF CardDisconnected
<1>3. /\ UNCHANGED <<op, next, index, dest, gone, lock, faults, raced, left, unsure>>
      /\ running' = FALSE /\ active' = None
      /\ hazards \subseteq hazards' /\ hazards' \subseteq hazards \union {"stray"}
  BY DEF CardDisconnected
<1>4. WorkType
  BY DEF TypeOK, WorkType
<1>5. TypeOK'
  BY <1>1, <1>3 DEF TypeOK, WorkType
<1>6. Control'
  BY <1>1, <1>3, <1>4, ControlKept DEF Busy, Final
<1>7. Folder'
  BY <1>1, <1>3, <1>4, FolderKept DEF Holding
<1> QED
  BY <1>5, <1>6, <1>7

\* The parked workers go on, or return when the copy was aborted.
LEMMA ResumeInv ==
  ASSUME IInv, Resume
  PROVE  IInv'
<1> USE DEF IInv
<1>1. PICK t \in {"dropped", "stat"} : t = IF isAborted THEN "dropped" ELSE "stat"
  OBVIOUS
<1>2. WorkType
  BY DEF TypeOK, WorkType
<1>3. work' = [o \in Ops |-> [i \in DOMAIN work[o] |->
                 IF TRUE /\ work[o][i].at = "parked"
                 THEN [work[o][i] EXCEPT !.at = t] ELSE work[o][i]]]
  BY <1>1 DEF Resume
<1>4. /\ WorkType'
      /\ \A k \in Jobs : W(k)' = W(k) \/ (At(k) = "parked" /\ At(k)' = t)
  BY <1>2, <1>3, Woken
<1>5. /\ UNCHANGED <<op, next, index, dest, isAborted, running, active, gone, lock, faults>>
      /\ UNCHANGED <<raced, left, unsure, hazards>> /\ isPaused' = FALSE
  BY DEF Resume, viewVars, histVars
<1>6. TypeOK'
  BY <1>4, <1>5 DEF TypeOK, WorkType
<1>7. \A k \in Jobs :
        \/ W(k)' = W(k)
        \/ /\ At(k) \in Busy /\ At(k)' \in (Busy \union Final) \ {"dead"}
           /\ At(k)' = "dropped" => isAborted'
  BY <1>1, <1>4, <1>5 DEF Busy, Final
<1>8. Control'
  BY <1>2, <1>4, <1>5, <1>7, ControlKept
<1>9. Folder'
  BY <1>2, <1>4, <1>5, FolderKept DEF Holding
<1> QED
  BY <1>6, <1>8, <1>9

LEMMA PauseInv ==
  ASSUME IInv, Pause \/ (\E s \in Cards : Pulled(s))
  PROVE  IInv'
<1> USE DEF IInv
<1>1. /\ UNCHANGED <<op, next, work, index, dest, isAborted, running, active, lock, faults>>
      /\ UNCHANGED <<raced, left, unsure, hazards>>
  BY DEF Pause, Pulled, flagVars, viewVars, histVars
<1>2. isPaused' \in BOOLEAN /\ gone' \subseteq Cards
  BY DEF Pause, Pulled, flagVars, TypeOK
<1>3. TypeOK'
  BY <1>1, <1>2 DEF TypeOK
<1>4. Control'
  BY <1>1, Idle, ControlKept
<1> QED
  BY <1>1, <1>3, <1>4, FolderIdle

-----------------------------------------------------------------------------
(* The worker                                                              *)

\* The engine takes a file that waits.
LEMMA TakeInv ==
  ASSUME IInv, NEW o \in Ops, Take(o)
  PROVE  IInv'
<1> USE DEF IInv
<1>1. PICK s \in {"dropped", "parked", "stat"} :
        Step(<<o, next[o]>>, s) /\ (s = "dropped" => isAborted)
  BY DEF Take
<1>2. op[o].at = "copying" /\ next[o] \in DOMAIN ListOf[o] /\ next' = [next EXCEPT ![o] = @ + 1]
  BY DEF Take
<1>3. PICK j \in Jobs : j = <<o, next[o]>>
  BY <1>2, JobMade
<1>4. WorkType
  BY DEF TypeOK, WorkType
<1>5. s \in Status
  BY DEF Status, Busy, Final
<1>6. /\ WorkType' /\ At(j)' = s
      /\ \A k \in Jobs \ {j} : W(k)' = W(k)
  BY <1>1, <1>3, <1>4, <1>5, Stepped
<1>7. /\ UNCHANGED <<op, index, dest, isPaused, isAborted, running, active, gone, lock, faults>>
      /\ UNCHANGED <<raced, left, unsure, hazards>>
  BY DEF Take, flagVars, viewVars, histVars
<1>8. \A p \in Ops : next[p] \in Nat \ {0} /\ next'[p] = IF p = o THEN next[p] + 1 ELSE next[p]
  BY <1>2 DEF TypeOK
<1>9. next' \in [Ops -> Nat \ {0}]
  BY <1>2, <1>8 DEF TypeOK
<1>10. TypeOK'
  BY <1>6, <1>7, <1>9 DEF TypeOK, WorkType
<1>11. j[1] = o /\ j[2] = next[o] /\ next[o] \in Nat
  BY <1>3, <1>8
<1>12. At(j) = "queued"
  <2>1. At(j) \in {"queued", "dead"}
    BY <1>11 DEF Control, InQueue
  <2> QED
    BY <1>2, <1>11, <2>1 DEF Control, Stages, Ended
<1>13. ASSUME NEW k \in Jobs
       PROVE  /\ k[1] \in Ops /\ k[2] \in Nat
              /\ (k # j => At(k)' = At(k))
              /\ (k # j /\ k[1] = o => k[2] # next[o])
  BY <1>3, <1>6, JobType, Unmoved
<1>14. Stages'
  BY <1>2, <1>6, <1>7, <1>11, <1>13 DEF Control, Stages, Busy, Final
<1>15. InQueue'
  <2>1. ASSUME NEW k \in Jobs, k[2] >= next'[k[1]]
        PROVE  At(k)' \in {"queued", "dead"}
    <3>1. k # j
      BY <1>8, <1>11, <2>1
    <3>2. k[2] >= next[k[1]]
      BY <1>8, <1>13, <2>1
    <3> QED
      BY <1>13, <3>1, <3>2 DEF Control, InQueue
  <2> QED
    BY <2>1 DEF InQueue
<1>16. Dropped'
  BY <1>1, <1>2, <1>6, <1>7, <1>11, <1>13 DEF Control, Dropped
<1>17. Folder'
  BY <1>4, <1>6, <1>7, <1>12, FolderKept DEF Holding
<1> QED
  BY <1>10, <1>14, <1>15, <1>16, <1>17 DEF Control

\* A step of one worker that is at work.
LEMMA WorkerControl ==
  ASSUME IInv, WorkType', NEW j \in Jobs, At(j) \in Busy,
         At(j)' \in (Busy \union Final) \ {"dead"}, At(j)' = "dropped" => isAborted,
         \A k \in Jobs \ {j} : W(k)' = W(k),
         UNCHANGED <<op, next, isAborted, hazards>>
  PROVE  Control'
<1>1. WorkType
  BY DEF IInv, TypeOK, WorkType
<1>2. \A k \in Jobs :
        \/ W(k)' = W(k)
        \/ /\ At(k) \in Busy /\ At(k)' \in (Busy \union Final) \ {"dead"}
           /\ At(k)' = "dropped" => isAborted'
  OBVIOUS
<1>3. Control
  BY DEF IInv
<1> QED
  BY <1>1, <1>2, <1>3, ControlKept

\* A worker that holds no name goes on to none, and is not done.
LEMMA FolderPassed ==
  ASSUME IInv, WorkType', NEW j \in Jobs, At(j) \notin {"writing", "unlink"},
         At(j)' \notin Holding \union {"copied", "skipped"},
         \A k \in Jobs \ {j} : W(k)' = W(k),
         UNCHANGED <<dest, index, raced, left, unsure>>
  PROVE  Folder'
<1>1. WorkType
  BY DEF IInv, TypeOK, WorkType
<1> QED
  BY <1>1, FolderKept DEF IInv

\* A file that is skipped has its size in the folder.
LEMMA FolderSkipped ==
  ASSUME IInv, WorkType', NEW j \in Jobs, At(j) \in {"stat", "resolve"},
         At(j)' = "skipped", ToOf(j)' = ToOf(j),
         \A k \in Jobs \ {j} : W(k)' = W(k),
         UNCHANGED <<dest, index, raced, left>>, unsure \subseteq unsure',
         \/ ToOf(j) \in raced \union unsure'
         \/ ToOf(j) # NameOf[FileOf(j)]
         \/ dest[ToOf(j)] \in Files /\ SizeOf[dest[ToOf(j)]] = SizeOf[FileOf(j)]
  PROVE  Folder'
<1> USE DEF IInv, Folder
<1>1. \A k \in Jobs : k # j => At(k)' = At(k) /\ ToOf(k)' = ToOf(k)
  BY Unmoved
<1>2. OneHolder'
  BY <1>1 DEF OneHolder, Holding
<1>3. Held'
  BY <1>1 DEF Held, FileOf
<1>4. NothingTorn'
  BY <1>1 DEF NothingTorn
<1>5. IndexTrue'
  BY DEF IndexTrue
<1>6. ResultsAreTrue'
  <2>1. \A k \in Jobs : FileOf(k)' = FileOf(k)
    BY DEF FileOf
  <2>2. \/ ToOf(j) \in raced \union unsure'
        \/ ToOf(j) # NameOf[FileOf(j)]
        \/ ~(\A f \in Files : SizeOf[f] = SizeOf[FileOf(j)] => f = FileOf(j))
        \/ dest[ToOf(j)] = FileOf(j)
    OBVIOUS
  <2> QED
    BY <1>1, <2>1, <2>2 DEF ResultsAreTrue
<1> QED
  BY <1>2, <1>3, <1>4, <1>5, <1>6

\* The folder changes only under the name of a worker that holds it: no other worker
\* is at that name, and no file was there but the one it could not verify.
LEMMA FolderMoved ==
  ASSUME IInv, WorkType', NEW j \in Jobs, At(j) \in {"copy", "writing", "unlink"},
         At(j)' \notin {"copied", "skipped"}, ToOf(j)' = ToOf(j),
         \A k \in Jobs \ {j} : W(k)' = W(k),
         NEW c \in Files \union {Torn, None},
         dest' = [dest EXCEPT ![ToOf(j)] = c],
         UNCHANGED <<index, raced, unsure>>, left \subseteq left',
         ToOf(j) \notin raced =>
           /\ At(j)' \in {"copy", "writing", "unlink"} =>
                c \notin Files \/ (At(j)' # "writing" /\ ToOf(j) \in unsure /\ c = FileOf(j))
           /\ At(j)' = "verify" => c = FileOf(j),
         c = Torn => ToOf(j) \in raced \union left' \/ At(j)' \in {"writing", "unlink"}
  PROVE  /\ Folder'
         /\ \A n \in Names : dest[n] \in Files =>
              dest'[n] = dest[n] \/ n \in raced \/ Unverified(n)
<1> USE DEF IInv, Folder
<1>1. /\ WorkType /\ dest \in [Names -> Files \union {Torn, None}]
      /\ raced \subseteq Names
  BY DEF TypeOK, WorkType
<1>2. /\ \A k \in Jobs : ToOf(k) \in Names
      /\ \A k \in Jobs : k # j => At(k)' = At(k) /\ ToOf(k)' = ToOf(k)
      /\ \A k \in Jobs : FileOf(k)' = FileOf(k)
  BY <1>1, WorkerType, Unmoved DEF FileOf
<1>3. \A n \in Names : dest'[n] = IF n = ToOf(j) THEN c ELSE dest[n]
  BY <1>1, <1>2
<1>4. \/ ToOf(j) \in raced \/ dest[ToOf(j)] \notin Files
      \/ /\ At(j) \in {"copy", "unlink"} /\ ToOf(j) \in unsure
         /\ dest[ToOf(j)] = FileOf(j)
  BY DEF Held
<1>5. \A n \in Names : dest[n] \in Files =>
        dest'[n] = dest[n] \/ n \in raced \/ (n \in unsure /\ n = ToOf(j) /\ Unverified(n))
  BY <1>3, <1>4 DEF Unverified
<1>6. OneHolder'
  BY <1>2 DEF OneHolder, Holding
<1>7. Held'
  <2>1. ASSUME NEW k \in Jobs, k # j, ToOf(k) \notin raced, At(k) \in Holding
        PROVE  dest'[ToOf(k)] = dest[ToOf(k)]
    <3>1. At(j) \in Holding
      BY DEF Holding
    <3>2. ToOf(k) # ToOf(j)
      BY <2>1, <3>1 DEF OneHolder
    <3> QED
      BY <1>2, <1>3, <3>2
  <2>2. ASSUME NEW k \in Jobs, k # j
        PROVE  \/ ToOf(k)' \in raced'
               \/ /\ At(k)' \in {"copy", "writing", "unlink"} =>
                       \/ dest'[ToOf(k)'] \notin Files
                       \/ /\ At(k)' # "writing" /\ ToOf(k)' \in unsure'
                          /\ dest'[ToOf(k)'] = FileOf(k)'
                  /\ At(k)' = "verify" => dest'[ToOf(k)'] = FileOf(k)'
    BY <1>2, <2>1, <2>2 DEF Held, Holding
  <2>3. dest'[ToOf(j)] = c
    BY <1>2, <1>3
  <2> QED
    BY <1>2, <2>2, <2>3 DEF Held
<1>8. NothingTorn'
  <2>1. ASSUME NEW n \in Names, dest'[n] = Torn
        PROVE  \/ n \in left' \union raced
               \/ \E k \in Jobs : At(k)' \in {"writing", "unlink"} /\ ToOf(k)' = n
    <3>1. CASE n = ToOf(j)
      BY <1>3, <2>1, <3>1
    <3>2. CASE n # ToOf(j)
      <4>1. \/ n \in left \union raced
            \/ \E k \in Jobs : At(k) \in {"writing", "unlink"} /\ ToOf(k) = n
        BY <1>3, <2>1, <3>2 DEF NothingTorn
      <4> QED
        BY <1>2, <3>2, <4>1
    <3> QED
      BY <3>1, <3>2
  <2> QED
    BY <2>1 DEF NothingTorn
<1>9. IndexTrue'
  BY <1>5 DEF IndexTrue
<1>10. ResultsAreTrue'
  <2>1. ASSUME NEW k \in Jobs, k # j, ToOf(k) \notin raced, dest[ToOf(k)] = FileOf(k),
               At(k) = "copied" \/ ToOf(k) \notin unsure
        PROVE  dest'[ToOf(k)] = FileOf(k)
    <3>1. FileOf(k) \in Files
      BY JobType
    <3>2. At(k) = "copied" => ToOf(k) # ToOf(j)
      BY <2>1 DEF OneHolder, Holding
    <3> QED
      BY <1>2, <1>5, <2>1, <3>1, <3>2
  <2> QED
    BY <1>2, <2>1 DEF ResultsAreTrue
<1> QED
  BY <1>5, <1>6, <1>7, <1>8, <1>9, <1>10

\* The types of a step of a worker.
LEMMA WorkerTypes ==
  ASSUME IInv, WorkType', dest' \in [Names -> Files \union {Torn, None}],
         faults' \in Nat, raced' \subseteq Names, left' \subseteq Names,
         unsure' \subseteq Names,
         UNCHANGED <<op, next, index, isPaused, isAborted, running, active, gone, lock, hazards>>
  PROVE  TypeOK'
BY DEF IInv, TypeOK, WorkType

LEMMA StatInv ==
  ASSUME IInv, NEW j \in Jobs, Stat(j)
  PROVE  IInv'
<1>1. PICK s \in {"skipped", "resolve", "error"} :
        /\ Step(j, s)
        /\ s = "skipped" => index[j[1]][NameOf[FileOf(j)]] = SizeOf[FileOf(j)]
  BY DEF Stat
<1>2. WorkType /\ s \in Status
  BY DEF IInv, TypeOK, WorkType, Status, Busy, Final, Counted
<1>3. /\ WorkType' /\ At(j)' = s /\ ToOf(j)' = ToOf(j)
      /\ \A k \in Jobs \ {j} : W(k)' = W(k)
  BY <1>1, <1>2, Stepped
<1>4. /\ At(j) = "stat" /\ faults' \in Nat
      /\ UNCHANGED <<op, next, index, dest, isPaused, isAborted, running, active, gone, lock>>
      /\ UNCHANGED <<raced, left, unsure, hazards>>
  BY DEF Stat, flagVars, viewVars, histVars, Fault, IInv, TypeOK
<1>5. TypeOK'
  <2>1. dest \in [Names -> Files \union {Torn, None}] /\ raced \subseteq Names
      /\ left \subseteq Names /\ unsure \subseteq Names
    BY DEF IInv, TypeOK
  <2> QED
    BY <1>3, <1>4, <2>1, WorkerTypes
<1>6. Control'
  BY <1>3, <1>4, WorkerControl DEF Busy, Final, Counted
<1>7. Folder'
  <2>1. CASE s = "skipped"
    <3>1. /\ j[1] \in Ops /\ FileOf(j) \in Files
          /\ NameOf[FileOf(j)] \in Names /\ SizeOf[FileOf(j)] # 0
      BY JobType, ImportCopyConstants
    <3>2. \/ NameOf[FileOf(j)] \in raced \union unsure
          \/ /\ dest[NameOf[FileOf(j)]] \in Files
             /\ SizeOf[dest[NameOf[FileOf(j)]]] = SizeOf[FileOf(j)]
      BY <1>1, <2>1, <3>1 DEF IInv, Folder, IndexTrue
    <3> QED
      BY <1>3, <1>4, <2>1, <3>2, FolderSkipped
  <2>2. CASE s # "skipped"
    BY <1>3, <1>4, <2>2, FolderPassed DEF Holding
  <2> QED
    BY <2>1, <2>2
<1> QED
  BY <1>5, <1>6, <1>7 DEF IInv

LEMMA SourceLostInv ==
  ASSUME IInv, NEW j \in Jobs, SourceLost(j)
  PROVE  IInv'
<1> USE DEF IInv
<1>1. WorkType
  BY DEF TypeOK, WorkType
<1>2. work' = [o \in Ops |-> [i \in DOMAIN work[o] |->
                 IF <<o, i>> = j \/ (isPaused /\ work[o][i].at = "parked")
                 THEN [work[o][i] EXCEPT !.at = "dropped"] ELSE work[o][i]]]
  BY DEF SourceLost
<1>3. ASSUME NEW o \in Ops PROVE work'[o] \in [DOMAIN ListOf[o] -> Worker]
  <2>1. work[o] \in [DOMAIN ListOf[o] -> Worker]
    BY <1>1 DEF WorkType
  <2>2. ASSUME NEW i \in DOMAIN ListOf[o]
        PROVE  [work[o][i] EXCEPT !.at = "dropped"] \in Worker
    <3>1. work[o][i] \in Worker
      BY <2>1
    <3> QED
      BY <3>1 DEF Worker, Busy, Final
  <2> QED
    BY <1>2, <2>1, <2>2
<1>4. WorkType'
  BY <1>2, <1>3 DEF WorkType
<1>5. ASSUME NEW k \in Jobs
      PROVE  W(k)' = W(k) \/ (At(k) \in {"stat", "parked"} /\ At(k)' = "dropped")
  <2>1. k[1] \in Ops /\ k[2] \in DOMAIN ListOf[k[1]] /\ k = <<k[1], k[2]>>
    BY JobType
  <2>2. DOMAIN work[k[1]] = DOMAIN ListOf[k[1]]
    BY <1>1, <2>1 DEF WorkType
  <2>3. W(k) \in Worker /\ At(k) = W(k).at
    BY <1>1, WorkerType
  <2>4. W(k)' = IF k = j \/ (isPaused /\ W(k).at = "parked")
                THEN [W(k) EXCEPT !.at = "dropped"] ELSE W(k)
    BY <1>2, <2>1, <2>2 DEF W
  <2>5. At(k)' = W(k)'.at
    BY DEF At, W
  <2>6. At(j) = "stat"
    BY DEF SourceLost
  <2> QED
    BY <2>3, <2>4, <2>5, <2>6 DEF Worker
<1>6. /\ isAborted' = TRUE /\ isPaused' = FALSE
      /\ hazards \subseteq hazards' /\ hazards' \subseteq hazards \union {"stray"}
      /\ UNCHANGED <<op, next, index, dest, running, active, gone, lock, faults, raced, left, unsure>>
  BY DEF SourceLost, viewVars
<1>7. TypeOK'
  BY <1>4, <1>6 DEF TypeOK, WorkType
<1>8. Control'
  BY <1>1, <1>4, <1>5, <1>6, ControlKept DEF Busy, Final
<1>9. Folder'
  BY <1>1, <1>4, <1>5, <1>6, FolderKept DEF Holding
<1> QED
  BY <1>7, <1>8, <1>9

\* The next name that is looked at, or an error when there is none.
LEMMA CandidateType ==
  ASSUME NEW f \in Files, NEW n \in Nat, n + 1 \in DOMAIN SuffixOf[NameOf[f]]
  PROVE  Candidate(f, n + 1) \in Names
<1>1. NameOf[f] \in Names
  BY ImportCopyConstants
<1>2. SuffixOf[NameOf[f]] \in Seq(Names)
  BY <1>1, ImportCopyConstants
<1> QED
  BY <1>2 DEF Candidate

\* A name that is found free and that another worker holds has two.
LEMMA ProbeInv ==
  ASSUME IInv, NEW j \in Jobs, Probe(j)
  PROVE  IInv'
<1>1. WorkType /\ W(j) \in Worker /\ ToOf(j) \in Names /\ W(j).to = ToOf(j) /\ At(j) = "resolve"
  BY WorkerType DEF IInv, TypeOK, WorkType, Probe
<1>2. /\ UNCHANGED <<op, next, index, dest, isPaused, isAborted, running, active, gone, lock>>
      /\ UNCHANGED <<left, hazards>>
  BY DEF Probe, flagVars, viewVars
<1>3. dest \in [Names -> Files \union {Torn, None}] /\ raced \subseteq Names
      /\ left \subseteq Names /\ unsure \subseteq Names /\ faults \in Nat
  BY DEF IInv, TypeOK
<1>4. FileOf(j) \in Files /\ \A k \in Jobs : FileOf(k)' = FileOf(k)
  BY JobType DEF FileOf
<1>5. CASE /\ dest[ToOf(j)] = None /\ Step(j, "copy") /\ UNCHANGED <<unsure, faults>>
           /\ raced' = raced \union
                (IF \E k \in Jobs \ {j} : At(k) \in Holding /\ ToOf(k) = ToOf(j)
                 THEN {ToOf(j)} ELSE {})
  <2>1. /\ WorkType' /\ At(j)' = "copy" /\ ToOf(j)' = ToOf(j)
        /\ \A k \in Jobs \ {j} : W(k)' = W(k)
    BY <1>1, <1>5, Stepped DEF Status, Busy, Holding
  <2>2. \A k \in Jobs : k # j => At(k)' = At(k) /\ ToOf(k)' = ToOf(k)
    BY <2>1, Unmoved
  <2>3. raced \subseteq raced' /\ raced' \subseteq Names
    BY <1>1, <1>3, <1>5
  <2>4. TypeOK'
    BY <1>2, <1>3, <1>5, <2>1, <2>3, WorkerTypes
  <2>5. Control'
    BY <1>1, <1>2, <2>1, WorkerControl DEF Busy, Holding
  <2>6. OneHolder'
    <3>1. ASSUME NEW k \in Jobs, k # j, At(k) \in Holding \union {"copied"}, ToOf(k) = ToOf(j)
          PROVE  ToOf(j) \in raced'
      <4>1. FileOf(k) # None
        BY JobType, ImportCopyConstants
      <4> QED
        BY <1>5, <2>3, <3>1, <4>1 DEF IInv, Folder, ResultsAreTrue
    <3> QED
      BY <2>1, <2>2, <2>3, <3>1 DEF IInv, Folder, OneHolder
  <2>7. Held'
    BY <1>2, <1>4, <1>5, <2>1, <2>2, <2>3, ImportCopyConstants DEF IInv, Folder, Held
  <2>8. NothingTorn'
    <3>1. ASSUME NEW k \in Jobs, At(k) \in {"writing", "unlink"}
          PROVE  At(k)' = At(k) /\ ToOf(k)' = ToOf(k)
      BY <1>1, <2>2, <3>1
    <3> QED
      BY <1>2, <2>3, <3>1 DEF IInv, Folder, NothingTorn
  <2>9. IndexTrue'
    BY <1>2, <1>5, <2>3 DEF IInv, Folder, IndexTrue
  <2>10. ResultsAreTrue'
    BY <1>2, <1>4, <1>5, <2>1, <2>2, <2>3 DEF IInv, Folder, ResultsAreTrue
  <2> QED
    BY <2>4, <2>5, <2>6, <2>7, <2>8, <2>9, <2>10 DEF IInv, Folder
<1>6. CASE /\ dest[ToOf(j)] # None /\ SizeOf[FileOf(j)] \in Sizes(ToOf(j))
           /\ Step(j, "skipped") /\ UNCHANGED <<raced, faults>>
           /\ unsure' = unsure \union (IF dest[ToOf(j)] = Torn THEN {ToOf(j)} ELSE {})
  <2>1. /\ WorkType' /\ At(j)' = "skipped" /\ ToOf(j)' = ToOf(j)
        /\ \A k \in Jobs \ {j} : W(k)' = W(k)
    BY <1>1, <1>6, Stepped DEF Status, Final, Counted
  <2>2. TypeOK'
    <3>1. unsure' \subseteq Names
      BY <1>1, <1>3, <1>6
    <3> QED
      BY <1>2, <1>3, <1>6, <2>1, <3>1, WorkerTypes
  <2>3. Control'
    BY <1>1, <1>2, <2>1, WorkerControl DEF Busy, Final, Counted
  <2>4. \/ ToOf(j) \in unsure'
        \/ dest[ToOf(j)] \in Files /\ SizeOf[dest[ToOf(j)]] = SizeOf[FileOf(j)]
    BY <1>1, <1>3, <1>4, <1>6, ImportCopyConstants DEF Sizes
  <2>5. Folder'
    BY <1>1, <1>2, <1>6, <2>1, <2>4, FolderSkipped
  <2> QED
    BY <2>2, <2>3, <2>5 DEF IInv
<1>7. CASE /\ UNCHANGED <<raced, unsure, faults>>
           /\ work' = [work EXCEPT ![j[1]][j[2]] =
                IF W(j).n + 1 \in DOMAIN SuffixOf[NameOf[FileOf(j)]]
                THEN [W(j) EXCEPT !.n = W(j).n + 1, !.to = Candidate(FileOf(j), W(j).n + 1)]
                ELSE [W(j) EXCEPT !.at = "error"]]
  <2>1. PICK e : e = IF W(j).n + 1 \in DOMAIN SuffixOf[NameOf[FileOf(j)]]
                     THEN [W(j) EXCEPT !.n = W(j).n + 1, !.to = Candidate(FileOf(j), W(j).n + 1)]
                     ELSE [W(j) EXCEPT !.at = "error"]
    OBVIOUS
  <2>2. W(j).n \in Nat /\ W(j).at = "resolve"
    BY <1>1 DEF Worker, W, At
  <2>3. e \in Worker /\ e.at \in {"resolve", "error"}
    <3>1. CASE W(j).n + 1 \in DOMAIN SuffixOf[NameOf[FileOf(j)]]
      <4>1. PICK c \in Names : c = Candidate(FileOf(j), W(j).n + 1)
        BY <1>4, <2>2, <3>1, CandidateType
      <4>2. e = [W(j) EXCEPT !.n = W(j).n + 1, !.to = c]
        BY <2>1, <3>1, <4>1
      <4>3. W(j).n + 1 \in Nat
        BY <2>2
      <4> QED
        BY <1>1, <2>2, <4>2, <4>3 DEF Worker
    <3>2. CASE W(j).n + 1 \notin DOMAIN SuffixOf[NameOf[FileOf(j)]]
      BY <1>1, <2>1, <3>2 DEF Worker, Final, Counted
    <3> QED
      BY <3>1, <3>2
  <2>4. /\ WorkType' /\ At(j)' \in {"resolve", "error"}
        /\ \A k \in Jobs \ {j} : W(k)' = W(k)
    BY <1>1, <1>7, <2>1, <2>3, Replaced
  <2>5. TypeOK'
    BY <1>2, <1>3, <1>7, <2>4, WorkerTypes
  <2>6. Control'
    BY <1>1, <1>2, <2>4, WorkerControl DEF Busy, Final, Counted
  <2>7. Folder'
    BY <1>1, <1>2, <1>7, <2>4, FolderPassed DEF Holding
  <2> QED
    BY <2>5, <2>6, <2>7 DEF IInv
<1>8. CASE Fault /\ Step(j, "error") /\ UNCHANGED <<raced, unsure>>
  <2>1. /\ WorkType' /\ At(j)' = "error"
        /\ \A k \in Jobs \ {j} : W(k)' = W(k)
    BY <1>1, <1>8, Stepped DEF Status, Final, Counted
  <2>2. faults' \in Nat
    BY <1>3, <1>8 DEF Fault
  <2>3. TypeOK'
    BY <1>2, <1>3, <1>8, <2>1, <2>2, WorkerTypes
  <2>4. Control'
    BY <1>1, <1>2, <2>1, WorkerControl DEF Busy, Final, Counted
  <2>5. Folder'
    BY <1>1, <1>2, <1>8, <2>1, FolderPassed DEF Holding
  <2> QED
    BY <2>3, <2>4, <2>5 DEF IInv
<1> QED
  <2>1. work[j[1]][j[2]] = W(j)
    BY DEF W
  <2> QED
    BY <1>1, <1>5, <1>6, <1>7, <1>8, <2>1 DEF Probe

\* No file of the folder goes, but under a raced name or by the worker that has just
\* copied it and could not verify it.
Kept == \A n \in Names : dest[n] \in Files =>
          dest'[n] = dest[n] \/ n \in raced \/ Unverified(n)

LEMMA CopyInv ==
  ASSUME IInv, NEW j \in Jobs, Copy(j)
  PROVE  IInv' /\ Kept
<1>1. WorkType /\ ToOf(j) \in Names /\ At(j) = "copy"
  BY WorkerType DEF IInv, TypeOK, WorkType, Copy
<1>2. /\ UNCHANGED <<op, next, index, isPaused, isAborted, running, active, gone, lock>>
      /\ UNCHANGED <<faults, raced, left, unsure, hazards>>
  BY DEF Copy, flagVars, viewVars, histVars
<1>3. dest \in [Names -> Files \union {Torn, None}] /\ raced \subseteq Names
      /\ left \subseteq Names /\ unsure \subseteq Names /\ faults \in Nat
  BY DEF IInv, TypeOK
<1>4. CASE isAborted /\ Step(j, "dropped") /\ UNCHANGED dest
  <2>1. /\ WorkType' /\ At(j)' = "dropped"
        /\ \A k \in Jobs \ {j} : W(k)' = W(k)
    BY <1>1, <1>4, Stepped DEF Status, Final
  <2>2. TypeOK'
    BY <1>2, <1>3, <1>4, <2>1, WorkerTypes
  <2>3. Control'
    BY <1>1, <1>2, <1>4, <2>1, WorkerControl DEF Busy, Holding, Final
  <2>4. Folder'
    BY <1>1, <1>2, <1>4, <2>1, FolderPassed DEF Holding
  <2> QED
    BY <1>4, <2>2, <2>3, <2>4 DEF IInv, Kept
<1>5. CASE \/ Step(j, "unlink") /\ UNCHANGED dest
           \/ Step(j, "writing") /\ dest' = [dest EXCEPT ![ToOf(j)] = Torn]
  <2>1. PICK s \in {"unlink", "writing"}, c \in Files \union {Torn, None} :
          /\ Step(j, s) /\ dest' = [dest EXCEPT ![ToOf(j)] = c]
          /\ c = Torn \/ (s = "unlink" /\ c = dest[ToOf(j)])
    BY <1>1, <1>3, <1>5
  <2>2. /\ WorkType' /\ At(j)' = s /\ ToOf(j)' = ToOf(j)
        /\ \A k \in Jobs \ {j} : W(k)' = W(k)
    BY <1>1, <2>1, Stepped DEF Status, Busy, Holding
  <2>3. dest' \in [Names -> Files \union {Torn, None}]
    BY <1>1, <1>3, <2>1
  <2>4. TypeOK'
    BY <1>2, <1>3, <2>2, <2>3, WorkerTypes
  <2>5. Control'
    BY <1>1, <1>2, <2>2, WorkerControl DEF Busy, Holding
  <2>6. ToOf(j) \notin raced =>
          c \notin Files \/ (s # "writing" /\ ToOf(j) \in unsure /\ c = FileOf(j))
    BY <1>1, <1>5, <2>1, ImportCopyConstants DEF IInv, Folder, Held
  <2>7. Folder' /\ Kept
    BY <1>1, <1>2, <2>1, <2>2, <2>6, FolderMoved DEF Kept
  <2> QED
    BY <2>4, <2>5, <2>7 DEF IInv
<1> QED
  BY <1>4, <1>5 DEF Copy

LEMMA WriteInv ==
  ASSUME IInv, NEW j \in Jobs, Write(j)
  PROVE  IInv' /\ Kept
<1>1. WorkType /\ ToOf(j) \in Names /\ At(j) = "writing" /\ FileOf(j) \in Files
  BY WorkerType, JobType DEF IInv, TypeOK, WorkType, Write
<1>2. /\ UNCHANGED <<op, next, index, isPaused, isAborted, running, active, gone, lock>>
      /\ UNCHANGED <<raced, left, unsure, hazards>>
  BY DEF Write, flagVars, viewVars, histVars
<1>3. dest \in [Names -> Files \union {Torn, None}] /\ raced \subseteq Names
      /\ left \subseteq Names /\ unsure \subseteq Names /\ faults' \in Nat
  BY DEF IInv, TypeOK, Write, Fault
<1>4. Written(j) \subseteq Files \union {Torn}
  BY JobType DEF Written
<1>5. PICK s \in {"verify", "unlink"}, c \in Files \union {Torn, None} :
        /\ Step(j, s) /\ dest' = [dest EXCEPT ![ToOf(j)] = c]
        /\ s = "verify" => c \in Written(j)
        /\ s = "unlink" => c = dest[ToOf(j)]
  <2>1. CASE Step(j, "unlink") /\ UNCHANGED dest
    <3>1. dest' = [dest EXCEPT ![ToOf(j)] = dest[ToOf(j)]] /\ dest[ToOf(j)] \in Files \union {Torn, None}
      BY <1>1, <1>3, <2>1
    <3> QED
      BY <2>1, <3>1
  <2>2. CASE Step(j, "verify") /\ \E c \in Written(j) : dest' = [dest EXCEPT ![ToOf(j)] = c]
    BY <1>4, <2>2
  <2> QED
    BY <2>1, <2>2 DEF Write
<1>6. /\ WorkType' /\ At(j)' = s /\ ToOf(j)' = ToOf(j)
      /\ \A k \in Jobs \ {j} : W(k)' = W(k)
  BY <1>1, <1>5, Stepped DEF Status, Busy, Holding
<1>7. dest' \in [Names -> Files \union {Torn, None}]
  BY <1>1, <1>3, <1>5
<1>8. TypeOK'
  BY <1>2, <1>3, <1>6, <1>7, WorkerTypes
<1>9. Control'
  BY <1>1, <1>2, <1>6, WorkerControl DEF Busy, Holding
<1>10. /\ ToOf(j) \notin raced => /\ s = "unlink" => c \notin Files
                                  /\ s = "verify" => c = FileOf(j)
       /\ c = Torn => ToOf(j) \in raced \/ s = "unlink"
  BY <1>1, <1>5, ImportCopyConstants DEF Written, IInv, Folder, Held
<1>11. Folder' /\ Kept
  BY <1>1, <1>2, <1>5, <1>6, <1>10, FolderMoved DEF Kept
<1> QED
  BY <1>8, <1>9, <1>11 DEF IInv

\* Under a name of its own a file has its size, and is unlinked only when it could
\* not be looked at.
LEMMA VerifyInv ==
  ASSUME IInv, NEW j \in Jobs, Verify(j)
  PROVE  IInv'
<1>1. WorkType /\ ToOf(j) \in Names /\ At(j) = "verify" /\ FileOf(j) \in Files
  BY WorkerType, JobType DEF IInv, TypeOK, WorkType, Verify
<1>2. /\ UNCHANGED <<op, next, index, dest, isPaused, isAborted, running, active, gone, lock>>
      /\ UNCHANGED <<raced, left, hazards>>
  BY DEF Verify, flagVars, viewVars
<1>3. dest \in [Names -> Files \union {Torn, None}] /\ raced \subseteq Names
      /\ left \subseteq Names /\ unsure \subseteq Names /\ faults \in Nat
  BY DEF IInv, TypeOK
<1>4. PICK s \in {"copied", "unlink"} :
        /\ Step(j, s)
        /\ \/ UNCHANGED unsure /\ (s = "unlink" => Sizes(ToOf(j)) \ {SizeOf[FileOf(j)]} # {})
           \/ unsure' = unsure \union {ToOf(j)} /\ s = "unlink"
        /\ faults' \in Nat
  BY <1>3 DEF Verify, Fault
<1>5. /\ WorkType' /\ At(j)' = s /\ ToOf(j)' = ToOf(j)
      /\ \A k \in Jobs \ {j} : W(k)' = W(k)
  BY <1>1, <1>4, Stepped DEF Status, Busy, Holding, Final, Counted
<1>6. TypeOK'
  <2>1. unsure' \subseteq Names
    BY <1>1, <1>3, <1>4
  <2> QED
    BY <1>2, <1>3, <1>4, <1>5, <2>1, WorkerTypes
<1>7. Control'
  BY <1>1, <1>2, <1>5, WorkerControl DEF Busy, Holding, Final, Counted
<1>8. /\ \A k \in Jobs : k # j => At(k)' = At(k) /\ ToOf(k)' = ToOf(k)
      /\ \A k \in Jobs : FileOf(k)' = FileOf(k)
  BY <1>5, Unmoved DEF FileOf
<1>9. /\ unsure \subseteq unsure'
      /\ \/ ToOf(j) \in raced
         \/ dest[ToOf(j)] = FileOf(j) /\ (s = "copied" \/ ToOf(j) \in unsure')
  BY <1>1, <1>4 DEF IInv, Folder, Held, Sizes
<1>10. OneHolder'
  BY <1>1, <1>2, <1>5, <1>8 DEF IInv, Folder, OneHolder, Holding
<1>11. Held'
  BY <1>2, <1>5, <1>8, <1>9 DEF IInv, Folder, Held
<1>12. NothingTorn'
  BY <1>1, <1>2, <1>5, <1>8 DEF IInv, Folder, NothingTorn
<1>13. IndexTrue'
  BY <1>2, <1>9 DEF IInv, Folder, IndexTrue
<1>14. ResultsAreTrue'
  BY <1>2, <1>5, <1>8, <1>9 DEF IInv, Folder, ResultsAreTrue
<1> QED
  BY <1>6, <1>7, <1>10, <1>11, <1>12, <1>13, <1>14 DEF IInv, Folder

\* A failed attempt unlinks no file but the one its worker could not verify.
LEMMA UnlinkInv ==
  ASSUME IInv, NEW j \in Jobs, Unlink(j)
  PROVE  IInv' /\ Kept
<1>1. WorkType /\ W(j) \in Worker /\ W(j).to = ToOf(j) /\ ToOf(j) \in Names /\ At(j) = "unlink"
  BY WorkerType DEF IInv, TypeOK, WorkType, Unlink
<1>2. /\ UNCHANGED <<op, next, index, isPaused, isAborted, running, active, gone, lock>>
      /\ UNCHANGED <<raced, unsure, hazards>>
  BY DEF Unlink, flagVars, viewVars
<1>3. dest \in [Names -> Files \union {Torn, None}] /\ raced \subseteq Names
      /\ left \subseteq Names /\ unsure \subseteq Names
  BY DEF IInv, TypeOK
<1>4. faults' \in Nat
  BY DEF IInv, TypeOK, Unlink, Fault
<1>5. PICK c \in Files \union {Torn, None} :
        /\ dest' = [dest EXCEPT ![ToOf(j)] = c]
        /\ \/ c = None /\ left' = left
           \/ c = dest[ToOf(j)] /\ left' = left \union {ToOf(j)}
  <2>1. CASE UNCHANGED dest /\ left' = left \union {ToOf(j)}
    <3>1. dest' = [dest EXCEPT ![ToOf(j)] = dest[ToOf(j)]] /\ dest[ToOf(j)] \in Files \union {Torn, None}
      BY <1>1, <1>3, <2>1
    <3> QED
      BY <2>1, <3>1
  <2>2. CASE dest' = [dest EXCEPT ![ToOf(j)] = None] /\ left' = left
    BY <2>2
  <2> QED
    BY <2>1, <2>2 DEF Unlink
<1>6. PICK e1 : e1 = [W(j) EXCEPT !.at = IF W(j).tries < MaxRetries THEN "copy" ELSE "error"]
  OBVIOUS
<1>7. PICK e : e = [e1 EXCEPT !.tries = W(j).tries + 1]
  OBVIOUS
<1>8. e1 \in Worker /\ e1.at \in {"copy", "error"} /\ e1.to = ToOf(j)
  BY <1>1, <1>6 DEF Worker, Busy, Holding, Final, Counted
<1>9. W(j).tries + 1 \in Nat
  BY <1>1 DEF Worker
<1>10. e \in Worker /\ e.at \in {"copy", "error"} /\ e.to = ToOf(j)
  BY <1>7, <1>8, <1>9 DEF Worker
<1>11. work' = [work EXCEPT ![j[1]][j[2]] = e]
  BY <1>6, <1>7 DEF Unlink, NextTry, W
<1>12. /\ WorkType' /\ At(j)' \in {"copy", "error"} /\ ToOf(j)' = ToOf(j)
       /\ \A k \in Jobs \ {j} : W(k)' = W(k)
  BY <1>1, <1>10, <1>11, Replaced
<1>13. dest' \in [Names -> Files \union {Torn, None}] /\ left' \subseteq Names
  BY <1>1, <1>3, <1>5
<1>14. TypeOK'
  BY <1>2, <1>3, <1>4, <1>12, <1>13, WorkerTypes
<1>15. Control'
  BY <1>1, <1>2, <1>12, WorkerControl DEF Busy, Holding, Final, Counted
<1>16. /\ ToOf(j) \notin raced => c \notin Files \/ (ToOf(j) \in unsure /\ c = FileOf(j))
       /\ c = Torn => ToOf(j) \in left'
       /\ left \subseteq left'
  BY <1>1, <1>5, ImportCopyConstants DEF IInv, Folder, Held
<1>17. Folder' /\ Kept
  BY <1>1, <1>2, <1>5, <1>12, <1>16, FolderMoved DEF Kept
<1> QED
  BY <1>14, <1>15, <1>17 DEF IInv

-----------------------------------------------------------------------------
(* A crash                                                                 *)

LEMMA CrashInv ==
  ASSUME IInv, Crash
  PROVE  IInv'
<1> USE DEF IInv
<1>1. WorkType
  BY DEF TypeOK, WorkType
<1>2. /\ op' \in [Ops -> [at : Stage, aborted : BOOLEAN, lost : BOOLEAN]]
      /\ \A o \in Ops : IF op[o].at \in {"idle"} \union Ended THEN op'[o] = op[o]
                        ELSE op'[o].at = "crashed"
  <2>1. op' = [o \in Ops |-> IF op[o].at \in {"idle"} \union Ended THEN op[o]
                             ELSE [op[o] EXCEPT !.at = "crashed"]]
    BY DEF Crash
  <2> QED
    BY <2>1 DEF TypeOK, Stage, Ended
<1>3. work' = [o \in Ops |-> [i \in DOMAIN work[o] |->
                 IF op[o].at = "idle" \/ work[o][i].at \in Final THEN work[o][i]
                 ELSE [work[o][i] EXCEPT !.at = "dead"]]]
  BY DEF Crash
<1>4. ASSUME NEW o \in Ops PROVE work'[o] \in [DOMAIN ListOf[o] -> Worker]
  <2>1. work[o] \in [DOMAIN ListOf[o] -> Worker]
    BY <1>1 DEF WorkType
  <2>2. ASSUME NEW i \in DOMAIN ListOf[o]
        PROVE  work[o][i] \in Worker /\ [work[o][i] EXCEPT !.at = "dead"] \in Worker
    <3>1. work[o][i] \in Worker
      BY <2>1
    <3> QED
      BY <3>1 DEF Worker, Final
  <2> QED
    BY <1>3, <2>1, <2>2
<1>5. WorkType'
  BY <1>3, <1>4 DEF WorkType
<1>6. ASSUME NEW k \in Jobs
      PROVE  /\ k[1] \in Ops
             /\ \/ W(k)' = W(k) /\ At(k)' = At(k) /\ (op[k[1]].at = "idle" \/ At(k) \in Final)
                \/ At(k)' = "dead" /\ op[k[1]].at # "idle" /\ At(k) \notin Final
  <2>1. k[1] \in Ops /\ k[2] \in DOMAIN ListOf[k[1]]
    BY JobType
  <2>2. DOMAIN work[k[1]] = DOMAIN ListOf[k[1]]
    BY <1>1, <2>1 DEF WorkType
  <2>3. W(k) \in Worker /\ At(k) = W(k).at
    BY <1>1, WorkerType
  <2>4. W(k)' = IF op[k[1]].at = "idle" \/ W(k).at \in Final THEN W(k)
                ELSE [W(k) EXCEPT !.at = "dead"]
    BY <1>3, <2>1, <2>2 DEF W
  <2>5. At(k)' = W(k)'.at
    BY DEF At, W
  <2> QED
    BY <2>1, <2>3, <2>4, <2>5 DEF Worker
<1>7. /\ left' = left \union {n \in Names : dest[n] = Torn}
      /\ isPaused' = FALSE /\ isAborted' = FALSE /\ running' = FALSE /\ active' = None
      /\ lock' = None /\ faults' \in Nat
      /\ UNCHANGED <<next, index, dest, gone, raced, unsure, hazards>>
  BY DEF Crash, Fault, TypeOK
<1>8. TypeOK'
  BY <1>2, <1>5, <1>7 DEF TypeOK, WorkType, Stage
<1>9. Stages'
  <2>1. ASSUME NEW k \in Jobs
        PROVE  /\ At(k)' \notin Busy
               /\ op'[k[1]].at \in {"idle", "preparing", "indexing"} => At(k)' = "queued"
               /\ op'[k[1]].at \in {"drained", "metadata", "committed"} => At(k)' \in Final
               /\ At(k)' = "dead" => op'[k[1]].at \in Ended \ {"committed"}
    <3>1. CASE op[k[1]].at = "idle"
      <4>1. op'[k[1]].at = "idle" /\ At(k)' = "queued"
        BY <1>2, <1>6, <3>1 DEF Control, Stages
      <4> QED
        BY <4>1 DEF Busy, Holding
    <3>2. CASE op[k[1]].at \in Ended
      <4>1. op'[k[1]] = op[k[1]] /\ op[k[1]].at # "idle" /\ op[k[1]].at # "copying"
        BY <1>2, <1>6, <3>2 DEF Ended
      <4>2. At(k) \notin Busy /\ (op[k[1]].at = "committed" => At(k) \in Final)
            /\ (At(k) = "dead" => op[k[1]].at # "committed")
        BY <4>1 DEF Control, Stages
      <4>3. At(k)' \in Final
        BY <1>6, <4>1 DEF Final
      <4> QED
        BY <1>6, <3>2, <4>1, <4>2, <4>3 DEF Ended, Final, Counted, Busy, Holding
    <3>3. CASE op[k[1]].at \notin {"idle"} \union Ended
      <4>1. op'[k[1]].at = "crashed" /\ At(k)' \in Final
        BY <1>2, <1>6, <3>3 DEF Final
      <4> QED
        BY <4>1 DEF Ended, Final, Counted, Busy, Holding
    <3> QED
      BY <3>1, <3>2, <3>3
  <2> QED
    BY <2>1 DEF Stages
<1>10. InQueue'
  BY <1>6, <1>7 DEF Control, InQueue
<1>11. Dropped'
  <2>1. ASSUME NEW k \in Jobs, At(k)' = "dropped"
        PROVE  \/ "reset" \in hazards'
               \/ op'[k[1]].at \in Ended \ {"committed"}
    <3>1. At(k) = "dropped"
      BY <1>6, <2>1
    <3>2. CASE op[k[1]].at \in {"idle"} \union Ended
      <4>1. op'[k[1]] = op[k[1]]
        BY <1>2, <1>6, <3>2
      <4> QED
        BY <1>7, <3>1, <3>2, <4>1 DEF Control, Dropped, Ended
    <3>3. CASE op[k[1]].at \notin {"idle"} \union Ended
      <4>1. op'[k[1]].at = "crashed"
        BY <1>2, <1>6, <3>3
      <4> QED
        BY <4>1 DEF Ended
    <3> QED
      BY <3>2, <3>3
  <2> QED
    BY <2>1 DEF Dropped
<1>12. Folder'
  <2>1. \A k \in Jobs : W(k)' = W(k) \/ At(k)' \notin Holding \union {"copied", "skipped"}
    BY <1>6 DEF Holding
  <2>2. \A n \in Names : dest[n] = Torn => n \in left'
    BY <1>7
  <2>3. left \subseteq left'
    BY <1>7
  <2> QED
    BY <1>1, <1>5, <1>7, <2>1, <2>2, <2>3, FolderKept
<1> QED
  BY <1>8, <1>9, <1>10, <1>11, <1>12 DEF Control

-----------------------------------------------------------------------------
(* The theorems                                                            *)

LEMMA StutterInv ==
  ASSUME IInv, UNCHANGED vars
  PROVE  IInv'
<1>1. /\ UNCHANGED <<op, next, work, index, dest, isPaused, isAborted, running, active>>
      /\ UNCHANGED <<gone, lock, faults, raced, left, unsure, hazards>>
  BY DEF vars
<1>2. TypeOK'
  BY <1>1 DEF IInv, TypeOK
<1>3. Control'
  BY <1>1, Idle, ControlKept DEF IInv
<1>4. Folder'
  BY <1>1, FolderIdle DEF IInv
<1> QED
  BY <1>2, <1>3, <1>4 DEF IInv

LEMMA NextInv ==
  ASSUME IInv, [Next]_vars
  PROVE  IInv' /\ Kept
<1>1. ASSUME NEW o \in Ops,
             \/ Begin(o) \/ OpStep(o) \/ NotPrepared(o)
             \/ BatchComplete(o) \/ HeartbeatFails(o) \/ CardDisconnected(o)
      PROVE  IInv' /\ UNCHANGED dest
  <2>1. IInv'
    BY <1>1, BeginInv, StartInv, NotPreparedInv, BuildDestIndexInv, TakeInv, DrainInv,
       FinishInv, BatchCompleteInv, HeartbeatFailsInv, CardDisconnectedInv DEF OpStep
  <2>2. UNCHANGED dest
    BY <1>1 DEF OpStep, Begin, Start, BuildDestIndex, Take, Drain, Finish, NotPrepared,
       BatchComplete, HeartbeatFails, CardDisconnected
  <2> QED
    BY <2>1, <2>2
<1>2. ASSUME NEW j \in Jobs, Stat(j) \/ SourceLost(j) \/ Probe(j) \/ Verify(j)
      PROVE  IInv' /\ UNCHANGED dest
  <2>1. IInv'
    BY <1>2, StatInv, SourceLostInv, ProbeInv, VerifyInv
  <2>2. UNCHANGED dest
    BY <1>2 DEF Stat, SourceLost, Probe, Verify
  <2> QED
    BY <2>1, <2>2
<1>3. ASSUME NEW j \in Jobs, Copy(j) \/ Write(j) \/ Unlink(j)
      PROVE  IInv' /\ Kept
  BY <1>3, CopyInv, WriteInv, UnlinkInv
<1>4. ASSUME Pause \/ Resume \/ Crash \/ (\E s \in Cards : Pulled(s)) \/ UNCHANGED vars
      PROVE  IInv' /\ UNCHANGED dest
  <2>1. IInv'
    BY <1>4, PauseInv, ResumeInv, CrashInv, StutterInv
  <2>2. UNCHANGED dest
    BY <1>4 DEF Pause, Resume, Crash, Pulled, vars
  <2> QED
    BY <2>1, <2>2
<1>5. UNCHANGED dest => Kept
  BY DEF Kept
<1> QED
  BY <1>1, <1>2, <1>3, <1>4, <1>5 DEF Next, WorkerStep

\* The inductive invariant.
THEOREM Invariance == Spec => []IInv
<1>1. Init => IInv
  BY InitInv
<1>2. IInv /\ [Next]_vars => IInv'
  BY NextInv
<1> QED
  BY <1>1, <1>2, PTL DEF Spec

\* The types of ImportCopy's variables.
THEOREM TypeCorrect == Spec => []TypeOK
<1>1. IInv => TypeOK
  BY DEF IInv
<1> QED
  BY <1>1, Invariance, PTL

\* A part of a file is in the folder only while its worker is at it, or where a
\* crash, a failed unlink or two workers at one name left it (fileManager.js:627).
THEOREM NothingTornCorrect == Spec => []NothingTorn
<1>1. IInv => NothingTorn
  BY DEF IInv, Folder
<1> QED
  BY <1>1, Invariance, PTL

\* What an import reports as copied, or skipped for a file of its size, is in the
\* folder under the name it reports, but for raced names and, when it was skipped,
\* names where a part or an unverified copy was found (fileManager.js:136, 164).
THEOREM ResultsAreTrueCorrect == Spec => []ResultsAreTrue
<1>1. IInv => ResultsAreTrue
  BY DEF IInv, Folder
<1> QED
  BY <1>1, Invariance, PTL

\* An import that was aborted is not committed: each file of a committed one was
\* counted, unless another copy had reset the flags under it (main.js:1180).
THEOREM CommittedIsAccountedCorrect == Spec => []CommittedIsAccounted
<1>1. IInv => CommittedIsAccounted
  <2>1. ASSUME IInv, NEW j \in Jobs, op[j[1]].at \in {"metadata", "committed"}
        PROVE  At(j) \in Counted \/ "reset" \in hazards
    <3>1. At(j) \in Final /\ At(j) # "dead"
      BY <2>1 DEF IInv, Control, Stages, Ended
    <3>2. At(j) = "dropped" => "reset" \in hazards
      BY <2>1 DEF IInv, Control, Dropped, Ended
    <3> QED
      BY <3>1, <3>2 DEF Final
  <2> QED
    BY <2>1 DEF CommittedIsAccounted
<1> QED
  BY <1>1, Invariance, PTL

\* No file of the folder is replaced, cut or removed, under a name that two workers
\* did not both find free, but a copy by the worker that could not verify it.
THEOREM NothingOverwrittenCorrect == Spec => NothingOverwritten
<1>1. IInv /\ [Next]_vars =>
        [\A n \in Names : dest[n] \in Files =>
            dest'[n] = dest[n] \/ n \in raced \/ Unverified(n)]_vars
  BY NextInv DEF Kept
<1> QED
  BY <1>1, Invariance, PTL DEF Spec, NothingOverwritten

=============================================================================
