-------------------------- MODULE MetadataQueueProofs --------------------------
(***************************************************************************)
(* Proofs about MetadataQueue, for any batches, files, workers, handlers   *)
(* and crashes: no outcome is compacted away unsaved, a compacted batch    *)
(* has nothing left to write but a retry, and an event is "interrupted"    *)
(* only while one of its batches is there to resume.                       *)
(***************************************************************************)
EXTENDS MetadataQueue, FiniteSetTheorems, TLAPS

Status == {"off", "queued", "done"} \union Working
Stage  == {"off", "called", "scanning", "compacting"}
Handler == [stage : Stage, goal : SUBSET Batches, todo : SUBSET Batches,
            held : Batches \union {None}, view : Views,
            seen : SUBSET (Batches \X Files), old : BOOLEAN]
Resumption == [stage : {"due", "listed", "aborted", "over"}, todo : SUBSET Batches,
               batch : Batches \union {None}, left : SUBSET Files,
               goal : SUBSET Batches]
Kinds == {"early", "unjournaled", "unlisted", "overlap", "torn", "overtaken",
          "unsaved", "midway", "unread", "stuck", "unresumed"}

-----------------------------------------------------------------------------
(* Jobs                                                                    *)

LEMMA MemberType ==
  ASSUME NEW b \in Batches
  PROVE  /\ FilesOf[b] \in Seq(Files) /\ Member(b) \subseteq Files /\ Member(b) # {}
         /\ DOMAIN FilesOf[b] = 1 .. Len(FilesOf[b]) /\ Len(FilesOf[b]) \in Nat
<1>1. FilesOf[b] \in Seq(Files) /\ FilesOf[b] # <<>>
  BY MetadataQueueConstants
<1>2. /\ DOMAIN FilesOf[b] = 1 .. Len(FilesOf[b]) /\ Len(FilesOf[b]) \in Nat
      /\ \A i \in 1 .. Len(FilesOf[b]) : FilesOf[b][i] \in Files
  BY <1>1
<1>3. 1 \in 1 .. Len(FilesOf[b])
  BY <1>1, <1>2
<1>4. FilesOf[b][1] \in Member(b)
  BY <1>3 DEF Member
<1> QED
  BY <1>1, <1>2, <1>4 DEF Member

LEMMA TaskType ==
  ASSUME NEW t \in Tasks
  PROVE  /\ t[1] \in Batches
         /\ \/ t = Start(t[1]) /\ t[3] = 0
            \/ /\ t[2] \in Member(t[1]) /\ t[3] \in {1, 2}
               /\ t = <<t[1], t[2], t[3]>>
<1>1. PICK b \in Batches : t \in {Start(b)} \union ({b} \X Member(b) \X (1 .. 2))
  BY DEF Tasks
<1>2. CASE t = Start(b)
  BY <1>2 DEF Start
<1>3. CASE t \in {b} \X Member(b) \X (1 .. 2)
  BY <1>3
<1> QED
  BY <1>1, <1>2, <1>3

LEMMA TaskMade ==
  ASSUME NEW b \in Batches
  PROVE  /\ Start(b) \in Tasks /\ Start(b)[1] = b /\ Start(b)[2] = None /\ Start(b)[3] = 0
         /\ \A f \in Member(b), r \in {1, 2} :
              <<b, f, r>> \in Tasks /\ <<b, f, r>> # Start(b)
<1>1. Start(b) \in Tasks /\ Start(b)[1] = b /\ Start(b)[2] = None /\ Start(b)[3] = 0
  BY DEF Tasks, Start
<1>2. ASSUME NEW f \in Member(b), NEW r \in {1, 2}
      PROVE  <<b, f, r>> \in Tasks /\ <<b, f, r>> # Start(b)
  <2>1. <<b, f, r>> \in {b} \X Member(b) \X (1 .. 2)
    OBVIOUS
  <2> QED
    BY <2>1 DEF Tasks, Start
<1> QED
  BY <1>1, <1>2

\* Jobs that were off are appended to the queue.
LEMMA Appended ==
  ASSUME queue \in Seq(Tasks), InQueue, NEW jobs \in Seq(Tasks), queue' = queue \o jobs,
         \A i, j \in DOMAIN jobs : jobs[i] = jobs[j] => i = j,
         \A i \in DOMAIN jobs : at[jobs[i]] = "off" /\ at'[jobs[i]] = "queued",
         \A t \in Tasks : at[t] = "queued" => at'[t] = "queued"
  PROVE  queue' \in Seq(Tasks) /\ InQueue'
<1>1. /\ queue' \in Seq(Tasks)
      /\ Len(queue) \in Nat /\ Len(jobs) \in Nat /\ DOMAIN queue' = 1 .. Len(queue) + Len(jobs)
      /\ DOMAIN queue = 1 .. Len(queue) /\ DOMAIN jobs = 1 .. Len(jobs)
  OBVIOUS
<1>2. ASSUME NEW i \in DOMAIN queue'
      PROVE  \/ i \in DOMAIN queue /\ queue'[i] = queue[i]
             \/ i - Len(queue) \in DOMAIN jobs /\ queue'[i] = jobs[i - Len(queue)]
  BY <1>1
<1>3. \A i \in DOMAIN queue : queue[i] \in Tasks /\ at[queue[i]] = "queued"
  BY <1>1 DEF InQueue
<1>4. \A i \in DOMAIN queue' : at'[queue'[i]] = "queued"
  BY <1>2, <1>3
<1>5. ASSUME NEW i \in DOMAIN queue', NEW j \in DOMAIN queue', queue'[i] = queue'[j]
      PROVE  i = j
  <2>1. CASE i \in DOMAIN queue /\ j \in DOMAIN queue /\ queue'[i] = queue[i] /\ queue'[j] = queue[j]
    BY <1>5, <2>1 DEF InQueue
  <2>2. CASE /\ i - Len(queue) \in DOMAIN jobs /\ j - Len(queue) \in DOMAIN jobs
             /\ queue'[i] = jobs[i - Len(queue)] /\ queue'[j] = jobs[j - Len(queue)]
    <3>1. i - Len(queue) = j - Len(queue)
      BY <1>5, <2>2
    <3> QED
      BY <1>1, <3>1
  <2>3. ASSUME NEW k \in DOMAIN queue, NEW l \in DOMAIN jobs, queue[k] = jobs[l]
        PROVE  FALSE
    <3>1. at[queue[k]] = "queued" /\ at[jobs[l]] = "off"
      BY <1>3
    <3> QED
      BY <2>3, <3>1
  <2>4. CASE i \in DOMAIN queue /\ queue'[i] = queue[i]
    BY <1>2, <1>5, <2>1, <2>3, <2>4
  <2>5. CASE i - Len(queue) \in DOMAIN jobs /\ queue'[i] = jobs[i - Len(queue)]
    BY <1>2, <1>5, <2>2, <2>3, <2>5
  <2> QED
    BY <1>2, <2>4, <2>5
<1> QED
  BY <1>1, <1>4, <1>5 DEF InQueue

\* The first of the queue goes to a worker.
LEMMA Taken ==
  ASSUME queue \in Seq(Tasks), at \in [Tasks -> Status], InQueue, queue # <<>>, queue' = Tail(queue),
         at' = [at EXCEPT ![Head(queue)] = "running"]
  PROVE  queue' \in Seq(Tasks) /\ InQueue' /\ Head(queue) \in Tasks /\ at[Head(queue)] = "queued"
<1>1. /\ queue' \in Seq(Tasks) /\ Head(queue) = queue[1] /\ 1 \in DOMAIN queue
      /\ Head(queue) \in Tasks
      /\ \A i \in DOMAIN queue' : i \in Nat /\ i + 1 \in DOMAIN queue /\ queue'[i] = queue[i + 1]
                                  /\ i + 1 # 1
  OBVIOUS
<1>2. \A i \in DOMAIN queue' : queue'[i] # Head(queue) /\ at[queue'[i]] = "queued"
                               /\ queue'[i] \in Tasks
  BY <1>1 DEF InQueue
<1>3. ASSUME NEW i \in DOMAIN queue', NEW j \in DOMAIN queue', queue'[i] = queue'[j]
      PROVE  i = j
  <2>1. i + 1 = j + 1
    BY <1>1, <1>3 DEF InQueue
  <2> QED
    BY <1>1, <2>1
<1> QED
  BY <1>1, <1>2, <1>3 DEF InQueue

-----------------------------------------------------------------------------
(* What a step of a handler keeps                                          *)

LEMMA Setting ==
  ASSUME TypeOK, NEW p \in Handlers, NEW r \in Handler, Set(p, r)
  PROVE  /\ handler' \in [Handlers -> Handler] /\ handler'[p] = r
         /\ \A q \in Handlers \ {p} : handler'[q] = handler[q]
BY DEF TypeOK, Set, Handler, Stage

\* No batch comes into a hand.
LEMMA HandlerPool ==
  ASSUME Pool, UNCHANGED <<poolVars, resume, started>>,
         \A q \in Handlers : InHand(q)' \subseteq InHand(q),
         \A b \in Batches : manifest'[b] = manifest[b] \/ (manifest[b] # "none" /\ manifest'[b] # "none")
  PROVE  Pool'
<1> USE DEF Pool
<1>1. UNCHANGED <<status, queue, at, resume, started>>
  BY DEF poolVars
<1>2. InQueue' /\ Together'
  BY <1>1 DEF InQueue, Together
<1>3. \A b \in Batches : Alive(b)' = Alive(b)
  BY <1>1 DEF Alive
<1>4. \A b \in Batches : (manifest'[b] = "none") = (manifest[b] = "none")
  OBVIOUS
<1>5. Resumed' = Resumed
  BY <1>1 DEF Resumed
<1>6. Begun'
  <2>1. \A t \in Tasks : t[1] \in Batches
    BY TaskType
  <2> QED
    BY <1>1, <1>3, <1>4, <1>5, <2>1 DEF Begun
<1>7. First'
  BY <1>1, <1>4, <1>5 DEF First
<1> QED
  BY <1>2, <1>6, <1>7

\* What is compacted was in a hand.
LEMMA HandlerSettled ==
  ASSUME Settled, QuietWhenCompacted, UNCHANGED <<poolVars, resume>>, hazards \subseteq hazards',
         \A q \in Handlers : InHand(q)' \subseteq InHand(q),
         \A b \in Batches : manifest'[b] = "gone" =>
           manifest[b] = "gone" \/ \E q \in Handlers : b \in InHand(q)
  PROVE  Settled' /\ QuietWhenCompacted'
<1>1. UNCHANGED <<status, queue, at, resume>>
  BY DEF poolVars
<1>2. \A b \in Batches : Unfinished(b)' = Unfinished(b) /\ Alive(b)' = Alive(b)
  BY <1>1 DEF Unfinished, Alive
<1>3. Resumed' = Resumed
  BY <1>1 DEF Resumed
<1>4. /\ Short({"early", "overlap"})' => Short({"early", "overlap"})
      /\ Short({"overlap"})' => Short({"overlap"})
  BY DEF Short
<1>5. \A b : \A t \in Unfinished(b)' : t \in Unfinished(b)
  BY <1>1 DEF Unfinished
<1>6. Settled'
  <2>1. ASSUME Short({"early", "overlap"})', NEW q \in Handlers, NEW b \in InHand(q)',
               NEW t \in Unfinished(b)'
        PROVE  t[3] = 2
    <3>1. b \in InHand(q) /\ t \in Unfinished(b)
      BY <1>5
    <3> QED
      BY <1>4, <2>1, <3>1 DEF Settled
  <2>2. ASSUME Short({"overlap"})', NEW b \in Resumed'
        PROVE  ~Alive(b)'
    <3>1. Alive(b)' = Alive(b)
      BY <1>1 DEF Alive
    <3> QED
      BY <1>3, <1>4, <2>2, <3>1 DEF Settled
  <2> QED
    BY <2>1, <2>2 DEF Settled
<1>7. QuietWhenCompacted'
  BY <1>2, <1>4 DEF Settled, QuietWhenCompacted
<1> QED
  BY <1>6, <1>7

\* What is noted stays so.
LEMMA NotedKept ==
  ASSUME NEW b \in Batches, NEW f \in Files, Noted(b, f),
         hazards \subseteq hazards', known \subseteq known',
         \/ journal'[b][f] = journal[b][f] \/ journal'[b][f] \in Terminal
         \/ "stuck" \in hazards' /\ <<b, f>> \in known'
  PROVE  Noted(b, f)'
BY DEF Noted

\* The journals of active batches are as they were, or their outcomes were saved.
LEMMA HandlerJournaled ==
  ASSUME Journaled, UNCHANGED <<poolVars, resume>>, hazards \subseteq hazards',
         known \subseteq known', Active' \subseteq Active,
         \A b \in Active' : \/ journal'[b] = journal[b]
                            \/ /\ "stuck" \in hazards'
                               /\ Sound => {b} \X Member(b) \subseteq known',
         \A q \in Handlers : handler'[q].goal \subseteq handler[q].goal
  PROVE  Journaled'
<1>1. UNCHANGED <<at, resume>> /\ (Sound' => Sound)
  BY DEF poolVars, Sound, Short
<1>2. ASSUME Sound', NEW b \in Active', NEW f \in Member(b)
      PROVE  \/ Noted(b, f)'
             \/ /\ at'[<<b, f, 1>>] # "done"
                /\ \A p \in Handlers : b \notin handler'[p].goal
                /\ ~Passed(b, f)'
  <2>1. b \in Active /\ b \in Batches /\ f \in Files
    BY MemberType DEF Active
  <2>2. \/ journal'[b][f] = journal[b][f]
        \/ "stuck" \in hazards' /\ <<b, f>> \in known'
    BY <1>1, <1>2, <2>1
  <2>3. Noted(b, f) => Noted(b, f)'
    BY <2>1, <2>2, NotedKept
  <2>4. Passed(b, f)' => Passed(b, f)
    BY <1>1 DEF Passed
  <2> QED
    BY <1>1, <1>2, <2>1, <2>3, <2>4 DEF Journaled
<1>3. \A b \in Active' : Member(b)' = Member(b)
  BY DEF Member
<1> QED
  BY <1>2, <1>3 DEF Journaled

\* Retries follow compactions still.
LEMMA HandlerFollows ==
  ASSUME Follows, UNCHANGED poolVars, hazards \subseteq hazards',
         \A b \in Batches : manifest[b] = "gone" => manifest'[b] = "gone",
         \A q \in Handlers : handler'[q].stage = "compacting" /\ handler'[q].held # None
                               => manifest'[handler'[q].held] # "active" \/ "stuck" \in hazards'
  PROVE  Follows'
<1>1. at' = at /\ (Short({"midway"})' => Short({"midway"}))
  BY DEF poolVars, Short
<1>2. \A t \in Tasks : t[1] \in Batches
  BY TaskType
<1> QED
  BY <1>1, <1>2 DEF Follows

LEMMA LostKept ==
  ASSUME NothingLost, hazards \subseteq hazards', known \subseteq known',
         \A b \in Batches : manifest'[b] = "gone" => manifest[b] = "gone" \/ (Sound => {b} \X Member(b) \subseteq known')
  PROVE  NothingLost'
<1>1. Sound' => Sound
  BY DEF Sound, Short
<1>2. ASSUME NEW b \in Batches, manifest'[b] = "gone", Sound'
      PROVE  {b} \X Member(b) \subseteq known'
  BY <1>1, <1>2 DEF NothingLost, Sound
<1>3. \A b \in Batches : Member(b)' = Member(b)
  BY DEF Member
<1> QED
  BY <1>2, <1>3 DEF NothingLost, Sound

LEMMA OffType == Off \in Handler /\ Blank \in Views
<1>1. Blank \in Views
  BY DEF Blank, Views
<1> QED
  BY <1>1 DEF Off, Handler, Stage

LEMMA MergeType ==
  ASSUME TypeOK, NEW b \in Batches, NEW view \in Views
  PROVE  Merge(view, b) \in Views
<1>1. ASSUME NEW f \in Files
      PROVE  [rank |-> rank[b], outcome |-> Outcome(journal[b][f])]
               \in [rank : Nat, outcome : Terminal \union {"none", "interrupted"}]
  <2>1. rank[b] \in Nat /\ journal[b][f] \in Lines
    BY DEF TypeOK
  <2> QED
    BY <2>1 DEF Outcome, Lines
<1>2. \A f \in Files : view[f] \in [rank : Nat, outcome : Terminal \union {"none", "interrupted"}]
  BY DEF Views
<1> HIDE DEF Outcome
<1> QED
  BY <1>1, <1>2 DEF Merge, Views

\* A handler that only reads and remembers: its goal is as it was.
LEMMA Reading ==
  ASSUME IInv, NEW p \in Handlers, NEW r \in Handler, Set(p, r),
         UNCHANGED <<diskVars, poolVars, resume, historyVars>>,
         hazards \subseteq hazards', hazards' \subseteq Kinds,
         handler[p].stage # "compacting", r.stage = "scanning", r.goal = handler[p].goal,
         Sound' => \A b \in handler[p].goal \intersect Active :
           b \in r.todo \/ b = r.held \/ {b} \X Member(b) \subseteq r.seen \union known
  PROVE  IInv'
<1> USE DEF IInv, Safe
<1>1. /\ handler' \in [Handlers -> Handler] /\ handler'[p] = r
      /\ \A q \in Handlers \ {p} : handler'[q] = handler[q]
  BY Setting
<1>2. UNCHANGED <<manifest, rank, journal, recorded, status, queue, at, resume, started, crashes, known>>
  BY DEF diskVars, poolVars, historyVars
<1>3. TypeOK'
  BY <1>1, <1>2 DEF TypeOK, Handler, Stage, Kinds
<1>4. \A q \in Handlers : handler'[q].goal = handler[q].goal /\ InHand(q)' = InHand(q)
  BY <1>1 DEF InHand
<1>5. Active' = Active
  BY <1>2 DEF Active
<1>6. Pool'
  BY <1>2, <1>4, HandlerPool DEF poolVars
<1>7. Settled' /\ QuietWhenCompacted'
  BY <1>2, <1>4, HandlerSettled DEF poolVars
<1>8. Journaled'
  BY <1>2, <1>4, <1>5, HandlerJournaled DEF poolVars
<1>9. Follows'
  <2>1. \A q \in Handlers : handler'[q].stage = "compacting" => handler'[q] = handler[q]
    BY <1>1
  <2>2. \A q \in Handlers : handler'[q].stage = "compacting" /\ handler'[q].held # None
                              => manifest'[handler'[q].held] # "active" \/ "stuck" \in hazards'
    BY <1>2, <2>1 DEF Follows
  <2> QED
    BY <1>2, <2>2, HandlerFollows DEF poolVars
<1>10. NothingLost'
  BY <1>2, LostKept
<1>11. Carried'
  <2>1. Sound' => Sound
    BY DEF Sound, Short
  <2>2. \A b \in Active' : Member(b)' = Member(b)
    BY DEF Member
  <2>3. ASSUME Sound', NEW q \in Handlers, NEW b \in InHand(q)' \intersect Active'
        PROVE  /\ handler'[q].stage = "scanning" =>
                    b \in handler'[q].todo \/ b = handler'[q].held
                      \/ {b} \X Member(b) \subseteq handler'[q].seen \union known'
               /\ handler'[q].stage = "compacting" => {b} \X Member(b) \subseteq known'
    <3>1. CASE q = p
      <4>1. b \in handler[p].goal \intersect Active
        BY <1>1, <1>5, <2>3, <3>1 DEF InHand
      <4> QED
        BY <1>1, <1>2, <2>3, <3>1, <4>1
    <3>2. CASE q # p
      BY <1>1, <1>2, <1>4, <1>5, <2>1, <2>3, <3>2 DEF Carried
    <3> QED
      BY <3>1, <3>2
  <2> QED
    BY <2>2, <2>3 DEF Carried
<1> QED
  BY <1>3, <1>6, <1>7, <1>8, <1>9, <1>10, <1>11

\* A handler gives up.
LEMMA LetGoStep ==
  ASSUME IInv, NEW p \in Handlers, Set(p, Off), NEW why \in Kinds, Meet({why}),
         UNCHANGED <<diskVars, poolVars, resume, historyVars>>
  PROVE  IInv'
<1> USE DEF IInv, Safe
<1>1. /\ hazards \subseteq Kinds /\ Off \in Handler
      /\ Off.stage = "off" /\ Off.goal = {} /\ Off.held = None
  BY OffType DEF TypeOK, Kinds, Off
<1>2. /\ UNCHANGED <<manifest, rank, journal, recorded, status, queue, at, resume, started, crashes, known>>
      /\ Set(p, Off)
  BY DEF diskVars, poolVars, historyVars
<1>3. hazards \subseteq hazards' /\ hazards' \subseteq Kinds
  BY <1>1 DEF Meet
<1>4. /\ handler' \in [Handlers -> Handler] /\ handler'[p] = Off
      /\ \A q \in Handlers \ {p} : handler'[q] = handler[q]
  BY <1>1, <1>2, Setting
<1>5. TypeOK'
  BY <1>2, <1>3, <1>4 DEF TypeOK, Handler, Stage, Kinds
<1>6. \A q \in Handlers : InHand(q)' \subseteq InHand(q) /\ handler'[q].goal \subseteq handler[q].goal
  BY <1>1, <1>4 DEF InHand
<1>7. Active' = Active
  BY <1>2 DEF Active
<1>8. Pool'
  BY <1>2, <1>6, HandlerPool DEF poolVars
<1>9. Settled' /\ QuietWhenCompacted'
  BY <1>2, <1>3, <1>6, HandlerSettled DEF poolVars
<1>10. Journaled'
  BY <1>2, <1>3, <1>6, <1>7, HandlerJournaled DEF poolVars
<1>11. Follows'
  <2>1. \A q \in Handlers : handler'[q].stage = "compacting" /\ handler'[q].held # None
                              => manifest'[handler'[q].held] # "active" \/ "stuck" \in hazards'
    BY <1>1, <1>2, <1>3, <1>4 DEF Follows
  <2> QED
    BY <1>2, <1>3, <2>1, HandlerFollows DEF poolVars
<1>12. NothingLost'
  BY <1>2, <1>3, LostKept
<1>13. Carried'
  <2>1. Sound' => Sound
    BY <1>3 DEF Sound, Short
  <2>2. \A b \in Active' : Member(b)' = Member(b)
    BY DEF Member
  <2> QED
    BY <1>1, <1>2, <1>4, <1>6, <1>7, <2>1, <2>2 DEF Carried
<1> QED
  BY <1>5, <1>8, <1>9, <1>10, <1>11, <1>12, <1>13

LEMMA ListStep ==
  ASSUME IInv, NEW p \in Handlers, List(p)
  PROVE  IInv'
<1> DEFINE r == [handler[p] EXCEPT !.stage = "scanning", !.todo = Active]
<1>1. handler[p] \in Handler
  BY DEF IInv, TypeOK, Handler, Stage
<1>2. Active \subseteq Batches /\ hazards \subseteq Kinds
  BY DEF Active, IInv, TypeOK, Kinds
<1>3. /\ r \in Handler /\ r.stage = "scanning" /\ r.goal = handler[p].goal /\ r.todo = Active
  BY <1>1, <1>2 DEF Handler, Stage
<1>4. /\ Set(p, r) /\ handler[p].stage = "called"
      /\ UNCHANGED <<diskVars, poolVars, resume, historyVars, hazards>>
  BY DEF List
<1> HIDE DEF r
<1> QED
  BY <1>2, <1>3, <1>4, Reading

LEMMA ListFailsStep ==
  ASSUME IInv, NEW p \in Handlers, ListFails(p)
  PROVE  IInv'
<1>1. CASE Set(p, Off) /\ Meet({"unsaved"})
  BY <1>1, LetGoStep DEF ListFails, Kinds
<1>2. CASE /\ Set(p, [handler[p] EXCEPT !.stage = "scanning"])
           /\ Meet(When(Active # {}, "unread"))
  <2> DEFINE r == [handler[p] EXCEPT !.stage = "scanning"]
  <2>1. handler[p] \in Handler /\ hazards \subseteq Kinds
    BY DEF IInv, TypeOK, Handler, Stage, Kinds
  <2>2. r \in Handler /\ r.stage = "scanning" /\ r.goal = handler[p].goal
    BY <2>1 DEF Handler, Stage
  <2>3. /\ Set(p, r) /\ handler[p].stage = "called"
        /\ UNCHANGED <<diskVars, poolVars, resume, historyVars>>
    BY <1>2 DEF ListFails
  <2>4. hazards \subseteq hazards' /\ hazards' \subseteq Kinds
    BY <1>2, <2>1 DEF Meet, When, Kinds
  <2>5. Sound' => Active = {}
    BY <1>2 DEF Sound, Short, Meet, When
  <2> HIDE DEF r
  <2> QED
    BY <2>2, <2>3, <2>4, <2>5, Reading
<1> QED
  BY <1>1, <1>2 DEF ListFails

LEMMA ReadManifestFailsStep ==
  ASSUME IInv, NEW p \in Handlers, NEW b \in Batches, ReadManifestFails(p, b)
  PROVE  IInv'
<1> DEFINE r == [handler[p] EXCEPT !.todo = @ \ {b}]
<1>1. handler[p] \in Handler /\ hazards \subseteq Kinds
  BY DEF IInv, TypeOK, Handler, Stage, Kinds
<1>2. r \in Handler /\ r.stage = handler[p].stage /\ r.goal = handler[p].goal
  BY <1>1 DEF Handler, Stage
<1>3. /\ Set(p, r) /\ handler[p].stage = "scanning" /\ Meet({"unread"})
      /\ UNCHANGED <<diskVars, poolVars, resume, historyVars>>
  BY DEF ReadManifestFails
<1>4. hazards \subseteq hazards' /\ hazards' \subseteq Kinds /\ ~Sound'
  BY <1>1, <1>3 DEF Meet, Kinds, Sound, Short
<1> HIDE DEF r
<1> QED
  BY <1>2, <1>3, <1>4, Reading

\* Whatever is read as interrupted.
LEMMA UnreadType ==
  ASSUME TypeOK, NEW b \in Batches, NEW view \in Views
  PROVE  [f \in Files |-> IF f \in Member(b) /\ rank[b] >= view[f].rank
            THEN [rank |-> rank[b], outcome |-> "interrupted"] ELSE view[f]] \in Views
<1>1. rank[b] \in Nat
  BY DEF TypeOK
<1>2. \A f \in Files : view[f] \in [rank : Nat, outcome : Terminal \union {"none", "interrupted"}]
  BY DEF Views
<1> QED
  BY <1>1, <1>2 DEF Views

LEMMA ReadJournalFailsStep ==
  ASSUME IInv, NEW p \in Handlers, ReadJournalFails(p)
  PROVE  IInv'
<1> DEFINE b == handler[p].held
           v == [f \in Files |-> IF f \in Member(b) /\ rank[b] >= handler[p].view[f].rank
                   THEN [rank |-> rank[b], outcome |-> "interrupted"] ELSE handler[p].view[f]]
           r == [handler[p] EXCEPT !.held = None, !.view = v]
<1>1. handler[p] \in Handler /\ hazards \subseteq Kinds
  BY DEF IInv, TypeOK, Handler, Stage, Kinds
<1>2. /\ Set(p, r) /\ handler[p].stage = "scanning" /\ b # None /\ Meet({"unread"})
      /\ UNCHANGED <<diskVars, poolVars, resume, historyVars>>
  BY DEF ReadJournalFails
<1>3. v \in Views
  BY <1>1, <1>2, UnreadType DEF Handler, IInv
<1> HIDE DEF v
<1>4. r \in Handler /\ r.stage = handler[p].stage /\ r.goal = handler[p].goal
  BY <1>1, <1>3 DEF Handler, Stage
<1>5. hazards \subseteq hazards' /\ hazards' \subseteq Kinds /\ ~Sound'
  BY <1>1, <1>2 DEF Meet, Kinds, Sound, Short
<1> HIDE DEF r
<1> QED
  BY <1>2, <1>4, <1>5, Reading

LEMMA ReadManifestStep ==
  ASSUME IInv, NEW p \in Handlers, NEW b \in Batches, ReadManifest(p, b)
  PROVE  IInv'
<1> DEFINE r == [handler[p] EXCEPT !.todo = @ \ {b},
                               !.held = IF manifest[b] = "active" THEN b ELSE None]
<1>1. handler[p] \in Handler
  BY DEF IInv, TypeOK, Handler, Stage
<1>2. hazards \subseteq Kinds
  BY DEF IInv, TypeOK, Kinds
<1>3. /\ r \in Handler /\ r.stage = handler[p].stage /\ r.goal = handler[p].goal
      /\ r.todo = handler[p].todo \ {b} /\ r.seen = handler[p].seen
      /\ r.held = (IF manifest[b] = "active" THEN b ELSE None)
  BY <1>1 DEF Handler, Stage
<1>4. /\ Set(p, r) /\ handler[p].stage = "scanning" /\ handler[p].held = None
      /\ UNCHANGED <<diskVars, poolVars, resume, historyVars, hazards>>
  BY DEF ReadManifest
<1> HIDE DEF r
<1>5. ASSUME Sound, NEW c \in handler[p].goal \intersect Active
      PROVE  c \in r.todo \/ c = r.held \/ {c} \X Member(c) \subseteq r.seen \union known
  <2>1. c \in Batches /\ manifest[c] = "active" /\ c # None
    BY MetadataQueueConstants DEF Active
  <2>2. c \in handler[p].todo \/ c = handler[p].held
        \/ {c} \X Member(c) \subseteq handler[p].seen \union known
    BY <1>4, <1>5 DEF IInv, Safe, Carried, InHand
  <2> QED
    BY <1>3, <1>4, <2>1, <2>2
<1>6. Sound' => Sound
  BY <1>4 DEF Sound, Short
<1> QED
  BY <1>2, <1>3, <1>4, <1>5, <1>6, Reading

LEMMA ReadJournalStep ==
  ASSUME IInv, NEW p \in Handlers, ReadJournal(p)
  PROVE  IInv'
<1> DEFINE b == handler[p].held
           s == handler[p].seen \union {<<b, f>> : f \in {g \in Member(b) : journal[b][g] \in Terminal}}
           r == [handler[p] EXCEPT !.held = None, !.view = Merge(@, b), !.seen = s]
<1>1. handler[p] \in Handler /\ hazards \subseteq Kinds
  BY DEF IInv, TypeOK, Handler, Stage, Kinds
<1>2. handler[p].stage = "scanning" /\ b # None
  BY DEF ReadJournal
<1>3. b \in Batches
  BY <1>1, <1>2 DEF Handler
<1>4. s \subseteq Batches \X Files
  <2>1. Member(b) \subseteq Files
    BY <1>3, MemberType
  <2> HIDE DEF b
  <2> QED
    BY <1>1, <1>3, <2>1 DEF Handler
<1>5. Merge(handler[p].view, b) \in Views
  BY <1>1, <1>3, MergeType DEF Handler, IInv
<1>6. /\ r \in Handler /\ r.stage = handler[p].stage /\ r.goal = handler[p].goal
      /\ r.todo = handler[p].todo /\ r.seen = s
  <2> HIDE DEF s, b
  <2> QED
    BY <1>1, <1>4, <1>5 DEF Handler, Stage
<1>7. Set(p, r) /\ UNCHANGED <<diskVars, poolVars, resume, historyVars>>
  BY DEF ReadJournal
<1>8. hazards \subseteq hazards' /\ hazards' \subseteq Kinds
  BY <1>1 DEF ReadJournal, Meet, When, Kinds
<1>9. ASSUME Sound, NEW c \in handler[p].goal \intersect Active
      PROVE  c \in r.todo \/ c = r.held \/ {c} \X Member(c) \subseteq r.seen \union known
  <2>1. c \in handler[p].todo \/ c = handler[p].held
        \/ {c} \X Member(c) \subseteq handler[p].seen \union known
    BY <1>2, <1>9 DEF IInv, Safe, Carried, InHand
  <2>2. CASE c = b
    <3>1. \A f \in Member(c) : Noted(c, f)
      BY <1>9 DEF IInv, Safe, Journaled
    <3>2. {c} \X Member(c) \subseteq s \union known
      BY <2>2, <3>1 DEF Noted
    <3> QED
      BY <1>6, <3>2
  <2> HIDE DEF r
  <2> QED
    BY <1>6, <2>1, <2>2
<1>10. Sound' => Sound
  BY <1>8 DEF Sound, Short
<1> HIDE DEF r, s, b
<1> QED
  BY <1>2, <1>6, <1>7, <1>8, <1>9, <1>10, Reading

LEMMA PersistStep ==
  ASSUME IInv, NEW p \in Handlers, Persist(p)
  PROVE  IInv'
<1> USE DEF IInv, Safe
<1> DEFINE r == [Off EXCEPT !.stage = "compacting", !.goal = handler[p].goal]
<1>1. handler[p] \in Handler /\ hazards \subseteq Kinds /\ Off \in Handler /\ Off.held = None
  BY OffType DEF TypeOK, Handler, Stage, Kinds, Off
<1>2. r \in Handler /\ r.stage = "compacting" /\ r.goal = handler[p].goal /\ r.held = None
  BY <1>1 DEF Handler, Stage
<1>3. /\ handler[p].stage = "scanning" /\ handler[p].todo = {} /\ handler[p].held = None
      /\ recorded' = handler[p].view /\ known' = known \union handler[p].seen
      /\ handler' = [q \in Handlers |-> IF q = p THEN r
                      ELSE [handler[q] EXCEPT !.old = handler[q].stage = "scanning"]]
      /\ UNCHANGED <<manifest, rank, journal, status, queue, at, resume, started, crashes>>
  BY DEF Persist, poolVars
<1>4. hazards \subseteq hazards' /\ hazards' \subseteq Kinds
  BY <1>1 DEF Persist, Meet, When, Kinds
<1> HIDE DEF r
<1>5. ASSUME NEW q \in Handlers
      PROVE  /\ handler'[q] \in Handler /\ handler'[q].goal = handler[q].goal
             /\ q # p => /\ handler'[q].stage = handler[q].stage /\ handler'[q].held = handler[q].held
                         /\ handler'[q].todo = handler[q].todo /\ handler'[q].seen = handler[q].seen
             /\ q = p => handler'[q] = r
  <2>1. handler[q] \in Handler
    BY DEF TypeOK, Handler, Stage
  <2>2. CASE q = p
    BY <1>2, <1>3, <2>2
  <2>3. CASE q # p
    <3>1. handler'[q] = [handler[q] EXCEPT !.old = handler[q].stage = "scanning"]
      BY <1>3, <2>3
    <3>2. (handler[q].stage = "scanning") \in BOOLEAN
      OBVIOUS
    <3> QED
      BY <2>1, <2>3, <3>1, <3>2 DEF Handler
  <2> QED
    BY <2>2, <2>3
<1>6. TypeOK'
  <2>1. handler' \in [Handlers -> Handler]
    BY <1>3, <1>5
  <2>2. recorded' \in Views /\ known' \subseteq Batches \X Files
    BY <1>1, <1>3 DEF Handler, TypeOK
  <2> QED
    BY <1>3, <1>4, <2>1, <2>2 DEF TypeOK, Handler, Stage, Kinds
<1>7. \A q \in Handlers : InHand(q)' \subseteq InHand(q)
  BY <1>2, <1>5 DEF InHand
<1>8. Active' = Active
  BY <1>3 DEF Active
<1>9. Pool'
  BY <1>3, <1>7, HandlerPool DEF poolVars
<1>10. Settled' /\ QuietWhenCompacted'
  BY <1>3, <1>4, <1>7, HandlerSettled DEF poolVars
<1>11. Journaled'
  BY <1>3, <1>4, <1>5, <1>8, HandlerJournaled DEF poolVars
<1>12. Follows'
  <2>1. \A q \in Handlers : handler'[q].stage = "compacting" /\ handler'[q].held # None
                              => manifest'[handler'[q].held] # "active" \/ "stuck" \in hazards'
    BY <1>2, <1>3, <1>4, <1>5 DEF Follows
  <2> QED
    BY <1>3, <1>4, <2>1, HandlerFollows DEF poolVars
<1>13. NothingLost'
  BY <1>3, <1>4, LostKept
<1>14. Carried'
  <2>1. Sound' => Sound
    BY <1>4 DEF Sound, Short
  <2>2. \A b \in Active' : Member(b)' = Member(b)
    BY DEF Member
  <2>3. ASSUME Sound', NEW q \in Handlers, NEW b \in InHand(q)' \intersect Active'
        PROVE  /\ handler'[q].stage = "scanning" =>
                    b \in handler'[q].todo \/ b = handler'[q].held
                      \/ {b} \X Member(b) \subseteq handler'[q].seen \union known'
               /\ handler'[q].stage = "compacting" => {b} \X Member(b) \subseteq known'
    <3>1. b \in InHand(q) \intersect Active /\ b # None /\ Sound
      BY <1>7, <1>8, <2>1, <2>3, MetadataQueueConstants DEF Active
    <3>2. /\ handler[q].stage = "scanning" =>
                    b \in handler[q].todo \/ b = handler[q].held
                      \/ {b} \X Member(b) \subseteq handler[q].seen \union known
          /\ handler[q].stage = "compacting" => {b} \X Member(b) \subseteq known
      BY <3>1 DEF Carried
    <3>3. CASE q = p
      <4>1. {b} \X Member(b) \subseteq handler[p].seen \union known
        BY <1>3, <3>1, <3>2, <3>3
      <4> QED
        BY <1>2, <1>3, <1>5, <3>3, <4>1
    <3>4. CASE q # p
      BY <1>3, <1>5, <3>2, <3>4
    <3> QED
      BY <3>3, <3>4
  <2> QED
    BY <2>2, <2>3 DEF Carried
<1> QED
  BY <1>6, <1>9, <1>10, <1>11, <1>12, <1>13, <1>14

LEMMA PersistFailsStep ==
  ASSUME IInv, NEW p \in Handlers, PersistFails(p)
  PROVE  IInv'
BY LetGoStep DEF PersistFails, Kinds

LEMMA CompactFailsStep ==
  ASSUME IInv, NEW p \in Handlers, CompactFails(p)
  PROVE  IInv'
BY LetGoStep DEF CompactFails, Kinds

LEMMA CompactManifestStep ==
  ASSUME IInv, NEW p \in Handlers, NEW b \in Batches, CompactManifest(p, b)
  PROVE  IInv'
<1> USE DEF IInv, Safe
<1> DEFINE r == [handler[p] EXCEPT !.goal = @ \ {b}, !.held = b]
<1>1. handler[p] \in Handler /\ hazards \subseteq Kinds /\ b # None
  BY MetadataQueueConstants DEF TypeOK, Handler, Stage, Kinds
<1>2. /\ r \in Handler /\ r.stage = handler[p].stage /\ r.goal = handler[p].goal \ {b}
      /\ r.held = b
  BY <1>1 DEF Handler
<1>3. /\ handler[p].stage = "compacting" /\ handler[p].held = None /\ b \in handler[p].goal
      /\ manifest' = [manifest EXCEPT ![b] = IF @ = "active" THEN "gone" ELSE @]
      /\ Set(p, r)
      /\ UNCHANGED <<rank, journal, recorded, status, queue, at, resume, started, crashes, known, hazards>>
  BY DEF CompactManifest, poolVars, historyVars
<1> HIDE DEF r
<1>4. /\ handler' \in [Handlers -> Handler] /\ handler'[p] = r
      /\ \A q \in Handlers \ {p} : handler'[q] = handler[q]
  BY <1>2, <1>3, Setting
<1>5. /\ manifest' \in [Batches -> {"none", "active", "gone"}] /\ manifest'[b] # "active"
      /\ manifest[b] # "active" => manifest'[b] = manifest[b]
      /\ \A c \in Batches \ {b} : manifest'[c] = manifest[c]
      /\ manifest[b] = "active" => manifest'[b] = "gone"
  BY <1>3 DEF TypeOK
<1>6. TypeOK'
  BY <1>3, <1>4, <1>5 DEF TypeOK, Handler, Stage, Kinds
<1>7. \A q \in Handlers : InHand(q)' \subseteq InHand(q) /\ handler'[q].goal \subseteq handler[q].goal
  BY <1>1, <1>2, <1>3, <1>4 DEF InHand
<1>8. Active' = Active \ {b}
  BY <1>5 DEF Active
<1>9. b \in InHand(p)
  BY <1>3 DEF InHand
<1>10. Pool'
  <2>1. \A c \in Batches : manifest'[c] = manifest[c] \/ (manifest[c] # "none" /\ manifest'[c] # "none")
    BY <1>5
  <2> QED
    BY <1>3, <1>7, <2>1, HandlerPool DEF poolVars
<1>11. Settled' /\ QuietWhenCompacted'
  <2>1. \A c \in Batches : manifest'[c] = "gone" =>
           manifest[c] = "gone" \/ \E q \in Handlers : c \in InHand(q)
    BY <1>5, <1>9
  <2> QED
    BY <1>3, <1>7, <2>1, HandlerSettled DEF poolVars
<1>12. Journaled'
  BY <1>3, <1>7, <1>8, HandlerJournaled DEF poolVars
<1>13. Follows'
  <2>1. ASSUME NEW q \in Handlers, handler'[q].stage = "compacting", handler'[q].held # None
        PROVE  manifest'[handler'[q].held] # "active" \/ "stuck" \in hazards'
    <3>1. CASE q = p
      BY <1>2, <1>4, <1>5, <3>1
    <3>2. CASE q # p
      <4>1. handler'[q] = handler[q] /\ handler[q] \in Handler
        BY <1>4, <3>2 DEF TypeOK, Handler, Stage
      <4>2. handler[q].held \in Batches
        BY <2>1, <4>1 DEF Handler
      <4>3. manifest[handler[q].held] # "active" \/ "stuck" \in hazards
        BY <2>1, <4>1 DEF Follows
      <4> QED
        BY <1>3, <1>5, <4>1, <4>2, <4>3
    <3> QED
      BY <3>1, <3>2
  <2>2. \A c \in Batches : manifest[c] = "gone" => manifest'[c] = "gone"
    BY <1>5
  <2> QED
    BY <1>3, <2>1, <2>2, HandlerFollows DEF poolVars
<1>14. NothingLost'
  <2>1. b \in Active => (Sound => {b} \X Member(b) \subseteq known')
    BY <1>3, <1>9 DEF Carried
  <2>2. \A c \in Batches : manifest'[c] = "gone" =>
           manifest[c] = "gone" \/ (Sound => {c} \X Member(c) \subseteq known')
    BY <1>5, <2>1 DEF Active
  <2> QED
    BY <1>3, <2>2, LostKept
<1>15. Carried'
  <2>1. Sound' => Sound
    BY <1>3 DEF Sound, Short
  <2>2. \A c \in Active' : Member(c)' = Member(c)
    BY DEF Member
  <2>3. ASSUME Sound', NEW q \in Handlers, NEW c \in InHand(q)' \intersect Active'
        PROVE  /\ handler'[q].stage = "scanning" =>
                    c \in handler'[q].todo \/ c = handler'[q].held
                      \/ {c} \X Member(c) \subseteq handler'[q].seen \union known'
               /\ handler'[q].stage = "compacting" => {c} \X Member(c) \subseteq known'
    <3>1. CASE q = p
      BY <1>2, <1>3, <1>4, <1>7, <1>8, <2>1, <2>3, <3>1 DEF Carried
    <3>2. CASE q # p
      BY <1>3, <1>4, <1>7, <1>8, <2>1, <2>3, <3>2 DEF Carried
    <3> QED
      BY <3>1, <3>2
  <2> QED
    BY <2>2, <2>3 DEF Carried
<1> QED
  BY <1>6, <1>10, <1>11, <1>12, <1>13, <1>14, <1>15

LEMMA CompactManifestFailsStep ==
  ASSUME IInv, NEW p \in Handlers, NEW b \in Batches, CompactManifestFails(p, b)
  PROVE  IInv'
<1> USE DEF IInv, Safe
<1> DEFINE r == [handler[p] EXCEPT !.goal = @ \ {b}, !.held = b]
<1>1. handler[p] \in Handler /\ hazards \subseteq Kinds /\ b # None
  BY MetadataQueueConstants DEF TypeOK, Handler, Stage, Kinds
<1>2. /\ r \in Handler /\ r.stage = handler[p].stage /\ r.goal = handler[p].goal \ {b}
      /\ r.held = b
  BY <1>1 DEF Handler
<1>3. /\ handler[p].stage = "compacting" /\ handler[p].held = None /\ b \in handler[p].goal
      /\ Set(p, r) /\ hazards' = hazards \union {"stuck"}
      /\ UNCHANGED <<manifest, rank, journal, recorded, status, queue, at, resume, started,
                     crashes, known>>
  BY DEF CompactManifestFails, diskVars, poolVars, historyVars, Meet
<1> HIDE DEF r
<1>4. /\ handler' \in [Handlers -> Handler] /\ handler'[p] = r
      /\ \A q \in Handlers \ {p} : handler'[q] = handler[q]
  BY <1>2, <1>3, Setting
<1>5. hazards \subseteq hazards' /\ hazards' \subseteq Kinds /\ "stuck" \in hazards'
  BY <1>1, <1>3 DEF Kinds
<1>6. TypeOK'
  BY <1>3, <1>4, <1>5 DEF TypeOK, Handler, Stage, Kinds
<1>7. \A q \in Handlers : InHand(q)' \subseteq InHand(q) /\ handler'[q].goal \subseteq handler[q].goal
  BY <1>1, <1>2, <1>3, <1>4 DEF InHand
<1>8. Active' = Active
  BY <1>3 DEF Active
<1>9. Pool'
  BY <1>3, <1>7, HandlerPool DEF poolVars
<1>10. Settled' /\ QuietWhenCompacted'
  BY <1>3, <1>5, <1>7, HandlerSettled DEF poolVars
<1>11. Journaled'
  BY <1>3, <1>5, <1>7, <1>8, HandlerJournaled DEF poolVars
<1>12. Follows'
  BY <1>3, <1>5, HandlerFollows DEF poolVars
<1>13. NothingLost'
  BY <1>3, <1>5, LostKept
<1>14. Carried'
  <2>1. Sound' => Sound
    BY <1>5 DEF Sound, Short
  <2>2. \A c \in Active' : Member(c)' = Member(c)
    BY DEF Member
  <2> QED
    BY <1>2, <1>3, <1>4, <1>7, <1>8, <2>1, <2>2 DEF Carried
<1> QED
  BY <1>6, <1>9, <1>10, <1>11, <1>12, <1>13, <1>14

LEMMA CompactJournalStep ==
  ASSUME IInv, NEW p \in Handlers, CompactJournal(p)
  PROVE  IInv'
<1> USE DEF IInv, Safe
<1> DEFINE b == handler[p].held
           r == IF handler[p].goal = {} THEN Off ELSE [handler[p] EXCEPT !.held = None]
<1>1. handler[p] \in Handler /\ hazards \subseteq Kinds /\ Off \in Handler
  BY OffType DEF TypeOK, Handler, Stage, Kinds
<1>2. /\ r \in Handler /\ r.goal = handler[p].goal /\ r.held = None
      /\ r.stage \in {"off", handler[p].stage}
  BY <1>1 DEF Handler, Off
<1>3. /\ handler[p].stage = "compacting" /\ b # None
      /\ journal' = [journal EXCEPT ![b] = [f \in Files |-> "open"]] \/ journal' = journal
      /\ Set(p, r)
      /\ UNCHANGED <<manifest, rank, recorded, status, queue, at, resume, started, crashes, known, hazards>>
  BY DEF CompactJournal, poolVars, historyVars
<1>4. /\ b \in Batches /\ (b \notin Active \/ "stuck" \in hazards)
      /\ b \in Active => (Sound => {b} \X Member(b) \subseteq known)
  <2>1. b \in InHand(p)
    BY <1>3 DEF InHand
  <2> QED
    BY <1>1, <1>3, <2>1 DEF Handler, Follows, Active, Carried
<1> HIDE DEF r, b
<1>5. /\ handler' \in [Handlers -> Handler] /\ handler'[p] = r
      /\ \A q \in Handlers \ {p} : handler'[q] = handler[q]
  BY <1>2, <1>3, Setting
<1>6. TypeOK'
  <2>1. [f \in Files |-> "open"] \in [Files -> Lines]
    BY DEF Lines
  <2>2. journal' \in [Batches -> [Files -> Lines]]
    BY <1>3, <2>1 DEF TypeOK
  <2> QED
    BY <1>3, <1>5, <2>2 DEF TypeOK, Handler, Stage, Kinds
<1>7. \A q \in Handlers : InHand(q)' \subseteq InHand(q) /\ handler'[q].goal \subseteq handler[q].goal
  BY <1>2, <1>5 DEF InHand
<1>8. Active' = Active
  BY <1>3 DEF Active
<1>9. Pool'
  BY <1>3, <1>7, HandlerPool DEF poolVars
<1>10. Settled' /\ QuietWhenCompacted'
  BY <1>3, <1>7, HandlerSettled DEF poolVars
<1>11. Journaled'
  <2>1. \A c \in Active' : \/ journal'[c] = journal[c]
                             \/ /\ "stuck" \in hazards'
                                /\ Sound => {c} \X Member(c) \subseteq known'
    BY <1>3, <1>4, <1>8 DEF TypeOK, Active
  <2> QED
    BY <1>3, <1>7, <1>8, <2>1, HandlerJournaled DEF poolVars
<1>12. Follows'
  <2>1. \A q \in Handlers : handler'[q].stage = "compacting" /\ handler'[q].held # None
                              => manifest'[handler'[q].held] # "active" \/ "stuck" \in hazards'
    BY <1>2, <1>3, <1>5 DEF Follows
  <2> QED
    BY <1>3, <2>1, HandlerFollows DEF poolVars
<1>13. NothingLost'
  BY <1>3, LostKept
<1>14. Carried'
  <2>1. Sound' => Sound
    BY <1>3 DEF Sound, Short
  <2>2. \A c \in Active' : Member(c)' = Member(c)
    BY DEF Member
  <2>3. ASSUME Sound', NEW q \in Handlers, NEW c \in InHand(q)' \intersect Active'
        PROVE  /\ handler'[q].stage = "scanning" =>
                    c \in handler'[q].todo \/ c = handler'[q].held
                      \/ {c} \X Member(c) \subseteq handler'[q].seen \union known'
               /\ handler'[q].stage = "compacting" => {c} \X Member(c) \subseteq known'
    <3>1. CASE q = p
      BY <1>2, <1>3, <1>5, <1>7, <1>8, <2>1, <2>3, <3>1 DEF Carried
    <3>2. CASE q # p
      BY <1>3, <1>5, <1>7, <1>8, <2>1, <2>3, <3>2 DEF Carried
    <3> QED
      BY <3>1, <3>2
  <2> QED
    BY <2>2, <2>3 DEF Carried
<1> QED
  BY <1>6, <1>9, <1>10, <1>11, <1>12, <1>13, <1>14

-----------------------------------------------------------------------------
(* The resume                                                              *)

\* Nothing but the resume moves, and the journals it writes.
LEMMA Resuming ==
  ASSUME IInv, UNCHANGED <<manifest, rank, recorded, poolVars, handler, historyVars>>,
         hazards \subseteq hazards', hazards' \subseteq Kinds,
         resume' \in Resumption, journal' \in [Batches -> [Files -> Lines]],
         resume'.batch \in resume'.goal \union {None},
         Resumed' \subseteq Resumed \union Active,
         Short({"overlap"})' => \A b \in Resumed' : b \in Resumed \/ ~Alive(b),
         \A b \in Active : \A f \in Member(b) : Sound' =>
           \/ Noted(b, f)'
           \/ /\ journal'[b][f] = journal[b][f]
              /\ ~Passed(b, f)'
  PROVE  IInv'
<1> USE DEF IInv, Safe
<1>1. UNCHANGED <<manifest, rank, recorded, status, queue, at, handler, started, crashes, known>>
  BY DEF poolVars, historyVars
<1>2. TypeOK'
  BY <1>1 DEF TypeOK, Resumption, Kinds
<1>3. /\ Active' = Active /\ \A b : Unfinished(b)' = Unfinished(b)
      /\ \A b \in Batches : Alive(b)' = Alive(b) /\ Member(b)' = Member(b)
      /\ \A q : InHand(q)' = InHand(q)
  BY <1>1 DEF Active, Unfinished, Alive, InHand, Member
<1>4. \A b \in Resumed' : b \in Batches /\ (b \in Resumed \/ manifest[b] = "active")
  BY DEF Resumed, Resumption, Active
<1>5. Pool'
  <2> USE DEF Pool
  <2>1. InQueue' /\ Together'
    BY <1>1 DEF InQueue, Together
  <2>2. Begun'
    <3>1. \A t \in Tasks : t[1] \in Batches
      BY TaskType
    <3> QED
      BY <1>1, <1>3, <1>4, <3>1 DEF Begun
  <2>3. First'
    BY <1>1, <1>3, <1>4 DEF First
  <2> QED
    BY <2>1, <2>2, <2>3
<1>7. /\ Short({"early", "overlap"})' => Short({"early", "overlap"})
      /\ Short({"overlap"})' => Short({"overlap"})
      /\ Short({"midway"})' => Short({"midway"})
      /\ Sound' => Sound
  BY DEF Short, Sound
<1>8. Settled'
  <2>1. ASSUME Short({"early", "overlap"})', NEW q \in Handlers, NEW b \in InHand(q)',
               NEW t \in Unfinished(b)'
        PROVE  t[3] = 2
    <3>1. b \in InHand(q) /\ t \in Unfinished(b)
      BY <1>3
    <3> QED
      BY <1>7, <2>1, <3>1 DEF Settled
  <2>2. ASSUME Short({"overlap"})', NEW b \in Resumed'
        PROVE  ~Alive(b)'
    <3>1. b \in Batches /\ (b \in Resumed \/ ~Alive(b))
      BY <1>4, <2>2
    <3>2. \A c \in Resumed : ~Alive(c)
      BY <1>7, <2>2 DEF Settled
    <3>3. Alive(b)' = Alive(b)
      BY <1>1 DEF Alive
    <3> QED
      BY <3>1, <3>2, <3>3
  <2> QED
    BY <2>1, <2>2 DEF Settled
<1>9. QuietWhenCompacted'
  BY <1>1, <1>3, <1>7 DEF QuietWhenCompacted
<1>10. Follows'
  <2>1. \A t \in Tasks : t[1] \in Batches
    BY TaskType
  <2>2. Short({"midway"})' =>
          \A t \in Tasks : t[3] = 2 /\ at'[t] # "off" => manifest'[t[1]] = "gone"
    BY <1>1, <1>7, <2>1 DEF Follows
  <2>3. \A q \in Handlers : handler'[q].stage = "compacting" /\ handler'[q].held # None
                              => manifest'[handler'[q].held] # "active" \/ "stuck" \in hazards'
    BY <1>1 DEF Follows
  <2> QED
    BY <2>2, <2>3 DEF Follows
<1>11. Journaled'
  <2>1. ASSUME Sound', NEW b \in Active', NEW f \in Member(b)
        PROVE  \/ Noted(b, f)'
               \/ /\ at'[<<b, f, 1>>] # "done"
                  /\ \A p \in Handlers : b \notin handler'[p].goal
                  /\ ~Passed(b, f)'
    <3>1. Sound /\ b \in Active
      BY <1>3, <1>7, <2>1
    <3>2. \/ Noted(b, f)'
          \/ journal'[b][f] = journal[b][f] /\ ~Passed(b, f)'
      BY <2>1, <3>1
    <3>3. \/ Noted(b, f)
          \/ at[<<b, f, 1>>] # "done" /\ \A p \in Handlers : b \notin handler[p].goal
      BY <2>1, <3>1 DEF Journaled
    <3>4. journal'[b][f] = journal[b][f] /\ Noted(b, f) => Noted(b, f)'
      BY <1>1 DEF Noted
    <3> QED
      BY <1>1, <3>2, <3>3, <3>4
  <2>2. \A b \in Active' : Member(b)' = Member(b)
    BY DEF Member
  <2> QED
    BY <2>1, <2>2 DEF Journaled
<1>12. NothingLost'
  BY <1>1, LostKept
<1>13. Carried'
  <2>1. \A b \in Active' : Member(b)' = Member(b)
    BY DEF Member
  <2> QED
    BY <1>1, <1>3, <1>7, <2>1 DEF Carried
<1> QED
  BY <1>2, <1>5, <1>8, <1>9, <1>10, <1>11, <1>12, <1>13

LEMMA ResumeLists ==
  ASSUME IInv, Resume
  PROVE  IInv'
<1> USE DEF IInv, Safe
<1>1. /\ resume \in Resumption /\ hazards \subseteq Kinds /\ Active \subseteq Batches
      /\ journal \in [Batches -> [Files -> Lines]] /\ resume.batch \in resume.goal \union {None}
  BY DEF TypeOK, Resumption, Kinds, Active, Pool, Begun
<1>2. /\ resume' \in Resumption /\ resume'.todo = Active /\ resume'.goal = resume.goal
      /\ resume'.batch = resume.batch /\ resume'.left = resume.left
  BY <1>1 DEF Resume, Resumption
<1>3. /\ UNCHANGED <<manifest, rank, recorded, poolVars, handler, historyVars, journal>>
      /\ hazards \subseteq hazards' /\ hazards' \subseteq Kinds
      /\ Short({"overlap"})' => \A b \in Active : ~Alive(b)
  BY <1>1 DEF Resume, diskVars, Meet, When, Short, Kinds
<1>4. /\ Resumed' \subseteq Resumed \union Active
      /\ Short({"overlap"})' => \A b \in Resumed' : b \in Resumed \/ ~Alive(b)
  BY <1>2, <1>3 DEF Resumed
<1>5. ASSUME NEW b \in Active, NEW f \in Member(b), Sound'
      PROVE  \/ Noted(b, f)'
             \/ /\ journal'[b][f] = journal[b][f]
                /\ ~Passed(b, f)'
  <2>1. Sound
    BY <1>3, <1>5 DEF Sound, Short
  <2>2. Noted(b, f) \/ ~Passed(b, f)
    BY <1>5, <2>1 DEF Journaled
  <2>3. Noted(b, f) => Noted(b, f)'
    BY <1>3 DEF Noted, historyVars
  <2>4. resume'.stage = "listed" /\ resume.stage = "due"
    BY <1>1 DEF Resume, Resumption
  <2>5. Passed(b, f)' => Passed(b, f)
    BY <1>2, <2>4 DEF Passed
  <2> QED
    BY <1>3, <2>2, <2>3, <2>5
<1> QED
  BY <1>1, <1>2, <1>3, <1>4, <1>5, Resuming

\* A batch is passed over.
LEMMA PassedOver ==
  ASSUME IInv, NEW b \in Batches, resume' = [resume EXCEPT !.todo = @ \ {b}],
         UNCHANGED <<manifest, rank, recorded, poolVars, handler, historyVars, journal>>,
         hazards \subseteq hazards', hazards' \subseteq Kinds
  PROVE  IInv'
<1> USE DEF IInv, Safe
<1>1. /\ resume \in Resumption
      /\ journal \in [Batches -> [Files -> Lines]] /\ resume.batch \in resume.goal \union {None}
  BY DEF TypeOK, Resumption, Pool, Begun
<1>2. /\ resume' \in Resumption /\ resume'.todo = resume.todo \ {b} /\ resume'.batch = resume.batch
      /\ resume'.goal = resume.goal /\ resume'.left = resume.left /\ resume'.stage = resume.stage
  BY <1>1 DEF Resumption
<1>3. \A c \in Resumed' : c \in Resumed
  BY <1>2 DEF Resumed
<1>4. ASSUME NEW c \in Active, NEW f \in Member(c), Sound'
      PROVE  \/ Noted(c, f)'
             \/ /\ journal'[c][f] = journal[c][f]
                /\ ~Passed(c, f)'
  <2>1. Sound
    BY <1>4 DEF Sound, Short
  <2>2. Noted(c, f) \/ ~Passed(c, f)
    BY <1>4, <2>1 DEF Journaled
  <2>3. Noted(c, f) => Noted(c, f)'
    BY DEF Noted, historyVars
  <2>4. Passed(c, f)' => Passed(c, f)
    BY <1>2 DEF Passed
  <2> QED
    BY <2>2, <2>3, <2>4
<1> QED
  BY <1>1, <1>2, <1>3, <1>4, Resuming

LEMMA ResumeBatchStep ==
  ASSUME IInv, NEW b \in Batches, ResumeBatch(b)
  PROVE  IInv'
<1> USE DEF IInv, Safe
<1>1. /\ resume \in Resumption /\ hazards \subseteq Kinds
      /\ journal \in [Batches -> [Files -> Lines]] /\ resume.batch \in resume.goal \union {None}
  BY DEF TypeOK, Resumption, Kinds, Pool, Begun
<1>2. /\ UNCHANGED <<manifest, rank, recorded, poolVars, handler, historyVars, journal, hazards>>
      /\ resume.left = {} /\ b \in resume.todo
  BY DEF ResumeBatch, diskVars
<1>3. CASE manifest[b] = "active"
  <2>2. PICK open \in {{f \in Member(b) : journal[b][f] = "open"}, Member(b)} :
          resume' = [resume EXCEPT !.todo = @ \ {b}, !.batch = b, !.goal = @ \union {b},
                                   !.left = open]
    BY <1>3 DEF ResumeBatch
  <2>1. /\ open \subseteq Files
        /\ \A f \in Member(b) : f \notin open => journal[b][f] # "open"
    BY MemberType
  <2>3. /\ resume' \in Resumption /\ resume'.todo = resume.todo \ {b} /\ resume'.batch = b
        /\ resume'.goal = resume.goal \union {b} /\ resume'.left = open
    BY <1>1, <2>1, <2>2 DEF Resumption
  <2>4. \A c \in Resumed' : c \in Resumed
    BY <1>2, <2>3 DEF Resumed
  <2>5. ASSUME NEW c \in Active, NEW f \in Member(c), Sound'
        PROVE  \/ Noted(c, f)'
               \/ /\ journal'[c][f] = journal[c][f]
                  /\ ~Passed(c, f)'
    <3>1. Sound
      BY <1>2, <2>5 DEF Sound, Short
    <3>2. Noted(c, f) \/ ~Passed(c, f)
      BY <2>5, <3>1 DEF Journaled
    <3>3. Noted(c, f) => Noted(c, f)'
      BY <1>2 DEF Noted, historyVars
    <3>4. CASE c = b
      <4>1. journal[b][f] \in Lines
        BY <1>1, <2>5, <3>4, MemberType
      <4>2. Noted(b, f) \/ f \in open
        BY <2>1, <2>5, <3>4, <4>1 DEF Lines, Noted
      <4>3. f \in open => ~Passed(b, f)'
        BY <2>3 DEF Passed
      <4> QED
        BY <1>2, <3>3, <3>4, <4>2, <4>3
    <3>5. CASE c # b
      <4>1. Passed(c, f)' => Passed(c, f)
        BY <1>2, <2>2, <2>3, <3>5 DEF Passed, ResumeBatch
      <4> QED
        BY <1>2, <3>2, <3>3, <4>1
    <3> QED
      BY <3>4, <3>5
  <2> QED
    BY <1>1, <1>2, <2>3, <2>4, <2>5, Resuming
<1>4. CASE manifest[b] # "active"
  BY <1>1, <1>2, <1>4, PassedOver DEF ResumeBatch
<1> QED
  BY <1>3, <1>4

LEMMA ResumeFileStep ==
  ASSUME IInv, NEW f \in Files, ResumeFile(f)
  PROVE  IInv'
<1> USE DEF IInv, Safe
<1> DEFINE b == resume.batch
<1>1. /\ resume \in Resumption /\ hazards \subseteq Kinds
      /\ journal \in [Batches -> [Files -> Lines]] /\ resume.batch \in resume.goal \union {None}
  BY DEF TypeOK, Resumption, Kinds, Pool, Begun
<1>2. /\ UNCHANGED <<manifest, rank, recorded, poolVars, handler, historyVars>>
      /\ resume' = [resume EXCEPT !.left = @ \ {f}]
  BY DEF ResumeFile
<1>3. /\ resume' \in Resumption /\ resume'.todo = resume.todo /\ resume'.batch = b
      /\ resume'.goal = resume.goal /\ resume'.left = resume.left \ {f}
      /\ resume'.stage = resume.stage
  BY <1>1, <1>2 DEF Resumption
<1>4. \A c \in Resumed' : c \in Resumed
  BY <1>3 DEF Resumed
<1>5. \A c \in Active : c \in Batches /\ c # None
  BY MetadataQueueConstants DEF Active
<1>6. ASSUME NEW outcome \in Terminal, journal' = [journal EXCEPT ![b][f] = outcome],
             UNCHANGED hazards
      PROVE  IInv'
  <2>1. /\ journal' \in [Batches -> [Files -> Lines]]
        /\ \A c \in Batches : \A g \in Files :
             journal'[c][g] = IF c = b /\ g = f THEN outcome ELSE journal[c][g]
    BY <1>1, <1>6 DEF Lines
  <2>2. ASSUME NEW c \in Active, NEW g \in Member(c), Sound'
        PROVE  \/ Noted(c, g)'
               \/ /\ journal'[c][g] = journal[c][g]
                  /\ ~Passed(c, g)'
    <3>1. Sound /\ c \in Batches /\ g \in Files
      BY <1>5, <1>6, <2>2, MemberType DEF Sound, Short
    <3>2. CASE c = b /\ g = f
      BY <2>1, <3>1, <3>2 DEF Noted
    <3>3. CASE ~(c = b /\ g = f)
      <4>1. journal'[c][g] = journal[c][g]
        BY <2>1, <3>1, <3>3
      <4>2. \/ Noted(c, g)
            \/ ~Passed(c, g)
        BY <2>2, <3>1 DEF Journaled
      <4>3. Noted(c, g) => Noted(c, g)'
        BY <1>2, <1>6, <4>1 DEF Noted, historyVars
      <4>4. Passed(c, g)' => Passed(c, g)
        BY <1>3, <3>3 DEF Passed
      <4> QED
        BY <4>1, <4>2, <4>3, <4>4
    <3> QED
      BY <3>2, <3>3
  <2> QED
    BY <1>1, <1>2, <1>3, <1>4, <1>6, <2>1, <2>2, Resuming
<1>7. ASSUME UNCHANGED journal, Meet({"unjournaled"})
      PROVE  IInv'
  <2>1. hazards \subseteq hazards' /\ hazards' \subseteq Kinds /\ ~Sound'
    BY <1>1, <1>7 DEF Meet, Kinds, Sound, Short
  <2> QED
    BY <1>1, <1>2, <1>3, <1>4, <1>7, <2>1, Resuming
<1>8. Ends(f, Terminal) \subseteq Terminal
  BY DEF Ends, Terminal
<1> QED
  BY <1>6, <1>7, <1>8 DEF ResumeFile

LEMMA ResumeBatchUnreadStep ==
  ASSUME IInv, NEW b \in Batches, ResumeBatchUnread(b)
  PROVE  IInv'
<1>1. hazards \subseteq hazards' /\ hazards' \subseteq Kinds
  BY DEF IInv, TypeOK, ResumeBatchUnread, Meet, Kinds
<1> QED
  BY <1>1, PassedOver DEF ResumeBatchUnread, diskVars

\* The resume stops: what it has not dealt with is as it was.
LEMMA ResumeStops ==
  ASSUME IInv, NEW next \in Resumption, resume' = next, next.stage \in {"over", "aborted"},
         next.todo = resume.todo, next.batch = resume.batch, next.goal = resume.goal,
         next.left \subseteq resume.left, next.stage = "aborted" \/ next.left = resume.left,
         next.stage = "aborted" \/ resume.stage # "aborted",
         UNCHANGED <<diskVars, poolVars, handler, historyVars>>,
         hazards \subseteq hazards', hazards' \subseteq Kinds
  PROVE  IInv'
<1> USE DEF IInv, Safe
<1>1. /\ journal \in [Batches -> [Files -> Lines]] /\ resume.batch \in resume.goal \union {None}
      /\ UNCHANGED <<manifest, rank, recorded, poolVars, handler, historyVars, journal>>
  BY DEF TypeOK, Pool, Begun, diskVars
<1>2. \A c \in Resumed' : c \in Resumed
  BY DEF Resumed
<1>3. ASSUME NEW c \in Active, NEW f \in Member(c), Sound'
      PROVE  \/ Noted(c, f)'
             \/ /\ journal'[c][f] = journal[c][f]
                /\ ~Passed(c, f)'
  <2>1. Sound
    BY <1>3 DEF Sound, Short
  <2>2. Noted(c, f) \/ ~Passed(c, f)
    BY <1>3, <2>1 DEF Journaled
  <2>3. Noted(c, f) => Noted(c, f)'
    BY <1>1 DEF Noted, historyVars
  <2>4. Passed(c, f)' => Passed(c, f)
    BY DEF Passed
  <2> QED
    BY <1>1, <2>2, <2>3, <2>4
<1> QED
  BY <1>1, <1>2, <1>3, Resuming

LEMMA ResumeFindsNothingStep ==
  ASSUME IInv, ResumeFindsNothing
  PROVE  IInv'
<1>1. resume \in Resumption /\ hazards \subseteq Kinds /\ resume.stage = "due"
  BY DEF IInv, TypeOK, Resumption, Kinds, ResumeFindsNothing
<1> DEFINE next == [resume EXCEPT !.stage = "over"]
<1>2. /\ next \in Resumption /\ next.stage = "over" /\ next.todo = resume.todo
      /\ next.batch = resume.batch /\ next.goal = resume.goal /\ next.left = resume.left
  BY <1>1 DEF Resumption
<1>3. hazards \subseteq hazards' /\ hazards' \subseteq Kinds
  BY <1>1 DEF ResumeFindsNothing, Meet, When, Kinds
<1>4. resume' = next /\ UNCHANGED <<diskVars, poolVars, handler, historyVars>>
  BY DEF ResumeFindsNothing
<1> HIDE DEF next
<1> QED
  BY <1>1, <1>2, <1>3, <1>4, ResumeStops

LEMMA ResumeAbortsStep ==
  ASSUME IInv, NEW f \in Files, ResumeAborts(f)
  PROVE  IInv'
<1>1. resume \in Resumption /\ hazards \subseteq Kinds
  BY DEF IInv, TypeOK, Resumption, Kinds
<1> DEFINE next == [resume EXCEPT !.stage = "aborted", !.left = @ \ {f}]
<1>2. /\ next \in Resumption /\ next.stage = "aborted" /\ next.todo = resume.todo
      /\ next.batch = resume.batch /\ next.goal = resume.goal /\ next.left \subseteq resume.left
  BY <1>1 DEF Resumption
<1>3. hazards \subseteq hazards' /\ hazards' \subseteq Kinds
  BY <1>1 DEF ResumeAborts, Meet, Kinds
<1>4. resume' = next /\ UNCHANGED <<diskVars, poolVars, handler, historyVars>>
  BY DEF ResumeAborts
<1> HIDE DEF next
<1> QED
  BY <1>1, <1>2, <1>3, <1>4, ResumeStops

LEMMA ResumeEndsStep ==
  ASSUME IInv, ResumeEnds
  PROVE  IInv'
<1> USE DEF IInv, Safe
<1> DEFINE r == [Off EXCEPT !.stage = "called", !.goal = resume.goal]
<1>1. /\ resume \in Resumption /\ Off \in Handler /\ Off.held = None /\ Recovery \in Handlers
      /\ handler \in [Handlers -> Handler]
  BY OffType, MetadataQueueConstants
     DEF TypeOK, Resumption, Handler, Stage, Off, Recovery, Handlers
<1>2. r \in Handler /\ r.stage = "called" /\ r.goal = resume.goal /\ r.held = None
  BY <1>1 DEF Handler, Stage, Resumption
<1>3. /\ resume.left = {} /\ resume.todo = {}
      /\ resume' = [resume EXCEPT !.stage = "over", !.batch = None, !.goal = {}]
      /\ handler' = IF resume.goal = {} THEN handler ELSE [handler EXCEPT ![Recovery] = r]
      /\ UNCHANGED <<manifest, rank, journal, recorded, status, queue, at, started, crashes,
                     known, hazards>>
  BY DEF ResumeEnds, diskVars, poolVars, historyVars
<1> HIDE DEF r
<1>4. /\ resume' \in Resumption /\ resume'.todo = {} /\ resume'.batch = None
      /\ resume'.goal = {} /\ resume'.left = {}
  BY <1>1, <1>3 DEF Resumption
<1>5. ASSUME NEW q \in Handlers
      PROVE  /\ handler'[q] \in Handler
             /\ \/ handler'[q] = handler[q]
                \/ handler'[q] = r
  BY <1>1, <1>2, <1>3
<1>6. TypeOK'
  <2>1. handler' \in [Handlers -> Handler]
    BY <1>1, <1>2, <1>3
  <2> QED
    BY <1>3, <1>4, <2>1 DEF TypeOK, Handler, Stage, Resumption
<1>7. /\ Active' = Active /\ Resumed' = {} /\ Resumed = resume.goal
      /\ \A b : Unfinished(b)' = Unfinished(b)
      /\ \A b \in Batches : Alive(b)' = Alive(b)
  BY <1>3, <1>4 DEF Active, Unfinished, Alive, Resumed
<1>8. \A q \in Handlers : InHand(q)' = InHand(q) \/ InHand(q)' = Resumed
  BY <1>2, <1>5, <1>7 DEF InHand
<1>9. Pool'
  <2> USE DEF Pool
  <2>1. InQueue' /\ Together'
    BY <1>3 DEF InQueue, Together
  <2>2. Begun'
    <3>1. \A t \in Tasks : t[1] \in Batches
      BY TaskType
    <3> QED
      BY <1>3, <1>4, <1>7, <1>8, <3>1 DEF Begun
  <2>3. First'
    BY <1>3, <1>7, <1>8 DEF First
  <2> QED
    BY <2>1, <2>2, <2>3
<1>10. \A of : Short(of)' = Short(of)
  BY <1>3 DEF Short
<1>11. Settled'
  <2>1. ASSUME Short({"early", "overlap"})', NEW q \in Handlers, NEW b \in InHand(q)',
               NEW t \in Unfinished(b)'
        PROVE  t[3] = 2
    <3>1. t \in Unfinished(b) /\ t \in Tasks /\ t[1] = b /\ at[t] # "off"
      BY <1>7 DEF Unfinished, Working, Counted
    <3>2. Short({"early", "overlap"}) /\ Short({"overlap"})
      BY <1>3, <2>1 DEF Short
    <3>3. b \notin Resumed
      BY <3>1, <3>2 DEF Settled, Begun, Pool
    <3>4. b \in InHand(q)
      BY <1>8, <3>3
    <3> QED
      BY <3>1, <3>2, <3>4 DEF Settled
  <2> QED
    BY <1>7, <2>1 DEF Settled
<1>12. QuietWhenCompacted'
  BY <1>3, <1>7, <1>10 DEF QuietWhenCompacted
<1>13. Follows'
  BY <1>2, <1>3, <1>5, <1>10 DEF Follows
<1>14. Journaled'
  <2>1. ASSUME Sound', NEW b \in Active', NEW f \in Member(b)
        PROVE  \/ Noted(b, f)'
               \/ /\ at'[<<b, f, 1>>] # "done"
                  /\ \A p \in Handlers : b \notin handler'[p].goal
                  /\ ~Passed(b, f)'
    <3>1. Sound /\ b \in Active
      BY <1>3, <1>7, <2>1 DEF Sound, Short
    <3>2. \/ Noted(b, f)
          \/ /\ at[<<b, f, 1>>] # "done"
             /\ \A p \in Handlers : b \notin handler[p].goal
             /\ b \notin resume.goal
      <4>1. resume.stage = "listed"
        BY DEF ResumeEnds
      <4> QED
        BY <1>3, <2>1, <3>1, <4>1 DEF Journaled, Passed
    <3>3. Noted(b, f) => Noted(b, f)'
      BY <1>3 DEF Noted
    <3>4. ~Passed(b, f)'
      BY <1>4 DEF Passed
    <3> QED
      BY <1>2, <1>3, <1>5, <3>2, <3>3, <3>4
  <2>2. \A b \in Active' : Member(b)' = Member(b)
    BY DEF Member
  <2> QED
    BY <2>1, <2>2 DEF Journaled
<1>15. NothingLost'
  BY <1>3, LostKept
<1>16. Carried'
  <2>1. \A b \in Active' : Member(b)' = Member(b)
    BY DEF Member
  <2>2. Sound' => Sound
    BY <1>3 DEF Sound, Short
  <2>3. ASSUME Sound', NEW q \in Handlers, NEW b \in InHand(q)' \intersect Active'
        PROVE  /\ handler'[q].stage = "scanning" =>
                    b \in handler'[q].todo \/ b = handler'[q].held
                      \/ {b} \X Member(b) \subseteq handler'[q].seen \union known'
               /\ handler'[q].stage = "compacting" => {b} \X Member(b) \subseteq known'
    <3>1. CASE handler'[q] = r
      BY <1>2, <3>1
    <3>2. CASE handler'[q] = handler[q]
      <4>1. InHand(q)' = InHand(q)
        BY <3>2 DEF InHand
      <4> QED
        BY <1>3, <1>7, <2>2, <2>3, <3>2, <4>1 DEF Carried
    <3> QED
      BY <1>5, <3>1, <3>2
  <2> QED
    BY <2>1, <2>3 DEF Carried
<1> QED
  BY <1>6, <1>9, <1>11, <1>12, <1>13, <1>14, <1>15, <1>16

-----------------------------------------------------------------------------
(* The pool                                                                *)

\* What a step of a job, or a new job, leaves of the conjuncts that know no job.
LEMMA PoolCarried ==
  ASSUME IInv, UNCHANGED known, hazards \subseteq hazards',
         Active' \subseteq Active,
         \A p \in Handlers : handler'[p] = handler[p] \/ handler'[p].stage = "called"
  PROVE  Carried'
<1>1. Sound' => Sound
  BY DEF Sound, Short
<1>2. \A b \in Active' : Member(b)' = Member(b)
  BY DEF Member
<1>3. ASSUME Sound', NEW p \in Handlers, NEW b \in InHand(p)' \intersect Active'
      PROVE  /\ handler'[p].stage = "scanning" =>
                  b \in handler'[p].todo \/ b = handler'[p].held
                    \/ {b} \X Member(b) \subseteq handler'[p].seen \union known'
             /\ handler'[p].stage = "compacting" => {b} \X Member(b) \subseteq known'
  <2>1. CASE handler'[p].stage = "called"
    BY <2>1
  <2>2. CASE handler'[p] = handler[p] /\ b \in Active
    <3>1. b \in InHand(p) \intersect Active
      BY <1>3, <2>2 DEF InHand
    <3> QED
      BY <1>1, <1>3, <2>2, <3>1 DEF IInv, Safe, Carried
  <2> QED
    BY <1>3, <2>1, <2>2
<1> QED
  BY <1>2, <1>3 DEF Carried

\* A job at work is unfinished, and so its batch is in no hand, unless it is a retry.
LEMMA AtWork ==
  ASSUME IInv, Sound, NEW t \in Tasks, at[t] \in {"queued"} \union Working, t[3] = 1
  PROVE  t[1] \notin Resumed /\ \A p \in Handlers : t[1] \notin InHand(p)
<1>1. Short({"early", "overlap"}) /\ Short({"overlap"})
  BY DEF Sound, Short
<1>2. t \in Unfinished(t[1]) /\ at[t] # "off"
  BY DEF Unfinished, Working, Counted
<1>3. Alive(t[1])
  BY <1>2 DEF IInv, Pool, Begun
<1> QED
  BY <1>1, <1>2, <1>3 DEF IInv, Safe, Settled

\* One job goes on, unfinished as it was.
LEMMA Moving ==
  ASSUME IInv, NEW t \in Tasks, NEW place \in Working,
         at[t] \in {"queued"} \union Working, at' = [at EXCEPT ![t] = place],
         t[3] = 0 => place = "running",
         UNCHANGED <<manifest, rank, recorded, handler, resume, historyVars, hazards>>,
         status' \in [Batches -> [Files -> {"absent", "pending", "done", "error"}]],
         \A b \in Batches : Alive(b)' = Alive(b),
         \A b \in Batches, f \in Files : status'[b][f] = "error" =>
           status[b][f] = "error" \/ (b = t[1] /\ t[3] > 0),
         queue' \in Seq(Tasks) /\ InQueue',
         journal' \in [Batches -> [Files -> Lines]],
         \A b \in Batches, f \in Files : journal'[b][f] = journal[b][f] \/ (t[3] > 0 /\ b = t[1] /\ f = t[2])
  PROVE  IInv'
<1> USE DEF IInv, Safe
<1>1. UNCHANGED <<manifest, rank, recorded, handler, resume, started, crashes, known, hazards>>
  BY DEF historyVars
<1>2. /\ at' \in [Tasks -> Status] /\ at'[t] = place /\ \A u \in Tasks \ {t} : at'[u] = at[u]
      /\ \A u \in Tasks : at'[u] = "off" <=> at[u] = "off"
      /\ \A u \in Tasks : at'[u] = "done" <=> at[u] = "done"
      /\ \A u \in Tasks : at'[u] \in {"queued"} \union Working <=> at[u] \in {"queued"} \union Working
  BY DEF TypeOK, Status, Working, Counted
<1>3. TypeOK'
  <2>1. at' \in [Tasks -> {"off", "queued", "done"} \union Working]
    BY <1>2 DEF Status
  <2> QED
    BY <1>1, <2>1 DEF TypeOK
<1>4. /\ Active' = Active /\ Resumed' = Resumed
      /\ \A b : Unfinished(b)' = Unfinished(b)
      /\ \A q : InHand(q)' = InHand(q)
      /\ Sound' = Sound
  BY <1>1, <1>2 DEF Active, Unfinished, Resumed, InHand, Sound, Short
<1>5. Pool'
  <2> USE DEF Pool
  <2>1. Together'
    <3>1. ASSUME NEW b \in Batches, NEW f \in Member(b), NEW g \in Member(b),
                 at'[<<b, f, 1>>] = "off"
          PROVE  at'[<<b, g, 1>>] = "off"
      <4>1. <<b, f, 1>> \in Tasks /\ <<b, g, 1>> \in Tasks
        BY TaskMade
      <4> QED
        BY <1>2, <3>1, <4>1 DEF Together
    <3>2. \A b \in Batches : Member(b)' = Member(b)
      BY DEF Member
    <3> QED
      BY <3>1, <3>2 DEF Together
  <2>2. Begun'
    <3>1. \A u \in Tasks : u[1] \in Batches
      BY TaskType
    <3> QED
      BY <1>1, <1>2, <1>4, <3>1 DEF Begun
  <2>3. First'
    <3>1. ASSUME NEW b \in Batches
          PROVE  /\ at'[Start(b)] \in {"off", "queued", "running", "done"}
                 /\ at'[Start(b)] \in {"queued", "running"} =>
                      /\ manifest'[b] = "none"
                      /\ \A f \in Files : status'[b][f] # "error"
                      /\ \A u \in Tasks : u[1] = b /\ u # Start(b) => at'[u] = "off"
                      /\ b \notin Resumed' /\ \A p \in Handlers : b \notin InHand(p)'
      <4>1. Start(b) \in Tasks /\ Start(b)[1] = b /\ Start(b)[3] = 0
        BY TaskMade
      <4>2. at'[Start(b)] \in {"off", "queued", "running", "done"}
        BY <1>2, <4>1 DEF First
      <4>3. ASSUME at'[Start(b)] \in {"queued", "running"}
            PROVE  at[Start(b)] \in {"queued", "running"}
        <5>1. at[Start(b)] \in {"off", "queued", "running", "done"}
          BY DEF First
        <5> QED
          BY <1>2, <4>1, <4>3, <5>1
      <4>4. ASSUME at[Start(b)] \in {"queued", "running"}, NEW f \in Files
            PROVE  status'[b][f] # "error"
        <5>1. status[b][f] # "error"
          BY <4>4 DEF First
        <5>2. ASSUME b = t[1], t[3] > 0
              PROVE  FALSE
          <6>1. t # Start(b)
            BY <4>1, <5>2
          <6>2. at[t] = "off"
            BY <4>4, <5>2, <6>1 DEF First
          <6> QED
            BY <6>2 DEF Working, Counted
        <5> QED
          BY <5>1, <5>2
      <4> QED
        BY <1>1, <1>2, <1>4, <4>2, <4>3, <4>4 DEF First
    <3> QED
      BY <3>1 DEF First, Start
  <2> QED
    BY <2>1, <2>2, <2>3
<1>6. Settled'
  <2>1. ASSUME Short({"early", "overlap"})', NEW q \in Handlers, NEW b \in InHand(q)',
               NEW u \in Unfinished(b)'
        PROVE  u[3] = 2
    <3>1. b \in InHand(q) /\ u \in Unfinished(b) /\ Short({"early", "overlap"})
      BY <1>1, <1>4, <2>1 DEF Short
    <3> QED
      BY <3>1 DEF Settled
  <2>2. ASSUME Short({"overlap"})', NEW b \in Resumed'
        PROVE  ~Alive(b)'
    <3>1. b \in Resumed /\ b \in Batches /\ Short({"overlap"})
      BY <1>1, <1>4, <2>2 DEF Short, Resumed, TypeOK
    <3> QED
      BY <3>1 DEF Settled
  <2> QED
    BY <2>1, <2>2 DEF Settled
<1>7. QuietWhenCompacted'
  BY <1>1, <1>4 DEF QuietWhenCompacted, Short
<1>8. Follows'
  <2>1. \A u \in Tasks : u[1] \in Batches
    BY TaskType
  <2> QED
    BY <1>1, <1>2, <2>1 DEF Follows, Short
<1>9. Journaled'
  <2>1. ASSUME Sound', NEW b \in Active', NEW f \in Member(b)
        PROVE  \/ Noted(b, f)'
               \/ /\ at'[<<b, f, 1>>] # "done"
                  /\ \A p \in Handlers : b \notin handler'[p].goal
                  /\ ~Passed(b, f)'
    <3>1. Sound /\ b \in Active /\ b \in Batches /\ manifest[b] = "active"
      BY <1>4, <2>1 DEF Active
    <3>2. f \in Files /\ <<b, f, 1>> \in Tasks
      BY <3>1, MemberType, TaskMade
    <3>3. CASE journal'[b][f] = journal[b][f]
      <4>1. \/ Noted(b, f)
            \/ /\ at[<<b, f, 1>>] # "done"
               /\ \A p \in Handlers : b \notin handler[p].goal
               /\ ~Passed(b, f)
        BY <2>1, <3>1 DEF Journaled
      <4>2. /\ Noted(b, f) => Noted(b, f)'
            /\ Passed(b, f)' => Passed(b, f)
        BY <1>1, <3>3 DEF Noted, Passed
      <4> QED
        BY <1>1, <1>2, <3>2, <4>1, <4>2
    <3>4. CASE t[3] > 0 /\ b = t[1] /\ f = t[2]
      <4>1. t[3] \in {1, 2} /\ t = <<b, f, t[3]>>
        BY <3>4, TaskType
      <4>2. Short({"midway"}) /\ at[t] # "off"
        BY <3>1 DEF Sound, Short, Working, Counted
      <4>3. t[3] # 2
        BY <3>1, <3>4, <4>2 DEF Follows
      <4>4. t = <<b, f, 1>> /\ t[3] = 1
        BY <4>1, <4>3
      <4>5. b \notin Resumed /\ \A p \in Handlers : b \notin InHand(p)
        BY <3>1, <3>4, <4>4, AtWork
      <4>6. at'[<<b, f, 1>>] # "done"
        BY <1>2, <4>4 DEF Working, Counted
      <4> QED
        BY <1>1, <4>5, <4>6 DEF Resumed, InHand, Passed
    <3> QED
      BY <3>1, <3>2, <3>3, <3>4
  <2>2. \A b \in Active' : Member(b)' = Member(b)
    BY DEF Member
  <2> QED
    BY <2>1, <2>2 DEF Journaled
<1>10. NothingLost'
  BY <1>1, LostKept
<1>11. Carried'
  BY <1>1, <1>4, PoolCarried
<1> QED
  BY <1>3, <1>5, <1>6, <1>7, <1>8, <1>9, <1>10, <1>11

LEMMA TakeStep ==
  ASSUME IInv, Take
  PROVE  IInv'
<1> USE DEF IInv, Safe
<1> DEFINE t == Head(queue)
<1>1. /\ queue # <<>> /\ queue' = Tail(queue) /\ at' = [at EXCEPT ![t] = "running"]
      /\ \/ t[2] # None /\ journal' = [journal EXCEPT ![t[1]][t[2]] = "open"]
         \/ journal' = journal
      /\ UNCHANGED <<manifest, rank, recorded, status, handler, resume, historyVars, hazards>>
  BY DEF Take
<1>2. /\ queue \in Seq(Tasks) /\ at \in [Tasks -> Status] /\ journal \in [Batches -> [Files -> Lines]]
      /\ status \in [Batches -> [Files -> {"absent", "pending", "done", "error"}]]
      /\ InQueue
  BY DEF TypeOK, Status, Pool
<1>3. queue' \in Seq(Tasks) /\ InQueue' /\ t \in Tasks /\ at[t] = "queued"
  BY <1>1, <1>2, Taken
<1> HIDE DEF t
<1>4. \A b \in Batches : Alive(b)' = Alive(b)
  BY <1>1 DEF Alive
<1>5. /\ journal' \in [Batches -> [Files -> Lines]]
      /\ \A b \in Batches, f \in Files :
           journal'[b][f] = journal[b][f] \/ (t[3] > 0 /\ b = t[1] /\ f = t[2])
  <2>1. CASE journal' = journal
    BY <1>1, <1>2, <2>1
  <2>2. CASE t[2] # None /\ journal' = [journal EXCEPT ![t[1]][t[2]] = "open"]
    <3>1. t[3] > 0
      BY <1>3, <2>2, TaskType, TaskMade
    <3> QED
      BY <1>2, <2>2, <3>1 DEF Lines
  <2> QED
    BY <1>1, <2>1, <2>2
<1>6. "running" \in Working
  BY DEF Working
<1> QED
  BY <1>1, <1>2, <1>3, <1>4, <1>5, <1>6, Moving

LEMMA WriteFileStep ==
  ASSUME IInv, NEW t \in Tasks, WriteFile(t)
  PROVE  IInv'
<1> USE DEF IInv, Safe
<1>1. /\ at[t] = "running" /\ t[3] > 0
      /\ UNCHANGED <<manifest, rank, journal, recorded, queue, handler, resume, historyVars, hazards>>
  BY DEF WriteFile, diskVars
<1>2. PICK outcome \in Ends(t[2], Counted), s \in {"done", "error"} :
        at' = [at EXCEPT ![t] = outcome] /\ status' = [status EXCEPT ![t[1]][t[2]] = s]
  BY DEF WriteFile
<1>3. outcome \in Counted /\ outcome \in Working
  BY DEF Ends, Counted, Working
<1>4. /\ status \in [Batches -> [Files -> {"absent", "pending", "done", "error"}]]
      /\ queue \in Seq(Tasks) /\ at \in [Tasks -> Status] /\ journal \in [Batches -> [Files -> Lines]]
      /\ InQueue
  BY DEF TypeOK, Status, Pool
<1>5. t[1] \in Batches /\ t[2] \in Files
  <2>1. t[1] \in Batches /\ t[2] \in Member(t[1])
    BY <1>1, TaskType
  <2> QED
    BY <2>1, MemberType
<1>6. /\ status' \in [Batches -> [Files -> {"absent", "pending", "done", "error"}]]
      /\ \A b \in Batches, f \in Files :
           status'[b][f] = IF b = t[1] /\ f = t[2] THEN s ELSE status[b][f]
  BY <1>2, <1>4
<1>7. Alive(t[1])
  BY <1>1 DEF Pool, Begun
<1>8. ASSUME NEW b \in Batches
      PROVE  Alive(b)' = Alive(b)
  <2>1. CASE b = t[1]
    <3>1. status'[b][t[2]] # "absent"
      BY <1>5, <1>6, <2>1
    <3>2. Alive(b)'
      BY <1>5, <3>1 DEF Alive
    <3> QED
      BY <1>7, <2>1, <3>2 DEF Alive
  <2>2. CASE b # t[1]
    BY <1>6, <2>2 DEF Alive
  <2> QED
    BY <2>1, <2>2
<1>9. \A b \in Batches, f \in Files : status'[b][f] = "error" =>
        status[b][f] = "error" \/ (b = t[1] /\ t[3] > 0)
  BY <1>1, <1>6
<1>10. queue' \in Seq(Tasks) /\ InQueue'
  <2>1. \A i \in DOMAIN queue : at[queue[i]] = "queued" /\ queue[i] \in Tasks
    BY <1>4 DEF InQueue
  <2>2. \A i \in DOMAIN queue : at'[queue[i]] = "queued"
    BY <1>1, <1>2, <1>4, <2>1
  <2> QED
    BY <1>1, <1>4, <2>2 DEF InQueue
<1>11. at[t] \in {"queued"} \union Working /\ ~(t[3] = 0)
  BY <1>1 DEF Working
<1> QED
  BY <1>1, <1>2, <1>3, <1>4, <1>6, <1>8, <1>9, <1>10, <1>11, Moving

\* batch_complete gives the batch to a handler that was off.
LEMMA Completing ==
  ASSUME TypeOK, NEW b \in Batches, NEW self \in Tasks, NEW met \in SUBSET Kinds,
         Complete(b, self, met)
  PROVE  /\ handler' \in [Handlers -> Handler]
         /\ \A p \in Handlers :
              \/ handler'[p] = handler[p]
              \/ /\ handler'[p].stage = "called" /\ handler'[p].goal = {b}
                 /\ InHand(p)' = {b}
         /\ hazards \subseteq hazards' /\ hazards' \subseteq Kinds /\ met \subseteq hazards'
         /\ Short({"early", "overlap"})' => \A t \in Unfinished(b) : t = self
<1> DEFINE r == [Off EXCEPT !.stage = "called", !.goal = {b}]
<1>1. PICK p \in Handlers : handler' = [handler EXCEPT ![p] = r]
  BY DEF Complete
<1>2. r \in Handler /\ r.stage = "called" /\ r.goal = {b}
  BY OffType DEF Handler, Stage
<1> HIDE DEF r
<1>3. handler' \in [Handlers -> Handler] /\ \A q \in Handlers : handler'[q] = handler[q] \/ handler'[q] = r
  BY <1>1, <1>2 DEF TypeOK, Handler, Stage
<1>4. \A q \in Handlers : handler'[q] = r => InHand(q)' = {b}
  BY <1>2 DEF InHand
<1>5. hazards' = hazards \union (met \union When(\E t \in Unfinished(b) : t # self, "early"))
  BY DEF Complete, Meet
<1>6. Short({"early", "overlap"})' => \A t \in Unfinished(b) : t = self
  BY <1>5 DEF Short, When
<1>7. hazards' \subseteq Kinds
  <2>1. When(\E t \in Unfinished(b) : t # self, "early") \subseteq Kinds
    BY DEF When, Kinds
  <2> QED
    BY <1>5, <2>1 DEF TypeOK, Kinds
<1> QED
  BY <1>2, <1>3, <1>4, <1>5, <1>6, <1>7

\* A job is through: its batch may be reported complete.
LEMMA EndFileStep ==
  ASSUME IInv, NEW t \in Tasks, EndFile(t)
  PROVE  IInv'
<1> USE DEF IInv, Safe
<1> DEFINE b == t[1]
<1>1. /\ at[t] \in Counted /\ at' = [at EXCEPT ![t] = "done"]
      /\ UNCHANGED <<manifest, rank, recorded, status, queue, resume, started, crashes, known>>
  BY DEF EndFile, historyVars
<1>2. /\ b \in Batches /\ t[2] \in Member(b) /\ t[2] \in Files /\ t[3] \in {1, 2}
      /\ t = <<b, t[2], t[3]>> /\ t # Start(b)
  <2>1. b \in Batches
    BY TaskType
  <2>2. t # Start(b)
    BY <1>1, <2>1 DEF Pool, First, Counted
  <2>3. t[2] \in Member(b) /\ t[3] \in {1, 2} /\ t = <<b, t[2], t[3]>>
    BY <2>2, TaskType
  <2> QED
    BY <2>1, <2>2, <2>3, MemberType
<1>3. PICK met \in {{}, {"unjournaled"}} :
        /\ journal' = IF met # {} THEN journal ELSE [journal EXCEPT ![b][t[2]] = at[t]]
        /\ IF AllThrough(t) THEN Complete(b, t, met) ELSE Meet(met) /\ UNCHANGED handler
  BY DEF EndFile
<1>4. /\ met \in SUBSET Kinds /\ hazards \subseteq Kinds /\ handler \in [Handlers -> Handler]
      /\ at \in [Tasks -> Status] /\ journal \in [Batches -> [Files -> Lines]]
  BY DEF Kinds, TypeOK, Handler, Stage, Status
<1> HIDE DEF b
<1>5. /\ handler' \in [Handlers -> Handler]
      /\ \A p \in Handlers :
           \/ handler'[p] = handler[p]
           \/ /\ handler'[p].stage = "called" /\ handler'[p].goal = {b} /\ InHand(p)' = {b}
              /\ Short({"early", "overlap"})' => \A u \in Unfinished(b) : u = t
      /\ hazards \subseteq hazards' /\ hazards' \subseteq Kinds /\ met \subseteq hazards'
  <2>1. CASE AllThrough(t)
    <3>1. Complete(b, t, met)
      BY <1>3, <2>1
    <3> QED
      BY <1>2, <1>4, <3>1, Completing
  <2>2. CASE ~AllThrough(t)
    <3>1. Meet(met) /\ handler' = handler
      BY <1>3, <2>2
    <3> QED
      BY <1>4, <3>1 DEF Meet
  <2> QED
    BY <2>1, <2>2
<1>6. /\ at' \in [Tasks -> Status] /\ at'[t] = "done" /\ \A u \in Tasks \ {t} : at'[u] = at[u]
      /\ \A u \in Tasks : at'[u] = "off" <=> at[u] = "off"
      /\ at[t] # "off" /\ at[t] \in {"complete", "failed"}
  BY <1>1, <1>4 DEF Status, Counted
<1>7. /\ journal' \in [Batches -> [Files -> Lines]]
      /\ Sound' => /\ journal'[b][t[2]] = at[t]
                   /\ \A c \in Batches, f \in Files :
                        c # b \/ f # t[2] => journal'[c][f] = journal[c][f]
  <2>1. at[t] \in Lines
    BY <1>6 DEF Lines, Terminal
  <2>2. Sound' => met = {}
    BY <1>5 DEF Sound, Short
  <2> QED
    BY <1>2, <1>3, <1>4, <2>1, <2>2
<1>8. TypeOK'
  <2>1. at' \in [Tasks -> {"off", "queued", "done"} \union Working]
    BY <1>6 DEF Status
  <2>2. handler' \in [Handlers ->
       [stage : {"off", "called", "scanning", "compacting"},
        goal : SUBSET Batches, todo : SUBSET Batches,
        held : Batches \union {None}, view : Views,
        seen : SUBSET (Batches \X Files), old : BOOLEAN]]
    BY <1>5 DEF Handler, Stage
  <2> QED
    BY <1>1, <1>5, <1>7, <2>1, <2>2 DEF TypeOK, Kinds
<1>9. /\ Active' = Active /\ Resumed' = Resumed
      /\ \A c \in Batches : Alive(c)' = Alive(c)
      /\ \A c : \A u \in Unfinished(c)' : u \in Unfinished(c) /\ u # t
  <2>1. Active' = Active /\ Resumed' = Resumed /\ \A c \in Batches : Alive(c)' = Alive(c)
    BY <1>1 DEF Active, Resumed, Alive
  <2>2. \A c : \A u \in Unfinished(c)' : u \in Unfinished(c) /\ u # t
    BY <1>6 DEF Unfinished, Working, Counted
  <2> QED
    BY <2>1, <2>2
<1>10. /\ Short({"early", "overlap"})' => Short({"early", "overlap"})
       /\ Short({"overlap"})' => Short({"overlap"})
       /\ Short({"midway"})' => Short({"midway"})
       /\ Sound' => Sound
  BY <1>5 DEF Short, Sound
<1>11. Alive(b) /\ b \in started
  BY <1>2, <1>6 DEF Pool, Begun, b
<1>12. at[Start(b)] \notin {"queued", "running"}
  BY <1>2, <1>6 DEF Pool, First, b
<1>13. \A p \in Handlers : InHand(p)' = InHand(p) \/ InHand(p)' = {b}
  BY <1>5 DEF InHand
<1>14. Pool'
  <2> USE DEF Pool
  <2>1. InQueue'
    <3>1. \A i \in DOMAIN queue : queue[i] \in Tasks /\ at[queue[i]] = "queued"
      BY DEF TypeOK, InQueue
    <3>2. \A i \in DOMAIN queue : at'[queue[i]] = "queued"
      BY <1>6, <3>1
    <3> QED
      BY <1>1, <3>2 DEF InQueue
  <2>2. Together'
    <3>1. ASSUME NEW c \in Batches, NEW f \in Member(c), NEW g \in Member(c),
                 at'[<<c, f, 1>>] = "off"
          PROVE  at'[<<c, g, 1>>] = "off"
      <4>1. <<c, f, 1>> \in Tasks /\ <<c, g, 1>> \in Tasks
        BY TaskMade
      <4> QED
        BY <1>6, <3>1, <4>1 DEF Together
    <3>2. \A c \in Batches : Member(c)' = Member(c)
      BY DEF Member
    <3> QED
      BY <3>1, <3>2 DEF Together
  <2>3. Begun'
    <3>1. \A u \in Tasks : u[1] \in Batches
      BY TaskType
    <3> QED
      BY <1>1, <1>6, <1>9, <1>11, <1>13, <3>1 DEF Begun
  <2>4. First'
    <3>1. ASSUME NEW c \in Batches
          PROVE  /\ at'[Start(c)] \in {"off", "queued", "running", "done"}
                 /\ at'[Start(c)] \in {"queued", "running"} =>
                      /\ manifest'[c] = "none"
                      /\ \A f \in Files : status'[c][f] # "error"
                      /\ \A u \in Tasks : u[1] = c /\ u # Start(c) => at'[u] = "off"
                      /\ c \notin Resumed' /\ \A p \in Handlers : c \notin InHand(p)'
      <4>1. Start(c) \in Tasks /\ Start(c) # t
        BY <1>2, TaskMade
      <4>2. at'[Start(c)] = at[Start(c)]
        BY <1>6, <4>1
      <4>3. at[Start(c)] \in {"queued", "running"} => c # b
        BY <1>12
      <4> QED
        BY <1>1, <1>6, <1>9, <1>13, <4>2, <4>3 DEF First
    <3> QED
      BY <3>1 DEF First, Start
  <2> QED
    BY <2>1, <2>2, <2>3, <2>4
<1>15. Settled'
  <2>1. ASSUME Short({"early", "overlap"})', NEW q \in Handlers, NEW c \in InHand(q)',
               NEW u \in Unfinished(c)'
        PROVE  u[3] = 2
    <3>1. u \in Unfinished(c) /\ u # t /\ Short({"early", "overlap"})
      BY <1>9, <1>10, <2>1
    <3>2. CASE handler'[q] = handler[q]
      <4>1. c \in InHand(q)
        BY <3>2 DEF InHand
      <4> QED
        BY <3>1, <4>1 DEF Settled
    <3>3. CASE InHand(q)' = {b} /\ \A v \in Unfinished(b) : v = t
      BY <2>1, <3>1, <3>3
    <3> QED
      BY <1>5, <2>1, <3>2, <3>3
  <2>2. ASSUME Short({"overlap"})', NEW c \in Resumed'
        PROVE  ~Alive(c)'
    <3>1. c \in Resumed /\ c \in Batches /\ Short({"overlap"})
      BY <1>9, <1>10, <2>2 DEF Resumed, TypeOK
    <3> QED
      BY <1>9, <3>1 DEF Settled
  <2> QED
    BY <2>1, <2>2 DEF Settled
<1>16. QuietWhenCompacted'
  BY <1>1, <1>9, <1>10 DEF QuietWhenCompacted
<1>17. Follows'
  <2>1. \A u \in Tasks : u[1] \in Batches
    BY TaskType
  <2> QED
    BY <1>1, <1>5, <1>6, <1>10, <2>1 DEF Follows
<1>18. Journaled'
  <2>1. ASSUME Sound', NEW c \in Active', NEW f \in Member(c)
        PROVE  \/ Noted(c, f)'
               \/ /\ at'[<<c, f, 1>>] # "done"
                  /\ \A p \in Handlers : c \notin handler'[p].goal
                  /\ ~Passed(c, f)'
    <3>1. Sound /\ c \in Active /\ c \in Batches /\ manifest[c] = "active"
      BY <1>9, <1>10, <2>1 DEF Active
    <3>2. f \in Files /\ <<c, f, 1>> \in Tasks
      BY <3>1, MemberType, TaskMade
    <3>3. CASE c = b /\ f = t[2]
      BY <1>6, <1>7, <2>1, <3>3 DEF Terminal, Noted
    <3>4. CASE ~(c = b /\ f = t[2])
      <4>1. journal'[c][f] = journal[c][f] /\ <<c, f, 1>> # t
        BY <1>2, <1>7, <2>1, <3>1, <3>2, <3>4
      <4>2. \/ Noted(c, f)
            \/ /\ at[<<c, f, 1>>] # "done"
               /\ \A p \in Handlers : c \notin handler[p].goal
               /\ ~Passed(c, f)
        BY <2>1, <3>1 DEF Journaled
      <4>5. Noted(c, f) => Noted(c, f)'
        BY <1>1, <1>5, <4>1 DEF Noted
      <4>3. CASE \A p \in Handlers : c \notin handler'[p].goal \/ handler'[p] = handler[p]
        <5>1. Passed(c, f)' => Passed(c, f)
          BY <1>1 DEF Passed
        <5> QED
          BY <1>6, <3>2, <4>1, <4>2, <4>3, <4>5, <5>1
      <4>4. ASSUME NEW p \in Handlers, c \in handler'[p].goal, handler'[p] # handler[p]
            PROVE  Noted(c, f)
        <5>1. c = b /\ (Short({"early", "overlap"})' => \A u \in Unfinished(b) : u = t)
          BY <1>5, <4>4
        <5>2. \A u \in Unfinished(b) : u = t
          BY <2>1, <5>1 DEF Sound, Short
        <5>3. at[<<c, f, 1>>] \notin {"queued"} \union Working
          BY <3>2, <4>1, <5>1, <5>2 DEF Unfinished
        <5>4. t[3] = 1
          <6>1. t[3] # 2
            BY <1>6, <3>1, <5>1 DEF Follows, Sound, Short, b
          <6> QED
            BY <1>2, <6>1
        <5>5. at[<<c, f, 1>>] # "off"
          BY <1>2, <1>6, <2>1, <5>1, <5>4 DEF Pool, Together
        <5>6. at[<<c, f, 1>>] = "done"
          BY <1>4, <3>2, <5>3, <5>5 DEF Status
        <5> QED
          BY <4>2, <5>6
      <4> QED
        BY <4>3, <4>4, <4>5
    <3> QED
      BY <3>3, <3>4
  <2>2. \A c \in Active' : Member(c)' = Member(c)
    BY DEF Member
  <2> QED
    BY <2>1, <2>2 DEF Journaled
<1>19. NothingLost'
  BY <1>1, <1>5, LostKept
<1>20. Carried'
  BY <1>1, <1>5, <1>9, PoolCarried
<1> QED
  BY <1>8, <1>14, <1>15, <1>16, <1>17, <1>18, <1>19, <1>20

LEMMA WriteManifestType ==
  ASSUME TypeOK, NEW b \in Batches, WriteManifest(b)
  PROVE  /\ manifest' \in [Batches -> {"none", "active", "gone"}] /\ manifest'[b] = "active"
         /\ \A c \in Batches \ {b} : manifest'[c] = manifest[c]
         /\ rank' \in [Batches -> Nat]
<1> DEFINE queued == {c \in Batches : rank[c] > 0}
<1>1. Cardinality(queued) \in Nat
  <2>1. IsFiniteSet(queued)
    BY MetadataQueueConstants, FS_Subset
  <2> QED
    BY <2>1, FS_CardinalityType
<1> HIDE DEF queued
<1>2. rank' = [rank EXCEPT ![b] = 1 + Cardinality(queued)]
  BY DEF WriteManifest, queued
<1>3. rank' \in [Batches -> Nat]
  BY <1>1, <1>2 DEF TypeOK
<1> QED
  BY <1>3 DEF TypeOK, WriteManifest

\* While the first job of a batch is at work there is nothing else of it.
LEMMA FirstAtWork ==
  ASSUME IInv, NEW b \in Batches, at[Start(b)] = "running"
  PROVE  /\ Start(b) \in Tasks /\ manifest[b] = "none" /\ b \in started /\ Alive(b)
         /\ \A t \in Tasks : t[1] = b /\ t # Start(b) => at[t] = "off"
         /\ b \notin Resumed /\ \A p \in Handlers : b \notin InHand(p) /\ b \notin handler[p].goal
<1>1. Start(b) \in Tasks /\ Start(b)[1] = b
  BY TaskMade
<1>2. b \in started /\ Alive(b)
  BY <1>1 DEF IInv, Pool, Begun
<1>3. /\ manifest[b] = "none" /\ \A t \in Tasks : t[1] = b /\ t # Start(b) => at[t] = "off"
      /\ b \notin Resumed /\ \A p \in Handlers : b \notin InHand(p)
  BY DEF IInv, Pool, First
<1> QED
  BY <1>1, <1>2, <1>3 DEF InHand

\* Whatever the first job of a batch does, only the batch moves.
LEMMA FirstDone ==
  ASSUME IInv, NEW b \in Batches, at[Start(b)] = "running",
         UNCHANGED <<recorded, resume, historyVars>>, hazards \subseteq hazards', hazards' \subseteq Kinds,
         manifest' \in [Batches -> {"none", "active", "gone"}], manifest'[b] \in {"none", "active"},
         \A c \in Batches \ {b} : manifest'[c] = manifest[c],
         rank' \in [Batches -> Nat],
         journal' \in [Batches -> [Files -> Lines]], \A c \in Batches \ {b} : journal'[c] = journal[c],
         status' \in [Batches -> [Files -> {"absent", "pending", "done", "error"}]],
         \A c \in Batches \ {b} : status'[c] = status[c], Alive(b)',
         queue' \in Seq(Tasks), InQueue',
         at' \in [Tasks -> Status], at'[Start(b)] = "done",
         \A t \in Tasks : t[1] # b => at'[t] = at[t],
         \A t \in Tasks : t[1] = b /\ t[3] = 2 => at'[t] = "off",
         \A f, g \in Member(b) : at'[<<b, f, 1>>] = "off" => at'[<<b, g, 1>>] = "off",
         handler' \in [Handlers -> Handler],
         \A p \in Handlers :
           \/ handler'[p] = handler[p]
           \/ /\ handler'[p].stage = "called" /\ handler'[p].goal = {b} /\ InHand(p)' = {b}
              /\ Unfinished(b)' = {},
         manifest'[b] = "active" /\ Sound' => \A f \in Member(b) :
           \/ Noted(b, f)'
           \/ at'[<<b, f, 1>>] # "done" /\ \A p \in Handlers : handler'[p] = handler[p]
  PROVE  IInv'
<1> USE DEF IInv, Safe
<1>1. UNCHANGED <<recorded, resume, started, crashes, known>>
  BY DEF historyVars
<1>2. /\ Start(b) \in Tasks /\ manifest[b] = "none" /\ b \in started /\ Alive(b)
      /\ \A t \in Tasks : t[1] = b /\ t # Start(b) => at[t] = "off"
      /\ b \notin Resumed /\ \A p \in Handlers : b \notin InHand(p) /\ b \notin handler[p].goal
  BY FirstAtWork
<1>3. TypeOK'
  <2>1. at' \in [Tasks -> {"off", "queued", "done"} \union Working]
    BY DEF Status
  <2>2. handler' \in [Handlers ->
       [stage : {"off", "called", "scanning", "compacting"},
        goal : SUBSET Batches, todo : SUBSET Batches,
        held : Batches \union {None}, view : Views,
        seen : SUBSET (Batches \X Files), old : BOOLEAN]]
    BY DEF Handler, Stage
  <2> QED
    BY <1>1, <2>1, <2>2 DEF TypeOK, Kinds
<1>4. Resumed' = Resumed
  BY <1>1 DEF Resumed
<1>5. \A c \in Batches \ {b} : Alive(c)' = Alive(c)
  BY DEF Alive
<1>6. \A c \in Batches \ {b} : \A t \in Unfinished(c)' : t \in Unfinished(c)
  BY DEF Unfinished
<1>7. \A t \in Tasks : t[1] \in Batches
  BY TaskType
<1>8. /\ Short({"early", "overlap"})' => Short({"early", "overlap"})
      /\ Short({"overlap"})' => Short({"overlap"})
      /\ Short({"midway"})' => Short({"midway"})
      /\ Sound' => Sound
  BY DEF Short, Sound
<1>9. \A p \in Handlers : InHand(p)' = InHand(p) \/ InHand(p)' = {b}
  BY DEF InHand
<1>10. \A c \in Active' : c \in Batches /\ (c # b => c \in Active)
  BY DEF Active
<1>11. Pool'
  <2> USE DEF Pool
  <2>1. Together'
    <3>1. ASSUME NEW c \in Batches, NEW f \in Member(c), NEW g \in Member(c),
                 at'[<<c, f, 1>>] = "off"
          PROVE  at'[<<c, g, 1>>] = "off"
      <4>1. CASE c = b
        BY <3>1, <4>1
      <4>2. CASE c # b
        <5>1. <<c, f, 1>> \in Tasks /\ <<c, g, 1>> \in Tasks
          BY TaskMade
        <5>2. at'[<<c, f, 1>>] = at[<<c, f, 1>>] /\ at'[<<c, g, 1>>] = at[<<c, g, 1>>]
          BY <4>2, <5>1
        <5> QED
          BY <3>1, <5>2 DEF Together
      <4> QED
        BY <4>1, <4>2
    <3>2. \A c \in Batches : Member(c)' = Member(c)
      BY DEF Member
    <3> QED
      BY <3>1, <3>2 DEF Together
  <2>2. Begun'
    <3>1. ASSUME NEW t \in Tasks, at'[t] # "off"
          PROVE  t[1] \in started' /\ Alive(t[1])'
      <4>1. CASE t[1] = b
        BY <1>1, <1>2, <4>1
      <4>2. CASE t[1] # b
        BY <1>1, <1>5, <1>7, <3>1, <4>2 DEF Begun
      <4> QED
        BY <4>1, <4>2
    <3>2. \A c \in Batches : manifest'[c] # "none" \/ Alive(c)' => c \in started'
      BY <1>1, <1>2, <1>5 DEF Begun
    <3>3. ASSUME NEW p \in Handlers
          PROVE  InHand(p)' \subseteq started'
      <4>1. InHand(p) \subseteq started
        BY DEF Begun
      <4>2. InHand(p)' = InHand(p) \/ InHand(p)' = {b}
        BY <1>9
      <4>3. started' = started /\ b \in started
        BY <1>1, <1>2
      <4> QED
        BY <4>1, <4>2, <4>3
    <3>4. Resumed' \subseteq started' /\ resume'.batch \in resume'.goal \union {None}
      BY <1>1, <1>4 DEF Begun
    <3> QED
      BY <3>1, <3>2, <3>3, <3>4 DEF Begun
  <2>3. First'
    <3>1. ASSUME NEW c \in Batches
          PROVE  /\ at'[Start(c)] \in {"off", "queued", "running", "done"}
                 /\ at'[Start(c)] \in {"queued", "running"} =>
                      /\ manifest'[c] = "none"
                      /\ \A f \in Files : status'[c][f] # "error"
                      /\ \A u \in Tasks : u[1] = c /\ u # Start(c) => at'[u] = "off"
                      /\ c \notin Resumed' /\ \A p \in Handlers : c \notin InHand(p)'
      <4>1. CASE c = b
        BY <4>1
      <4>2. CASE c # b
        <5>1. Start(c) \in Tasks /\ Start(c)[1] = c
          BY TaskMade
        <5>2. at'[Start(c)] = at[Start(c)] /\ status'[c] = status[c] /\ manifest'[c] = manifest[c]
          BY <4>2, <5>1
        <5>3. /\ at[Start(c)] \in {"off", "queued", "running", "done"}
              /\ at[Start(c)] \in {"queued", "running"} =>
                   /\ manifest[c] = "none"
                   /\ \A f \in Files : status[c][f] # "error"
                   /\ \A u \in Tasks : u[1] = c /\ u # Start(c) => at[u] = "off"
                   /\ c \notin Resumed /\ \A p \in Handlers : c \notin InHand(p)
          BY DEF First
        <5>4. \A u \in Tasks : u[1] = c => at'[u] = at[u]
          BY <4>2
        <5>5. (\A p \in Handlers : c \notin InHand(p)) => \A p \in Handlers : c \notin InHand(p)'
          BY <1>9, <4>2
        <5>6. ASSUME at'[Start(c)] \in {"queued", "running"}
              PROVE  /\ manifest'[c] = "none"
                     /\ \A f \in Files : status'[c][f] # "error"
                     /\ \A u \in Tasks : u[1] = c /\ u # Start(c) => at'[u] = "off"
          <6>1. at[Start(c)] \in {"queued", "running"}
            BY <5>2, <5>6
          <6>2. manifest[c] = "none" /\ \A f \in Files : status[c][f] # "error"
            BY <5>3, <6>1
          <6>3. \A u \in Tasks : u[1] = c /\ u # Start(c) => at[u] = "off"
            BY <5>3, <6>1
          <6>4. \A u \in Tasks : u[1] = c /\ u # Start(c) => at'[u] = "off"
            BY <5>4, <6>3
          <6> QED
            BY <5>2, <6>2, <6>4
        <5>7. ASSUME at'[Start(c)] \in {"queued", "running"}
              PROVE  c \notin Resumed' /\ \A p \in Handlers : c \notin InHand(p)'
          BY <1>4, <5>2, <5>3, <5>5, <5>7
        <5> QED
          BY <5>2, <5>3, <5>6, <5>7
      <4> QED
        BY <4>1, <4>2
    <3> QED
      BY <3>1 DEF First, Start
  <2> QED
    BY <2>1, <2>2, <2>3
<1>12. Settled'
  <2>1. ASSUME Short({"early", "overlap"})', NEW q \in Handlers, NEW c \in InHand(q)',
               NEW u \in Unfinished(c)'
        PROVE  u[3] = 2
    <3>1. CASE handler'[q] = handler[q]
      <4>1. c \in InHand(q) /\ c # b
        BY <1>2, <3>1 DEF InHand
      <4>2. c \in Batches
        BY <4>1 DEF Pool, Begun, TypeOK
      <4>3. u \in Unfinished(c)
        BY <1>6, <2>1, <4>1, <4>2
      <4> QED
        BY <1>8, <2>1, <4>1, <4>3 DEF Settled
    <3>2. CASE InHand(q)' = {b} /\ Unfinished(b)' = {}
      BY <3>2
    <3> QED
      BY <3>1, <3>2
  <2>2. ASSUME Short({"overlap"})', NEW c \in Resumed'
        PROVE  ~Alive(c)'
    <3>1. c \in Resumed /\ c # b /\ c \in Batches /\ Short({"overlap"})
      BY <1>2, <1>4, <1>8, <2>2 DEF Resumed, TypeOK
    <3> QED
      BY <1>5, <3>1 DEF Settled
  <2> QED
    BY <2>1, <2>2 DEF Settled
<1>13. QuietWhenCompacted'
  <2>1. ASSUME NEW c \in Batches, manifest'[c] = "gone", Short({"early", "overlap"})',
               NEW u \in Unfinished(c)'
        PROVE  u[3] = 2
    <3>1. c # b /\ manifest[c] = "gone"
      BY <2>1
    <3>2. u \in Unfinished(c)
      BY <1>6, <3>1
    <3> QED
      BY <1>8, <2>1, <3>1, <3>2 DEF QuietWhenCompacted
  <2> QED
    BY <2>1 DEF QuietWhenCompacted
<1>14. Follows'
  <2>1. ASSUME Short({"midway"})', NEW u \in Tasks, u[3] = 2, at'[u] # "off"
        PROVE  manifest'[u[1]] = "gone"
    <3>1. u[1] # b /\ u[1] \in Batches /\ at[u] # "off"
      BY <1>7, <2>1
    <3>2. manifest[u[1]] = "gone"
      BY <1>8, <2>1, <3>1 DEF Follows
    <3> QED
      BY <3>1, <3>2
  <2>2. ASSUME NEW q \in Handlers, handler'[q].stage = "compacting", handler'[q].held # None
        PROVE  manifest'[handler'[q].held] # "active" \/ "stuck" \in hazards'
    <3>1. handler'[q] = handler[q] /\ handler[q] \in Handler
      BY <2>2
    <3>2. handler[q].held \in InHand(q) /\ handler[q].held \in Batches
      BY <2>2, <3>1 DEF InHand, Handler
    <3>3. handler[q].held # b
      BY <1>2, <3>2
    <3>4. manifest[handler[q].held] # "active" \/ "stuck" \in hazards
      BY <2>2, <3>1 DEF Follows
    <3>5. manifest'[handler[q].held] = manifest[handler[q].held]
      BY <3>2, <3>3
    <3> QED
      BY <3>1, <3>4, <3>5
  <2> QED
    BY <2>1, <2>2 DEF Follows
<1>15. Journaled'
  <2>1. ASSUME Sound', NEW c \in Active', NEW f \in Member(c)
        PROVE  \/ Noted(c, f)'
               \/ /\ at'[<<c, f, 1>>] # "done"
                  /\ \A p \in Handlers : c \notin handler'[p].goal
                  /\ ~Passed(c, f)'
    <3>1. CASE c = b
      <4>1. manifest'[b] = "active" /\ b \notin resume.goal
        BY <1>2, <2>1, <3>1 DEF Active, Resumed
      <4>2. ~Passed(b, f)'
        BY <1>1, <4>1 DEF Passed
      <4>3. \A p \in Handlers : handler'[p] = handler[p] => b \notin handler'[p].goal
        BY <1>2
      <4> QED
        BY <2>1, <3>1, <4>1, <4>2, <4>3
    <3>2. CASE c # b
      <4>1. c \in Active /\ c \in Batches /\ journal'[c] = journal[c]
        BY <1>10, <2>1, <3>2
      <4>2. <<c, f, 1>> \in Tasks /\ <<c, f, 1>>[1] = c
        BY <2>1, <4>1, TaskMade
      <4>3. at'[<<c, f, 1>>] = at[<<c, f, 1>>]
        BY <3>2, <4>2
      <4>4. \A p \in Handlers : handler'[p].goal = handler[p].goal \/ handler'[p].goal = {b}
        OBVIOUS
      <4>5. \/ Noted(c, f)
            \/ /\ at[<<c, f, 1>>] # "done"
               /\ \A p \in Handlers : c \notin handler[p].goal
               /\ ~Passed(c, f)
        BY <1>8, <2>1, <4>1 DEF Journaled
      <4>6. (\A p \in Handlers : c \notin handler[p].goal) => \A p \in Handlers : c \notin handler'[p].goal
        BY <3>2, <4>4
      <4>7. /\ Noted(c, f) => Noted(c, f)'
            /\ Passed(c, f)' => Passed(c, f)
        BY <1>1, <4>1 DEF Noted, Passed
      <4> QED
        BY <4>3, <4>5, <4>6, <4>7
    <3> QED
      BY <3>1, <3>2
  <2>2. \A c \in Active' : Member(c)' = Member(c)
    BY DEF Member
  <2> QED
    BY <2>1, <2>2 DEF Journaled
<1>16. NothingLost'
  <2>1. \A c \in Batches : manifest'[c] = "gone" => manifest[c] = "gone"
    BY <1>2
  <2> QED
    BY <1>1, <2>1, LostKept
<1>17. Carried'
  <2>1. Sound' => Sound
    BY <1>8
  <2>2. \A c \in Active' : Member(c)' = Member(c)
    BY DEF Member
  <2>3. ASSUME Sound', NEW p \in Handlers, NEW c \in InHand(p)' \intersect Active'
        PROVE  /\ handler'[p].stage = "scanning" =>
                    c \in handler'[p].todo \/ c = handler'[p].held
                      \/ {c} \X Member(c) \subseteq handler'[p].seen \union known'
               /\ handler'[p].stage = "compacting" => {c} \X Member(c) \subseteq known'
    <3>1. CASE handler'[p] = handler[p]
      <4>1. InHand(p)' = InHand(p)
        BY <3>1 DEF InHand
      <4>2. c # b /\ c \in Active /\ c \in InHand(p)
        BY <1>2, <1>10, <2>3, <4>1
      <4> QED
        BY <1>1, <2>1, <2>3, <3>1, <4>2 DEF Carried
    <3>2. CASE handler'[p].stage = "called"
      BY <3>2
    <3> QED
      BY <3>1, <3>2
  <2> QED
    BY <2>2, <2>3 DEF Carried
<1> QED
  BY <1>3, <1>11, <1>12, <1>13, <1>14, <1>15, <1>16, <1>17

\* The manifest of a batch is written, or that fails and is ignored.
LEMMA Listing ==
  ASSUME IInv, NEW b \in Batches, at[Start(b)] = "running",
         WriteManifest(b) \/ UNCHANGED <<manifest, rank>>
  PROVE  /\ manifest' \in [Batches -> {"none", "active", "gone"}] /\ manifest'[b] \in {"none", "active"}
         /\ \A c \in Batches \ {b} : manifest'[c] = manifest[c]
         /\ rank' \in [Batches -> Nat]
<1>1. CASE WriteManifest(b)
  BY <1>1, WriteManifestType DEF IInv
<1>2. CASE UNCHANGED <<manifest, rank>>
  <2>1. manifest[b] = "none"
    BY FirstAtWork
  <2> QED
    BY <1>2, <2>1 DEF IInv, TypeOK
<1> QED
  BY <1>1, <1>2

LEMMA OwnType ==
  ASSUME NEW b \in Batches
  PROVE  /\ Own(b) \in Seq(Tasks) /\ DOMAIN Own(b) = 1 .. Len(FilesOf[b])
         /\ Len(Own(b)) = Len(FilesOf[b])
         /\ \A i \in DOMAIN Own(b) : /\ FilesOf[b][i] \in Member(b)
                                     /\ Own(b)[i] = <<b, FilesOf[b][i], 1>>
         /\ \A i, j \in DOMAIN Own(b) : Own(b)[i] = Own(b)[j] => i = j
         /\ \A f \in Member(b) : \E i \in DOMAIN Own(b) : Own(b)[i] = <<b, f, 1>>
<1>1. Len(FilesOf[b]) \in Nat /\ DOMAIN FilesOf[b] = 1 .. Len(FilesOf[b])
  BY MemberType
<1>2. \A i \in 1 .. Len(FilesOf[b]) : FilesOf[b][i] \in Member(b)
  BY DEF Member
<1>3. \A i \in 1 .. Len(FilesOf[b]) : <<b, FilesOf[b][i], 1>> \in Tasks
  BY <1>2, TaskMade
<1>4. Own(b) \in Seq(Tasks) /\ DOMAIN Own(b) = 1 .. Len(FilesOf[b]) /\ Len(Own(b)) = Len(FilesOf[b])
  BY <1>1, <1>3 DEF Own
<1>5. \A i \in 1 .. Len(FilesOf[b]) : Own(b)[i] = <<b, FilesOf[b][i], 1>>
  BY DEF Own
<1>6. ASSUME NEW i \in DOMAIN Own(b), NEW j \in DOMAIN Own(b), Own(b)[i] = Own(b)[j]
      PROVE  i = j
  <2>1. FilesOf[b][i] = FilesOf[b][j]
    BY <1>4, <1>5, <1>6
  <2> QED
    BY <1>1, <1>4, <2>1, MetadataQueueConstants
<1>7. \A f \in Member(b) : \E i \in DOMAIN Own(b) : Own(b)[i] = <<b, f, 1>>
  BY <1>4, <1>5 DEF Member
<1> QED
  BY <1>2, <1>4, <1>5, <1>6, <1>7

LEMMA PrepareStep ==
  ASSUME IInv, NEW b \in Batches, Prepare(b)
  PROVE  IInv'
<1> USE DEF IInv, Safe
<1>1. /\ at[Start(b)] = "running"
      /\ WriteManifest(b) \/ UNCHANGED <<manifest, rank>>
      /\ queue' = queue \o Own(b) /\ at' = [Queued(Own(b)) EXCEPT ![Start(b)] = "done"]
      /\ UNCHANGED <<journal, recorded, status, handler, resume, historyVars>>
  BY DEF Prepare
<1>2. /\ Start(b) \in Tasks /\ manifest[b] = "none" /\ b \in started /\ Alive(b)
      /\ \A t \in Tasks : t[1] = b /\ t # Start(b) => at[t] = "off"
  BY <1>1, FirstAtWork
<1>3. hazards \subseteq hazards' /\ hazards' \subseteq Kinds
  BY DEF Prepare, Meet, TypeOK, Kinds
<1>4. /\ queue \in Seq(Tasks) /\ at \in [Tasks -> Status] /\ journal \in [Batches -> [Files -> Lines]]
      /\ status \in [Batches -> [Files -> {"absent", "pending", "done", "error"}]]
      /\ handler \in [Handlers -> Handler] /\ InQueue
  BY DEF TypeOK, Status, Handler, Stage, Pool
<1>5. /\ Own(b) \in Seq(Tasks) /\ DOMAIN Own(b) = 1 .. Len(FilesOf[b])
      /\ Len(Own(b)) = Len(FilesOf[b])
      /\ \A i \in DOMAIN Own(b) : /\ FilesOf[b][i] \in Member(b)
                                  /\ Own(b)[i] = <<b, FilesOf[b][i], 1>>
      /\ \A i, j \in DOMAIN Own(b) : Own(b)[i] = Own(b)[j] => i = j
      /\ \A f \in Member(b) : \E i \in DOMAIN Own(b) : Own(b)[i] = <<b, f, 1>>
  BY OwnType
<1>6. Start(b)[3] = 0 /\ Start(b)[1] = b /\ \A f \in Member(b) : <<b, f, 1>> \in Tasks /\ <<b, f, 1>> # Start(b)
  BY TaskMade
<1>7. \A t \in Tasks : at'[t] = IF t = Start(b) THEN "done"
                                ELSE IF \E i \in DOMAIN Own(b) : Own(b)[i] = t THEN "queued" ELSE at[t]
  BY <1>1, <1>5 DEF Queued
<1>8. at' \in [Tasks -> Status]
  <2>1. at' = [t \in Tasks |-> at'[t]]
    BY <1>1 DEF Queued
  <2>2. \A t \in Tasks : at'[t] \in Status
    BY <1>4, <1>7 DEF Status
  <2> QED
    BY <2>1, <2>2
<1>9. \A i \in DOMAIN Own(b) : at[Own(b)[i]] = "off" /\ at'[Own(b)[i]] = "queued"
  BY <1>2, <1>5, <1>6, <1>7
<1>10. queue' \in Seq(Tasks) /\ InQueue'
  <2>1. \A t \in Tasks : at[t] = "queued" => at'[t] = "queued"
    BY <1>1, <1>7
  <2> QED
    BY <1>1, <1>4, <1>5, <1>9, <2>1, Appended
<1>11. \A t \in Tasks : t[1] # b => at'[t] = at[t]
  BY <1>5, <1>6, <1>7
<1>12. \A t \in Tasks : t[1] = b /\ t[3] = 2 => at'[t] = "off"
  BY <1>2, <1>5, <1>6, <1>7
<1>13. \A f \in Member(b) : at'[<<b, f, 1>>] = "queued"
  BY <1>5, <1>6, <1>7
<1>14. /\ manifest' \in [Batches -> {"none", "active", "gone"}] /\ manifest'[b] \in {"none", "active"}
       /\ \A c \in Batches \ {b} : manifest'[c] = manifest[c]
       /\ rank' \in [Batches -> Nat]
  BY <1>1, Listing
<1>15. Alive(b)' /\ at'[Start(b)] = "done"
  BY <1>1, <1>2, <1>7 DEF Alive
<1> QED
  BY <1>1, <1>3, <1>4, <1>8, <1>10, <1>11, <1>12, <1>13, <1>14, <1>15, FirstDone

LEMMA PreflightFailsStep ==
  ASSUME IInv, NEW b \in Batches, PreflightFails(b)
  PROVE  IInv'
<1> USE DEF IInv, Safe
<1>1. /\ at[Start(b)] = "running"
      /\ status' = [status EXCEPT ![b] = [f \in Files |-> IF f \in Member(b) THEN "error" ELSE @[f]]]
      /\ at' = [at EXCEPT ![Start(b)] = "done"]
      /\ UNCHANGED <<recorded, queue, resume, historyVars>>
  BY DEF PreflightFails
<1>2. PICK lost \in SUBSET Member(b), met \in SUBSET {"unlisted", "unjournaled"} :
        /\ journal' = [journal EXCEPT ![b] =
             [f \in Files |-> IF f \in Member(b) \ lost THEN "failed" ELSE @[f]]]
        /\ lost # {} => "unjournaled" \in met
        /\ WriteManifest(b) \/ UNCHANGED <<manifest, rank>>
        /\ Complete(b, Start(b), met)
  <2>1. PICK lost \in SUBSET Member(b) :
          /\ \/ WriteManifest(b) /\ Complete(b, Start(b), When(lost # {}, "unjournaled"))
             \/ /\ Complete(b, Start(b), When(lost # {}, "unjournaled") \union {"unlisted"})
                /\ UNCHANGED <<manifest, rank>>
          /\ journal' = [journal EXCEPT ![b] =
               [f \in Files |-> IF f \in Member(b) \ lost THEN "failed" ELSE @[f]]]
    BY DEF PreflightFails
  <2>2. /\ When(lost # {}, "unjournaled") \in SUBSET {"unlisted", "unjournaled"}
        /\ When(lost # {}, "unjournaled") \union {"unlisted"} \in SUBSET {"unlisted", "unjournaled"}
        /\ lost # {} => "unjournaled" \in When(lost # {}, "unjournaled")
    BY DEF When
  <2> HIDE DEF When
  <2> QED
    BY <2>1, <2>2
<1>3. /\ Start(b) \in Tasks /\ manifest[b] = "none" /\ b \in started /\ Alive(b)
      /\ \A t \in Tasks : t[1] = b /\ t # Start(b) => at[t] = "off"
  BY <1>1, FirstAtWork
<1>4. /\ queue \in Seq(Tasks) /\ at \in [Tasks -> Status] /\ journal \in [Batches -> [Files -> Lines]]
      /\ status \in [Batches -> [Files -> {"absent", "pending", "done", "error"}]]
      /\ InQueue /\ met \in SUBSET Kinds
  BY DEF TypeOK, Status, Pool, Kinds
<1>5. /\ handler' \in [Handlers -> Handler]
      /\ \A p \in Handlers :
           \/ handler'[p] = handler[p]
           \/ handler'[p].stage = "called" /\ handler'[p].goal = {b} /\ InHand(p)' = {b}
      /\ hazards \subseteq hazards' /\ hazards' \subseteq Kinds /\ met \subseteq hazards'
  BY <1>2, <1>3, <1>4, Completing
<1>6. Member(b) \subseteq Files /\ Member(b) # {}
  BY MemberType
<1>7. /\ journal' \in [Batches -> [Files -> Lines]] /\ \A c \in Batches \ {b} : journal'[c] = journal[c]
      /\ Sound' => \A f \in Member(b) : journal'[b][f] = "failed"
  <2>1. Sound' => lost = {}
    BY <1>2, <1>5 DEF Sound, Short
  <2> QED
    BY <1>2, <1>4, <1>6, <2>1 DEF Lines, Terminal
<1>8. /\ status' \in [Batches -> [Files -> {"absent", "pending", "done", "error"}]]
      /\ \A c \in Batches \ {b} : status'[c] = status[c]
      /\ \A f \in Member(b) : status'[b][f] = "error"
  BY <1>1, <1>4, <1>6
<1>9. Alive(b)'
  BY <1>6, <1>8 DEF Alive
<1>10. /\ at' \in [Tasks -> Status] /\ at'[Start(b)] = "done"
       /\ \A t \in Tasks \ {Start(b)} : at'[t] = at[t]
  BY <1>1, <1>3, <1>4 DEF Status
<1>11. Start(b)[3] = 0 /\ Start(b)[1] = b /\ \A f \in Member(b) : <<b, f, 1>> \in Tasks /\ <<b, f, 1>> # Start(b)
  BY TaskMade
<1>12. queue' \in Seq(Tasks) /\ InQueue'
  <2>1. \A i \in DOMAIN queue : at[queue[i]] = "queued" /\ queue[i] \in Tasks
    BY <1>4 DEF InQueue
  <2>2. \A i \in DOMAIN queue : at'[queue[i]] = "queued"
    BY <1>1, <1>10, <2>1
  <2> QED
    BY <1>1, <1>4, <2>2 DEF InQueue
<1>13. \A t \in Tasks : t[1] # b => at'[t] = at[t]
  BY <1>10, <1>11
<1>14. \A t \in Tasks : t[1] = b /\ t[3] = 2 => at'[t] = "off"
  BY <1>3, <1>10, <1>11
<1>15. \A f \in Member(b) : at'[<<b, f, 1>>] = "off"
  BY <1>3, <1>10, <1>11
<1>16. Unfinished(b)' = {}
  BY <1>3, <1>10 DEF Unfinished, Working, Counted
<1>17. /\ manifest' \in [Batches -> {"none", "active", "gone"}] /\ manifest'[b] \in {"none", "active"}
       /\ \A c \in Batches \ {b} : manifest'[c] = manifest[c]
       /\ rank' \in [Batches -> Nat]
  BY <1>1, <1>2, Listing
<1>18. "failed" \in Terminal
  BY DEF Terminal
<1>19. \A p \in Handlers :
         \/ handler'[p] = handler[p]
         \/ /\ handler'[p].stage = "called" /\ handler'[p].goal = {b} /\ InHand(p)' = {b}
            /\ Unfinished(b)' = {}
  BY <1>5, <1>16
<1>20. \A f, g \in Member(b) : at'[<<b, f, 1>>] = "off" => at'[<<b, g, 1>>] = "off"
  BY <1>15
<1>21. manifest'[b] = "active" /\ Sound' => \A f \in Member(b) :
         \/ Noted(b, f)'
         \/ at'[<<b, f, 1>>] # "done" /\ \A p \in Handlers : handler'[p] = handler[p]
  BY <1>7, <1>18 DEF Noted
<1>22. UNCHANGED <<recorded, resume, historyVars>>
  BY <1>1
<1> QED
  BY <1>1, <1>5, <1>7, <1>8, <1>9, <1>10, <1>12, <1>13, <1>14, <1>17, <1>19, <1>20, <1>21,
     <1>22, FirstDone

-----------------------------------------------------------------------------
(* New jobs                                                                *)

\* A batch is new, or it is tried again: its own jobs are as they were.
New(b) ==
  /\ b \notin started /\ \A f \in Files : status'[b][f] # "error"
  /\ \A t \in Tasks : at'[t] # at[t] => t = Start(b) /\ at'[t] = "queued"
Again(b) ==
  /\ \E f \in Files : status[b][f] = "error"
  /\ Short({"midway"})' => manifest[b] = "gone"
  /\ \A t \in Tasks : at'[t] # at[t] => t[1] = b /\ t[3] = 2 /\ at'[t] = "queued"

LEMMA Queueing ==
  ASSUME IInv, NEW b \in Batches, New(b) \/ Again(b),
         UNCHANGED <<diskVars, handler, resume, crashes, known>>,
         started' = started \union {b}, hazards \subseteq hazards', hazards' \subseteq Kinds,
         status' \in [Batches -> [Files -> {"absent", "pending", "done", "error"}]],
         \A c \in Batches \ {b} : status'[c] = status[c], Alive(b)',
         queue' \in Seq(Tasks), InQueue', at' \in [Tasks -> Status]
  PROVE  IInv'
<1> USE DEF IInv, Safe
<1>1. UNCHANGED <<manifest, rank, journal, recorded, handler, resume, crashes, known>>
  BY DEF diskVars
<1>2. TypeOK'
  <2>1. at' \in [Tasks -> {"off", "queued", "done"} \union Working]
    BY DEF Status
  <2> QED
    BY <1>1, <2>1 DEF TypeOK, Kinds
<1>3. /\ Active' = Active /\ Resumed' = Resumed /\ \A q : InHand(q)' = InHand(q)
      /\ \A c \in Batches \ {b} : Alive(c)' = Alive(c)
  BY <1>1 DEF Active, Resumed, InHand, Alive
<1>4. /\ Short({"early", "overlap"})' => Short({"early", "overlap"})
      /\ Short({"overlap"})' => Short({"overlap"})
      /\ Short({"midway"})' => Short({"midway"})
      /\ Sound' => Sound
  BY DEF Short, Sound
<1>5. \A t \in Tasks : t[1] \in Batches
  BY TaskType
<1>6. ASSUME New(b)
      PROVE  /\ manifest[b] = "none" /\ b \notin Resumed /\ \A p \in Handlers : b \notin InHand(p)
             /\ \A t \in Tasks : t[1] = b => at[t] = "off"
  <2>1. b \notin started
    BY <1>6 DEF New
  <2> QED
    BY <2>1 DEF Pool, Begun
<1>7. ASSUME Again(b)
      PROVE  Alive(b) /\ at[Start(b)] \notin {"queued", "running"}
  <2>1. \E f \in Files : status[b][f] = "error"
    BY <1>7 DEF Again
  <2>2. Alive(b)
    BY <2>1 DEF Alive
  <2>3. at[Start(b)] \notin {"queued", "running"}
    BY <2>1 DEF Pool, First
  <2> QED
    BY <2>2, <2>3
<1>8. ASSUME NEW t \in Tasks, at'[t] # at[t]
      PROVE  t[1] = b /\ at'[t] = "queued" /\ t[3] # 1 /\ (New(b) \/ t[3] = 2)
  <2>1. Start(b)[1] = b /\ Start(b)[3] = 0
    BY DEF Start
  <2> QED
    BY <1>8, <2>1 DEF New, Again
<1>9. Pool'
  <2> USE DEF Pool
  <2>1. Together'
    <3>1. ASSUME NEW c \in Batches, NEW f \in Member(c), NEW g \in Member(c),
                 at'[<<c, f, 1>>] = "off"
          PROVE  at'[<<c, g, 1>>] = "off"
      <4>1. <<c, f, 1>> \in Tasks /\ <<c, g, 1>> \in Tasks
        BY TaskMade
      <4>2. at'[<<c, f, 1>>] = at[<<c, f, 1>>] /\ at'[<<c, g, 1>>] = at[<<c, g, 1>>]
        BY <1>8, <4>1
      <4> QED
        BY <3>1, <4>2 DEF Together
    <3>2. \A c \in Batches : Member(c)' = Member(c)
      BY DEF Member
    <3> QED
      BY <3>1, <3>2 DEF Together
  <2>2. Begun'
    <3>1. ASSUME NEW t \in Tasks, at'[t] # "off"
          PROVE  t[1] \in started' /\ Alive(t[1])'
      <4>1. CASE t[1] = b
        BY <4>1
      <4>2. CASE t[1] # b
        <5>1. t[1] \in Batches /\ at[t] # "off"
          BY <1>5, <1>8, <3>1, <4>2
        <5>2. t[1] \in started /\ Alive(t[1])
          BY <5>1 DEF Begun
        <5>3. Alive(t[1])' = Alive(t[1])
          BY <4>2, <5>1 DEF Alive
        <5> QED
          BY <5>2, <5>3
      <4> QED
        BY <4>1, <4>2
    <3>2. \A c \in Batches : manifest'[c] # "none" \/ Alive(c)' => c \in started'
      BY <1>1, <1>3 DEF Begun
    <3>3. ASSUME NEW p \in Handlers
          PROVE  InHand(p)' \subseteq started'
      <4>1. InHand(p)' = InHand(p) /\ InHand(p) \subseteq started
        BY <1>3 DEF Begun
      <4> QED
        BY <4>1
    <3>4. Resumed' \subseteq started' /\ resume'.batch \in resume'.goal \union {None}
      BY <1>1, <1>3 DEF Begun
    <3> QED
      BY <3>1, <3>2, <3>3, <3>4 DEF Begun
  <2>3. First'
    <3>1. ASSUME NEW c \in Batches
          PROVE  /\ at'[Start(c)] \in {"off", "queued", "running", "done"}
                 /\ at'[Start(c)] \in {"queued", "running"} =>
                      /\ manifest'[c] = "none"
                      /\ \A f \in Files : status'[c][f] # "error"
                      /\ \A u \in Tasks : u[1] = c /\ u # Start(c) => at'[u] = "off"
                      /\ c \notin Resumed' /\ \A p \in Handlers : c \notin InHand(p)'
      <4>1. Start(c) \in Tasks /\ Start(c)[1] = c /\ Start(c)[3] = 0
        BY TaskMade
      <4>2. /\ at[Start(c)] \in {"off", "queued", "running", "done"}
            /\ at[Start(c)] \in {"queued", "running"} =>
                 /\ manifest[c] = "none" /\ \A f \in Files : status[c][f] # "error"
                 /\ \A u \in Tasks : u[1] = c /\ u # Start(c) => at[u] = "off"
                 /\ c \notin Resumed /\ \A p \in Handlers : c \notin InHand(p)
        BY DEF First
      <4>3. at'[Start(c)] \in {"off", "queued", "running", "done"}
        BY <1>8, <4>1, <4>2
      <4>4. ASSUME at'[Start(c)] \in {"queued", "running"}, c # b
            PROVE  /\ manifest'[c] = "none"
                   /\ \A f \in Files : status'[c][f] # "error"
                   /\ \A u \in Tasks : u[1] = c /\ u # Start(c) => at'[u] = "off"
                   /\ c \notin Resumed' /\ \A p \in Handlers : c \notin InHand(p)'
        <5>1. at[Start(c)] \in {"queued", "running"} /\ status'[c] = status[c]
          BY <1>8, <4>1, <4>4
        <5>2. \A u \in Tasks : u[1] = c => at'[u] = at[u]
          BY <1>8, <4>4
        <5>3. \A u \in Tasks : u[1] = c /\ u # Start(c) => at[u] = "off"
          BY <4>2, <5>1
        <5>4. \A u \in Tasks : u[1] = c /\ u # Start(c) => at'[u] = "off"
          BY <5>2, <5>3
        <5>5. manifest[c] = "none" /\ \A f \in Files : status[c][f] # "error"
          BY <4>2, <5>1
        <5>6. c \notin Resumed /\ \A p \in Handlers : c \notin InHand(p)
          BY <4>2, <5>1
        <5>7. c \notin Resumed' /\ \A p \in Handlers : c \notin InHand(p)'
          BY <1>3, <5>6
        <5> QED
          BY <1>1, <5>1, <5>4, <5>5, <5>7
      <4>5. ASSUME at'[Start(c)] \in {"queued", "running"}, c = b
            PROVE  /\ manifest'[c] = "none"
                   /\ \A f \in Files : status'[c][f] # "error"
                   /\ \A u \in Tasks : u[1] = c /\ u # Start(c) => at'[u] = "off"
                   /\ c \notin Resumed' /\ \A p \in Handlers : c \notin InHand(p)'
        <5>1. New(b)
          BY <1>7, <1>8, <4>1, <4>5
        <5>2. \A u \in Tasks : u[1] = c /\ u # Start(c) => at'[u] = "off"
          BY <1>6, <4>5, <5>1 DEF New
        <5>3. \A f \in Files : status'[c][f] # "error"
          BY <4>5, <5>1 DEF New
        <5>4. c \notin Resumed' /\ \A p \in Handlers : c \notin InHand(p)'
          BY <1>3, <1>6, <4>5, <5>1
        <5> QED
          BY <1>1, <1>6, <4>5, <5>1, <5>2, <5>3, <5>4
      <4> QED
        BY <4>3, <4>4, <4>5
    <3> QED
      BY <3>1 DEF First, Start
  <2> QED
    BY <2>1, <2>2, <2>3
<1>10. ASSUME NEW c, NEW u \in Unfinished(c)', u \notin Unfinished(c)
       PROVE  c = b /\ (New(b) \/ u[3] = 2)
  <2>1. u \in Tasks /\ u[1] = c /\ at'[u] # at[u]
    BY <1>10 DEF Unfinished
  <2> QED
    BY <1>8, <2>1
<1>11. Settled'
  <2>1. ASSUME Short({"early", "overlap"})', NEW q \in Handlers, NEW c \in InHand(q)',
               NEW u \in Unfinished(c)'
        PROVE  u[3] = 2
    <3>1. c \in InHand(q)
      BY <1>3
    <3>2. CASE u \in Unfinished(c)
      BY <1>4, <2>1, <3>1, <3>2 DEF Settled
    <3>3. CASE u \notin Unfinished(c)
      <4>1. c = b /\ (New(b) \/ u[3] = 2)
        BY <1>10, <2>1, <3>3
      <4> QED
        BY <1>6, <3>1, <4>1
    <3> QED
      BY <3>2, <3>3
  <2>2. ASSUME Short({"overlap"})', NEW c \in Resumed'
        PROVE  ~Alive(c)'
    <3>1. c \in Resumed /\ c \in Batches /\ Short({"overlap"})
      BY <1>3, <1>4, <2>2 DEF Resumed, TypeOK
    <3>2. ~Alive(c)
      BY <3>1 DEF Settled
    <3>3. c # b
      BY <1>6, <1>7, <3>1, <3>2
    <3>4. Alive(c)' = Alive(c)
      BY <3>1, <3>3 DEF Alive
    <3> QED
      BY <3>2, <3>4
  <2> QED
    BY <2>1, <2>2 DEF Settled
<1>12. QuietWhenCompacted'
  <2>1. ASSUME NEW c \in Batches, manifest'[c] = "gone", Short({"early", "overlap"})',
               NEW u \in Unfinished(c)'
        PROVE  u[3] = 2
    <3>1. CASE u \in Unfinished(c)
      BY <1>1, <1>4, <2>1, <3>1 DEF QuietWhenCompacted
    <3>2. CASE u \notin Unfinished(c)
      <4>1. c = b /\ (New(b) \/ u[3] = 2)
        BY <1>10, <2>1, <3>2
      <4> QED
        BY <1>1, <1>6, <2>1, <4>1
    <3> QED
      BY <3>1, <3>2
  <2> QED
    BY <2>1 DEF QuietWhenCompacted
<1>13. Follows'
  <2>1. ASSUME Short({"midway"})', NEW u \in Tasks, u[3] = 2, at'[u] # "off"
        PROVE  manifest'[u[1]] = "gone"
    <3>1. CASE at'[u] = at[u]
      <4>1. manifest[u[1]] = "gone"
        BY <1>4, <2>1, <3>1 DEF Follows
      <4> QED
        BY <1>1, <4>1
    <3>2. CASE at'[u] # at[u]
      <4>1. u[1] = b /\ ~New(b)
        <5>1. Start(b)[3] = 0
          BY DEF Start
        <5> QED
          BY <1>8, <2>1, <3>2, <5>1 DEF New
      <4>2. manifest[b] = "gone"
        BY <2>1, <4>1 DEF Again
      <4> QED
        BY <1>1, <4>1, <4>2
    <3> QED
      BY <3>1, <3>2
  <2>2. \A q \in Handlers : handler'[q].stage = "compacting" /\ handler'[q].held # None
                              => manifest'[handler'[q].held] # "active" \/ "stuck" \in hazards'
    BY <1>1 DEF Follows
  <2> QED
    BY <2>1, <2>2 DEF Follows
<1>14. Journaled'
  <2>1. ASSUME Sound', NEW c \in Active', NEW f \in Member(c)
        PROVE  \/ Noted(c, f)'
               \/ /\ at'[<<c, f, 1>>] # "done"
                  /\ \A p \in Handlers : c \notin handler'[p].goal
                  /\ ~Passed(c, f)'
    <3>1. c \in Batches /\ c \in Active /\ Sound
      BY <1>3, <1>4, <2>1 DEF Active
    <3>2. <<c, f, 1>> \in Tasks /\ <<c, f, 1>>[3] = 1
      BY <2>1, <3>1, TaskMade
    <3>3. at'[<<c, f, 1>>] = at[<<c, f, 1>>]
      BY <1>8, <3>2
    <3>4. /\ Noted(c, f) => Noted(c, f)'
          /\ Passed(c, f)' => Passed(c, f)
      BY <1>1, <1>4 DEF Noted, Passed
    <3> QED
      BY <1>1, <2>1, <3>1, <3>3, <3>4 DEF Journaled
  <2>2. \A c \in Active' : Member(c)' = Member(c)
    BY DEF Member
  <2> QED
    BY <2>1, <2>2 DEF Journaled
<1>15. NothingLost'
  BY <1>1, LostKept
<1>16. Carried'
  BY <1>1, <1>3, PoolCarried
<1> QED
  BY <1>2, <1>9, <1>11, <1>12, <1>13, <1>14, <1>15, <1>16

LEMMA ApplyBatchStep ==
  ASSUME IInv, NEW b \in Batches, ApplyBatch(b)
  PROVE  IInv'
<1> USE DEF IInv, Safe
<1> DEFINE jobs == <<Start(b)>>
<1>1. /\ b \notin started /\ started' = started \union {b}
      /\ status' = [status EXCEPT ![b] = [f \in Files |-> IF f \in Member(b) THEN "pending" ELSE "absent"]]
      /\ queue' = queue \o jobs /\ at' = Queued(jobs)
      /\ UNCHANGED <<diskVars, handler, resume, crashes, known, hazards>>
  BY DEF ApplyBatch, Enqueue
<1>2. /\ Start(b) \in Tasks /\ Start(b)[1] = b
  BY TaskMade
<1>3. jobs \in Seq(Tasks) /\ DOMAIN jobs = {1} /\ jobs[1] = Start(b) /\ Len(jobs) = 1
  BY <1>2
<1> HIDE DEF jobs
<1>4. /\ queue \in Seq(Tasks) /\ at \in [Tasks -> Status] /\ InQueue
      /\ status \in [Batches -> [Files -> {"absent", "pending", "done", "error"}]]
      /\ hazards \subseteq Kinds
  BY DEF TypeOK, Status, Pool, Kinds
<1>5. at[Start(b)] = "off"
  BY <1>1, <1>2 DEF Pool, Begun
<1>6. /\ at' = [t \in Tasks |-> IF t = Start(b) THEN "queued" ELSE at[t]]
  BY <1>1, <1>3 DEF Queued
<1>7. at' \in [Tasks -> Status] /\ at'[Start(b)] = "queued" /\ \A t \in Tasks \ {Start(b)} : at'[t] = at[t]
  BY <1>2, <1>4, <1>6 DEF Status
<1>8. queue' \in Seq(Tasks) /\ InQueue'
  <2>1. \A t \in Tasks : at[t] = "queued" => at'[t] = "queued"
    BY <1>7
  <2>2. /\ \A i, j \in DOMAIN jobs : jobs[i] = jobs[j] => i = j
        /\ \A i \in DOMAIN jobs : at[jobs[i]] = "off" /\ at'[jobs[i]] = "queued"
    BY <1>3, <1>5, <1>7
  <2> QED
    BY <1>1, <1>3, <1>4, <2>1, <2>2, Appended
<1>9. Member(b) \subseteq Files /\ Member(b) # {}
  BY MemberType
<1>10. /\ status' \in [Batches -> [Files -> {"absent", "pending", "done", "error"}]]
       /\ \A c \in Batches \ {b} : status'[c] = status[c]
       /\ \A f \in Files : status'[b][f] = IF f \in Member(b) THEN "pending" ELSE "absent"
  BY <1>1, <1>4
<1>11. Alive(b)'
  BY <1>9, <1>10 DEF Alive
<1>12. New(b)
  BY <1>1, <1>7, <1>10 DEF New
<1> QED
  BY <1>1, <1>4, <1>7, <1>8, <1>10, <1>11, <1>12, Queueing

LEMMA RetryFailedStep ==
  ASSUME IInv, NEW b \in Batches, RetryFailed(b)
  PROVE  IInv'
<1> USE DEF IInv, Safe
<1> DEFINE again == {i \in DOMAIN FilesOf[b] : status[b][FilesOf[b][i]] = "error"}
<1>1. /\ again # {}
      /\ \A t \in Tasks : t[1] = b /\ t[3] = 2 => at[t] = "off"
      /\ status' = [status EXCEPT ![b] = [f \in Files |-> IF @[f] = "error" THEN "pending" ELSE @[f]]]
      /\ Meet(When(manifest[b] # "gone", "midway"))
      /\ UNCHANGED <<diskVars, handler, resume, started, crashes, known>>
  BY DEF RetryFailed, historyVars
<1>2. PICK s \in InOrder(again) : Enqueue([i \in DOMAIN s |-> <<b, FilesOf[b][s[i]], 2>>])
  BY DEF RetryFailed
<1>3. DOMAIN FilesOf[b] = 1 .. Len(FilesOf[b]) /\ Len(FilesOf[b]) \in Nat
  BY MemberType
<1>4. \A i \in again : /\ FilesOf[b][i] \in Member(b) /\ i \in DOMAIN FilesOf[b] /\ i \in Nat
                       /\ status[b][FilesOf[b][i]] = "error"
  BY <1>3 DEF Member
<1>5. Cardinality(again) \in Nat
  <2>1. again \subseteq 1 .. Len(FilesOf[b]) /\ IsFiniteSet(1 .. Len(FilesOf[b]))
    BY <1>3, FS_Interval
  <2>2. IsFiniteSet(again)
    BY <2>1, FS_Subset
  <2> QED
    BY <2>2, FS_CardinalityType
<1> HIDE DEF again
<1>6. /\ s \in [1 .. Cardinality(again) -> again] /\ DOMAIN s = 1 .. Cardinality(again)
      /\ \A i, j \in DOMAIN s : i < j => s[i] < s[j]
  BY DEF InOrder
<1> DEFINE jobs == [i \in DOMAIN s |-> <<b, FilesOf[b][s[i]], 2>>]
<1>7. /\ DOMAIN jobs = 1 .. Cardinality(again) /\ Len(jobs) = Cardinality(again)
      /\ \A i \in DOMAIN jobs : jobs[i] = <<b, FilesOf[b][s[i]], 2>> /\ s[i] \in again
  BY <1>5, <1>6
<1>8. \A i \in DOMAIN jobs : jobs[i] \in Tasks /\ jobs[i][1] = b /\ jobs[i][3] = 2
  BY <1>4, <1>7, TaskMade
<1>9. jobs \in Seq(Tasks)
  <2>1. jobs = [i \in DOMAIN jobs |-> jobs[i]]
    OBVIOUS
  <2> HIDE DEF jobs
  <2>2. jobs \in [1 .. Cardinality(again) -> Tasks]
    BY <1>7, <1>8, <2>1
  <2> QED
    BY <1>5, <2>2
<1>10. \A i, j \in DOMAIN jobs : jobs[i] = jobs[j] => i = j
  <2>1. ASSUME NEW i \in DOMAIN jobs, NEW j \in DOMAIN jobs, jobs[i] = jobs[j]
        PROVE  i = j
    <3>1. FilesOf[b][s[i]] = FilesOf[b][s[j]]
      BY <1>7, <2>1
    <3>2. s[i] = s[j] /\ s[i] \in Nat /\ s[j] \in Nat
      BY <1>4, <1>7, <3>1, MetadataQueueConstants
    <3>3. i \in Nat /\ j \in Nat
      BY <1>5, <1>7
    <3>4. ~(i < j) /\ ~(j < i)
      BY <1>6, <1>7, <3>2
    <3> QED
      BY <3>3, <3>4
  <2> QED
    BY <2>1
<1>11. queue' = queue \o jobs /\ at' = Queued(jobs)
  BY <1>2 DEF Enqueue
<1> HIDE DEF jobs
<1>12. /\ queue \in Seq(Tasks) /\ at \in [Tasks -> Status] /\ InQueue
       /\ status \in [Batches -> [Files -> {"absent", "pending", "done", "error"}]]
       /\ hazards \subseteq Kinds
  BY DEF TypeOK, Status, Pool, Kinds
<1>13. at' = [t \in Tasks |-> IF \E i \in DOMAIN jobs : jobs[i] = t THEN "queued" ELSE at[t]]
  BY <1>7, <1>11 DEF Queued
<1>14. /\ at' \in [Tasks -> Status]
       /\ \A t \in Tasks : at'[t] # at[t] => t[1] = b /\ t[3] = 2 /\ at'[t] = "queued"
       /\ \A t \in Tasks : at[t] = "queued" => at'[t] = "queued"
  BY <1>8, <1>12, <1>13 DEF Status
<1>15. \A i \in DOMAIN jobs : at[jobs[i]] = "off" /\ at'[jobs[i]] = "queued"
  BY <1>1, <1>8, <1>13
<1>16. queue' \in Seq(Tasks) /\ InQueue'
  BY <1>9, <1>10, <1>11, <1>12, <1>14, <1>15, Appended
<1>17. /\ hazards \subseteq hazards' /\ hazards' \subseteq Kinds
       /\ Short({"midway"})' => manifest[b] = "gone"
  BY <1>1, <1>12 DEF Meet, When, Kinds, Short
<1>18. \E f \in Files : status[b][f] = "error"
  <2>1. PICK i \in again : TRUE
    BY <1>1
  <2>2. FilesOf[b][i] \in Files /\ status[b][FilesOf[b][i]] = "error"
    BY <1>4, MemberType
  <2> QED
    BY <2>2
<1>19. Again(b)
  BY <1>14, <1>17, <1>18 DEF Again
<1>20. /\ status' \in [Batches -> [Files -> {"absent", "pending", "done", "error"}]]
       /\ \A c \in Batches \ {b} : status'[c] = status[c]
       /\ \A f \in Files : status'[b][f] = IF status[b][f] = "error" THEN "pending" ELSE status[b][f]
  BY <1>1, <1>12
<1>21. Alive(b)'
  BY <1>18, <1>20 DEF Alive
<1>22. started' = started \union {b}
  <2>1. Alive(b)
    BY <1>18 DEF Alive
  <2> QED
    BY <1>1, <2>1 DEF Pool, Begun
<1> QED
  BY <1>1, <1>14, <1>16, <1>17, <1>19, <1>20, <1>21, <1>22, Queueing

-----------------------------------------------------------------------------
(* Crash, and the invariant                                                *)

\* A process that has just started does nothing yet.
Quiet ==
  /\ status = [b \in Batches |-> [f \in Files |-> "absent"]]
  /\ queue = <<>>
  /\ at = [t \in Tasks |-> "off"]
  /\ handler = [p \in Handlers |-> Off]
  /\ resume = Due
Kept ==
  /\ manifest \in [Batches -> {"none", "active", "gone"}] /\ rank \in [Batches -> Nat]
  /\ journal \in [Batches -> [Files -> Lines]] /\ recorded \in Views
  /\ started \subseteq Batches /\ crashes \in Nat /\ known \subseteq Batches \X Files
  /\ hazards \subseteq Kinds
  /\ \A b \in Batches : manifest[b] # "none" => b \in started
  /\ NothingLost

LEMMA QuietHolds == Quiet /\ Kept => IInv
<1> SUFFICES ASSUME Quiet, Kept PROVE IInv
  OBVIOUS
<1> USE DEF Quiet, Kept
<1>1. /\ Off \in Handler /\ Off.stage = "off" /\ Off.goal = {} /\ Off.held = None
      /\ Due \in Resumption /\ Due.todo = {} /\ Due.goal = {} /\ Due.batch = None
  BY OffType DEF Off, Due, Resumption
<1>2. /\ \A p \in Handlers : handler[p] = Off /\ InHand(p) = {}
      /\ Resumed = {} /\ resume.goal = {} /\ resume.batch = None
      /\ \A b \in Batches : ~Alive(b)
      /\ \A t \in Tasks : at[t] = "off"
  BY <1>1 DEF InHand, Resumed, Alive
<1>3. \A b : Unfinished(b) = {}
  BY <1>2 DEF Unfinished, Working, Counted
<1>4. TypeOK
  <2>1. handler \in [Handlers -> Handler] /\ resume \in Resumption
    BY <1>1
  <2>2. at \in [Tasks -> Status]
    BY DEF Status
  <2>3. status \in [Batches -> [Files -> {"absent", "pending", "done", "error"}]]
    OBVIOUS
  <2>4. queue \in Seq(Tasks)
    OBVIOUS
  <2> QED
    BY <2>1, <2>2, <2>3, <2>4 DEF TypeOK, Handler, Stage, Resumption, Status, Kinds
<1>5. Pool
  <2>1. InQueue /\ Together
    <3>1. InQueue
      BY DEF InQueue
    <3>2. Together
      BY <1>2, TaskMade DEF Together
    <3> QED
      BY <3>1, <3>2
  <2>2. Begun
    BY <1>2 DEF Begun
  <2>3. First
    BY <1>2, TaskMade DEF First
  <2> QED
    BY <2>1, <2>2, <2>3 DEF Pool
<1>6. Settled /\ QuietWhenCompacted
  BY <1>2, <1>3 DEF Settled, QuietWhenCompacted
<1>7. Follows
  BY <1>1, <1>2 DEF Follows
<1>8. Journaled
  <2>1. ASSUME NEW b \in Active, NEW f \in Member(b)
        PROVE  /\ at[<<b, f, 1>>] # "done" /\ \A p \in Handlers : b \notin handler[p].goal
               /\ ~Passed(b, f)
    <3>1. <<b, f, 1>> \in Tasks
      BY TaskMade DEF Active
    <3> QED
      BY <1>1, <1>2, <3>1 DEF Passed
  <2> QED
    BY <2>1 DEF Journaled
<1>9. Carried
  BY <1>1, <1>2 DEF Carried
<1> QED
  BY <1>4, <1>5, <1>6, <1>7, <1>8, <1>9 DEF IInv, Safe

LEMMA QuietHoldsNext == Quiet' /\ Kept' => IInv'
BY QuietHolds, PTL

LEMMA InitInv == Init => IInv
<1> SUFFICES ASSUME Init PROVE IInv
  OBVIOUS
<1>1. Quiet
  BY DEF Init, Quiet
<1>2. /\ manifest \in [Batches -> {"none", "active", "gone"}] /\ rank \in [Batches -> Nat]
      /\ recorded \in Views /\ started \subseteq Batches /\ crashes \in Nat
      /\ known \subseteq Batches \X Files /\ hazards \subseteq Kinds
      /\ \A b \in Batches : manifest[b] = "none"
  BY OffType DEF Init
<1>3. journal \in [Batches -> [Files -> Lines]]
  BY DEF Init, Lines
<1>4. NothingLost
  BY <1>2 DEF NothingLost
<1> QED
  BY <1>1, <1>2, <1>3, <1>4, QuietHolds DEF Kept

LEMMA CrashStep ==
  ASSUME IInv, Crash
  PROVE  IInv'
<1>1. Quiet'
  BY DEF Crash, Quiet
<1>2. UNCHANGED <<manifest, rank, journal, recorded, started, known, hazards>> /\ crashes' \in Nat
  BY DEF Crash, diskVars, IInv, TypeOK
<1>3. NothingLost'
  BY <1>2, LostKept DEF IInv, Safe
<1>4. Kept'
  BY <1>2, <1>3 DEF Kept, IInv, TypeOK, Kinds, Pool, Begun
<1> QED
  BY <1>1, <1>4, QuietHoldsNext

LEMMA StutterInv ==
  ASSUME IInv, UNCHANGED vars
  PROVE  IInv'
<1>1. /\ resume \in Resumption /\ hazards \subseteq Kinds
      /\ journal \in [Batches -> [Files -> Lines]] /\ resume.batch \in resume.goal \union {None}
  BY DEF IInv, TypeOK, Resumption, Kinds, Pool, Begun
<1>2. UNCHANGED <<manifest, rank, recorded, poolVars, handler, historyVars, journal, resume, hazards>>
  BY DEF vars, diskVars
<1>3. Resumed' \subseteq Resumed
  BY <1>2 DEF Resumed
<1>4. ASSUME NEW b \in Active, NEW f \in Member(b), Sound'
      PROVE  \/ Noted(b, f)'
             \/ /\ journal'[b][f] = journal[b][f]
                /\ ~Passed(b, f)'
  <2>1. Sound
    BY <1>2, <1>4 DEF Sound, Short
  <2>2. Noted(b, f) \/ ~Passed(b, f)
    BY <1>4, <2>1 DEF IInv, Safe, Journaled
  <2>3. /\ Noted(b, f) => Noted(b, f)'
        /\ Passed(b, f)' => Passed(b, f)
    BY <1>2 DEF Noted, Passed, historyVars
  <2> QED
    BY <1>2, <2>2, <2>3
<1> QED
  BY <1>1, <1>2, <1>3, <1>4, Resuming

LEMMA NextInv == IInv /\ [Next]_vars => IInv'
<1> SUFFICES ASSUME IInv, [Next]_vars PROVE IInv'
  OBVIOUS
<1>1. ASSUME NEW b \in Batches, ApplyBatch(b) \/ RetryFailed(b)
      PROVE  IInv'
  BY <1>1, ApplyBatchStep, RetryFailedStep
<1>2. CASE PoolStep
  <2>1. CASE Take
    BY <2>1, TakeStep
  <2>2. ASSUME NEW b \in Batches, Prepare(b) \/ PreflightFails(b)
        PROVE  IInv'
    BY <2>2, PrepareStep, PreflightFailsStep
  <2>3. ASSUME NEW t \in Tasks, WriteFile(t) \/ EndFile(t)
        PROVE  IInv'
    BY <2>3, WriteFileStep, EndFileStep
  <2> QED
    BY <1>2, <2>1, <2>2, <2>3 DEF PoolStep
<1>3. ASSUME NEW p \in Handlers, HandlerStep(p)
      PROVE  IInv'
  <2>1. CASE List(p)
    BY <2>1, ListStep
  <2>2. CASE ReadJournal(p)
    BY <2>2, ReadJournalStep
  <2>3. CASE Persist(p)
    BY <2>3, PersistStep
  <2>4. CASE PersistFails(p)
    BY <2>4, PersistFailsStep
  <2>5. CASE CompactJournal(p)
    BY <2>5, CompactJournalStep
  <2>6. ASSUME NEW b \in Batches, ReadManifest(p, b) \/ CompactManifest(p, b)
        PROVE  IInv'
    BY <2>6, ReadManifestStep, CompactManifestStep
  <2>7. CASE ListFails(p) \/ ReadJournalFails(p) \/ CompactFails(p)
    BY <2>7, ListFailsStep, ReadJournalFailsStep, CompactFailsStep
  <2>8. ASSUME NEW b \in Batches, ReadManifestFails(p, b) \/ CompactManifestFails(p, b)
        PROVE  IInv'
    BY <2>8, ReadManifestFailsStep, CompactManifestFailsStep
  <2> QED
    BY <1>3, <2>1, <2>2, <2>3, <2>4, <2>5, <2>6, <2>7, <2>8 DEF HandlerStep
<1>4. CASE ResumeStep
  <2>1. CASE Resume
    BY <2>1, ResumeLists
  <2>2. CASE ResumeEnds
    BY <2>2, ResumeEndsStep
  <2>3. ASSUME NEW b \in Batches, ResumeBatch(b) \/ ResumeBatchUnread(b)
        PROVE  IInv'
    BY <2>3, ResumeBatchStep, ResumeBatchUnreadStep
  <2>4. ASSUME NEW f \in Files, ResumeFile(f) \/ ResumeAborts(f)
        PROVE  IInv'
    BY <2>4, ResumeFileStep, ResumeAbortsStep
  <2>5. CASE ResumeFindsNothing
    BY <2>5, ResumeFindsNothingStep
  <2> QED
    BY <1>4, <2>1, <2>2, <2>3, <2>4, <2>5 DEF ResumeStep
<1>5. CASE Crash
  BY <1>5, CrashStep
<1>6. CASE UNCHANGED vars
  BY <1>6, StutterInv
<1> QED
  BY <1>1, <1>2, <1>3, <1>4, <1>5, <1>6 DEF Next

\* The conjuncts behind the properties below hold in every state: the pool, the
\* handlers and the resume never have a batch at the same time, but for what the
\* hazards record.
THEOREM Invariance == Spec => []IInv
<1>1. Init => IInv
  BY InitInv
<1>2. IInv /\ [Next]_vars => IInv'
  BY NextInv
<1> QED
  BY <1>1, <1>2, PTL DEF Spec

\* The state of the pool, the handlers, the files and the resume keeps its types.
THEOREM TypeCorrect == Spec => []TypeOK
<1>1. IInv => TypeOK
  BY DEF IInv
<1> QED
  BY <1>1, Invariance, PTL

\* compactBatch: the outcomes of a batch whose manifest left the queue directory were
\* saved to event.json, unless the batch was called complete too early, an append or a
\* read of a handler failed, or it was retried or resumed while it ran.  That its
\* manifest or its journal may fail to move, each on its own, makes no difference.
THEOREM NothingLostCorrect == Spec => []NothingLost
<1>1. IInv => NothingLost
  BY DEF IInv, Safe
<1> QED
  BY <1>1, Invariance, PTL

\* A batch is compacted when only retries of it are left to do.
THEOREM QuietCorrect == Spec => []QuietWhenCompacted
<1>1. IInv => QuietWhenCompacted
  BY DEF IInv, Safe
<1> QED
  BY <1>1, Invariance, PTL

-----------------------------------------------------------------------------
(* What is interrupted                                                     *)

\* The manifests keep their order, or one more is written, the last in it.
Relists ==
  \/ /\ rank' = rank
     /\ \A b \in Batches : (manifest'[b] = "none") = (manifest[b] = "none")
  \/ \E b \in Batches : manifest[b] = "none" /\ WriteManifest(b)

\* What a handler saw does not grow, and a new one has seen nothing.
Calm(p) ==
  \/ handler'[p].view = Blank
  \/ /\ handler[p].stage = "scanning" /\ handler'[p].stage = "scanning"
     /\ handler'[p].view = handler[p].view
     /\ handler'[p].goal \subseteq handler[p].goal
     /\ handler[p].old => handler'[p].old

LEMMA Ordering ==
  ASSUME TypeOK, Ranked, Relists
  PROVE  /\ Ranked' /\ rank' \in [Batches -> Nat]
         /\ \A c \in Batches : \/ rank'[c] = rank[c]
                               \/ rank[c] = 0 /\ \A d \in Batches : rank[d] < rank'[c]
<1> DEFINE queued == {c \in Batches : rank[c] > 0}
<1>1. rank \in [Batches -> Nat]
  BY DEF TypeOK
<1>2. CASE rank' = rank /\ \A b \in Batches : (manifest'[b] = "none") = (manifest[b] = "none")
  BY <1>1, <1>2 DEF Ranked
<1>3. ASSUME NEW b \in Batches, manifest[b] = "none", WriteManifest(b)
      PROVE  /\ Ranked' /\ rank' \in [Batches -> Nat]
             /\ \A c \in Batches : \/ rank'[c] = rank[c]
                                   \/ rank[c] = 0 /\ \A d \in Batches : rank[d] < rank'[c]
  <2>1. /\ manifest'[b] = "active" /\ rank' \in [Batches -> Nat]
        /\ \A c \in Batches \ {b} : manifest'[c] = manifest[c]
    BY <1>3, WriteManifestType
  <2>2. IsFiniteSet(queued) /\ Cardinality(queued) \in Nat
    BY MetadataQueueConstants, FS_Subset, FS_CardinalityType
  <2>3. /\ rank'[b] = 1 + Cardinality(queued)
        /\ \A c \in Batches \ {b} : rank'[c] = rank[c]
    BY <1>1, <1>3 DEF WriteManifest
  <2>4. rank[b] = 0 /\ \A d \in Batches : rank[d] \in Nat /\ rank[d] <= Cardinality(queued)
    BY <1>1, <1>3 DEF Ranked
  <2>5. {c \in Batches : rank'[c] > 0} = queued \union {b} /\ b \notin queued
    BY <1>1, <2>2, <2>3, <2>4
  <2>6. Cardinality({c \in Batches : rank'[c] > 0}) = 1 + Cardinality(queued)
    BY <2>2, <2>5, FS_AddElement
  <2> HIDE DEF queued
  <2>7. Ranked'
    <3>1. ASSUME NEW c \in Batches
          PROVE  /\ manifest'[c] = "none" <=> rank'[c] = 0
                 /\ rank'[c] <= 1 + Cardinality(queued)
      <4>1. CASE c = b
        BY <2>1, <2>2, <2>3, <4>1
      <4>2. CASE c # b
        <5>1. manifest'[c] = manifest[c] /\ rank'[c] = rank[c]
          BY <2>1, <2>3, <4>2
        <5>2. manifest[c] = "none" <=> rank[c] = 0
          BY DEF Ranked
        <5> QED
          BY <2>2, <2>4, <5>1, <5>2
      <4> QED
        BY <4>1, <4>2
    <3>2. ASSUME NEW c \in Batches, NEW d \in Batches, rank'[c] = rank'[d], c # d
          PROVE  rank'[c] = 0
      BY <2>2, <2>3, <2>4, <3>2 DEF Ranked
    <3> QED
      BY <2>6, <3>1, <3>2 DEF Ranked
  <2> QED
    BY <2>1, <2>2, <2>3, <2>4, <2>7
<1> QED
  BY <1>2, <1>3 DEF Relists

LEMMA Redated ==
  ASSUME NEW view \in Views, NEW old \in [Batches -> Nat], NEW new \in [Batches -> Nat],
         \A c \in Batches : \/ new[c] = old[c]
                            \/ old[c] = 0 /\ \A d \in Batches : old[d] < new[c],
         Dated(view, old)
  PROVE  /\ Dated(view, new)
         /\ \A c \in Batches : (old[c] > 0 => Clear(view, c, old)) => Clear(view, c, new)
<1>1. Dated(view, new)
  <2>1. ASSUME NEW f \in Files, view[f].outcome = "interrupted"
        PROVE  \E b \in Batches : f \in Member(b) /\ new[b] > 0 /\ new[b] = view[f].rank
    <3>1. PICK b \in Batches : f \in Member(b) /\ old[b] > 0 /\ old[b] = view[f].rank
      BY <2>1 DEF Dated
    <3>2. new[b] = old[b]
      BY <3>1
    <3> QED
      BY <3>1, <3>2
  <2> QED
    BY <2>1 DEF Dated
<1>2. ASSUME NEW c \in Batches, old[c] > 0 => Clear(view, c, old),
             NEW f \in Member(c), view[f].rank = new[c], view[f].outcome = "interrupted"
      PROVE  FALSE
  <2>1. f \in Files
    BY <1>2, MemberType
  <2>2. PICK b \in Batches : old[b] > 0 /\ old[b] = new[c]
    BY <1>2, <2>1 DEF Dated
  <2>3. new[c] = old[c]
    BY <2>2
  <2> QED
    BY <1>2, <2>2, <2>3 DEF Clear
<1> QED
  BY <1>1, <1>2 DEF Clear

LEMMA BlankView ==
  ASSUME NEW order
  PROVE  Dated(Blank, order) /\ \A b \in Batches : Clear(Blank, b, order)
<1>1. \A f \in Files : Blank[f].outcome # "interrupted"
  BY DEF Blank
<1>2. \A b \in Batches : Member(b) \subseteq Files
  BY MemberType
<1> QED
  BY <1>1, <1>2 DEF Dated, Clear

\* A step that saves nothing and reads no journal.
LEMMA Tracing ==
  ASSUME IInv, Traced, TypeOK', Relists, recorded' = recorded, hazards \subseteq hazards',
         \A b \in Batches : Told(b)' => Told(b),
         \A p \in Handlers : Calm(p)
  PROVE  Traced'
<1>1. TypeOK /\ Ranked
  BY DEF IInv, Traced
<1>2. /\ Ranked' /\ rank' \in [Batches -> Nat] /\ rank \in [Batches -> Nat]
      /\ \A c \in Batches : \/ rank'[c] = rank[c]
                            \/ rank[c] = 0 /\ \A d \in Batches : rank[d] < rank'[c]
  BY <1>1, Ordering DEF TypeOK
<1>3. \A p \in Handlers : handler'[p].stage # "scanning" => handler'[p].view = Blank
  BY DEF Calm
<1>4. ASSUME Faithful'
      PROVE  /\ Dated(recorded', rank') /\ \A p \in Handlers : Dated(handler'[p].view, rank')
             /\ \A b \in Batches : rank'[b] > 0 =>
                  /\ Told(b)' => Clear(recorded', b, rank')
                  /\ \A p \in Handlers : Owes(p, b)' => Clear(handler'[p].view, b, rank')
  <2>1. Faithful
    BY <1>4 DEF Faithful, Short
  <2>2. recorded \in Views /\ Dated(recorded, rank)
    BY <1>1, <2>1 DEF TypeOK, Traced
  <2>3. /\ Dated(recorded, rank')
        /\ \A b \in Batches : (rank[b] > 0 => Clear(recorded, b, rank)) => Clear(recorded, b, rank')
    BY <1>2, <2>2, Redated
  <2>4. ASSUME NEW b \in Batches, Told(b)'
        PROVE  Clear(recorded, b, rank')
    BY <2>1, <2>3, <2>4 DEF Traced
  <2>5. ASSUME NEW p \in Handlers
        PROVE  /\ Dated(handler'[p].view, rank')
               /\ \A b \in Batches : Owes(p, b)' => Clear(handler'[p].view, b, rank')
    <3>1. CASE handler'[p].view = Blank
      BY <3>1, BlankView
    <3>2. CASE /\ handler[p].stage = "scanning" /\ handler'[p].stage = "scanning"
               /\ handler'[p].view = handler[p].view
               /\ handler'[p].goal \subseteq handler[p].goal
               /\ handler[p].old => handler'[p].old
      <4>1. handler[p].view \in Views /\ Dated(handler[p].view, rank)
        BY <1>1, <2>1 DEF TypeOK, Traced
      <4>2. /\ Dated(handler[p].view, rank')
            /\ \A b \in Batches : (rank[b] > 0 => Clear(handler[p].view, b, rank))
                                    => Clear(handler[p].view, b, rank')
        BY <1>2, <4>1, Redated
      <4>3. \A b \in Batches : Owes(p, b)' => Owes(p, b)
        BY <3>2 DEF Owes
      <4> QED
        BY <2>1, <3>2, <4>2, <4>3 DEF Traced
    <3> QED
      BY <3>1, <3>2 DEF Calm
  <2> QED
    BY <2>3, <2>4, <2>5
<1> QED
  BY <1>2, <1>3, <1>4 DEF Traced

LEMMA Unmoved ==
  ASSUME Traced, NEW p \in Handlers, handler'[p] = handler[p]
  PROVE  Calm(p)
BY DEF Traced, Calm

\* At most one handler moves, and does not begin to compact.
LEMMA OneMoves ==
  ASSUME IInv, Traced, TypeOK', Relists, recorded' = recorded, hazards \subseteq hazards',
         NEW p \in Handlers, \A q \in Handlers \ {p} : handler'[q] = handler[q],
         Calm(p),
         handler'[p].stage = "compacting" =>
           handler[p].stage = "compacting" /\ handler'[p].goal \subseteq handler[p].goal,
         \A b \in Batches : manifest'[b] = "gone" => Told(b)
  PROVE  Traced'
<1>1. \A q \in Handlers : Calm(q)
  BY Unmoved
<1>2. ASSUME NEW b \in Batches, Told(b)'
      PROVE  Told(b)
  <2>1. ASSUME NEW q \in Handlers, handler'[q].stage = "compacting", b \in handler'[q].goal
        PROVE  Told(b)
    BY <2>1 DEF Told
  <2> QED
    BY <1>2, <2>1 DEF Told
<1> QED
  BY <1>1, <1>2, Tracing

\* No handler moves.
LEMMA NoneMoves ==
  ASSUME IInv, Traced, TypeOK', Relists, recorded' = recorded, hazards \subseteq hazards',
         handler' = handler, \A b \in Batches : manifest'[b] = "gone" => manifest[b] = "gone"
  PROVE  Traced'
<1>1. \A q \in Handlers : Calm(q)
  BY Unmoved
<1>2. \A b \in Batches : Told(b)' => Told(b)
  BY DEF Told
<1> QED
  BY <1>1, <1>2, Tracing

LEMMA KeptOrder ==
  ASSUME TypeOK, UNCHANGED <<manifest, rank>>
  PROVE  Relists /\ \A b \in Batches : manifest'[b] = "gone" => manifest[b] = "gone" /\ Told(b)
BY DEF Relists, Told

\* A batch_complete event: a handler that was off is called.
LEMMA CalledTraced ==
  ASSUME IInv, Traced, TypeOK', Relists, recorded' = recorded,
         NEW b \in Batches, NEW self, NEW met, Complete(b, self, met),
         \A c \in Batches : manifest'[c] = "gone" => manifest[c] = "gone"
  PROVE  Traced'
<1> DEFINE r == [Off EXCEPT !.stage = "called", !.goal = {b}]
<1>1. PICK p \in Handlers : handler' = [handler EXCEPT ![p] = r]
  BY DEF Complete
<1>2. r.stage = "called" /\ r.view = Blank
  BY DEF Off
<1> HIDE DEF r
<1>3. handler'[p] = r /\ \A q \in Handlers \ {p} : handler'[q] = handler[q]
  BY <1>1 DEF IInv, TypeOK
<1>4. Calm(p)
  BY <1>2, <1>3 DEF Calm
<1>5. hazards \subseteq hazards' /\ \A c \in Batches : manifest'[c] = "gone" => Told(c)
  BY DEF Complete, Meet, Told
<1> QED
  BY <1>2, <1>3, <1>4, <1>5, OneMoves

\* The first job of a batch writes its manifest, or that fails.
LEMMA ListingTraced ==
  ASSUME IInv, NEW b \in Batches, at[Start(b)] = "running",
         WriteManifest(b) \/ UNCHANGED <<manifest, rank>>
  PROVE  Relists /\ \A c \in Batches : manifest'[c] = "gone" => manifest[c] = "gone"
<1>1. CASE WriteManifest(b)
  <2>1. manifest[b] = "none"
    BY FirstAtWork
  <2>2. manifest'[b] = "active" /\ \A c \in Batches \ {b} : manifest'[c] = manifest[c]
    BY <1>1, WriteManifestType DEF IInv
  <2> QED
    BY <1>1, <2>1, <2>2 DEF Relists
<1>2. CASE UNCHANGED <<manifest, rank>>
  BY <1>2, KeptOrder DEF IInv
<1> QED
  BY <1>1, <1>2

LEMMA PoolTraced ==
  ASSUME IInv, Traced, TypeOK', PoolStep
  PROVE  Traced'
<1>1. CASE Take
  BY <1>1, KeptOrder, NoneMoves DEF Take, IInv
<1>2. ASSUME NEW b \in Batches, Prepare(b)
      PROVE  Traced'
  <2>1. Relists /\ \A c \in Batches : manifest'[c] = "gone" => manifest[c] = "gone"
    BY <1>2, ListingTraced DEF Prepare
  <2> QED
    BY <1>2, <2>1, NoneMoves DEF Prepare, Meet
<1>3. ASSUME NEW b \in Batches, PreflightFails(b)
      PROVE  Traced'
  <2>1. Relists /\ \A c \in Batches : manifest'[c] = "gone" => manifest[c] = "gone"
    BY <1>3, ListingTraced DEF PreflightFails
  <2>2. \E met : Complete(b, Start(b), met)
    BY <1>3 DEF PreflightFails
  <2>3. recorded' = recorded
    BY <1>3 DEF PreflightFails
  <2> QED
    BY <2>1, <2>2, <2>3, CalledTraced
<1>4. ASSUME NEW t \in Tasks, WriteFile(t)
      PROVE  Traced'
  BY <1>4, KeptOrder, NoneMoves DEF WriteFile, diskVars, IInv
<1>5. ASSUME NEW t \in Tasks, EndFile(t)
      PROVE  Traced'
  <2>1. Relists /\ \A c \in Batches : manifest'[c] = "gone" => manifest[c] = "gone"
    BY <1>5, KeptOrder DEF EndFile, IInv
  <2>2. recorded' = recorded /\ t[1] \in Batches
    BY <1>5, TaskType DEF EndFile
  <2>3. PICK met : IF AllThrough(t) THEN Complete(t[1], t, met) ELSE Meet(met) /\ UNCHANGED handler
    BY <1>5 DEF EndFile
  <2>4. CASE Complete(t[1], t, met)
    BY <2>1, <2>2, <2>4, CalledTraced
  <2>5. CASE Meet(met) /\ UNCHANGED handler
    BY <2>1, <2>2, <2>5, NoneMoves DEF Meet
  <2> QED
    BY <2>3, <2>4, <2>5
<1> QED
  BY <1>1, <1>2, <1>3, <1>4, <1>5 DEF PoolStep

LEMMA ResumeTraced ==
  ASSUME IInv, Traced, TypeOK', ResumeStep
  PROVE  Traced'
<1>1. UNCHANGED <<manifest, rank, recorded>> /\ hazards \subseteq hazards'
  BY DEF ResumeStep, Resume, ResumeEnds, ResumeBatch, ResumeFile, ResumeFindsNothing,
         ResumeBatchUnread, ResumeAborts, Meet, diskVars
<1>2. Relists /\ \A b \in Batches : manifest'[b] = "gone" => manifest[b] = "gone" /\ Told(b)
  BY <1>1, KeptOrder DEF IInv
<1>3. CASE handler' = handler
  BY <1>1, <1>2, <1>3, NoneMoves
<1>4. CASE ResumeEnds /\ resume.goal # {}
  <2> DEFINE r == [Off EXCEPT !.stage = "called", !.goal = resume.goal]
  <2>1. Recovery \in Handlers
    BY MetadataQueueConstants DEF Recovery, Handlers
  <2>2. r.stage = "called" /\ r.view = Blank
    BY DEF Off
  <2>3. handler' = [handler EXCEPT ![Recovery] = r]
    BY <1>4 DEF ResumeEnds
  <2> HIDE DEF r
  <2>4. handler'[Recovery] = r /\ \A q \in Handlers \ {Recovery} : handler'[q] = handler[q]
    BY <2>1, <2>3 DEF IInv, TypeOK
  <2>5. Calm(Recovery)
    BY <2>2, <2>4 DEF Calm
  <2> QED
    BY <1>1, <1>2, <2>1, <2>2, <2>4, <2>5, OneMoves
<1> QED
  BY <1>3, <1>4 DEF ResumeStep, Resume, ResumeEnds, ResumeBatch, ResumeFile,
                    ResumeFindsNothing, ResumeBatchUnread, ResumeAborts

\* Reads and compactions of one handler; what it saves is left to PersistTraced.
LEMMA OtherTraced ==
  ASSUME IInv, Traced, TypeOK', NEW p \in Handlers, HandlerStep(p),
         ~Persist(p), ~ReadJournal(p), ~ReadJournalFails(p)
  PROVE  Traced'
<1>1. handler[p] \in Handler /\ Off.stage = "off" /\ Off.view = Blank
  BY DEF IInv, TypeOK, Handler, Stage, Off
<1>2. handler[p].stage # "scanning" => handler[p].view = Blank
  BY DEF Traced
<1>3. UNCHANGED <<rank, recorded>> /\ hazards \subseteq hazards'
  BY DEF HandlerStep, List, PersistFails, CompactJournal, ReadManifest, CompactManifest, ListFails,
         CompactFails, ReadManifestFails, CompactManifestFails, diskVars, Meet
<1>4. CASE List(p)
  <2> DEFINE r == [handler[p] EXCEPT !.stage = "scanning", !.todo = Active]
  <2>1. r.stage = "scanning" /\ r.view = handler[p].view
    BY <1>1 DEF Handler
  <2>2. Set(p, r) /\ handler[p].stage = "called" /\ UNCHANGED <<manifest, rank>>
    BY <1>4 DEF List, diskVars
  <2> HIDE DEF r
  <2>3. handler'[p] = r /\ \A q \in Handlers \ {p} : handler'[q] = handler[q]
    BY <2>2 DEF Set, IInv, TypeOK
  <2>4. Calm(p)
    BY <1>2, <2>1, <2>2, <2>3 DEF Calm
  <2> QED
    BY <1>3, <2>1, <2>2, <2>3, <2>4, KeptOrder, OneMoves DEF IInv
<1>5. ASSUME NEW b \in Batches, ReadManifest(p, b)
      PROVE  Traced'
  <2> DEFINE r == [handler[p] EXCEPT !.todo = @ \ {b},
                                     !.held = IF manifest[b] = "active" THEN b ELSE None]
  <2>1. /\ r.stage = handler[p].stage /\ r.view = handler[p].view /\ r.goal = handler[p].goal
        /\ r.old = handler[p].old
    BY <1>1 DEF Handler
  <2>2. Set(p, r) /\ handler[p].stage = "scanning" /\ UNCHANGED <<manifest, rank>>
    BY <1>5 DEF ReadManifest, diskVars
  <2> HIDE DEF r
  <2>3. handler'[p] = r /\ \A q \in Handlers \ {p} : handler'[q] = handler[q]
    BY <2>2 DEF Set, IInv, TypeOK
  <2>4. Calm(p)
    BY <2>1, <2>2, <2>3 DEF Calm
  <2> QED
    BY <1>3, <2>1, <2>2, <2>3, <2>4, KeptOrder, OneMoves DEF IInv
<1>6. CASE Set(p, Off) /\ UNCHANGED <<manifest, rank>>
  <2>1. Set(p, Off) /\ UNCHANGED <<manifest, rank>>
    BY <1>6
  <2>2. handler'[p] = Off /\ \A q \in Handlers \ {p} : handler'[q] = handler[q]
    BY <2>1 DEF Set, IInv, TypeOK
  <2>3. Calm(p)
    BY <1>1, <2>2 DEF Calm
  <2> QED
    BY <1>1, <1>3, <2>1, <2>2, <2>3, KeptOrder, OneMoves DEF IInv
<1>7. ASSUME NEW b \in Batches, CompactManifest(p, b)
      PROVE  Traced'
  <2> DEFINE r == [handler[p] EXCEPT !.goal = @ \ {b}, !.held = b]
  <2>1. r.stage = handler[p].stage /\ r.view = handler[p].view /\ r.goal \subseteq handler[p].goal
    BY <1>1 DEF Handler
  <2>2. /\ Set(p, r) /\ handler[p].stage = "compacting" /\ b \in handler[p].goal
        /\ manifest' = [manifest EXCEPT ![b] = IF @ = "active" THEN "gone" ELSE @]
    BY <1>7 DEF CompactManifest
  <2> HIDE DEF r
  <2>3. handler'[p] = r /\ \A q \in Handlers \ {p} : handler'[q] = handler[q]
    BY <2>2 DEF Set, IInv, TypeOK
  <2>4. Calm(p)
    BY <1>2, <2>1, <2>2, <2>3 DEF Calm
  <2>5. Relists
    BY <1>3, <2>2 DEF Relists, IInv, TypeOK
  <2>6. \A c \in Batches : manifest'[c] = "gone" => Told(c)
    BY <2>2 DEF Told, IInv, TypeOK
  <2> QED
    BY <1>3, <2>1, <2>2, <2>3, <2>4, <2>5, <2>6, OneMoves
<1>8. CASE CompactJournal(p)
  <2> DEFINE r == IF handler[p].goal = {} THEN Off ELSE [handler[p] EXCEPT !.held = None]
  <2>1. /\ r.view = Blank \/ r.view = handler[p].view
        /\ r.stage = "compacting" => r.goal = handler[p].goal
    BY <1>1 DEF Handler
  <2>2. Set(p, r) /\ handler[p].stage = "compacting" /\ UNCHANGED <<manifest, rank>>
    BY <1>8 DEF CompactJournal
  <2> HIDE DEF r
  <2>3. handler'[p] = r /\ \A q \in Handlers \ {p} : handler'[q] = handler[q]
    BY <2>2 DEF Set, IInv, TypeOK
  <2>4. Calm(p)
    BY <1>2, <2>1, <2>2, <2>3 DEF Calm
  <2> QED
    BY <1>3, <2>1, <2>2, <2>3, <2>4, KeptOrder, OneMoves DEF IInv
<1>9. CASE Set(p, [handler[p] EXCEPT !.stage = "scanning"]) /\ ListFails(p)
  <2> DEFINE r == [handler[p] EXCEPT !.stage = "scanning"]
  <2>1. r.stage = "scanning" /\ r.view = handler[p].view
    BY <1>1 DEF Handler
  <2>2. Set(p, r) /\ handler[p].stage = "called" /\ UNCHANGED <<manifest, rank>>
    BY <1>9 DEF ListFails, diskVars
  <2> HIDE DEF r
  <2>3. handler'[p] = r /\ \A q \in Handlers \ {p} : handler'[q] = handler[q]
    BY <2>2 DEF Set, IInv, TypeOK
  <2>4. Calm(p)
    BY <1>2, <2>1, <2>2, <2>3 DEF Calm
  <2> QED
    BY <1>3, <2>1, <2>2, <2>3, <2>4, KeptOrder, OneMoves DEF IInv
<1>10. ASSUME NEW b \in Batches, ReadManifestFails(p, b)
       PROVE  Traced'
  <2> DEFINE r == [handler[p] EXCEPT !.todo = @ \ {b}]
  <2>1. /\ r.stage = handler[p].stage /\ r.view = handler[p].view /\ r.goal = handler[p].goal
        /\ r.old = handler[p].old
    BY <1>1 DEF Handler
  <2>2. Set(p, r) /\ handler[p].stage = "scanning" /\ UNCHANGED <<manifest, rank>>
    BY <1>10 DEF ReadManifestFails, diskVars
  <2> HIDE DEF r
  <2>3. handler'[p] = r /\ \A q \in Handlers \ {p} : handler'[q] = handler[q]
    BY <2>2 DEF Set, IInv, TypeOK
  <2>4. Calm(p)
    BY <2>1, <2>2, <2>3 DEF Calm
  <2> QED
    BY <1>3, <2>1, <2>2, <2>3, <2>4, KeptOrder, OneMoves DEF IInv
<1>11. ASSUME NEW b \in Batches, CompactManifestFails(p, b)
       PROVE  Traced'
  <2> DEFINE r == [handler[p] EXCEPT !.goal = @ \ {b}, !.held = b]
  <2>1. r.stage = handler[p].stage /\ r.view = handler[p].view /\ r.goal \subseteq handler[p].goal
    BY <1>1 DEF Handler
  <2>2. Set(p, r) /\ handler[p].stage = "compacting" /\ UNCHANGED <<manifest, rank>>
    BY <1>11 DEF CompactManifestFails, diskVars
  <2> HIDE DEF r
  <2>3. handler'[p] = r /\ \A q \in Handlers \ {p} : handler'[q] = handler[q]
    BY <2>2 DEF Set, IInv, TypeOK
  <2>4. Calm(p)
    BY <1>2, <2>1, <2>2, <2>3 DEF Calm
  <2> QED
    BY <1>3, <2>1, <2>2, <2>3, <2>4, KeptOrder, OneMoves DEF IInv
<1>12. CASE PersistFails(p) \/ CompactFails(p) \/ ListFails(p)
  BY <1>6, <1>9, <1>12 DEF PersistFails, CompactFails, ListFails, diskVars
<1> QED
  BY <1>4, <1>5, <1>7, <1>8, <1>10, <1>11, <1>12 DEF HandlerStep

\* The journal of an active batch is read: it has an outcome for every file if the
\* batch is told, or to be told.
LEMMA ReadJournalTraced ==
  ASSUME IInv, Traced, TypeOK', NEW p \in Handlers, ReadJournal(p)
  PROVE  Traced'
<1> DEFINE b == handler[p].held
           view == handler[p].view
           s == handler[p].seen \union {<<b, f>> : f \in {g \in Member(b) : journal[b][g] \in Terminal}}
           r == [handler[p] EXCEPT !.held = None, !.view = Merge(@, b), !.seen = s]
<1>1. handler[p] \in Handler /\ handler \in [Handlers -> Handler] /\ rank \in [Batches -> Nat]
  BY DEF IInv, TypeOK, Handler, Stage
<1>2. /\ handler[p].stage = "scanning" /\ b # None /\ Set(p, r)
      /\ UNCHANGED <<manifest, rank, recorded>> /\ hazards \subseteq hazards'
      /\ manifest[b] # "active" => "torn" \in hazards'
  BY DEF ReadJournal, diskVars, Meet, When
<1>3. b \in Batches /\ Member(b) \subseteq Files
  BY <1>1, <1>2, MemberType DEF Handler
<1>4. /\ r.stage = "scanning" /\ r.goal = handler[p].goal /\ r.old = handler[p].old
      /\ r.view = Merge(view, b)
  <2> HIDE DEF s, b
  <2> QED
    BY <1>1, <1>2 DEF Handler
<1>5. view \in Views
  BY <1>1 DEF Handler
<1> HIDE DEF r, s, b, view
<1>6. handler'[p] = r /\ \A q \in Handlers \ {p} : handler'[q] = handler[q]
  BY <1>1, <1>2 DEF Set
<1>7. Ranked' /\ \A q \in Handlers : handler'[q].stage # "scanning" => handler'[q].view = Blank
  BY <1>2, <1>4, <1>6 DEF Traced, Ranked
<1>8. \A c \in Batches : Told(c)' => Told(c)
  <2>1. \A q \in Handlers : handler'[q].stage = "compacting" => handler'[q] = handler[q]
    BY <1>4, <1>6
  <2> QED
    BY <1>2, <2>1 DEF Told
<1>9. ASSUME Faithful'
      PROVE  /\ Dated(recorded', rank') /\ \A q \in Handlers : Dated(handler'[q].view, rank')
             /\ \A c \in Batches : rank'[c] > 0 =>
                  /\ Told(c)' => Clear(recorded', c, rank')
                  /\ \A q \in Handlers : Owes(q, c)' => Clear(handler'[q].view, c, rank')
  <2>1. Faithful /\ Sound /\ manifest[b] = "active"
    BY <1>2, <1>9 DEF Faithful, Short, Sound
  <2>2. /\ Dated(recorded, rank) /\ \A q \in Handlers : Dated(handler[q].view, rank)
        /\ \A c \in Batches : rank[c] > 0 =>
             /\ Told(c) => Clear(recorded, c, rank)
             /\ \A q \in Handlers : Owes(q, c) => Clear(handler[q].view, c, rank)
    BY <2>1 DEF Traced
  <2>3. rank[b] > 0 /\ \A c \in Batches : rank[c] = rank[b] => c = b
    <3>1. rank[b] # 0
      BY <1>3, <2>1 DEF Traced, Ranked
    <3>2. \A c \in Batches : rank[c] = rank[b] /\ c # b => rank[c] = 0
      BY <1>3 DEF Traced, Ranked
    <3> QED
      BY <1>1, <1>3, <3>1, <3>2
  <2>4. \A f \in Files :
          \/ /\ f \in Member(b) /\ rank[b] >= view[f].rank
             /\ r.view[f] = [rank |-> rank[b], outcome |-> Outcome(journal[b][f])]
          \/ /\ ~(f \in Member(b) /\ rank[b] >= view[f].rank)
             /\ r.view[f] = view[f]
    BY <1>4 DEF Merge
  <2>5. Dated(r.view, rank)
    <3>1. ASSUME NEW f \in Files, r.view[f].outcome = "interrupted"
          PROVE  \E c \in Batches : f \in Member(c) /\ rank[c] > 0 /\ rank[c] = r.view[f].rank
      <4>1. CASE f \in Member(b) /\ r.view[f] = [rank |-> rank[b], outcome |-> Outcome(journal[b][f])]
        BY <1>3, <2>3, <4>1
      <4>2. CASE r.view[f] = view[f]
        BY <2>2, <3>1, <4>2 DEF Dated, view
      <4> QED
        BY <2>4, <4>1, <4>2
    <3> QED
      BY <3>1 DEF Dated
  <2>6. ASSUME NEW c \in Batches, rank[c] > 0, Owes(p, c)'
        PROVE  Clear(r.view, c, rank)
    <3>1. c \in handler[p].goal \/ Told(c)
      BY <1>4, <1>6, <1>8, <2>6 DEF Owes
    <3>2. Owes(p, c)
      BY <1>2, <1>4, <1>6, <1>8, <2>6 DEF Owes
    <3>3. Clear(view, c, rank)
      BY <2>2, <2>6, <3>2 DEF view
    <3>4. ASSUME NEW f \in Member(c), r.view[f].rank = rank[c], r.view[f].outcome = "interrupted"
          PROVE  FALSE
      <4>1. f \in Files
        BY MemberType
      <4>2. CASE r.view[f] = view[f]
        BY <3>3, <3>4, <4>2 DEF Clear
      <4>3. CASE r.view[f] = [rank |-> rank[b], outcome |-> Outcome(journal[b][f])]
        <5>1. c = b
          BY <2>3, <3>4, <4>3
        <5>2. \E q \in Handlers : b \in handler[q].goal
          BY <2>1, <3>1, <5>1 DEF Told
        <5>3. b \in Active
          BY <1>3, <2>1 DEF Active
        <5>4. journal[b][f] \in Terminal
          <6>1. Noted(b, f)
            BY <2>1, <3>4, <5>1, <5>2, <5>3 DEF IInv, Safe, Journaled
          <6> QED
            BY <2>1, <6>1 DEF Noted, Faithful, Short
        <5> QED
          BY <3>4, <4>3, <5>4 DEF Outcome, Terminal
      <4> QED
        BY <2>4, <4>1, <4>2, <4>3
    <3> QED
      BY <3>4 DEF Clear
  <2>7. ASSUME NEW c \in Batches, rank[c] > 0, NEW q \in Handlers \ {p}, Owes(q, c)'
        PROVE  Clear(handler[q].view, c, rank)
    BY <1>6, <1>8, <2>2, <2>7 DEF Owes
  <2> QED
    BY <1>2, <1>6, <1>8, <2>2, <2>5, <2>6, <2>7
<1> QED
  BY <1>7, <1>9 DEF Traced

\* A journal that is not read: from here on the views are not to be trusted.
LEMMA ReadJournalFailsTraced ==
  ASSUME IInv, Traced, NEW p \in Handlers, ReadJournalFails(p)
  PROVE  Traced'
<1> DEFINE b == handler[p].held
           v == [f \in Files |-> IF f \in Member(b) /\ rank[b] >= handler[p].view[f].rank
                   THEN [rank |-> rank[b], outcome |-> "interrupted"] ELSE handler[p].view[f]]
           r == [handler[p] EXCEPT !.held = None, !.view = v]
<1>1. handler[p] \in Handler
  BY DEF IInv, TypeOK, Handler, Stage
<1>2. Set(p, r) /\ handler[p].stage = "scanning" /\ UNCHANGED <<manifest, rank>> /\ "unread" \in hazards'
  BY DEF ReadJournalFails, diskVars, Meet
<1>3. r.stage = handler[p].stage
  <2> HIDE DEF v
  <2> QED
    BY <1>1 DEF Handler
<1> HIDE DEF r
<1>4. \A q \in Handlers : handler'[q] = handler[q] \/ handler'[q].stage = "scanning"
  BY <1>2, <1>3 DEF Set, IInv, TypeOK
<1>5. ~Faithful'
  BY <1>2 DEF Faithful, Short
<1> QED
  BY <1>2, <1>4, <1>5 DEF Traced, Ranked

\* A handler saves what it saw; whoever scans meanwhile owes nothing for it.
LEMMA PersistTraced ==
  ASSUME IInv, Traced, NEW p \in Handlers, Persist(p)
  PROVE  Traced'
<1> DEFINE r == [Off EXCEPT !.stage = "compacting", !.goal = handler[p].goal]
<1>1. handler \in [Handlers -> Handler]
  BY DEF IInv, TypeOK, Handler, Stage
<1>2. r.stage = "compacting" /\ r.goal = handler[p].goal /\ r.view = Blank
  BY DEF Off
<1>3. /\ handler[p].stage = "scanning" /\ recorded' = handler[p].view
      /\ handler' = [q \in Handlers |-> IF q = p THEN r
                      ELSE [handler[q] EXCEPT !.old = handler[q].stage = "scanning"]]
      /\ UNCHANGED <<manifest, rank>>
      /\ hazards \subseteq hazards'
      /\ handler[p].old => "overtaken" \in hazards'
  BY DEF Persist, Meet, When
<1> HIDE DEF r
<1>4. ASSUME NEW q \in Handlers \ {p}
      PROVE  /\ handler'[q].stage = handler[q].stage /\ handler'[q].view = handler[q].view
             /\ handler'[q].goal = handler[q].goal
             /\ handler'[q].old = (handler[q].stage = "scanning")
  <2>1. handler'[q] = [handler[q] EXCEPT !.old = handler[q].stage = "scanning"]
    BY <1>3
  <2> QED
    BY <1>1, <2>1 DEF Handler
<1>5. handler'[p] = r
  BY <1>3
<1>6. Ranked' /\ \A q \in Handlers : handler'[q].stage # "scanning" => handler'[q].view = Blank
  BY <1>2, <1>3, <1>4, <1>5 DEF Traced, Ranked
<1>7. ASSUME NEW c \in Batches, Told(c)'
      PROVE  Told(c) \/ c \in handler[p].goal
  <2>1. ASSUME NEW q \in Handlers, handler'[q].stage = "compacting", c \in handler'[q].goal
        PROVE  Told(c) \/ c \in handler[p].goal
    BY <1>2, <1>4, <1>5, <2>1 DEF Told
  <2> QED
    BY <1>3, <1>7, <2>1 DEF Told
<1>8. ASSUME Faithful'
      PROVE  /\ Dated(recorded', rank') /\ \A q \in Handlers : Dated(handler'[q].view, rank')
             /\ \A c \in Batches : rank'[c] > 0 =>
                  /\ Told(c)' => Clear(recorded', c, rank')
                  /\ \A q \in Handlers : Owes(q, c)' => Clear(handler'[q].view, c, rank')
  <2>1. Faithful /\ ~handler[p].old
    BY <1>3, <1>8 DEF Faithful, Short
  <2>2. /\ \A q \in Handlers : Dated(handler[q].view, rank)
        /\ \A c \in Batches : rank[c] > 0 =>
             \A q \in Handlers : Owes(q, c) => Clear(handler[q].view, c, rank)
    BY <2>1 DEF Traced
  <2>3. ASSUME NEW c \in Batches, rank[c] > 0, Told(c)'
        PROVE  Clear(handler[p].view, c, rank)
    <3>1. Owes(p, c)
      BY <1>3, <1>7, <2>1, <2>3 DEF Owes
    <3> QED
      BY <2>2, <2>3, <3>1
  <2>4. ASSUME NEW c \in Batches, rank[c] > 0, NEW q \in Handlers, Owes(q, c)'
        PROVE  Clear(handler'[q].view, c, rank)
    <3>1. q # p
      BY <1>2, <1>5, <2>4 DEF Owes
    <3>2. Owes(q, c) /\ handler'[q].view = handler[q].view
      BY <1>4, <2>4, <3>1 DEF Owes
    <3> QED
      BY <2>2, <2>4, <3>2
  <2>5. \A q \in Handlers : Dated(handler'[q].view, rank)
    BY <1>2, <1>4, <1>5, <2>2, BlankView
  <2> QED
    BY <1>3, <2>2, <2>3, <2>4, <2>5
<1> QED
  BY <1>6, <1>8 DEF Traced

LEMMA InitTraced == Init => Traced
<1> SUFFICES ASSUME Init PROVE Traced
  OBVIOUS
<1>1. Off.stage = "off" /\ Off.view = Blank /\ Off.goal = {}
  BY DEF Off
<1>2. /\ \A b \in Batches : manifest[b] = "none" /\ rank[b] = 0
      /\ \A p \in Handlers : handler[p] = Off
      /\ recorded = Blank
  BY DEF Init
<1>3. {c \in Batches : rank[c] > 0} = {} /\ Cardinality({}) = 0
  BY <1>2, FS_EmptySet
<1>4. Ranked
  BY <1>2, <1>3 DEF Ranked
<1>5. \A b \in Batches : ~(rank[b] > 0)
  BY <1>2
<1> QED
  BY <1>1, <1>2, <1>4, <1>5, BlankView DEF Traced

LEMMA NextTraced == IInv /\ Traced /\ [Next]_vars => Traced'
<1> SUFFICES ASSUME IInv, Traced, [Next]_vars PROVE Traced'
  OBVIOUS
<1>1. TypeOK'
  BY NextInv DEF IInv
<1>2. ASSUME NEW b \in Batches, ApplyBatch(b) \/ RetryFailed(b)
      PROVE  Traced'
  <2>1. UNCHANGED <<manifest, rank, recorded, handler>> /\ hazards \subseteq hazards'
    BY <1>2 DEF ApplyBatch, RetryFailed, diskVars, Meet
  <2> QED
    BY <1>1, <2>1, KeptOrder, NoneMoves DEF IInv
<1>3. CASE PoolStep
  BY <1>1, <1>3, PoolTraced
<1>4. ASSUME NEW p \in Handlers, HandlerStep(p)
      PROVE  Traced'
  BY <1>1, <1>4, OtherTraced, ReadJournalTraced, ReadJournalFailsTraced, PersistTraced
<1>5. CASE ResumeStep
  BY <1>1, <1>5, ResumeTraced
<1>6. CASE Crash
  <2>1. UNCHANGED <<manifest, rank, recorded, hazards>> /\ \A p \in Handlers : handler'[p] = Off
    BY <1>6 DEF Crash, diskVars
  <2>2. Off.stage = "off" /\ Off.view = Blank
    BY DEF Off
  <2>3. /\ \A p \in Handlers : Calm(p)
        /\ \A b \in Batches : Told(b)' => Told(b)
    BY <2>1, <2>2 DEF Calm, Told
  <2> QED
    BY <1>1, <2>1, <2>3, KeptOrder, Tracing DEF IInv
<1>7. CASE UNCHANGED vars
  <2>1. UNCHANGED <<manifest, rank, recorded, handler, hazards>>
    BY <1>7 DEF vars, diskVars
  <2> QED
    BY <1>1, <2>1, KeptOrder, NoneMoves DEF IInv
<1> QED
  BY <1>2, <1>3, <1>4, <1>5, <1>6, <1>7 DEF Next

\* An event is "interrupted" on account of a batch that is still there.
LEMMA Resumable ==
  ASSUME IInv, Traced
  PROVE  InterruptedIsResumable
<1> SUFFICES ASSUME State(recorded) = "interrupted", Faithful
             PROVE  Active # {}
  BY DEF InterruptedIsResumable, Faithful
<1>1. rank \in [Batches -> Nat] /\ manifest \in [Batches -> {"none", "active", "gone"}]
  BY DEF IInv, TypeOK
<1>2. PICK f \in Files : recorded[f].outcome = "interrupted"
  <2> DEFINE hit == {f \in Files : recorded[f].outcome \in {"interrupted"}}
  <2>1. Cardinality(hit) > 0
    BY DEF State, Count
  <2>2. hit # {}
    <3>1. SUFFICES ASSUME hit = {} PROVE FALSE
      OBVIOUS
    <3>2. Cardinality({}) = 0
      BY FS_EmptySet
    <3> HIDE DEF hit
    <3> QED
      BY <2>1, <3>1, <3>2
  <2> QED
    BY <2>2
<1>3. PICK b \in Batches : f \in Member(b) /\ rank[b] > 0 /\ rank[b] = recorded[f].rank
  BY <1>2 DEF Traced, Dated
<1>4. ~Told(b)
  <2>1. Told(b) => Clear(recorded, b, rank)
    BY <1>3 DEF Traced
  <2> QED
    BY <1>2, <1>3, <2>1 DEF Clear
<1>5. manifest[b] = "active"
  <2>1. manifest[b] # "none"
    <3>1. manifest[b] = "none" <=> rank[b] = 0
      BY DEF Traced, Ranked
    <3> QED
      BY <1>1, <1>3, <3>1
  <2>2. manifest[b] # "gone"
    BY <1>4 DEF Told
  <2> QED
    BY <1>1, <2>1, <2>2
<1> QED
  BY <1>5 DEF Active

\* Batches keep the order of their queuedAt, and whoever saves the event's state after
\* the outcomes of a batch were saved has them settled too, short of the hazards.
THEOREM Tracking == Spec => [](IInv /\ Traced)
<1>1. Init => IInv /\ Traced
  BY InitInv, InitTraced
<1>2. IInv /\ Traced /\ [Next]_vars => IInv' /\ Traced'
  BY NextInv, NextTraced
<1> QED
  BY <1>1, <1>2, PTL DEF Spec

\* resumeInterruptedBatches: an event whose saved state is "interrupted" has a batch in
\* the queue directory, unless a batch was called complete too early, an append or a
\* read of a handler failed, it was retried or resumed while it ran, its journal was
\* moved without its manifest, or its files were read or saved by two handlers at a time.
THEOREM ResumableCorrect == Spec => []InterruptedIsResumable
<1>1. IInv /\ Traced => InterruptedIsResumable
  BY Resumable
<1> QED
  BY <1>1, Tracking, PTL

=============================================================================
