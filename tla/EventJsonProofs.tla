--------------------------- MODULE EventJsonProofs ---------------------------
(***************************************************************************)
(* Proofs about EventJson: the inductive invariant for any processes and   *)
(* devices, and the refinement of the atomic register for one chain.       *)
(***************************************************************************)
EXTENDS EventJson, TLAPS

USE EventJsonConstants

\* A mutator turns a document into a document.
LEMMA MergeType ==
  ASSUME NEW m \in Mutators, NEW d \in Docs
  PROVE  Merge(m, d) \in Docs
<1> USE DEF Docs, Status
<1>1. m.op \in Ops /\ m.by \in Procs /\ m.base \in Docs
  BY DEF Mutators
<1>2. m.by \in Writer
  BY <1>1 DEF Writer
<1>3. CASE m.op = "rollback"
  BY <1>1, <1>3 DEF Merge, Restored
<1>4. CASE m.op # "rollback"
  BY <1>1, <1>2, <1>4 DEF Merge, Ops
<1> QED BY <1>3, <1>4

LEMMA EmptyType == Empty \in Docs
BY DEF Empty, Docs, Status, Writer

THEOREM InitInv == Init => IInv
<1> SUFFICES ASSUME Init PROVE IInv
  OBVIOUS
<1>1. PICK v \in {Old, Absent}, i \in {Old, Absent} :
        file = [Empty EXCEPT !.run = v, !.state = v, !.index = i]
  BY DEF Init
<1>2. file \in Docs
  BY <1>1 DEF Empty, Docs, Status, Writer
<1>3. TypeOK
  BY <1>2, EmptyType DEF Init, TypeOK, PcValues
<1>4. ChainOK /\ Fresh /\ Serialized
  BY DEF Init, ChainOK, ChainMembers, ChainDistinct, ChainComplete,
         CallsPending, Fresh, Serialized, Overlap, InCall, Window
<1> QED BY <1>3, <1>4 DEF IInv

-----------------------------------------------------------------------------
(* The chain                                                               *)

\* A call that joins its device's chain leaves the chains in order.
LEMMA SubmitChain ==
  ASSUME IInv, NEW p \in Procs, NEW op \in Ops, pc[p] \notin InCall, Submit(p, op)
  PROVE  /\ ChainOK'
         /\ chain' \in [Devices -> Seq(Procs)]
         /\ pc' \in [Procs -> PcValues]
         /\ call' \in [Procs -> Mutators \union {None}]
<1> DEFINE d == DeviceOf[p]
           m == [op |-> op, by |-> p,
                 base |-> IF op \in {"rollback", "edit"} THEN orig[p] ELSE Empty]
<1>1. /\ d \in Devices /\ chain \in [Devices -> Seq(Procs)]
      /\ pc \in [Procs -> PcValues]
      /\ call \in [Procs -> Mutators \union {None}] /\ orig[p] \in Docs
      /\ ChainMembers /\ ChainDistinct /\ ChainComplete /\ CallsPending
  BY DEF IInv, TypeOK, ChainOK
<1>2. m \in Mutators
  BY <1>1, EmptyType DEF Mutators
<1>3. /\ call' = [call EXCEPT ![p] = m]
      /\ pc' = [pc EXCEPT ![p] = "queued"]
      /\ chain' = IF Chained(p) THEN [chain EXCEPT ![d] = Append(@, p)] ELSE chain
  BY DEF Submit
<1>4. "queued" \in PcValues /\ "queued" \in InCall
  BY DEF PcValues, InCall
<1> HIDE DEF d, m
<1>5. /\ chain' \in [Devices -> Seq(Procs)]
      /\ pc' \in [Procs -> PcValues]
      /\ call' \in [Procs -> Mutators \union {None}]
  BY <1>1, <1>2, <1>3, <1>4
<1>6. CallsPending'
  <2>1. m.by = p /\ m # None
    BY <1>2 DEF m
  <2> QED BY <1>1, <1>3, <1>4, <2>1 DEF CallsPending
<1>7. \A e \in Devices : \A i \in 1..Len(chain[e]) :
         chain[e][i] # p /\ chain[e][i] \in Procs
  BY <1>1 DEF ChainMembers
<1>8. CASE Chained(p)
  <2>1. /\ chain'[d] = Append(chain[d], p)
        /\ Len(chain'[d]) = Len(chain[d]) + 1
        /\ chain'[d][Len(chain[d]) + 1] = p
        /\ \A i \in 1..Len(chain[d]) : chain'[d][i] = chain[d][i]
        /\ \A e \in Devices \ {d} : chain'[e] = chain[e]
        /\ Len(chain[d]) \in Nat
    BY <1>1, <1>3, <1>8
  <2>2. ChainMembers'
    <3> SUFFICES ASSUME NEW e \in Devices, NEW i \in 1..Len(chain'[e])
                 PROVE  /\ DeviceOf[chain'[e][i]] = e /\ Chained(chain'[e][i])
                        /\ pc'[chain'[e][i]] \in InCall
                        /\ i > 1 => pc'[chain'[e][i]] = "queued"
      BY DEF ChainMembers, Chained
    <3>1. CASE e = d /\ i = Len(chain[d]) + 1
      BY <1>1, <1>3, <1>4, <1>8, <2>1, <3>1 DEF d
    <3>2. CASE e # d \/ i \in 1..Len(chain[d])
      <4>1. i \in 1..Len(chain[e]) /\ chain'[e][i] = chain[e][i]
        BY <2>1, <3>2
      <4>2. pc'[chain[e][i]] = pc[chain[e][i]]
        BY <1>1, <1>3, <1>7, <4>1
      <4> QED BY <1>1, <4>1, <4>2 DEF ChainMembers
    <3> QED BY <2>1, <3>1, <3>2
  <2>3. ChainDistinct'
    <3> SUFFICES ASSUME NEW e \in Devices, NEW i \in 1..Len(chain'[e]),
                        NEW j \in 1..Len(chain'[e]), chain'[e][i] = chain'[e][j]
                 PROVE  i = j
      BY DEF ChainDistinct
    <3>1. CASE e # d
      BY <1>1, <2>1, <3>1 DEF ChainDistinct
    <3>2. CASE e = d
      <4>1. /\ i \in 1..Len(chain[e]) \/ i = Len(chain[e]) + 1
            /\ j \in 1..Len(chain[e]) \/ j = Len(chain[e]) + 1
        BY <2>1, <3>2
      <4>2. \A k \in 1..Len(chain[e]) : chain'[e][k] # p
        BY <1>7, <2>1, <3>2
      <4>3. i = Len(chain[e]) + 1 <=> j = Len(chain[e]) + 1
        BY <2>1, <3>2, <4>1, <4>2
      <4> QED BY <1>1, <2>1, <3>2, <4>1, <4>3 DEF ChainDistinct
    <3> QED BY <3>1, <3>2
  <2>4. ChainComplete'
    <3> SUFFICES ASSUME NEW q \in Procs, Chained(q), pc'[q] \in InCall
                 PROVE  \E i \in 1..Len(chain'[DeviceOf[q]]) :
                          chain'[DeviceOf[q]][i] = q
      BY DEF ChainComplete, Chained
    <3>1. CASE q = p
      BY <1>1, <2>1, <3>1 DEF d
    <3>2. CASE q # p
      <4>1. PICK i \in 1..Len(chain[DeviceOf[q]]) : chain[DeviceOf[q]][i] = q
        BY <1>1, <1>3, <3>2 DEF ChainComplete
      <4>2. DeviceOf[q] \in Devices
        OBVIOUS
      <4> QED BY <2>1, <4>1, <4>2
    <3> QED BY <3>1, <3>2
  <2> QED BY <1>5, <1>6, <2>2, <2>3, <2>4 DEF ChainOK
<1>9. CASE ~Chained(p)
  <2>1. chain' = chain
    BY <1>3, <1>9
  <2>2. ChainMembers'
    BY <1>1, <1>3, <1>7, <2>1 DEF ChainMembers, Chained
  <2>3. ChainDistinct' /\ ChainComplete'
    BY <1>1, <1>3, <1>9, <2>1 DEF ChainDistinct, ChainComplete, Chained
  <2> QED BY <1>5, <1>6, <2>2, <2>3 DEF ChainOK
<1> QED BY <1>8, <1>9

LEMMA AfterType ==
  ASSUME NEW p \in Procs, NEW ok \in BOOLEAN
  PROVE  After(p, ok) \in PcValues /\ After(p, ok) \notin InCall
BY DEF After, PcValues, InCall, Ended

\* A call that settles was the head of its chain, and leaves it.
LEMMA SettleChain ==
  ASSUME IInv, NEW p \in Procs, NEW ok \in BOOLEAN, pc[p] \in InCall,
         pc[p] = "queued" => Turn(p), Settle(p, ok)
  PROVE  /\ ChainOK'
         /\ chain' \in [Devices -> Seq(Procs)]
         /\ pc' \in [Procs -> PcValues]
         /\ call' \in [Procs -> Mutators \union {None}]
         /\ snap' \in [Procs -> Docs]
<1> DEFINE d == DeviceOf[p]
           next == After(p, ok)
<1>1. /\ d \in Devices /\ chain \in [Devices -> Seq(Procs)]
      /\ pc \in [Procs -> PcValues]
      /\ call \in [Procs -> Mutators \union {None}] /\ snap \in [Procs -> Docs]
      /\ ChainMembers /\ ChainDistinct /\ ChainComplete /\ CallsPending
  BY DEF IInv, TypeOK, ChainOK
<1>2. next \in PcValues /\ next \notin InCall
  BY AfterType
<1>3. /\ call' = [call EXCEPT ![p] = None]
      /\ pc' = [pc EXCEPT ![p] = next]
      /\ chain' = IF Chained(p) THEN [chain EXCEPT ![d] = Tail(@)] ELSE chain
      /\ snap' = [snap EXCEPT ![p] = Empty]
  BY DEF Settle
<1>4. Chained(p) /\ pc[p] = "queued" => chain[d] # << >> /\ Head(chain[d]) = p
  BY DEF Turn
<1> HIDE DEF d, next
<1>5. /\ pc' \in [Procs -> PcValues]
      /\ call' \in [Procs -> Mutators \union {None}]
      /\ snap' \in [Procs -> Docs]
  BY <1>1, <1>2, <1>3, EmptyType
<1>6. CallsPending'
  BY <1>1, <1>2, <1>3 DEF CallsPending
<1>7. CASE Chained(p)
  <2>1. PICK k \in 1..Len(chain[d]) : chain[d][k] = p
    BY <1>1, <1>7 DEF ChainComplete, d
  <2>2. chain[d] # << >> /\ chain[d][1] = p /\ chain[d] \in Seq(Procs)
    <3>1. CASE pc[p] = "queued"
      <4>1. chain[d] \in Seq(Procs) /\ chain[d] # << >> /\ Head(chain[d]) = p
        BY <1>1, <1>4, <1>7, <3>1
      <4> QED BY <4>1
    <3>2. CASE pc[p] # "queued"
      <4>1. k = 1
        BY <1>1, <2>1, <3>2 DEF ChainMembers
      <4> QED BY <1>1, <2>1, <4>1
    <3> QED BY <3>1, <3>2
  <2>3. /\ chain'[d] = Tail(chain[d])
        /\ chain' \in [Devices -> Seq(Procs)]
        /\ \A e \in Devices \ {d} : chain'[e] = chain[e]
    BY <1>1, <1>3, <1>7, <2>2
  <2>4. /\ Len(chain[d]) \in Nat \ {0}
        /\ Len(chain'[d]) = Len(chain[d]) - 1
        /\ \A i \in 1..Len(chain'[d]) : i + 1 \in 1..Len(chain[d])
                                        /\ chain'[d][i] = chain[d][i + 1]
    BY <2>2, <2>3
  <2>5. \A e \in Devices : \A i \in 1..Len(chain'[e]) :
          chain'[e][i] # p /\ chain'[e][i] \in Procs
    <3> SUFFICES ASSUME NEW e \in Devices, NEW i \in 1..Len(chain'[e])
                 PROVE  chain'[e][i] # p /\ chain'[e][i] \in Procs
      OBVIOUS
    <3>1. CASE e = d
      <4>1. /\ i + 1 \in 1..Len(chain[d]) /\ chain'[e][i] = chain[d][i + 1]
            /\ 1 \in 1..Len(chain[d]) /\ i + 1 # 1
        BY <2>4, <3>1
      <4>2. chain[d][i + 1] # chain[d][1]
        BY <1>1, <4>1 DEF ChainDistinct
      <4> QED BY <2>2, <4>1, <4>2
    <3>2. CASE e # d
      <4>1. chain'[e] = chain[e] /\ i \in 1..Len(chain[e])
        BY <2>3, <3>2
      <4>2. DeviceOf[chain[e][i]] = e
        BY <1>1, <4>1 DEF ChainMembers
      <4>3. chain[e] \in Seq(Procs)
        BY <1>1
      <4> QED BY <3>2, <4>1, <4>2, <4>3 DEF d
    <3> QED BY <3>1, <3>2
  <2>6. ChainMembers'
    <3> SUFFICES ASSUME NEW e \in Devices, NEW i \in 1..Len(chain'[e])
                 PROVE  /\ DeviceOf[chain'[e][i]] = e /\ Chained(chain'[e][i])
                        /\ pc'[chain'[e][i]] \in InCall
                        /\ i > 1 => pc'[chain'[e][i]] = "queued"
      BY DEF ChainMembers, Chained
    <3>1. pc'[chain'[e][i]] = pc[chain'[e][i]]
      BY <1>1, <1>3, <2>5
    <3>2. CASE e = d
      <4>1. /\ i + 1 \in 1..Len(chain[e]) /\ chain'[e][i] = chain[e][i + 1]
            /\ i + 1 > 1
        BY <2>4, <3>2
      <4>2. /\ DeviceOf[chain[e][i + 1]] = e /\ Chained(chain[e][i + 1])
            /\ pc[chain[e][i + 1]] = "queued"
        BY <1>1, <4>1 DEF ChainMembers
      <4> QED BY <3>1, <4>1, <4>2 DEF InCall
    <3>3. CASE e # d
      <4>1. chain'[e] = chain[e] /\ i \in 1..Len(chain[e])
        BY <2>3, <3>3
      <4>2. /\ DeviceOf[chain[e][i]] = e /\ Chained(chain[e][i])
            /\ pc[chain[e][i]] \in InCall
            /\ i > 1 => pc[chain[e][i]] = "queued"
        BY <1>1, <4>1 DEF ChainMembers
      <4> QED BY <3>1, <4>1, <4>2
    <3> QED BY <3>2, <3>3
  <2>7. ChainDistinct'
    <3> SUFFICES ASSUME NEW e \in Devices, NEW i \in 1..Len(chain'[e]),
                        NEW j \in 1..Len(chain'[e]), chain'[e][i] = chain'[e][j]
                 PROVE  i = j
      BY DEF ChainDistinct
    <3>1. CASE e = d
      <4>1. /\ i + 1 \in 1..Len(chain[e]) /\ chain'[e][i] = chain[e][i + 1]
            /\ j + 1 \in 1..Len(chain[e]) /\ chain'[e][j] = chain[e][j + 1]
        BY <2>4, <3>1
      <4>2. i + 1 = j + 1
        BY <1>1, <4>1 DEF ChainDistinct
      <4> QED BY <4>2
    <3>2. CASE e # d
      BY <1>1, <2>3, <3>2 DEF ChainDistinct
    <3> QED BY <3>1, <3>2
  <2>8. ChainComplete'
    <3> SUFFICES ASSUME NEW q \in Procs, Chained(q), pc'[q] \in InCall
                 PROVE  \E i \in 1..Len(chain'[DeviceOf[q]]) :
                          chain'[DeviceOf[q]][i] = q
      BY DEF ChainComplete, Chained
    <3>1. q # p /\ pc[q] \in InCall
      BY <1>1, <1>2, <1>3
    <3>2. PICK i \in 1..Len(chain[DeviceOf[q]]) : chain[DeviceOf[q]][i] = q
      BY <1>1, <3>1 DEF ChainComplete
    <3>3. CASE DeviceOf[q] = d
      <4>1. i # 1 /\ i - 1 \in 1..Len(chain'[d])
        BY <2>2, <2>4, <3>1, <3>2, <3>3
      <4>2. chain'[d][i - 1] = chain[d][i]
        BY <2>4, <3>2, <3>3, <4>1
      <4> QED BY <3>2, <3>3, <4>1, <4>2
    <3>4. CASE DeviceOf[q] # d
      <4>1. DeviceOf[q] \in Devices
        OBVIOUS
      <4> QED BY <2>3, <3>2, <3>4, <4>1
    <3> QED BY <3>3, <3>4
  <2> QED BY <1>5, <1>6, <2>3, <2>6, <2>7, <2>8 DEF ChainOK
<1>8. CASE ~Chained(p)
  <2>1. chain' = chain
    BY <1>3, <1>8
  <2>2. \A e \in Devices : \A i \in 1..Len(chain[e]) :
          chain[e][i] # p /\ chain[e][i] \in Procs
    BY <1>1, <1>8 DEF ChainMembers, d
  <2>3. ChainMembers'
    <3> SUFFICES ASSUME NEW e \in Devices, NEW i \in 1..Len(chain[e])
                 PROVE  /\ DeviceOf[chain[e][i]] = e /\ Chained(chain[e][i])
                        /\ pc'[chain[e][i]] \in InCall
                        /\ i > 1 => pc'[chain[e][i]] = "queued"
      BY <2>1 DEF ChainMembers, Chained
    <3>1. pc'[chain[e][i]] = pc[chain[e][i]]
      BY <1>1, <1>3, <2>2
    <3> QED BY <1>1, <3>1 DEF ChainMembers
  <2>4. ChainDistinct'
    BY <1>1, <2>1 DEF ChainDistinct
  <2>5. ChainComplete'
    <3>1. \A q \in Procs : Chained(q) => pc'[q] = pc[q]
      BY <1>1, <1>3, <1>8
    <3> QED BY <1>1, <2>1, <3>1 DEF ChainComplete, Chained
  <2> QED BY <1>1, <1>5, <1>6, <2>1, <2>3, <2>4, <2>5 DEF ChainOK
<1> QED BY <1>7, <1>8

\* With one chain at most one call is under way.
LEMMA OneChainNoOverlap ==
  ASSUME OneChain, ChainOK', chain' \in [Devices -> Seq(Procs)]
  PROVE  ~Overlap'
<1> SUFFICES ASSUME NEW p \in Procs, NEW q \in Procs,
                    pc'[p] \in Window, pc'[q] \in Window
             PROVE  p = q
  BY DEF Overlap
<1>1. /\ DeviceOf[p] = DeviceOf[q] /\ DeviceOf[p] \in Devices
      /\ Chained(p) /\ Chained(q)
  BY DEF OneChain
<1>2. ChainMembers' /\ ChainComplete'
  BY DEF ChainOK
<1>3. \A r \in {p, q} : chain'[DeviceOf[p]][1] = r
  <2> SUFFICES ASSUME NEW r \in {p, q} PROVE chain'[DeviceOf[p]][1] = r
    OBVIOUS
  <2>1. pc'[r] \in InCall /\ pc'[r] # "queued" /\ Chained(r) /\ r \in Procs
        /\ DeviceOf[r] = DeviceOf[p]
    BY <1>1 DEF Window, InCall
  <2>2. PICK i \in 1..Len(chain'[DeviceOf[p]]) : chain'[DeviceOf[p]][i] = r
    BY <1>2, <2>1 DEF ChainComplete, Chained
  <2>3. i = 1
    BY <1>1, <1>2, <2>1, <2>2 DEF ChainMembers
  <2> QED BY <2>2, <2>3
<1> QED BY <1>3

-----------------------------------------------------------------------------
(* The invariant is inductive                                              *)

\* A step that opens no window and leaves the files alone keeps Fresh.
LEMMA FreshKept ==
  ASSUME IInv, UNCHANGED <<file, tmp, hazards>>,
         \A p \in Procs : pc'[p] \in Window =>
           pc'[p] = pc[p] /\ snap'[p] = snap[p] /\ call'[p] = call[p]
  PROVE  Fresh'
<1>1. SUFFICES ASSUME "overlap" \notin hazards PROVE Fresh'
  BY DEF Fresh
<1>2. /\ ~Overlap
      /\ \A p \in Procs : /\ pc[p] \in Window => snap[p] = file
                          /\ pc[p] = "written" => tmp = Merge(call[p], file)
  BY <1>1 DEF IInv, Fresh
<1>3. ~Overlap'
  BY <1>2 DEF Overlap
<1>4. \A p \in Procs : /\ pc'[p] \in Window => snap'[p] = file'
                       /\ pc'[p] = "written" => tmp' = Merge(call'[p], file')
  BY <1>2 DEF Window
<1> QED BY <1>3, <1>4 DEF Fresh

\* A client's step that submits a call.
LEMMA SubmitInv ==
  ASSUME IInv, NEW p \in Procs, NEW op \in Ops, pc[p] \notin InCall,
         Submit(p, op), Idle, UNCHANGED orig
  PROVE  IInv'
<1>1. /\ ChainOK' /\ chain' \in [Devices -> Seq(Procs)]
      /\ pc' \in [Procs -> PcValues]
      /\ call' \in [Procs -> Mutators \union {None}]
  BY SubmitChain
<1>2. TypeOK'
  BY <1>1 DEF IInv, TypeOK, Idle
<1>3. \A q \in Procs : pc'[q] \in Window =>
        pc'[q] = pc[q] /\ snap'[q] = snap[q] /\ call'[q] = call[q]
  BY DEF IInv, TypeOK, Submit, Window, Idle
<1>4. Fresh'
  BY <1>3, FreshKept DEF Idle
<1>5. Serialized'
  BY DEF IInv, Serialized, Idle
<1> QED BY <1>1, <1>2, <1>4, <1>5 DEF IInv

\* A client's step without a call: p moves between two of its own states.
LEMMA MoveInv ==
  ASSUME IInv, NEW p \in Procs, NEW to \in PcValues \ InCall, pc[p] \notin InCall,
         pc' = [pc EXCEPT ![p] = to], Idle, UNCHANGED <<chain, call>>,
         orig' \in [Procs -> Docs]
  PROVE  IInv'
<1>1. TypeOK'
  BY DEF IInv, TypeOK, Idle
<1>2. \A q \in Procs : pc'[q] \in InCall <=> pc[q] \in InCall
  BY DEF IInv, TypeOK
<1>3. \A q \in Procs : pc'[q] \in InCall => pc'[q] = pc[q]
  BY DEF IInv, TypeOK
<1>4. CallsPending'
  BY <1>2 DEF IInv, ChainOK, CallsPending
<1>5. ChainComplete'
  BY <1>2 DEF IInv, ChainOK, ChainComplete, Chained
<1>6. ChainMembers'
  <2>1. \A e \in Devices : \A i \in 1..Len(chain[e]) : chain[e][i] \in Procs
    BY DEF IInv, TypeOK
  <2> QED BY <1>2, <1>3, <2>1 DEF IInv, ChainOK, ChainMembers, Chained
<1>7. ChainDistinct'
  BY DEF IInv, ChainOK, ChainDistinct
<1>8. Fresh'
  BY <1>3, FreshKept DEF Window, InCall, Idle
<1>9. Serialized'
  BY DEF IInv, Serialized, Idle
<1> QED BY <1>1, <1>4, <1>5, <1>6, <1>7, <1>8, <1>9 DEF IInv, ChainOK

\* With one chain a step of the store does not record an overlap.
LEMMA SerializedKept ==
  ASSUME IInv, ChainOK', chain' \in [Devices -> Seq(Procs)],
         NEW m \in Mutators,
         hazards' \subseteq hazards \union Undone(m) \union OverlapNow
  PROVE  Serialized'
BY OneChainNoOverlap DEF IInv, Serialized, Undone, OverlapNow, OneChain, Chained

\* p moves between two states of its call that keep it the head of its chain.
LEMMA HeadMoves ==
  ASSUME IInv, NEW p \in Procs, NEW to \in Window, pc[p] \in InCall,
         pc[p] = "queued" => Turn(p),
         pc' = [pc EXCEPT ![p] = to], UNCHANGED <<chain, call>>
  PROVE  ChainOK' /\ pc' \in [Procs -> PcValues]
<1>1. /\ chain \in [Devices -> Seq(Procs)] /\ pc \in [Procs -> PcValues]
      /\ DeviceOf[p] \in Devices
      /\ ChainMembers /\ ChainDistinct /\ ChainComplete /\ CallsPending
  BY DEF IInv, TypeOK, ChainOK
<1>2. to \in InCall /\ to \in PcValues
  BY DEF Window, InCall, PcValues
<1>3. pc' \in [Procs -> PcValues] /\ \A q \in Procs \ {p} : pc'[q] = pc[q]
  BY <1>1, <1>2
<1>4. CallsPending' /\ ChainDistinct'
  BY <1>1, <1>2, <1>3 DEF CallsPending, ChainDistinct
<1>5. ChainComplete'
  BY <1>1, <1>3 DEF ChainComplete, Chained
<1>6. ChainMembers'
  <2> SUFFICES ASSUME NEW e \in Devices, NEW i \in 1..Len(chain[e])
               PROVE  /\ DeviceOf[chain[e][i]] = e /\ Chained(chain[e][i])
                      /\ pc'[chain[e][i]] \in InCall
                      /\ i > 1 => pc'[chain[e][i]] = "queued"
    BY DEF ChainMembers, Chained
  <2>1. /\ DeviceOf[chain[e][i]] = e /\ Chained(chain[e][i])
        /\ pc[chain[e][i]] \in InCall
        /\ i > 1 => pc[chain[e][i]] = "queued"
        /\ chain[e][i] \in Procs
    BY <1>1 DEF ChainMembers
  <2>2. CASE chain[e][i] # p
    BY <1>3, <2>1, <2>2
  <2>3. CASE chain[e][i] = p
    <3>1. i = 1
      <4>1. CASE pc[p] # "queued"
        BY <1>1, <2>1, <2>3, <4>1
      <4>2. CASE pc[p] = "queued"
        <5>1. chain[e] # << >> /\ Head(chain[e]) = p /\ chain[e] \in Seq(Procs)
          BY <1>1, <2>1, <2>3, <4>2 DEF Turn
        <5>2. chain[e][1] = p /\ 1 \in 1..Len(chain[e])
          BY <5>1
        <5> QED BY <1>1, <2>3, <5>2 DEF ChainDistinct
      <4> QED BY <4>1, <4>2
    <3> QED BY <1>1, <1>2, <2>1, <2>3, <3>1
  <2> QED BY <2>2, <2>3
<1> QED BY <1>3, <1>4, <1>5, <1>6 DEF ChainOK

LEMMA ReadInv ==
  ASSUME IInv, NEW p \in Procs, Read(p)
  PROVE  IInv'
<1>1. ChainOK' /\ pc' \in [Procs -> PcValues]
  BY HeadMoves DEF Read, Window, InCall
<1>2. TypeOK'
  BY <1>1 DEF IInv, TypeOK, Read, OverlapNow
<1>3. Fresh'
  <2>1. SUFFICES ASSUME "overlap" \notin hazards' PROVE Fresh'
    BY DEF Fresh
  <2>2. ~Overlap' /\ "overlap" \notin hazards
    BY <2>1 DEF Read, OverlapNow
  <2>3. pc'[p] = "read" /\ snap'[p] = file'
    BY DEF Read, IInv, TypeOK
  <2>4. \A q \in Procs : pc'[q] \in Window => q = p
    BY <2>2, <2>3 DEF Overlap, Window
  <2> QED BY <2>2, <2>3, <2>4 DEF Fresh, Window
<1>4. call[p] \in Mutators
  BY DEF IInv, TypeOK, ChainOK, CallsPending, Read, InCall
<1>5. Serialized'
  BY <1>1, <1>2, <1>4, SerializedKept DEF Read, TypeOK
<1> QED BY <1>1, <1>2, <1>3, <1>5 DEF IInv

LEMMA WriteTmpInv ==
  ASSUME IInv, NEW p \in Procs, WriteTmp(p)
  PROVE  IInv'
<1>1. ChainOK' /\ pc' \in [Procs -> PcValues]
  BY HeadMoves DEF WriteTmp, Window, InCall
<1>2. call[p] \in Mutators
  BY DEF IInv, TypeOK, ChainOK, CallsPending, WriteTmp, InCall
<1>3. Merge(call[p], snap[p]) \in Docs
  BY <1>2, MergeType DEF IInv, TypeOK
<1>4. TypeOK'
  BY <1>1, <1>3 DEF IInv, TypeOK, WriteTmp, OverlapNow
<1>5. Fresh'
  <2>1. SUFFICES ASSUME "overlap" \notin hazards' PROVE Fresh'
    BY DEF Fresh
  <2>2. ~Overlap' /\ "overlap" \notin hazards
    BY <2>1 DEF WriteTmp, OverlapNow
  <2>3. pc'[p] = "written" /\ pc[p] = "read"
    BY DEF WriteTmp, IInv, TypeOK
  <2>4. \A q \in Procs : pc'[q] \in Window => q = p
    BY <2>2, <2>3 DEF Overlap, Window
  <2>5. snap[p] = file
    BY <2>2, <2>3 DEF IInv, Fresh, Window
  <2> QED BY <2>2, <2>4, <2>5 DEF Fresh, Window, WriteTmp
<1>6. Serialized'
  BY <1>1, <1>2, <1>4, SerializedKept DEF WriteTmp, TypeOK
<1> QED BY <1>1, <1>4, <1>5, <1>6 DEF IInv

LEMMA ReadFailsInv ==
  ASSUME IInv, NEW p \in Procs, ReadFails(p)
  PROVE  IInv'
<1>1. /\ ChainOK' /\ chain' \in [Devices -> Seq(Procs)]
      /\ pc' \in [Procs -> PcValues]
      /\ call' \in [Procs -> Mutators \union {None}]
      /\ snap' \in [Procs -> Docs]
  BY SettleChain DEF ReadFails, InCall
<1>2. TypeOK'
  BY <1>1 DEF IInv, TypeOK, ReadFails
<1>3. \A q \in Procs : pc'[q] \in Window =>
        pc'[q] = pc[q] /\ snap'[q] = snap[q] /\ call'[q] = call[q]
  BY AfterType DEF IInv, TypeOK, ReadFails, Settle, Window, InCall
<1>4. Fresh'
  BY <1>3, FreshKept DEF ReadFails
<1>5. Serialized'
  BY DEF IInv, Serialized, ReadFails
<1> QED BY <1>1, <1>2, <1>4, <1>5 DEF IInv

\* A call in its window settles: when no windows overlapped, none is left.
LEMMA WindowCloses ==
  ASSUME IInv, NEW p \in Procs, pc[p] \in Window,
         pc' = [pc EXCEPT ![p] = After(p, TRUE)] \/ pc' = [pc EXCEPT ![p] = After(p, FALSE)],
         "overlap" \notin hazards
  PROVE  \A q \in Procs : pc'[q] \notin Window
<1>1. ~Overlap
  BY DEF IInv, Fresh
<1>2. \A q \in Procs \ {p} : pc[q] \notin Window
  BY <1>1 DEF Overlap
<1> QED BY <1>2, AfterType DEF IInv, TypeOK, Window, InCall

LEMMA RenameInv ==
  ASSUME IInv, NEW p \in Procs, Rename(p)
  PROVE  IInv'
<1>1. /\ ChainOK' /\ chain' \in [Devices -> Seq(Procs)]
      /\ pc' \in [Procs -> PcValues]
      /\ call' \in [Procs -> Mutators \union {None}]
      /\ snap' \in [Procs -> Docs]
  BY SettleChain DEF Rename, InCall
<1>2. TypeOK'
  BY <1>1 DEF IInv, TypeOK, Rename, Undone, OverlapNow
<1>3. Fresh'
  <2>1. SUFFICES ASSUME "overlap" \notin hazards' PROVE Fresh'
    BY DEF Fresh
  <2>2. "overlap" \notin hazards
    BY <2>1 DEF Rename
  <2>3. \A q \in Procs : pc'[q] \notin Window
    BY <2>2, WindowCloses DEF Rename, Settle, Window
  <2> QED BY <2>3 DEF Fresh, Overlap, Window
<1>4. call[p] \in Mutators
  BY DEF IInv, TypeOK, ChainOK, CallsPending, Rename, InCall
<1>5. Serialized'
  BY <1>1, <1>4, SerializedKept DEF Rename
<1> QED BY <1>1, <1>2, <1>3, <1>5 DEF IInv

LEMMA WriteFailsInv ==
  ASSUME IInv, NEW p \in Procs, WriteFails(p)
  PROVE  IInv'
<1>1. /\ ChainOK' /\ chain' \in [Devices -> Seq(Procs)]
      /\ pc' \in [Procs -> PcValues]
      /\ call' \in [Procs -> Mutators \union {None}]
      /\ snap' \in [Procs -> Docs]
  BY SettleChain DEF WriteFails, Window, InCall
<1>2. TypeOK'
  BY <1>1 DEF IInv, TypeOK, WriteFails
<1>3. Fresh'
  <2>1. SUFFICES ASSUME "overlap" \notin hazards' PROVE Fresh'
    BY DEF Fresh
  <2>2. "overlap" \notin hazards
    BY <2>1 DEF WriteFails
  <2>3. \A q \in Procs : pc'[q] \notin Window
    BY <2>2, WindowCloses DEF WriteFails, Settle, Window
  <2> QED BY <2>3 DEF Fresh, Overlap, Window
<1>4. Serialized'
  BY DEF IInv, Serialized, WriteFails
<1> QED BY <1>1, <1>2, <1>3, <1>4 DEF IInv

LEMMA CrashInv ==
  ASSUME IInv, NEW d \in Devices, Crash(d)
  PROVE  IInv'
<1> DEFINE dying == {p \in Procs : DeviceOf[p] = d /\ pc[p] \notin {"idle"} \union Ended}
<1>1. /\ pc' = [p \in Procs |-> IF p \in dying THEN "dead" ELSE pc[p]]
      /\ call' = [p \in Procs |-> IF DeviceOf[p] = d THEN None ELSE call[p]]
      /\ snap' = [p \in Procs |-> IF DeviceOf[p] = d THEN Empty ELSE snap[p]]
      /\ chain' = [chain EXCEPT ![d] = << >>]
      /\ UNCHANGED <<file, tmp, orig, hazards>>
  BY DEF Crash
<1>2. TypeOK'
  BY <1>1, EmptyType DEF IInv, TypeOK, PcValues, Ended
<1>3. \A p \in Procs : pc'[p] \in InCall =>
        DeviceOf[p] # d /\ pc'[p] = pc[p] /\ snap'[p] = snap[p] /\ call'[p] = call[p]
  BY <1>1 DEF InCall, Ended
<1>4. \A p \in Procs : DeviceOf[p] # d => pc'[p] = pc[p] /\ call'[p] = call[p]
  BY <1>1
<1>5. \A p \in Procs : DeviceOf[p] = d => pc'[p] \notin InCall /\ call'[p] = None
  BY <1>1 DEF InCall, Ended
<1>6. \A e \in Devices : chain'[e] = IF e = d THEN << >> ELSE chain[e]
  BY <1>1 DEF IInv, TypeOK
<1>7. CallsPending'
  BY <1>4, <1>5 DEF IInv, ChainOK, CallsPending
<1>8. ChainMembers'
  <2>1. \A e \in Devices : \A i \in 1..Len(chain[e]) : chain[e][i] \in Procs
    BY DEF IInv, TypeOK
  <2> QED BY <1>4, <1>6, <2>1 DEF IInv, ChainOK, ChainMembers, Chained
<1>9. ChainDistinct'
  BY <1>6 DEF IInv, ChainOK, ChainDistinct
<1>10. ChainComplete'
  BY <1>3, <1>6 DEF IInv, ChainOK, ChainComplete, Chained
<1>11. Fresh'
  BY <1>1, <1>3, FreshKept DEF Window, InCall
<1>12. Serialized'
  BY <1>1 DEF IInv, Serialized
<1> QED BY <1>2, <1>7, <1>8, <1>9, <1>10, <1>11, <1>12 DEF IInv, ChainOK

\* What the client's steps are: a submission, or a move without a call.
LEMMA ClientStep ==
  ASSUME IInv, NEW p \in Procs, Client(p)
  PROVE  /\ pc[p] \notin InCall
         /\ Idle
         /\ \/ \E op \in Ops : Submit(p, op) /\ UNCHANGED orig
            \/ \E to \in PcValues \ InCall :
                 /\ pc' = [pc EXCEPT ![p] = to]
                 /\ orig' \in [Procs -> Docs]
                 /\ UNCHANGED <<chain, call>>
<1> USE DEF InCall, PcValues, Ops, Ended
<1>1. file \in Docs /\ Empty \in Docs /\ orig \in [Procs -> Docs]
  BY EmptyType DEF IInv, TypeOK
<1>2. CASE StartImport(p)
  BY <1>2 DEF StartImport
<1>3. CASE LoadOriginal(p)
  <2>1. "copying" \in PcValues \ InCall /\ pc[p] \notin InCall
    BY <1>3 DEF LoadOriginal
  <2>2. orig' \in [Procs -> Docs]
    BY <1>1, <1>3 DEF LoadOriginal
  <2> QED BY <1>3, <2>1, <2>2 DEF LoadOriginal
<1>4. CASE Commit(p)
  BY <1>4 DEF Commit
<1>5. CASE Rollback(p)
  BY <1>5 DEF Rollback
<1>6. CASE GiveUp(p)
  BY <1>6 DEF GiveUp
<1>7. CASE BatchComplete(p)
  BY <1>7 DEF BatchComplete
<1>8. CASE PersistState(p)
  BY <1>8 DEF PersistState
<1>9. CASE Scan(p)
  <2>1. "done" \in PcValues \ InCall /\ "reset" \in Ops /\ pc[p] = "idle" /\ Idle
    BY <1>9 DEF Scan
  <2>2. CASE file.status = "in-progress"
    BY <1>9, <2>1, <2>2 DEF Scan
  <2>3. CASE file.status # "in-progress"
    BY <1>1, <1>9, <2>1, <2>3 DEF Scan
  <2> QED BY <2>2, <2>3
<1>10. CASE View(p)
  BY <1>1, <1>10 DEF View
<1>11. CASE Save(p)
  BY <1>11 DEF Save
<1>12. CASE SyncMetadata(p)
  BY <1>12 DEF SyncMetadata
<1>13. CASE RecordError(p)
  BY <1>13 DEF RecordError
<1> QED
  BY <1>2, <1>3, <1>4, <1>5, <1>6, <1>7, <1>8, <1>9, <1>10, <1>11, <1>12,
     <1>13 DEF Client, Import

LEMMA NextInv ==
  ASSUME IInv, [Next]_vars
  PROVE  IInv'
<1>1. CASE UNCHANGED vars
  BY <1>1 DEF vars, IInv, TypeOK, ChainOK, ChainMembers, ChainDistinct,
              ChainComplete, CallsPending, Fresh, Serialized, Overlap, Chained
<1>2. ASSUME NEW p \in Procs, Store(p) PROVE IInv'
  BY <1>2, ReadInv, ReadFailsInv, WriteTmpInv, RenameInv, WriteFailsInv DEF Store
<1>3. ASSUME NEW p \in Procs, Client(p) PROVE IInv'
  <2>1. CASE \E op \in Ops : Submit(p, op) /\ UNCHANGED orig
    BY <1>3, <2>1, ClientStep, SubmitInv
  <2>2. CASE \E to \in PcValues \ InCall :
               /\ pc' = [pc EXCEPT ![p] = to]
               /\ orig' \in [Procs -> Docs]
               /\ UNCHANGED <<chain, call>>
    BY <1>3, <2>2, ClientStep, MoveInv
  <2> QED BY <1>3, <2>1, <2>2, ClientStep
<1>4. ASSUME NEW d \in Devices, Crash(d) PROVE IInv'
  BY <1>4, CrashInv
<1> QED BY <1>1, <1>2, <1>3, <1>4 DEF Next

\* The invariant: types, chains in order, and every window of the store fresh
\* until two windows overlap, which they never do with one chain.
THEOREM Invariance == Spec => []IInv
<1>1. Init => IInv
  BY InitInv
<1>2. IInv /\ [Next]_vars => IInv'
  BY NextInv
<1> QED BY <1>1, <1>2, PTL DEF Spec

\* Type correctness.
THEOREM TypeCorrect == Spec => []TypeOK
<1>1. IInv => TypeOK
  BY DEF IInv
<1> QED BY <1>1, Invariance, PTL

\* Between a call's read and its rename the document does not change, as long
\* as no other window was open ("reads the truly-latest on-disk document").
THEOREM FreshCorrect == Spec => []Fresh
<1>1. IInv => Fresh
  BY DEF IInv
<1> QED BY <1>1, Invariance, PTL

-----------------------------------------------------------------------------
(* What stays in the document                                              *)

\* A client submits what its kind submits, or moves on within its role.
LEMMA ClientRole ==
  ASSUME IInv, Roles, NEW p \in Procs, Client(p)
  PROVE  /\ UNCHANGED <<file, hazards>> /\ pc[p] \notin Ended
         /\ \A q \in Procs \ {p} : pc'[q] = pc[q] /\ call'[q] = call[q] /\ orig'[q] = orig[q]
         /\ orig'[p] \in {orig[p], file, Empty}
         /\ \/ /\ pc'[p] = "queued" /\ call'[p] # None /\ call'[p].op \in OpsOf(p)
               /\ call'[p].op = "edit" => call'[p].base = orig[p]
            \/ /\ call'[p] = call[p]
               /\ \/ pc'[p] = "copying" /\ KindOf[p] = "import"
                  \/ pc'[p] = "viewing" /\ KindOf[p] = "edit"
                  \/ pc'[p] = "done" /\ KindOf[p] = "scan"
<1>1. pc \in [Procs -> PcValues] /\ call \in [Procs -> Mutators \union {None}]
      /\ orig \in [Procs -> Docs]
  BY DEF IInv, TypeOK
<1>2. ASSUME NEW op \in OpsOf(p), Submit(p, op), UNCHANGED orig, op # "rollback"
      PROVE  /\ \A q \in Procs \ {p} : pc'[q] = pc[q] /\ call'[q] = call[q]
             /\ pc'[p] = "queued" /\ call'[p] # None /\ call'[p].op = op
             /\ call'[p].op = "edit" => call'[p].base = orig[p]
  <2>1. op \in Ops
    BY DEF OpsOf, Ops
  <2>2. [op |-> op, by |-> p, base |-> IF op \in {"rollback", "edit"} THEN orig[p] ELSE Empty]
          \in Mutators
    BY <1>1, <2>1, EmptyType DEF Mutators
  <2> QED
    BY <1>1, <1>2, <2>2 DEF Submit
<1>3. ASSUME Submit(p, "rollback"), UNCHANGED orig
      PROVE  /\ \A q \in Procs \ {p} : pc'[q] = pc[q] /\ call'[q] = call[q]
             /\ pc'[p] = "queued" /\ call'[p] # None /\ call'[p].op = "rollback"
  <2>1. [op |-> "rollback", by |-> p, base |-> orig[p]] \in Mutators
    BY <1>1 DEF Mutators, Ops
  <2> QED
    BY <1>1, <1>3, <2>1 DEF Submit
<1>4. CASE StartImport(p)
  <2>1. "start" \in OpsOf(p)
    BY <1>4 DEF StartImport, OpsOf
  <2> QED
    BY <1>2, <1>4, <2>1 DEF StartImport, Idle, Ended
<1>5. CASE LoadOriginal(p)
  BY <1>1, <1>5 DEF LoadOriginal, Idle, Ended, Roles
<1>6. CASE Commit(p)
  <2>1. {"commit", "commitBare"} \subseteq OpsOf(p)
    BY <1>6 DEF Commit, OpsOf, Roles
  <2>2. PICK op \in {"commit", "commitBare"} : Submit(p, op)
    BY <1>6 DEF Commit
  <2> QED
    BY <1>2, <1>6, <2>1, <2>2 DEF Commit, Idle, Ended
<1>7. CASE Rollback(p)
  <2>1. "rollback" \in OpsOf(p)
    BY <1>7 DEF Rollback, OpsOf, Roles
  <2> QED
    BY <1>3, <1>7, <2>1 DEF Rollback, Idle, Ended
<1>8. CASE GiveUp(p)
  <2>1. "reset" \in OpsOf(p)
    BY <1>8 DEF GiveUp, OpsOf, Roles
  <2> QED
    BY <1>2, <1>8, <2>1 DEF GiveUp, Idle, Ended
<1>9. CASE BatchComplete(p)
  <2>1. "run" \in OpsOf(p)
    BY <1>9 DEF BatchComplete, OpsOf
  <2> QED
    BY <1>2, <1>9, <2>1 DEF BatchComplete, Idle, Ended
<1>10. CASE PersistState(p)
  <2>1. "state" \in OpsOf(p)
    BY <1>10 DEF PersistState, OpsOf, Roles
  <2> QED
    BY <1>2, <1>10, <2>1 DEF PersistState, Idle, Ended
<1>11. CASE Scan(p)
  <2>1. "reset" \in OpsOf(p)
    BY <1>11 DEF Scan, OpsOf
  <2>2. CASE file.status = "in-progress"
    BY <1>2, <1>11, <2>1, <2>2 DEF Scan, Idle, Ended
  <2>3. CASE file.status # "in-progress"
    BY <1>1, <1>11, <2>3 DEF Scan, Idle, Ended
  <2> QED
    BY <2>2, <2>3
<1>12. CASE View(p)
  BY <1>1, <1>12 DEF View, Idle, Ended
<1>13. CASE Save(p)
  <2>1. "edit" \in OpsOf(p)
    BY <1>13 DEF Save, OpsOf, Roles
  <2> QED
    BY <1>2, <1>13, <2>1 DEF Save, Idle, Ended
<1>14. CASE SyncMetadata(p)
  <2>1. "index" \in OpsOf(p)
    BY <1>14 DEF SyncMetadata, OpsOf
  <2> QED
    BY <1>2, <1>14, <2>1 DEF SyncMetadata, Idle, Ended
<1>15. CASE RecordError(p)
  <2>1. "syncError" \in OpsOf(p)
    BY <1>15 DEF RecordError, OpsOf, Roles
  <2> QED
    BY <1>2, <1>15, <2>1 DEF RecordError, Idle, Ended
<1> QED
  BY <1>4, <1>5, <1>6, <1>7, <1>8, <1>9, <1>10, <1>11, <1>12, <1>13, <1>14, <1>15
     DEF Client, Import

\* A call that settles takes its process on within its role; only a call that
\* was carried out ends in "done".
LEMMA AfterRole ==
  ASSUME Roles, NEW p \in Procs, call[p] # None, NEW ok \in BOOLEAN
  PROVE  /\ After(p, ok) \in {"loading", "rollingBack", "givingUp"} => KindOf[p] = "import"
         /\ After(p, ok) = "stating" => KindOf[p] = "meta"
         /\ After(p, ok) = "recording" => KindOf[p] = "sync"
         /\ After(p, ok) \notin {"idle", "copying", "viewing"}
         /\ After(p, ok) = "unaudited" =>
              ok /\ KindOf[p] = "import" /\ call[p].op = "commitBare"
         /\ call[p].op = "commitBare" /\ ok => After(p, ok) = "unaudited"
         /\ After(p, ok) = "done" =>
              /\ ok
              /\ KindOf[p] = "import" => call[p].op = "commit"
              /\ KindOf[p] = "meta" => call[p].op = "state"
              /\ KindOf[p] = "sync" => call[p].op = "index"
<1>1. call[p].op \in OpsOf(p) /\ KindOf[p] \in Kinds
  BY DEF Roles
<1> QED
  BY <1>1 DEF OpsOf, After, Kinds

LEMMA SettleRole ==
  ASSUME IInv, Roles, NEW p \in Procs, NEW ok \in BOOLEAN, pc[p] \in InCall,
         Settle(p, ok), UNCHANGED orig
  PROVE  /\ Roles'
         /\ call[p] # None /\ pc'[p] = After(p, ok) /\ call'[p] = None
         /\ \A q \in Procs \ {p} : pc'[q] = pc[q] /\ call'[q] = call[q]
<1>1. /\ call[p] # None /\ pc'[p] = After(p, ok) /\ call'[p] = None
      /\ \A q \in Procs \ {p} : pc'[q] = pc[q] /\ call'[q] = call[q]
  BY DEF IInv, TypeOK, ChainOK, CallsPending, Settle
<1> QED
  BY <1>1, AfterRole DEF Roles

\* A step that leaves the document alone.
LEMMA DocumentStays ==
  ASSUME IInv, Kept, Roles', file' = file, hazards \subseteq hazards',
         \A q \in Procs :
           /\ pc'[q] = "done" => pc[q] = "done" \/ KindOf[q] = "scan"
           /\ pc'[q] = "unaudited" <=> pc[q] = "unaudited"
           /\ pc[q] # "idle" => pc'[q] # "idle"
           /\ orig'[q] \in {orig[q], file, Empty}
           /\ \/ call'[q] \in {call[q], None}
              \/ call'[q].op = "edit" => call'[q].base = orig[q]
  PROVE  Kept'
<1> USE DEF Kept
<1>1. SeenComplete'
  BY DEF SeenComplete, CompleteHasAudit, Audited, Empty
<1>2. NoLostUpdate'
  BY DEF NoLostUpdate
<1>3. CompleteHasAudit'
  BY DEF CompleteHasAudit, Audited
<1>4. CommitSticks'
  BY DEF CommitSticks
<1> QED
  BY <1>1, <1>2, <1>3, <1>4

LEMMA RenameKept ==
  ASSUME IInv, Kept, NEW p \in Procs, Rename(p)
  PROVE  Kept'
<1> USE DEF Kept
<1> DEFINE m == call[p]
<1>1. /\ Roles' /\ m # None /\ pc'[p] = After(p, TRUE) /\ call'[p] = None
      /\ \A q \in Procs \ {p} : pc'[q] = pc[q] /\ call'[q] = call[q]
      /\ pc[p] = "written" /\ orig' = orig
  BY SettleRole DEF Rename, InCall
<1>2. hazards \subseteq hazards' /\ Undone(m) \subseteq hazards'
  BY DEF Rename
<1>3. m \in Mutators /\ m.by = p /\ file \in Docs /\ m.op \in OpsOf(p)
  BY <1>1 DEF IInv, TypeOK, ChainOK, CallsPending, Roles
<1>4. ASSUME "overlap" \notin hazards' PROVE file' = Merge(m, file)
  BY <1>1, <1>2, <1>4 DEF IInv, Fresh, Rename, Window
<1>5. After(p, TRUE) = "done" =>
              /\ KindOf[p] = "import" => m.op = "commit"
              /\ KindOf[p] = "meta" => m.op = "state"
              /\ KindOf[p] = "sync" => m.op = "index"
  BY <1>1, AfterRole
<1>6. ASSUME file' = Merge(m, file)
      PROVE  /\ file.imports # {} => file'.imports # {}
             /\ m.op = "commitBare" => file'.status = "complete"
             /\ m.op = "commit" => p \in file'.imports /\ file'.status = "complete"
             /\ m.op = "state" => file'.state = p
             /\ m.op = "index" => file'.index = p
             /\ m.op = "edit" => file'.status = m.base.status
             /\ m.op \in {"rollback", "reset"} => file'.status = "created"
             /\ m.op = "start" => file'.status = "in-progress"
             /\ m.op \in {"run", "state", "index", "syncError"} => file'.status = file.status
             /\ m.op # "rollback" => file.imports \subseteq file'.imports
             /\ m.op \notin {"rollback", "state"} => file'.state = file.state
             /\ m.op \notin {"rollback", "index"} => file'.index = file.index
  BY <1>3, <1>6 DEF Merge, Docs
<1>7. m.op \in Ops
  BY <1>3 DEF Mutators
<1>12. ASSUME "overlap" \notin hazards', Audited PROVE Audited'
  <2>1. CASE file.imports # {}
    BY <1>4, <1>6, <1>12, <2>1 DEF Audited
  <2>2. ASSUME NEW q \in Procs, pc[q] = "unaudited" PROVE Audited'
    BY <1>1, <2>2 DEF Audited
  <2> QED
    BY <1>12, <2>1, <2>2 DEF Audited
<1>8. SeenComplete'
  <2>1. SUFFICES ASSUME "overlap" \notin hazards' PROVE SeenComplete'
    BY DEF SeenComplete
  <2>2. Audited => Audited'
    BY <1>12, <2>1
  <2> QED
    BY <1>1, <1>2, <2>1, <2>2 DEF SeenComplete
<1>9. CompleteHasAudit'
  <2>1. SUFFICES ASSUME "overlap" \notin hazards', file'.status = "complete"
                 PROVE  Audited'
    BY DEF CompleteHasAudit
  <2>2. CASE m.op = "commit"
    BY <1>4, <1>6, <2>1, <2>2 DEF Audited
  <2>5. CASE m.op = "commitBare"
    BY <1>1, <2>5, AfterRole DEF Audited
  <2>3. CASE m.op = "edit"
    BY <1>1, <1>2, <1>4, <1>6, <1>12, <2>1, <2>3 DEF SeenComplete
  <2>4. CASE m.op \in {"run", "state", "index", "syncError"}
    BY <1>2, <1>4, <1>6, <1>12, <2>1, <2>4 DEF CompleteHasAudit
  <2> QED
    BY <1>4, <1>6, <1>7, <2>1, <2>2, <2>3, <2>4, <2>5 DEF Ops
<1>10. NoLostUpdate'
  <2>1. SUFFICES ASSUME hazards' \intersect {"overlap", "rollback"} = {},
                        NEW q \in Procs, pc'[q] = "done"
                 PROVE  /\ KindOf[q] = "import" => q \in file'.imports
                        /\ KindOf[q] = "meta" => file'.state \in Procs
                        /\ KindOf[q] = "sync" => file'.index \in Procs
    BY DEF NoLostUpdate
  <2>2. file' = Merge(m, file)
    BY <1>4, <2>1
  <2>3. ASSUME m.op = "rollback"
        PROVE  file'.imports = file.imports /\ file'.state = file.state
               /\ file'.index = file.index
    <3>1. [file' EXCEPT !.status = file.status] = file
      BY <1>2, <2>1, <2>2, <2>3 DEF Undone
    <3>2. [file' EXCEPT !.status = file.status].imports = file'.imports
          /\ [file' EXCEPT !.status = file.status].state = file'.state
          /\ [file' EXCEPT !.status = file.status].index = file'.index
      <4>1. file' \in Docs
        BY <1>3, <2>2, MergeType
      <4> QED
        BY <4>1 DEF Docs
    <3> QED
      BY <3>1, <3>2
  <2>4. file.imports \subseteq file'.imports
        /\ (file'.state = file.state \/ file'.state = p)
        /\ (file'.index = file.index \/ file'.index = p)
    BY <1>6, <2>2, <2>3
  <2>5. CASE q = p
    BY <1>1, <1>5, <1>6, <2>1, <2>2, <2>5
  <2>6. CASE q # p
    BY <1>1, <1>2, <2>1, <2>4, <2>6 DEF NoLostUpdate
  <2> QED
    BY <2>5, <2>6
<1>11. CommitSticks'
  <2>1. SUFFICES ASSUME hazards' \intersect {"overlap", "reset", "edit"} = {},
                        NEW q \in Procs, KindOf[q] = "import",
                        pc'[q] \in {"done", "unaudited"},
                        file'.status # "complete"
                 PROVE  \E r \in Procs \ {q} : KindOf[r] = "import" /\ pc'[r] # "idle"
    BY DEF CommitSticks
  <2>2. file' = Merge(m, file)
    BY <1>4, <2>1
  <2>3. q # p
    BY <1>1, <1>5, <1>6, <2>1, <2>2, AfterRole
  <2>4. pc'[p] # "idle"
    BY <1>1, AfterRole
  <2>5. CASE KindOf[p] = "import"
    BY <2>3, <2>4, <2>5
  <2>6. CASE KindOf[p] # "import"
    <3>1. file.status # "complete"
      <4>1. CASE m.op = "reset"
        <5>1. KindOf[p] = "scan"
          BY <1>3, <2>6, <4>1 DEF OpsOf, Kinds
        <5> QED
          BY <1>2, <1>3, <2>1, <4>1, <5>1 DEF Undone
      <4>2. CASE m.op = "edit"
        BY <1>2, <1>6, <2>1, <2>2, <4>2 DEF Undone
      <4>3. CASE m.op \in {"run", "state", "index", "syncError"}
        BY <1>6, <2>1, <2>2, <4>3
      <4> QED
        BY <1>3, <2>6, <4>1, <4>2, <4>3 DEF OpsOf, Kinds
    <3>2. PICK r \in Procs \ {q} : KindOf[r] = "import" /\ pc[r] # "idle"
      BY <1>1, <1>2, <2>1, <2>3, <3>1 DEF CommitSticks
    <3> QED
      BY <1>1, <2>4, <3>2
  <2> QED
    BY <2>5, <2>6
<1> QED
  BY <1>1, <1>8, <1>9, <1>10, <1>11

LEMMA KeptStep ==
  ASSUME IInv, Kept, [Next]_vars
  PROVE  Kept'
<1>0. Roles
  BY DEF Kept
<1>1. ASSUME NEW p \in Procs, Client(p) PROVE Kept'
  <2>1. Roles'
    BY <1>0, <1>1, ClientRole DEF Roles
  <2>2. UNCHANGED <<file, hazards>> /\ pc[p] \notin Ended
    BY <1>0, <1>1, ClientRole
  <2>3. ASSUME NEW q \in Procs
        PROVE  /\ pc'[q] = "done" => pc[q] = "done" \/ KindOf[q] = "scan"
               /\ pc'[q] = "unaudited" <=> pc[q] = "unaudited"
               /\ pc[q] # "idle" => pc'[q] # "idle"
               /\ orig'[q] \in {orig[q], file, Empty}
               /\ \/ call'[q] \in {call[q], None}
                  \/ call'[q].op = "edit" => call'[q].base = orig[q]
    <3>1. CASE q = p
      BY <1>0, <1>1, <3>1, ClientRole DEF Ended
    <3>2. CASE q # p
      BY <1>0, <1>1, <3>2, ClientRole
    <3> QED
      BY <3>1, <3>2
  <2> QED
    BY <2>1, <2>2, <2>3, DocumentStays
<1>2. ASSUME NEW p \in Procs, Read(p) \/ WriteTmp(p) PROVE Kept'
  <2>1. /\ file' = file /\ hazards \subseteq hazards' /\ UNCHANGED <<call, orig>>
        /\ pc'[p] \in Window /\ \A q \in Procs \ {p} : pc'[q] = pc[q]
    BY <1>2 DEF Read, WriteTmp, Window, IInv, TypeOK
  <2>2. Roles'
    BY <1>0, <2>1 DEF Roles, Window, OpsOf
  <2> QED
    BY <1>2, <2>1, <2>2, DocumentStays DEF Window, Read, WriteTmp
<1>3. ASSUME NEW p \in Procs, ReadFails(p) \/ WriteFails(p) PROVE Kept'
  <2>1. Settle(p, FALSE) /\ UNCHANGED <<file, orig, hazards>> /\ pc[p] \in InCall
    BY <1>3 DEF ReadFails, WriteFails, Window, InCall
  <2>2. /\ Roles'
        /\ call[p] # None /\ pc'[p] = After(p, FALSE) /\ call'[p] = None
        /\ \A q \in Procs \ {p} : pc'[q] = pc[q] /\ call'[q] = call[q]
    BY <1>0, <2>1, SettleRole
  <2>3. After(p, FALSE) \notin {"done", "unaudited", "idle"}
    BY <1>0, <2>2, AfterRole
  <2> QED
    BY <2>1, <2>2, <2>3, DocumentStays DEF InCall
<1>4. ASSUME NEW d \in Devices, Crash(d) PROVE Kept'
  <2>1. /\ UNCHANGED <<file, orig, hazards>>
        /\ \A q \in Procs : pc[q] = "unaudited" => pc'[q] = "unaudited"
        /\ \A q \in Procs : pc'[q] \in {pc[q], "dead"} /\ call'[q] \in {call[q], None}
    BY <1>4 DEF Crash, Ended
  <2>2. Roles'
    BY <1>0, <2>1 DEF Roles, OpsOf
  <2> QED
    BY <2>1, <2>2, DocumentStays
<1>5. CASE UNCHANGED vars
  <2>1. Roles'
    BY <1>0, <1>5 DEF vars, Roles, OpsOf
  <2> QED
    BY <1>5, <2>1, DocumentStays DEF vars
<1> QED
  BY <1>1, <1>2, <1>3, <1>4, <1>5, RenameKept DEF Next, Store

\* What finished writes left in the document stays.
THEOREM KeptInvariance == Spec => []Kept
<1>1. ASSUME Init PROVE Kept
  <2>1. \A p \in Procs : pc[p] = "idle" /\ call[p] = None /\ orig[p].status = "created"
    BY <1>1 DEF Init, Empty
  <2>2. file.status = "created"
    <3>1. PICK v \in {Old, Absent}, i \in {Old, Absent} :
            file = [Empty EXCEPT !.run = v, !.state = v, !.index = i]
      BY <1>1 DEF Init
    <3> QED
      BY <3>1 DEF Empty
  <2> QED
    BY <2>1, <2>2 DEF Kept, Roles, SeenComplete, NoLostUpdate, CompleteHasAudit,
       CommitSticks
<1>2. IInv /\ Kept /\ [Next]_vars => Kept'
  BY KeptStep
<1> QED BY <1>1, <1>2, Invariance, PTL DEF Spec

\* No finished write is lost, short of overlapping windows and a rollback that
\* restores older values.
THEOREM NoLostUpdateCorrect == Spec => []NoLostUpdate
<1>1. Kept => NoLostUpdate
  BY DEF Kept
<1> QED BY <1>1, KeptInvariance, PTL

\* Every version of the document that says "complete" has an audit entry, short of
\* overlapping windows and of an import that was done without one.
THEOREM CompleteHasAuditCorrect == Spec => []CompleteHasAudit
<1>1. Kept => CompleteHasAudit
  BY DEF Kept
<1> QED BY <1>1, KeptInvariance, PTL

\* A commit sticks, short of overlapping windows and of writers that act on what they
\* had read before.
THEOREM CommitSticksCorrect == Spec => []CommitSticks
<1>1. Kept => CommitSticks
  BY DEF Kept
<1> QED BY <1>1, KeptInvariance, PTL

-----------------------------------------------------------------------------
(* Refinement                                                              *)

LEMMA RegisterStep ==
  ASSUME OneChain, IInv, IInv', [Next]_vars
  PROVE  [Register!Next]_<<file, call>>
<1> USE DEF Register!Next
<1>1. CASE UNCHANGED vars
  BY <1>1 DEF vars
<1>2. ASSUME NEW p \in Procs, Store(p) PROVE [Register!Next]_<<file, call>>
  <2>1. CASE Read(p) \/ WriteTmp(p)
    BY <2>1 DEF Read, WriteTmp
  <2>2. CASE Rename(p)
    <3>1. tmp = Merge(call[p], file)
      BY <2>2 DEF IInv, Fresh, Serialized, Rename
    <3>2. call[p] # None
      BY <2>2 DEF IInv, ChainOK, CallsPending, Rename, InCall
    <3>3. Register!Apply(p)
      BY <2>2, <3>1, <3>2 DEF Rename, Settle, Register!Apply, Register!Merge,
                              Merge, Register!Restored, Restored
    <3> QED BY <3>3
  <2>3. CASE ReadFails(p) \/ WriteFails(p)
    <3>1. call' = [q \in Procs |-> IF q \in {p} THEN None ELSE call[q]]
      BY <2>3 DEF ReadFails, WriteFails, Settle, IInv, TypeOK
    <3>2. Register!Reject({p})
      BY <2>3, <3>1 DEF ReadFails, WriteFails, Register!Reject
    <3> QED BY <3>2
  <2> QED BY <1>2, <2>1, <2>2, <2>3 DEF Store
<1>3. ASSUME NEW p \in Procs, Client(p) PROVE [Register!Next]_<<file, call>>
  <2>1. pc[p] \notin InCall /\ UNCHANGED file
    BY <1>3, ClientStep DEF Idle
  <2>2. CASE UNCHANGED call
    BY <2>1, <2>2
  <2>3. CASE \E op \in Ops : Submit(p, op)
    <3>1. PICK op \in Ops : Submit(p, op)
      BY <2>3
    <3>2. call[p] = None
      BY <2>1 DEF IInv, ChainOK, CallsPending
    <3>3. PICK m \in Mutators : m.by = p /\ call' = [call EXCEPT ![p] = m]
      BY <3>1, EmptyType DEF Submit, Mutators, IInv, TypeOK
    <3>4. call'[p] = m
      BY <3>3 DEF IInv, TypeOK
    <3>5. Register!Submit(p)
      BY <2>1, <3>2, <3>3, <3>4 DEF Register!Submit, Register!Mutators, Mutators,
           Register!Ops, Ops, Register!Docs, Docs, Register!Status, Status,
           Register!Writer, Writer
    <3> QED BY <3>5
  <2> QED BY <1>3, <2>2, <2>3, ClientStep
<1>4. ASSUME NEW d \in Devices, Crash(d) PROVE [Register!Next]_<<file, call>>
  <2> DEFINE P == {q \in Procs : DeviceOf[q] = d}
  <2>1. call' = [q \in Procs |-> IF q \in P THEN None ELSE call[q]] /\ UNCHANGED file
    BY <1>4 DEF Crash
  <2>2. Register!Reject(P)
    BY <2>1 DEF Register!Reject
  <2> QED BY <2>2
<1> QED BY <1>1, <1>2, <1>3, <1>4 DEF Next

\* With one chain event.json is an atomic register: calls of
\* updateEventJsonAtomic take effect one at a time, each on the document the
\* one before it left, or not at all.
THEOREM Refinement ==
  ASSUME OneChain
  PROVE  Spec => AtomicDocument
<1>1. Init => Register!Init
  <2> SUFFICES ASSUME Init PROVE Register!Init
    OBVIOUS
  <2>1. file \in Docs
    BY InitInv DEF IInv, TypeOK
  <2> QED BY <2>1 DEF Init, Register!Init, Register!Docs, Docs,
                      Register!Status, Status, Register!Writer, Writer
<1>2. IInv /\ IInv' /\ [Next]_vars => [Register!Next]_<<file, call>>
  BY RegisterStep
<1> QED BY <1>1, <1>2, Invariance, PTL DEF Spec, AtomicDocument, Register!Spec

=============================================================================
