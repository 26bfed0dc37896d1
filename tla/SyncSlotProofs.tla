--------------------------- MODULE SyncSlotProofs ---------------------------
(* The server's bookkeeping of the sync slot, for any number of devices,    *)
(* calls and connections: one holder, a consistent line, no idle slot; and, *)
(* until the first hazard, a grant that lasts as long as the sync it is for. *)
EXTENDS SyncSlot, TLAPS

USE SyncSlotConstants

Hazards == {"mistaken", "shared", "displaced", "leak", "unqueued",
            "expired", "drop", "restart"}

-----------------------------------------------------------------------------
(* Operators                                                               *)

LEMMA SocketParts ==
  ASSUME NEW s \in Sockets
  PROVE  s[1] \in Devices
  BY DEF Sockets

LEMMA SocketNumber ==
  ASSUME NEW d \in Devices, NEW n \in 1 .. MaxSockets[d]
  PROVE  <<d, n>> \in Sockets
  BY DEF Sockets

LEMMA SendType ==
  ASSUME TypeOK, NEW d \in Devices, NEW m \in Requests, Send(d, m)
  PROVE  up' \in [Sockets -> Seq(Requests)]
  BY DEF TypeOK, Send

LEMMA PostType ==
  ASSUME TypeOK, NEW s \in Sockets, NEW m \in Responses
  PROVE  Post(s, m) \in [Sockets -> Seq(Responses)]
  BY DEF TypeOK, Post

LEMMA RejectType ==
  ASSUME TypeOK, NEW d \in Devices
  PROVE  Reject(d, pc) \in [Calls -> Stages]
  BY DEF TypeOK, Reject, Stages

LEMMA MeetType ==
  ASSUME TypeOK, NEW met \in SUBSET Hazards, Meet(met)
  PROVE  hazards' \subseteq Hazards
  BY DEF TypeOK, Meet, Hazards

\* Removing an entry keeps the others, each once and in order.
LEMMA WithoutEntries ==
  ASSUME NEW q \in Seq(Entries), NEW d
  PROVE  /\ Without(q, d) \in Seq(Entries)
         /\ \A i \in 1 .. Len(Without(q, d)) :
              \E k \in 1 .. Len(q) : Without(q, d)[i] = q[k] /\ (k = i \/ k = i + 1)
<1>1. CASE \A i \in 1 .. Len(q) : q[i].device # d
  <2>1. Without(q, d) = q
    BY <1>1 DEF Without
  <2> QED
    BY <2>1
<1>2. CASE \E i \in 1 .. Len(q) : q[i].device = d
  <2> DEFINE First(i) == q[i].device = d /\ \A k \in 1 .. i - 1 : q[k].device # d
             first == CHOOSE i \in 1 .. Len(q) : First(i)
             rest  == [k \in 1 .. Len(q) - 1 |-> IF k < first THEN q[k] ELSE q[k + 1]]
  <2>1. Without(q, d) = rest
    BY <1>2 DEF Without
  <2>2. Len(q) - 1 \in Nat
    BY <1>2
  <2>3. \A k \in 1 .. Len(q) - 1 : k \in 1 .. Len(q) /\ k + 1 \in 1 .. Len(q)
    OBVIOUS
  <2>4. \A k \in 1 .. Len(q) : q[k] \in Entries
    OBVIOUS
  <2>5. rest \in [1 .. Len(q) - 1 -> Entries]
    BY <2>3, <2>4
  <2>6. rest \in Seq(Entries) /\ Len(rest) = Len(q) - 1
    BY <2>2, <2>5
  <2>7. \A i \in 1 .. Len(rest) : rest[i] = q[i] \/ rest[i] = q[i + 1]
    BY <2>6
  <2> QED
    BY <2>1, <2>3, <2>6, <2>7
<1> QED
  BY <1>1, <1>2

\* A device with one entry has none after Without.
LEMMA WithoutDevice ==
  ASSUME NEW q \in Seq(Entries), NEW d,
         \A i, k \in 1 .. Len(q) : q[i].device = q[k].device => i = k
  PROVE  /\ \A i \in 1 .. Len(Without(q, d)) : Without(q, d)[i].device # d
         /\ \A i, k \in 1 .. Len(Without(q, d)) :
              Without(q, d)[i].device = Without(q, d)[k].device => i = k
<1>1. CASE \A i \in 1 .. Len(q) : q[i].device # d
  <2>1. Without(q, d) = q
    BY <1>1 DEF Without
  <2> QED
    BY <1>1, <2>1
<1>2. CASE \E i \in 1 .. Len(q) : q[i].device = d
  <2> DEFINE First(i) == q[i].device = d /\ \A k \in 1 .. i - 1 : q[k].device # d
             first == CHOOSE i \in 1 .. Len(q) : First(i)
             rest  == [k \in 1 .. Len(q) - 1 |-> IF k < first THEN q[k] ELSE q[k + 1]]
  <2>1. Without(q, d) = rest
    BY <1>2 DEF Without
  <2>2. Len(q) \in Nat /\ Len(rest) = Len(q) - 1
    BY <1>2
  <2>3. PICK f \in 1 .. Len(q) : q[f].device = d
    BY <1>2
  <2>4. First(f)
    BY <2>3
  <2>5. first \in 1 .. Len(q) /\ q[first].device = d
    BY <2>4
  <2> HIDE DEF first
  <2>6. \A i \in 1 .. Len(rest) : rest[i] = q[IF i < first THEN i ELSE i + 1]
    BY <2>2
  <2>7. \A i \in 1 .. Len(rest) :
          (IF i < first THEN i ELSE i + 1) \in 1 .. Len(q) \ {first}
    BY <2>2, <2>5
  <2>8. \A i \in 1 .. Len(rest) : rest[i].device # d
    BY <2>5, <2>6, <2>7
  <2>9. \A i, k \in 1 .. Len(rest) :
          (IF i < first THEN i ELSE i + 1) = (IF k < first THEN k ELSE k + 1) => i = k
    BY <2>2, <2>5
  <2>10. \A i, k \in 1 .. Len(rest) : rest[i].device = rest[k].device => i = k
    BY <2>6, <2>7, <2>9
  <2> QED
    BY <2>1, <2>8, <2>10
<1> QED
  BY <1>1, <1>2

-----------------------------------------------------------------------------
(* The server's steps                                                      *)

Distinct(q) == \A i, k \in 1 .. Len(q) : q[i].device = q[k].device => i = k
Owned(q)    == \A i \in 1 .. Len(q) : q[i].socket[1] = q[i].device

ServerTypes ==
  /\ slots \subseteq Devices
  /\ line \in Seq(Entries)
  /\ down \in [Sockets -> Seq(Responses)]
  /\ hazards \subseteq Hazards
ServerInv == SlotsConsistent /\ NoIdleSlot

\* The slot goes to the first entry that can take it, and the line after it
\* stays consistent.
LEMMA GrantNextStep ==
  ASSUME TypeOK, NEW rest \in Seq(Entries), NEW connected, NEW met \in SUBSET Hazards,
         Distinct(rest), Owned(rest), GrantNext(rest, connected, met)
  PROVE  ServerTypes' /\ ServerInv'
<1> DEFINE Lives(e) == ~e.old /\ e.socket \in connected
<1>1. ASSUME NEW i \in 1 .. Len(rest),
             slots' = {rest[i].device},
             line' = SubSeq(rest, i + 1, Len(rest)),
             down' = Post(rest[i].socket, Response("granted", rest[i].call)),
             Meet(met \union When(\E k \in 1 .. i - 1 : rest[k].old, "unqueued"))
      PROVE  ServerTypes' /\ ServerInv'
  <2>1. rest[i] \in Entries
    OBVIOUS
  <2>2. line' \in Seq(Entries) /\ Len(line') = Len(rest) - i
    BY <1>1
  <2>3. \A k \in 1 .. Len(line') : line'[k] = rest[i + k] /\ i + k \in 1 .. Len(rest)
                                   /\ i + k # i
    BY <1>1, <2>2
  <2>4. down' \in [Sockets -> Seq(Responses)]
    BY <1>1, <2>1, PostType DEF Entries, Response, Responses
  <2>5. hazards' \subseteq Hazards
    <3>1. met \union When(\E k \in 1 .. i - 1 : rest[k].old, "unqueued") \in SUBSET Hazards
      BY DEF When, Hazards
    <3> QED
      BY <1>1, <3>1, MeetType
  <2>6. \A k \in 1 .. Len(line') : line'[k].device # rest[i].device
                                   /\ line'[k].socket[1] = line'[k].device
    BY <2>3 DEF Distinct, Owned
  <2>7. \A k, m \in 1 .. Len(line') : line'[k].device = line'[m].device => k = m
    <3> SUFFICES ASSUME NEW k \in 1 .. Len(line'), NEW m \in 1 .. Len(line'),
                        line'[k].device = line'[m].device
                 PROVE  k = m
      OBVIOUS
    <3>1. rest[i + k].device = rest[i + m].device
      BY <2>3
    <3>2. i + k = i + m
      BY <2>3, <3>1 DEF Distinct
    <3> QED
      BY <2>2, <3>2
  <2>8. slots' \subseteq Devices
    BY <1>1, <2>1 DEF Entries
  <2> QED
    BY <1>1, <2>2, <2>4, <2>5, <2>6, <2>7, <2>8
       DEF ServerTypes, ServerInv, SlotsConsistent, OneHolder, LineConsistent, NoIdleSlot
<1>2. ASSUME slots' = {}, line' = <<>>, UNCHANGED down,
             Meet(met \union When(\E i \in 1 .. Len(rest) : rest[i].old, "unqueued"))
      PROVE  ServerTypes' /\ ServerInv'
  <2>1. met \union When(\E i \in 1 .. Len(rest) : rest[i].old, "unqueued") \in SUBSET Hazards
    BY DEF When, Hazards
  <2>2. hazards' \subseteq Hazards
    BY <1>2, <2>1, MeetType
  <2> QED
    BY <1>2, <2>2 DEF TypeOK, ServerTypes, ServerInv, SlotsConsistent, OneHolder,
                      LineConsistent, NoIdleSlot
<1> QED
  BY <1>1, <1>2 DEF GrantNext

\* What is left of a consistent line when a device leaves it.
LEMMA WithoutLine ==
  ASSUME TypeOK, LineConsistent, NEW d \in Devices
  PROVE  /\ Without(line, d) \in Seq(Entries)
         /\ Distinct(Without(line, d)) /\ Owned(Without(line, d))
         /\ \A i \in 1 .. Len(Without(line, d)) :
              Without(line, d)[i].device \notin slots \union {d}
<1>1. line \in Seq(Entries) /\ Distinct(line) /\ Owned(line)
  BY DEF TypeOK, LineConsistent, Distinct, Owned
<1>2. /\ Without(line, d) \in Seq(Entries)
      /\ \A i \in 1 .. Len(Without(line, d)) :
           \E k \in 1 .. Len(line) : Without(line, d)[i] = line[k]
  BY <1>1, WithoutEntries
<1>3. /\ \A i \in 1 .. Len(Without(line, d)) : Without(line, d)[i].device # d
      /\ Distinct(Without(line, d))
  BY <1>1, WithoutDevice DEF Distinct
<1> DEFINE rest == Without(line, d)
<1> HIDE DEF rest
<1>4. \A i \in 1 .. Len(rest) :
        rest[i].socket[1] = rest[i].device /\ rest[i].device \notin slots
  <2> SUFFICES ASSUME NEW i \in 1 .. Len(rest)
               PROVE  rest[i].socket[1] = rest[i].device /\ rest[i].device \notin slots
    OBVIOUS
  <2>1. PICK k \in 1 .. Len(line) : rest[i] = line[k]
    BY <1>2 DEF rest
  <2> QED
    BY <2>1 DEF LineConsistent
<1> QED
  BY <1>2, <1>3, <1>4 DEF Owned, rest

\* A device that leaves passes its slot on.
LEMMA LeavesStep ==
  ASSUME TypeOK, ServerInv, NEW d \in Devices, NEW connected, NEW met \in SUBSET Hazards,
         Leaves(d, connected, met)
  PROVE  ServerTypes' /\ ServerInv'
<1>0. LineConsistent /\ OneHolder /\ NoIdleSlot
  BY DEF ServerInv, SlotsConsistent
<1>1. CASE d \in slots
  BY <1>0, <1>1, WithoutLine, GrantNextStep DEF Leaves
<1>2. CASE d \notin slots
  <2>1. /\ line' = Without(line, d)
        /\ Meet(met)
        /\ slots' = slots /\ down' = down
    BY <1>2 DEF Leaves
  <2>2. hazards' \subseteq Hazards
    BY <2>1, MeetType
  <2>3. ServerTypes'
    BY <1>0, <2>1, <2>2, WithoutLine DEF TypeOK, ServerTypes
  <2>4. SlotsConsistent'
    BY <1>0, <2>1, WithoutLine
       DEF SlotsConsistent, OneHolder, LineConsistent, Distinct, Owned
  <2>5. NoIdleSlot'
    <3>1. CASE slots = {}
      <4>1. line = <<>>
        BY <1>0, <3>1 DEF NoIdleSlot
      <4>2. Without(line, d) = <<>>
        BY <4>1 DEF Without
      <4> QED
        BY <2>1, <4>2 DEF NoIdleSlot
    <3> QED
      BY <2>1, <3>1 DEF NoIdleSlot
  <2> QED
    BY <2>3, <2>4, <2>5 DEF ServerInv
<1> QED
  BY <1>1, <1>2

\* A request is granted when no other device holds the slot, and queued behind
\* the holder otherwise.
LEMMA RequestedStep ==
  ASSUME TypeOK, ServerInv, NEW s \in Sockets, NEW c \in Calls, Requested(s, c)
  PROVE  ServerTypes' /\ ServerInv'
<1> DEFINE d == s[1]
           rest == Without(line, d)
           entry == [device |-> d, socket |-> s, call |-> c, old |-> FALSE]
<1>0. LineConsistent /\ OneHolder /\ NoIdleSlot /\ d \in Devices
  BY SocketParts DEF ServerInv, SlotsConsistent
<1>1. /\ rest \in Seq(Entries) /\ Distinct(rest) /\ Owned(rest)
      /\ \A i \in 1 .. Len(rest) : rest[i].device \notin slots \union {d}
  BY <1>0, WithoutLine
<1>2. hazards' = hazards /\ hazards \subseteq Hazards /\ slots \subseteq Devices
  BY DEF Requested, TypeOK, Hazards
<1>3. CASE slots \ {d} = {}
  <2>1. slots' = {d} /\ line' = rest /\ down' = Post(s, Response("granted", c))
    BY <1>3 DEF Requested
  <2>2. down' \in [Sockets -> Seq(Responses)]
    BY <2>1, PostType DEF Response, Responses
  <2> QED
    BY <1>0, <1>1, <1>2, <2>1, <2>2
       DEF ServerTypes, ServerInv, SlotsConsistent, OneHolder, LineConsistent, NoIdleSlot,
           Distinct, Owned
<1>4. CASE slots \ {d} # {}
  <2>1. /\ slots' = slots \ {d} /\ line' = Append(rest, entry)
        /\ down' = Post(s, Response("queued", c))
    BY <1>4 DEF Requested
  <2>2. down' \in [Sockets -> Seq(Responses)]
    BY <2>1, PostType DEF Response, Responses
  <2>3. entry \in Entries
    BY <1>0 DEF Entries
  <2>4. line' \in Seq(Entries) /\ Len(line') = Len(rest) + 1
    BY <1>1, <2>1, <2>3
  <2>5. \A i \in 1 .. Len(line') : line'[i] = IF i <= Len(rest) THEN rest[i] ELSE entry
    BY <1>1, <2>1, <2>3, <2>4
  <2>6. LineConsistent'
    BY <1>1, <2>1, <2>4, <2>5 DEF LineConsistent, Distinct, Owned
  <2> QED
    BY <1>0, <1>2, <1>4, <2>1, <2>2, <2>4, <2>6
       DEF ServerTypes, ServerInv, SlotsConsistent, OneHolder, NoIdleSlot
<1> QED
  BY <1>3, <1>4

-----------------------------------------------------------------------------
(* Types                                                                   *)

LinkTypes ==
  /\ open \subseteq Sockets
  /\ session \in [Devices -> Nat \ {0}]
  /\ \A d \in Devices : Socket(d) \in Sockets
  /\ linked \subseteq Devices
CallTypes ==
  /\ pending \in [Devices -> Calls \union {None}]
  /\ pc \in [Calls -> Stages]
  /\ granted \subseteq Calls
  /\ beating \subseteq Calls
UpTypes == up \in [Sockets -> Seq(Requests)]

LEMMA Types == TypeOK <=> ServerTypes /\ LinkTypes /\ CallTypes /\ UpTypes
  BY DEF TypeOK, ServerTypes, LinkTypes, CallTypes, UpTypes, Hazards

LEMMA TypesNext == (ServerTypes /\ LinkTypes /\ CallTypes /\ UpTypes)' => TypeOK'
  BY DEF TypeOK, ServerTypes, LinkTypes, CallTypes, UpTypes, Hazards

LEMMA InitInv == Init => TypeOK /\ ServerInv
<1> SUFFICES ASSUME Init PROVE TypeOK /\ ServerInv
  OBVIOUS
<1>1. \A d \in Devices : <<d, 1>> \in Sockets
  <2> TAKE d \in Devices
  <2>1. MaxSockets[d] \in Nat \ {0}
    OBVIOUS
  <2>2. 1 \in 1 .. MaxSockets[d]
    BY <2>1
  <2> QED
    BY <2>2, SocketNumber
<1>2. LinkTypes
  BY <1>1 DEF Init, LinkTypes, Socket
<1>3. ServerTypes /\ CallTypes /\ UpTypes
  <2>1. Hello \in Requests
    BY DEF Requests
  <2>2. UpTypes
    BY <2>1 DEF Init, UpTypes
  <2>3. \A s \in Sockets : <<>> \in Seq(Responses)
    OBVIOUS
  <2>4. ServerTypes
    BY <2>3 DEF Init, ServerTypes
  <2> QED
    BY <2>2, <2>4 DEF Init, CallTypes, Stages
<1>4. ServerInv
  BY DEF Init, ServerInv, SlotsConsistent, OneHolder, LineConsistent, NoIdleSlot
<1> QED
  BY <1>2, <1>3, <1>4, Types

\* What the device does leaves the server alone.
LEMMA DeviceStep ==
  ASSUME TypeOK, ServerInv, UNCHANGED <<slots, line>>,
         down' \in [Sockets -> Seq(Responses)], hazards' \subseteq Hazards
  PROVE  ServerTypes' /\ ServerInv'
  BY DEF TypeOK, ServerTypes, ServerInv, SlotsConsistent, OneHolder, LineConsistent,
         NoIdleSlot

LEMMA WhenType ==
  ASSUME NEW hazard \in Hazards, NEW condition
  PROVE  When(condition, hazard) \in SUBSET Hazards
  BY DEF When

Inv == TypeOK /\ ServerInv

LEMMA CallStep ==
  ASSUME Inv, NEW c \in Calls,
         Ask(c) \/ Cancel(c) \/ SyncStarts(c) \/ SyncEnds(c) \/ MarkFails(c)
  PROVE  Inv'
<1> DEFINE d == DeviceOf[c]
<1>0. TypeOK /\ ServerInv /\ d \in Devices
  BY DEF Inv
<1>1. LinkTypes'
  BY <1>0 DEF TypeOK, LinkTypes, Socket, Ask, Cancel, SyncStarts, SyncEnds, MarkFails,
              Ends, serverVars, linkVars
<1>2. CallTypes'
  <2>1. Reject(d, pc) \in [Calls -> Stages] /\ pc \in [Calls -> Stages]
    BY <1>0, RejectType DEF TypeOK
  <2>2. CASE Ask(c)
    BY <1>0, <2>1, <2>2 DEF TypeOK, CallTypes, Ask, Stages
  <2>3. CASE Cancel(c)
    BY <1>0, <2>1, <2>3 DEF TypeOK, CallTypes, Cancel, Stages
  <2>4. CASE SyncStarts(c)
    BY <1>0, <2>1, <2>4 DEF TypeOK, CallTypes, SyncStarts, Stages, When
  <2>5. CASE SyncEnds(c) \/ MarkFails(c)
    BY <1>0, <2>1, <2>5 DEF TypeOK, CallTypes, SyncEnds, MarkFails, Ends, Stages
  <2> QED
    BY <2>2, <2>3, <2>4, <2>5
<1>3. UpTypes'
  <2>1. Request(c) \in Requests /\ Release \in Requests
    BY DEF Requests, Request
  <2>2. Send(d, Request(c)) \/ Send(d, Release) \/ up' = up
    BY DEF Ask, Cancel, SyncStarts, SyncEnds, MarkFails, Ends
  <2> QED
    BY <1>0, <2>1, <2>2, SendType DEF UpTypes, TypeOK
<1>4. UNCHANGED <<slots, line, down>>
  BY DEF Ask, Cancel, SyncStarts, SyncEnds, MarkFails, Ends, serverVars
<1>5. hazards' \subseteq Hazards
  <2>1. hazards \subseteq Hazards
    BY <1>0 DEF TypeOK, Hazards
  <2> QED
    BY <2>1 DEF Ask, Cancel, SyncStarts, SyncEnds, MarkFails, Ends, Meet, When, Hazards
<1>6. ServerTypes' /\ ServerInv'
  BY <1>0, <1>4, <1>5, DeviceStep DEF TypeOK
<1> QED
  BY <1>1, <1>2, <1>3, <1>6, TypesNext DEF Inv

LEMMA LinkStep ==
  ASSUME Inv, NEW d \in Devices,
         \/ Receive(d) \/ Timeout(d) \/ LosesConnection(d) \/ Disconnect(d) \/ Connect(d)
  PROVE  Inv'
<1>0. TypeOK /\ ServerInv
  BY DEF Inv
<1>1. LinkTypes'
  <2>1. CASE Connect(d)
    <3>1. <<d, session[d] + 1>> \in Sockets /\ session[d] + 1 \in Nat \ {0}
      <4>1. session[d] \in Nat \ {0} /\ MaxSockets[d] \in Nat
        BY <1>0 DEF TypeOK
      <4>2. session[d] + 1 \in 1 .. MaxSockets[d]
        BY <2>1, <4>1 DEF Connect, MoreSockets
      <4> QED
        BY <4>1, <4>2, SocketNumber
    <3>2. \A e \in Devices : session'[e] = IF e = d THEN session[d] + 1 ELSE session[e]
      BY <1>0, <2>1 DEF TypeOK, Connect
    <3>3. \A e \in Devices : <<e, session'[e]>> \in Sockets
      BY <1>0, <3>1, <3>2 DEF TypeOK, Socket
    <3> QED
      BY <1>0, <2>1, <3>1, <3>3 DEF TypeOK, LinkTypes, Connect, Socket
  <2>2. CASE Receive(d) \/ Timeout(d) \/ LosesConnection(d) \/ Disconnect(d)
    BY <1>0, <2>2 DEF TypeOK, LinkTypes, Socket, Receive, Timeout, LosesConnection,
                      Disconnect, serverVars, linkVars
  <2> QED
    BY <2>1, <2>2
<1>2. ASSUME Receive(d)
      PROVE  Head(down[Socket(d)]) \in Responses
  BY <1>0, <1>2 DEF TypeOK, Receive
<1>3. CallTypes'
  <2>1. Reject(d, pc) \in [Calls -> Stages] /\ pc \in [Calls -> Stages]
    BY <1>0, RejectType DEF TypeOK
  <2>2. CASE Receive(d)
    <3>1. Head(down[Socket(d)]).call \in Calls
      BY <1>2, <2>2 DEF Responses
    <3>2. CASE TakeGrant(d, Head(down[Socket(d)]).call)
      <4> DEFINE c == Head(down[Socket(d)]).call
                 taker == IF pending[d] # None THEN pending[d] ELSE c
      <4>1. taker \in Calls
        BY <1>0, <3>1 DEF TypeOK
      <4>2. \/ pc' = [pc EXCEPT ![taker] = "admitted"] /\ granted' = granted \union {taker}
            \/ UNCHANGED <<pc, granted>>
        BY <3>2 DEF TakeGrant
      <4>3. pc' \in [Calls -> Stages] /\ granted' \subseteq Calls
        BY <1>0, <2>1, <4>1, <4>2 DEF TypeOK, Stages
      <4>4. pending' \in [Devices -> Calls \union {None}]
        BY <1>0, <3>2 DEF TypeOK, TakeGrant
      <4>5. beating' \subseteq Calls
        BY <1>0, <2>2 DEF TypeOK, Receive
      <4> QED
        BY <4>3, <4>4, <4>5 DEF CallTypes
    <3>3. CASE TakeQueued(d)
      BY <1>0, <2>1, <2>2, <3>3 DEF TypeOK, CallTypes, TakeQueued, Receive, Stages
    <3> QED
      BY <2>2, <3>2, <3>3 DEF Receive
  <2>3. CASE Timeout(d) \/ LosesConnection(d)
    BY <1>0, <2>1, <2>3 DEF TypeOK, CallTypes, Timeout, LosesConnection
  <2>4. CASE Disconnect(d) \/ Connect(d)
    BY <1>0, <2>1, <2>4 DEF TypeOK, CallTypes, Disconnect, Connect, callVars
  <2> QED
    BY <2>2, <2>3, <2>4
<1>4. UpTypes'
  <2>1. Hello \in Requests /\ up \in [Sockets -> Seq(Requests)]
    BY <1>0 DEF Requests, TypeOK
  <2>2. \/ up' = up
        \/ up' = [up EXCEPT ![<<d, session[d] + 1>>] = <<Hello>>]
    BY DEF Receive, Timeout, LosesConnection, Disconnect, Connect
  <2>3. <<Hello>> \in Seq(Requests)
    BY <2>1
  <2>4. [up EXCEPT ![<<d, session[d] + 1>>] = <<Hello>>] \in [Sockets -> Seq(Requests)]
    BY <2>1, <2>3
  <2> QED
    BY <2>1, <2>2, <2>4 DEF UpTypes
<1>5. down' \in [Sockets -> Seq(Responses)]
  <2>1. down \in [Sockets -> Seq(Responses)] /\ Socket(d) \in Sockets
    BY <1>0 DEF TypeOK
  <2>2. CASE Receive(d)
    <3> DEFINE messages == down[Socket(d)]
    <3>1. down' = [down EXCEPT ![Socket(d)] = Tail(messages)] /\ messages # <<>>
      BY <2>2 DEF Receive
    <3>2. messages \in Seq(Responses)
      BY <2>1
    <3>3. Tail(messages) \in Seq(Responses)
      BY <3>1, <3>2
    <3> QED
      BY <2>1, <3>1, <3>3
  <2>3. CASE LosesConnection(d) \/ Disconnect(d)
    <3>1. down' = [down EXCEPT ![Socket(d)] = <<>>]
      BY <2>3 DEF LosesConnection, Disconnect
    <3> QED
      BY <2>1, <3>1
  <2>4. CASE Timeout(d) \/ Connect(d)
    BY <2>1, <2>4 DEF Timeout, Connect
  <2> QED
    BY <2>2, <2>3, <2>4
<1>6. UNCHANGED <<slots, line>>
  BY DEF Receive, Timeout, LosesConnection, Disconnect, Connect, serverVars
<1>7. hazards' \subseteq Hazards
  BY <1>0 DEF TypeOK, Receive, Timeout, LosesConnection, Disconnect, Connect, Meet, When,
              Hazards
<1>8. ServerTypes' /\ ServerInv'
  BY <1>0, <1>5, <1>6, <1>7, DeviceStep
<1> QED
  BY <1>1, <1>3, <1>4, <1>8, TypesNext DEF Inv

LEMMA ServerStep ==
  ASSUME Inv, [Next]_vars,
         ~ \E c \in Calls : \/ Ask(c) \/ Cancel(c) \/ SyncStarts(c) \/ SyncEnds(c)
                            \/ MarkFails(c),
         ~ \E d \in Devices : \/ Receive(d) \/ Timeout(d) \/ LosesConnection(d)
                              \/ Disconnect(d) \/ Connect(d)
  PROVE  Inv'
<1>0. TypeOK /\ ServerInv /\ LineConsistent
  BY DEF Inv, ServerInv, SlotsConsistent
<1>1. ASSUME NEW s \in Sockets, Serve(s) PROVE Inv'
  <2> DEFINE message == Head(up[s])
  <2>1. message \in Requests /\ s[1] \in Devices
    BY <1>0, <1>1, SocketParts DEF TypeOK, Serve
  <2>2. LinkTypes' /\ CallTypes' /\ UpTypes'
    BY <1>0, <1>1 DEF TypeOK, LinkTypes, CallTypes, UpTypes, Serve, linkVars, callVars,
                      Socket
  <2>3. CASE message.type = "hello"
    <3>1. UNCHANGED <<slots, line, down, hazards>>
      BY <1>1, <2>3 DEF Serve
    <3> QED
      BY <1>0, <2>2, <3>1, DeviceStep, TypesNext DEF Inv, TypeOK, Hazards
  <2>4. CASE message.type = "request"
    <3>1. message.call \in Calls
      BY <2>1, <2>4 DEF Requests, Hello, Release
    <3>2. Requested(s, message.call)
      BY <1>1, <2>4 DEF Serve
    <3> QED
      BY <1>0, <2>2, <3>1, <3>2, RequestedStep, TypesNext DEF Inv
  <2>5. CASE message.type = "release"
    <3>1. Leaves(s[1], open, {})
      BY <1>1, <2>5 DEF Serve
    <3> QED
      BY <1>0, <2>1, <2>2, <3>1, LeavesStep, TypesNext DEF Inv
  <2> QED
    BY <2>1, <2>3, <2>4, <2>5 DEF Requests, Hello, Release
<1>2. ASSUME NEW s \in Sockets, SocketGone(s) PROVE Inv'
  <2>1. s[1] \in Devices /\ When(OnLine(s), "drop") \in SUBSET Hazards
    BY SocketParts, WhenType DEF Hazards
  <2>2. LinkTypes' /\ CallTypes' /\ UpTypes'
    BY <1>0, <1>2 DEF TypeOK, LinkTypes, CallTypes, UpTypes, SocketGone, linkVars,
                      callVars, Socket
  <2>3. CASE Leaves(s[1], open \ {s}, When(OnLine(s), "drop"))
    BY <1>0, <2>1, <2>2, <2>3, LeavesStep, TypesNext DEF Inv
  <2>4. CASE Meet(When(OnLine(s), "drop")) /\ UNCHANGED <<slots, line, down>>
    <3>1. hazards' \subseteq Hazards
      BY <1>0, <2>1, <2>4, MeetType
    <3> QED
      BY <1>0, <2>2, <2>4, <3>1, DeviceStep, TypesNext DEF Inv, TypeOK
  <2> QED
    BY <1>2, <2>3, <2>4 DEF SocketGone
<1>3. ASSUME NEW d \in Devices, Expire(d) PROVE Inv'
  <2>1. LinkTypes' /\ CallTypes' /\ UpTypes'
    BY <1>0, <1>3 DEF TypeOK, LinkTypes, CallTypes, UpTypes, Expire, linkVars, callVars,
                      Socket
  <2>2. GrantNext(line, open, When(Counts(d), "expired"))
        /\ When(Counts(d), "expired") \in SUBSET Hazards
    BY <1>3, WhenType DEF Expire, Hazards
  <2>3. line \in Seq(Entries) /\ Distinct(line) /\ Owned(line)
    BY <1>0 DEF TypeOK, LineConsistent, Distinct, Owned
  <2> QED
    BY <1>0, <2>1, <2>2, <2>3, GrantNextStep, TypesNext DEF Inv
<1>4. ASSUME NEW i \in 1 .. Len(line), Age(i) PROVE Inv'
  <2>1. LinkTypes' /\ CallTypes' /\ UpTypes'
    BY <1>0, <1>4 DEF TypeOK, LinkTypes, CallTypes, UpTypes, Age, linkVars, callVars,
                      Socket
  <2>2. line \in Seq(Entries) /\ line' = [line EXCEPT ![i].old = TRUE]
    BY <1>0, <1>4 DEF TypeOK, Age
  <2>3. line' \in Seq(Entries) /\ Len(line') = Len(line)
    <3>1. \A k \in 1 .. Len(line) : line[k] \in Entries
      BY <2>2
    <3>2. [line[i] EXCEPT !.old = TRUE] \in Entries
      BY <3>1 DEF Entries
    <3> QED
      BY <2>2, <3>1, <3>2
  <2>4. \A k \in 1 .. Len(line) : /\ line'[k].device = line[k].device
                                  /\ line'[k].socket = line[k].socket
    BY <2>2 DEF Entries
  <2>5. UNCHANGED <<slots, down, hazards>>
    BY <1>4 DEF Age
  <2>6. ServerTypes'
    BY <1>0, <2>3, <2>5 DEF TypeOK, ServerTypes, Hazards
  <2>7. ServerInv'
    BY <1>0, <2>2, <2>3, <2>4, <2>5
       DEF ServerInv, SlotsConsistent, OneHolder, LineConsistent, NoIdleSlot
  <2> QED
    BY <2>1, <2>6, <2>7, TypesNext DEF Inv
<1>5. CASE ServerRestarts
  <2>1. LinkTypes' /\ CallTypes' /\ UpTypes'
    BY <1>0, <1>5 DEF TypeOK, LinkTypes, CallTypes, UpTypes, ServerRestarts, linkVars,
                      callVars, Socket
  <2>2. ServerTypes' /\ ServerInv'
    BY <1>0, <1>5 DEF TypeOK, ServerRestarts, Meet, ServerTypes, ServerInv, Hazards,
                      SlotsConsistent, OneHolder, LineConsistent, NoIdleSlot
  <2> QED
    BY <2>1, <2>2, TypesNext DEF Inv
<1>6. CASE UNCHANGED vars
  <2>1. LinkTypes' /\ CallTypes' /\ UpTypes'
    BY <1>0, <1>6 DEF TypeOK, LinkTypes, CallTypes, UpTypes, vars, serverVars, linkVars,
                      callVars, Socket
  <2>2. UNCHANGED <<slots, line, down, hazards>>
    BY <1>6 DEF vars, serverVars
  <2> QED
    BY <1>0, <2>1, <2>2, DeviceStep, TypesNext DEF Inv, TypeOK, Hazards
<1> QED
  BY <1>1, <1>2, <1>3, <1>4, <1>5, <1>6 DEF Next

-----------------------------------------------------------------------------
(* Theorems                                                                *)

\* Types and the server's bookkeeping together are inductive.
THEOREM Invariance == Spec => []Inv
<1>1. Init => Inv
  BY InitInv DEF Inv
<1>2. Inv /\ [Next]_vars => Inv'
  BY CallStep, LinkStep, ServerStep
<1> QED
  BY <1>1, <1>2, PTL DEF Spec

\* Type correctness of the protocol.
THEOREM TypeCorrect == Spec => []TypeOK
<1>1. Inv => TypeOK
  BY DEF Inv
<1> QED
  BY <1>1, Invariance, PTL

\* One device at most holds the slot, and no device is in the line twice or
\* beside its slot, for any number of devices and connections, whatever is
\* lost on the way.
THEOREM SlotsCorrect == Spec => []SlotsConsistent
<1>1. Inv => SlotsConsistent
  BY DEF Inv, ServerInv
<1> QED
  BY <1>1, Invariance, PTL

\* No device waits in the line for a slot that is free.
THEOREM NoIdleSlotCorrect == Spec => []NoIdleSlot
<1>1. Inv => NoIdleSlot
  BY DEF Inv, ServerInv
<1> QED
  BY <1>1, Invariance, PTL

-----------------------------------------------------------------------------
(* Until the first hazard a grant is true                                  *)

LEMMA HazardsStay == Inv /\ [Next]_vars => hazards \subseteq hazards'
<1> SUFFICES ASSUME Inv, [Next]_vars PROVE hazards \subseteq hazards'
  OBVIOUS
<1>1. ASSUME NEW c \in Calls,
             Ask(c) \/ Cancel(c) \/ SyncStarts(c) \/ SyncEnds(c) \/ MarkFails(c)
      PROVE  hazards \subseteq hazards'
  BY <1>1 DEF Ask, Cancel, SyncStarts, SyncEnds, MarkFails, Meet
<1>2. ASSUME NEW d \in Devices,
             \/ Receive(d) \/ Timeout(d) \/ Expire(d)
             \/ LosesConnection(d) \/ Disconnect(d) \/ Connect(d)
      PROVE  hazards \subseteq hazards'
  BY <1>2 DEF Receive, Timeout, Expire, GrantNext, LosesConnection, Disconnect, Connect,
              Meet
<1>3. ASSUME NEW s \in Sockets, Serve(s) \/ SocketGone(s)
      PROVE  hazards \subseteq hazards'
  <2>1. CASE SocketGone(s)
    BY <2>1 DEF SocketGone, Leaves, GrantNext, Meet
  <2>2. CASE Serve(s)
    <3>1. Head(up[s]).type \in {"hello", "request", "release"}
      BY <2>2 DEF Inv, TypeOK, Serve, Requests, Hello, Release
    <3> QED
      BY <2>2, <3>1 DEF Serve, Requested, Leaves, GrantNext, Meet
  <2> QED
    BY <1>3, <2>1, <2>2
<1>4. ASSUME NEW i \in 1 .. Len(line), Age(i) PROVE hazards \subseteq hazards'
  BY <1>4 DEF Age
<1>5. CASE ServerRestarts
  BY <1>5 DEF ServerRestarts, Meet
<1>6. CASE UNCHANGED vars
  BY <1>6 DEF vars
<1> QED
  BY <1>1, <1>2, <1>3, <1>4, <1>5, <1>6 DEF Next

\* Every device has its first socket, and no other is open.
LEMMA LinkFacts ==
  ASSUME TypeOK, Links
  PROVE  /\ \A d \in Devices : /\ Socket(d) = FirstSocket(d) /\ d \in linked
                               /\ FirstSocket(d) \in Sockets /\ FirstSocket(d) \in open
         /\ \A s \in Sockets : OnLine(s) <=> s \in open
         /\ \A s \in open : s \in Sockets /\ s = FirstSocket(s[1]) /\ s[1] \in Devices
<1>1. \A d \in Devices : /\ Socket(d) = FirstSocket(d) /\ d \in linked
                         /\ FirstSocket(d) \in Sockets /\ FirstSocket(d) \in open
  BY DEF TypeOK, Links, Socket, FirstSocket
<1>2. \A s \in open : s = FirstSocket(s[1]) /\ s[1] \in Devices /\ s \in Sockets
  BY DEF TypeOK, Links, FirstSocket
<1>3. \A s \in Sockets : OnLine(s) <=> s \in open
  BY <1>1, <1>2, SocketParts DEF OnLine
<1> QED
  BY <1>1, <1>2, <1>3

\* What was sent to a socket.
LEMMA SentMessage ==
  ASSUME TypeOK, Links, NEW d \in Devices, NEW m \in Requests, Send(d, m)
  PROVE  /\ \A s \in Sockets \ {FirstSocket(d)} : up'[s] = up[s]
         /\ Len(up'[FirstSocket(d)]) = Len(up[FirstSocket(d)]) + 1
         /\ Len(up[FirstSocket(d)]) \in Nat
         /\ \A i \in 1 .. Len(up[FirstSocket(d)]) :
              up'[FirstSocket(d)][i] = up[FirstSocket(d)][i]
         /\ up'[FirstSocket(d)][Len(up[FirstSocket(d)]) + 1] = m
<1>1. FirstSocket(d) \in Sockets /\ up' = [up EXCEPT ![FirstSocket(d)] = Append(@, m)]
  BY LinkFacts DEF Send
<1>2. up[FirstSocket(d)] \in Seq(Requests) /\ up \in [Sockets -> Seq(Requests)]
  BY <1>1 DEF TypeOK
<1> QED
  BY <1>1, <1>2

LEMMA SentLinks ==
  ASSUME TypeOK, Links, NEW d \in Devices, NEW m \in Requests, Send(d, m),
         UNCHANGED <<linked, open, session, down>>
  PROVE  Links'
<1>1. \A s \in Sockets \ open : up'[s] = up[s]
  BY SentMessage, LinkFacts
<1> QED
  BY <1>1 DEF Links

\* A release is sent when nobody else of the device is busy.
LEMMA SentRelease ==
  ASSUME TypeOK, Links, UpOrigin, ReleasesFirst, NEW d \in Devices, Send(d, Release),
         \A c \in Calls : /\ pc[c] # "idle" => pc'[c] # "idle"
                          /\ pc'[c] \in Busy => pc[c] \in Busy /\ DeviceOf[c] # d
  PROVE  /\ UpOrigin' /\ ReleasesFirst'
         /\ \A c \in Calls : Asked(c)' => Asked(c)
<1> DEFINE S == FirstSocket(d)
<1>0. Release \in Requests /\ S \in Sockets
  BY LinkFacts DEF Requests
<1>1. /\ \A s \in Sockets \ {S} : up'[s] = up[s]
      /\ Len(up'[S]) = Len(up[S]) + 1 /\ Len(up[S]) \in Nat
      /\ \A i \in 1 .. Len(up[S]) : up'[S][i] = up[S][i]
      /\ up'[S][Len(up[S]) + 1] = Release
  BY <1>0, SentMessage
<1> HIDE DEF S
<1>2. \A s \in Sockets, c \in Calls : \A i \in 1 .. Len(up'[s]) :
        up'[s][i] = Request(c) => i \in 1 .. Len(up[s]) /\ up[s][i] = Request(c)
  <2>1. \A c \in Calls : Request(c) # Release
    BY DEF Request, Release
  <2> QED
    BY <1>0, <1>1, <2>1
<1>6. UpOrigin'
  BY <1>2 DEF UpOrigin
<1>7. \A c \in Calls : FirstSocket(DeviceOf[c]) \in Sockets
  BY LinkFacts
<1>8. \A c \in Calls : Asked(c)' => Asked(c)
  BY <1>2, <1>7 DEF Asked
<1>9. ReleasesFirst'
  <2> SUFFICES ASSUME NEW c \in Calls, pc'[c] \in Busy,
                      NEW i \in 1 .. Len(up'[FirstSocket(DeviceOf[c])]),
                      up'[FirstSocket(DeviceOf[c])][i] = Release
               PROVE  \E k \in i + 1 .. Len(up'[FirstSocket(DeviceOf[c])]) :
                        up'[FirstSocket(DeviceOf[c])][k] = Request(c)
    BY DEF ReleasesFirst
  <2>1. FirstSocket(DeviceOf[c]) \in Sockets \ {S} /\ pc[c] \in Busy
    BY <1>7 DEF S, FirstSocket
  <2> QED
    BY <1>1, <2>1 DEF ReleasesFirst
<1> QED
  BY <1>6, <1>8, <1>9

\* A request is sent by a call that was idle.
LEMMA SentRequest ==
  ASSUME TypeOK, Links, UpOrigin, ReleasesFirst, NEW c \in Calls,
         Send(DeviceOf[c], Request(c)), pc[c] = "idle", pc'[c] # "idle",
         \A o \in Calls \ {c} : /\ pc[o] # "idle" => pc'[o] # "idle"
                                /\ pc'[o] \in Busy => pc[o] \in Busy
  PROVE  /\ UpOrigin' /\ ReleasesFirst'
         /\ \A o \in Calls : pc[o] # "idle" => (Asked(o)' => Asked(o))
<1> DEFINE S == FirstSocket(DeviceOf[c])
<1>0. Request(c) \in Requests /\ S \in Sockets /\ Request(c).type = "request"
      /\ Request(c).call = c /\ S[1] = DeviceOf[c]
  BY LinkFacts DEF Requests, Request, FirstSocket
<1>1. /\ \A s \in Sockets \ {S} : up'[s] = up[s]
      /\ Len(up'[S]) = Len(up[S]) + 1 /\ Len(up[S]) \in Nat
      /\ \A i \in 1 .. Len(up[S]) : up'[S][i] = up[S][i]
      /\ up'[S][Len(up[S]) + 1] = Request(c)
  BY <1>0, SentMessage
<1> HIDE DEF S
<1>2. \A s \in Sockets : \A i \in 1 .. Len(up'[s]) :
        \/ i \in 1 .. Len(up[s]) /\ up'[s][i] = up[s][i]
        \/ s = S /\ i = Len(up[S]) + 1 /\ up'[s][i] = Request(c)
  BY <1>0, <1>1
<1>3. \A s \in Sockets : \A i \in 1 .. Len(up[s]) :
        i \in 1 .. Len(up'[s]) /\ up'[s][i] = up[s][i]
  BY <1>0, <1>1
<1>6. \A s \in Sockets : \A i \in 1 .. Len(up[s]) : up[s][i] # Request(c)
  BY DEF UpOrigin
<1>7. UpOrigin'
  <2> SUFFICES ASSUME NEW s \in Sockets, NEW o \in Calls, NEW i \in 1 .. Len(up'[s]),
                      up'[s][i] = Request(o)
               PROVE  /\ s[1] = DeviceOf[o] /\ pc'[o] # "idle"
                      /\ \A k \in 1 .. Len(up'[s]) : up'[s][k] = Request(o) => k = i
    BY DEF UpOrigin
  <2>1. CASE o = c
    BY <1>0, <1>2, <1>6, <2>1
  <2>2. CASE o # c
    <3>1. Request(o) # Request(c)
      BY <2>2 DEF Request
    <3> QED
      BY <1>2, <2>2, <3>1 DEF UpOrigin
  <2> QED
    BY <2>1, <2>2
<1>8. \A o \in Calls : FirstSocket(DeviceOf[o]) \in Sockets /\ Request(o).call = o
  BY LinkFacts DEF Request
<1>9. \A o \in Calls : pc[o] # "idle" => (Asked(o)' => Asked(o))
  BY <1>0, <1>2, <1>8 DEF Asked
<1>10. ReleasesFirst'
  <2> SUFFICES ASSUME NEW o \in Calls, pc'[o] \in Busy,
                      NEW i \in 1 .. Len(up'[FirstSocket(DeviceOf[o])]),
                      up'[FirstSocket(DeviceOf[o])][i] = Release
               PROVE  \E k \in i + 1 .. Len(up'[FirstSocket(DeviceOf[o])]) :
                        up'[FirstSocket(DeviceOf[o])][k] = Request(o)
    BY DEF ReleasesFirst
  <2> DEFINE T == FirstSocket(DeviceOf[o])
  <2>0. T \in Sockets /\ Release # Request(c)
    BY <1>8 DEF Release, Request
  <2>1. i \in 1 .. Len(up[T]) /\ up[T][i] = Release
    BY <1>2, <2>0
  <2>2. CASE o = c
    <3>1. T = S
      BY <2>2 DEF S
    <3> QED
      BY <1>1, <2>1, <2>2, <3>1
  <2>3. CASE o # c
    <3>1. pc[o] \in Busy
      BY <2>3
    <3>2. PICK k \in i + 1 .. Len(up[T]) : up[T][k] = Request(o)
      BY <2>1, <3>1 DEF ReleasesFirst
    <3>3. k \in 1 .. Len(up[T])
      BY <2>1
    <3>4. k \in i + 1 .. Len(up'[T]) /\ up'[T][k] = Request(o)
      BY <1>1, <1>3, <2>0, <3>2, <3>3
    <3> QED
      BY <3>4
  <2> QED
    BY <2>2, <2>3
<1> QED
  BY <1>7, <1>9, <1>10

\* A call goes on, and a message is taken: nothing becomes true that was not.
LEMMA CallsMove ==
  ASSUME Inv, Origin, Promised, UNCHANGED <<slots, line>>,
         \A c \in Calls : /\ pc[c] # "idle" => pc'[c] # "idle"
                          /\ pc[c] \in Running => pc'[c] \in Running \union {"done"}
                          /\ pc[c] = "done" => pc'[c] = "done"
                          /\ pc[c] # "idle" => (Asked(c)' => Asked(c)),
         \A c \in granted' \ granted : c \in Calls /\ pc'[c] \in Running /\ Answered(c),
         \A s \in Sockets : \A i \in 1 .. Len(down'[s]) :
           \E k \in 1 .. Len(down[s]) : down[s][k] = down'[s][i],
         pc' \in [Calls -> Stages]
  PROVE  LineOrigin' /\ DownOrigin' /\ GrantOrigin' /\ Promised'
<1>0. TypeOK /\ UpOrigin /\ LineOrigin /\ DownOrigin /\ GrantOrigin
  BY DEF Inv, Origin
<1>1. LineOrigin'
  BY <1>0 DEF LineOrigin
<1>2. DownOrigin'
  <2> SUFFICES ASSUME NEW s \in Sockets, NEW c \in Calls, NEW i \in 1 .. Len(down'[s]),
                      down'[s][i] = Response("granted", c)
               PROVE  s[1] = DeviceOf[c] /\ pc'[c] # "idle" /\ ~Asked(c)'
    BY DEF DownOrigin
  <2>1. PICK k \in 1 .. Len(down[s]) : down[s][k] = down'[s][i]
    OBVIOUS
  <2> QED
    BY <1>0, <2>1 DEF DownOrigin
<1>5. \A c \in Calls : FirstSocket(DeviceOf[c]) \in Sockets
  <2> TAKE c \in Calls
  <2>1. 1 \in 1 .. MaxSockets[DeviceOf[c]]
    OBVIOUS
  <2> QED
    BY <2>1, SocketNumber DEF FirstSocket
<1>6. \A c \in Calls : Answered(c) => pc[c] # "idle" /\ ~Asked(c)
  BY <1>0, <1>5 DEF Answered, DownOrigin
<1>7. \A c \in Calls : Answered(c)' => Answered(c)
  <2> SUFFICES ASSUME NEW c \in Calls, Answered(c)' PROVE Answered(c)
    OBVIOUS
  <2>1. PICK i \in 1 .. Len(down'[FirstSocket(DeviceOf[c])]) :
          down'[FirstSocket(DeviceOf[c])][i] = Response("granted", c)
    BY DEF Answered
  <2>2. PICK k \in 1 .. Len(down[FirstSocket(DeviceOf[c])]) :
          down[FirstSocket(DeviceOf[c])][k] = down'[FirstSocket(DeviceOf[c])][i]
    BY <1>5
  <2> QED
    BY <2>1, <2>2 DEF Answered
<1>8. granted \subseteq Calls /\ pc \in [Calls -> Stages]
  BY <1>0 DEF TypeOK
<1>9. GrantOrigin'
  <2> SUFFICES ASSUME NEW c \in granted'
               PROVE  pc'[c] \in Running \union {"done"} /\ ~Asked(c)'
    BY DEF GrantOrigin
  <2>1. CASE c \in granted
    <3>1. c \in Calls /\ pc[c] \in Running \union {"done"} /\ ~Asked(c)
      BY <1>0, <1>8, <2>1 DEF GrantOrigin
    <3>2. pc[c] # "idle"
      BY <3>1 DEF Running
    <3> QED
      BY <3>1, <3>2
  <2>2. CASE c \notin granted
    BY <1>6, <2>2
  <2> QED
    BY <2>1, <2>2
<1>10. Promised'
  <2> SUFFICES ASSUME NEW c \in Calls, Told(c)' PROVE DeviceOf[c] \in slots'
    BY DEF Promised
  <2>1. pc'[c] \in Busy
    BY DEF Told
  <2>2. CASE Answered(c)
    <3>1. pc[c] # "idle" /\ pc[c] # "done"
      BY <1>6, <2>1, <2>2 DEF Busy, Running
    <3>2. pc[c] \in Busy
      BY <1>8, <3>1 DEF Stages, Busy, Running
    <3> QED
      BY <2>2, <3>2 DEF Told, Promised
  <2>3. CASE ~Answered(c)
    <3>1. c \in granted /\ pc'[c] \in Running
      BY <1>7, <2>3 DEF Told
    <3>2. pc[c] \in Running
      <4>1. pc[c] \in Running \union {"done"}
        BY <1>0, <3>1 DEF GrantOrigin
      <4>2. pc[c] # "done"
        BY <3>1 DEF Running
      <4> QED
        BY <4>1, <4>2
    <3>3. Told(c)
      BY <3>1, <3>2 DEF Told, Busy
    <3> QED
      BY <3>3 DEF Promised
  <2> QED
    BY <2>2, <2>3
<1> QED
  BY <1>1, <1>2, <1>9, <1>10

\* A step that sends nothing to the server.
LEMMA UpKept ==
  ASSUME TypeOK, UpOrigin, ReleasesFirst, up' = up,
         \A c \in Calls : /\ pc[c] # "idle" => pc'[c] # "idle"
                          /\ pc'[c] \in Busy => pc[c] \in Busy
  PROVE  /\ UpOrigin' /\ ReleasesFirst'
         /\ \A c \in Calls : Asked(c)' => Asked(c)
<1>1. UpOrigin'
  BY DEF UpOrigin
<1> QED
  BY <1>1 DEF ReleasesFirst, Asked


LEMMA AskHeld ==
  ASSUME Inv, Inv', Held, NEW c \in Calls, Ask(c)
  PROVE  Held'
<1> DEFINE d == DeviceOf[c]
<1>0. /\ TypeOK /\ Links /\ Origin /\ PendingAsks /\ ReleasesFirst /\ Promised
      /\ UpOrigin /\ DownOrigin /\ d \in Devices /\ Request(c) \in Requests
      /\ pc \in [Calls -> Stages] /\ pc' \in [Calls -> Stages]
  BY DEF Inv, TypeOK, Held, Origin, Requests, Request
<1>1. /\ pc[c] = "idle" /\ Send(d, Request(c))
      /\ pc' = [Reject(d, pc) EXCEPT ![c] = "asking"]
      /\ pending' = [pending EXCEPT ![d] = c]
      /\ UNCHANGED <<slots, line, open, session, linked, granted, down>>
  BY <1>0, LinkFacts DEF Ask, serverVars, linkVars
<1>2. pending[d] # None => pending[d] \in Calls /\ pc[pending[d]] = "asking"
                           /\ DeviceOf[pending[d]] = d
  BY <1>0 DEF PendingAsks, TypeOK
<1>3. /\ pc'[c] = "asking"
      /\ \A o \in Calls \ {c} :
           pc'[o] = pc[o] \/ (pc[o] = "asking" /\ pc'[o] = "admitted" /\ DeviceOf[o] = d)
  BY <1>0, <1>1, <1>2 DEF Reject
<1>4. /\ UpOrigin' /\ ReleasesFirst'
      /\ \A o \in Calls : pc[o] # "idle" => (Asked(o)' => Asked(o))
  <2>1. \A o \in Calls \ {c} : /\ pc[o] # "idle" => pc'[o] # "idle"
                               /\ pc'[o] \in Busy => pc[o] \in Busy
    BY <1>3 DEF Busy, Running
  <2> QED
    BY <1>0, <1>1, <1>3, <2>1, SentRequest
<1>5. LineOrigin' /\ DownOrigin' /\ GrantOrigin' /\ Promised'
  <2>1. \A o \in Calls : /\ pc[o] # "idle" => pc'[o] # "idle"
                         /\ pc[o] \in Running => pc'[o] \in Running \union {"done"}
                         /\ pc[o] = "done" => pc'[o] = "done"
    BY <1>1, <1>3 DEF Running
  <2>2. granted' \ granted = {} /\ down' = down
    BY <1>1
  <2> QED
    BY <1>0, <1>1, <1>4, <2>1, <2>2, CallsMove
<1>6. Links'
  BY <1>0, <1>1, SentLinks
<1>7. PendingAsks'
  <2> SUFFICES ASSUME NEW e \in Devices, pending'[e] # None
               PROVE  DeviceOf[pending'[e]] = e /\ pc'[pending'[e]] = "asking"
    BY DEF PendingAsks
  <2>1. CASE e = d
    BY <1>0, <1>1, <1>3, <2>1 DEF TypeOK
  <2>2. CASE e # d
    <3>1. pending'[e] = pending[e] /\ pending[e] \in Calls
      BY <1>0, <1>1, <2>2 DEF TypeOK
    <3>2. DeviceOf[pending[e]] = e /\ pc[pending[e]] = "asking"
      BY <1>0, <3>1 DEF PendingAsks
    <3> QED
      BY <1>1, <1>3, <2>2, <3>1, <3>2
  <2> QED
    BY <2>1, <2>2
<1> QED
  BY <1>4, <1>5, <1>6, <1>7 DEF Held, Origin

\* A call that ends gives the slot back, and no other call of its device is busy.
LEMMA EndHeld ==
  ASSUME Inv, Inv', Held, NEW c \in Calls, pc[c] \in {"waiting"} \union Running,
         pc' = [pc EXCEPT ![c] = "done"], pending' = pending,
         UNCHANGED <<slots, line, open, session, linked, granted, down>>,
         \/ up' = up
         \/ Send(DeviceOf[c], Release) /\ ~Sibling(c, Busy)
  PROVE  Held'
<1> DEFINE d == DeviceOf[c]
<1>0. /\ TypeOK /\ Links /\ Origin /\ PendingAsks /\ ReleasesFirst /\ Promised
      /\ UpOrigin /\ d \in Devices /\ Release \in Requests
      /\ pc \in [Calls -> Stages] /\ pc' \in [Calls -> Stages]
  BY DEF Inv, TypeOK, Held, Origin, Requests
<1>1. pc'[c] = "done" /\ \A o \in Calls \ {c} : pc'[o] = pc[o]
  BY <1>0
<1>2. \A o \in Calls : /\ pc[o] # "idle" => pc'[o] # "idle"
                       /\ pc[o] \in Running => pc'[o] \in Running \union {"done"}
                       /\ pc[o] = "done" => pc'[o] = "done"
                       /\ pc'[o] \in Busy => pc[o] \in Busy /\ o # c
  BY <1>1 DEF Busy, Running
<1>3. UpOrigin' /\ ReleasesFirst' /\ \A o \in Calls : Asked(o)' => Asked(o)
  <2>1. CASE up' = up
    BY <1>0, <1>2, <2>1, UpKept
  <2>2. CASE Send(d, Release) /\ ~Sibling(c, Busy)
    <3>1. \A o \in Calls : pc'[o] \in Busy => pc[o] \in Busy /\ DeviceOf[o] # d
      BY <1>2, <2>2 DEF Sibling
    <3> QED
      BY <1>0, <1>2, <2>2, <3>1, SentRelease
  <2> QED
    BY <2>1, <2>2
<1>4. LineOrigin' /\ DownOrigin' /\ GrantOrigin' /\ Promised'
  <2>1. granted' \ granted = {} /\ down' = down
    OBVIOUS
  <2> QED
    BY <1>0, <1>2, <1>3, <2>1, CallsMove
<1>5. Links'
  BY <1>0, SentLinks DEF Links
<1>6. PendingAsks'
  <2> SUFFICES ASSUME NEW e \in Devices, pending[e] # None
               PROVE  DeviceOf[pending[e]] = e /\ pc'[pending[e]] = "asking"
    BY DEF PendingAsks
  <2>1. pending[e] \in Calls /\ DeviceOf[pending[e]] = e /\ pc[pending[e]] = "asking"
    BY <1>0 DEF PendingAsks, TypeOK
  <2> QED
    BY <1>1, <2>1 DEF Running
<1> QED
  BY <1>3, <1>4, <1>5, <1>6 DEF Held, Origin

LEMMA CallHeld ==
  ASSUME Inv, Inv', Held, Fine', NEW c \in Calls,
         Ask(c) \/ Cancel(c) \/ SyncStarts(c) \/ SyncEnds(c) \/ MarkFails(c)
  PROVE  Held'
<1> DEFINE d == DeviceOf[c]
<1>0. /\ TypeOK /\ Links /\ Origin /\ PendingAsks /\ ReleasesFirst /\ Promised
      /\ UpOrigin /\ d \in Devices
      /\ pc \in [Calls -> Stages] /\ pc' \in [Calls -> Stages]
  BY DEF Inv, TypeOK, Held, Origin
<1>1. "shared" \notin hazards'
  BY DEF Fine, Protected
<1>2. CASE Cancel(c)
  <2>1. pc[c] = "waiting" /\ ~Sibling(c, Busy)
    BY <1>1, <1>2 DEF Cancel, Meet, When
  <2>2. pending[d] = None
    <3> SUFFICES ASSUME pending[d] # None PROVE FALSE
      OBVIOUS
    <3>1. pending[d] \in Calls /\ DeviceOf[pending[d]] = d /\ pc[pending[d]] = "asking"
      BY <1>0 DEF PendingAsks, TypeOK
    <3> QED
      BY <2>1, <3>1 DEF Sibling, Busy
  <2>3. pc' = [pc EXCEPT ![c] = "done"] /\ Send(d, Release)
        /\ UNCHANGED <<slots, line, open, session, linked, granted, down>>
    BY <1>2, <2>2 DEF Cancel, Reject, serverVars, linkVars
  <2>4. pending' = pending
    BY <1>0, <1>2, <2>2 DEF Cancel, TypeOK
  <2> QED
    BY <2>1, <2>3, <2>4, EndHeld
<1>3. CASE SyncEnds(c) \/ MarkFails(c)
  <2>1. pc[c] \in Running /\ pc' = [pc EXCEPT ![c] = "done"] /\ pending' = pending
        /\ UNCHANGED <<slots, line, open, session, linked, granted, down>>
    BY <1>3 DEF SyncEnds, MarkFails, Ends, serverVars, linkVars, Running
  <2>2. up' = up \/ (Send(d, Release) /\ ~Sibling(c, Busy))
    BY <1>1, <1>3 DEF SyncEnds, MarkFails, Ends, Meet, When
  <2> QED
    BY <2>1, <2>2, EndHeld
<1>4. CASE SyncStarts(c)
  <2>1. /\ pc[c] = "admitted" /\ pc' = [pc EXCEPT ![c] = "syncing"]
        /\ UNCHANGED <<slots, line, open, session, linked, granted, down, up, pending>>
    BY <1>4 DEF SyncStarts, serverVars, linkVars
  <2>2. \A o \in Calls : /\ pc[o] # "idle" => pc'[o] # "idle"
                         /\ pc[o] \in Running => pc'[o] \in Running \union {"done"}
                         /\ pc[o] = "done" => pc'[o] = "done"
                         /\ pc[o] = "asking" => pc'[o] = "asking"
                         /\ pc'[o] \in Busy => pc[o] \in Busy
    BY <1>0, <2>1 DEF Busy, Running
  <2>3. UpOrigin' /\ ReleasesFirst' /\ \A o \in Calls : Asked(o)' => Asked(o)
    BY <1>0, <2>1, <2>2, UpKept
  <2>4. LineOrigin' /\ DownOrigin' /\ GrantOrigin' /\ Promised'
    <3>1. granted' \ granted = {} /\ down' = down
      BY <2>1
    <3> QED
      BY <1>0, <2>1, <2>2, <2>3, <3>1, CallsMove
  <2>5. Links'
    BY <1>0, <2>1 DEF Links
  <2>6. PendingAsks'
    <3>1. \A e \in Devices : pending[e] # None => pending[e] \in Calls
      BY <1>0 DEF TypeOK
    <3> QED
      BY <1>0, <2>1, <2>2, <3>1 DEF PendingAsks
  <2> QED
    BY <2>3, <2>4, <2>5, <2>6 DEF Held, Origin
<1> QED
  BY <1>2, <1>3, <1>4, AskHeld

\* A device takes an answer, or gives up waiting for it.
LEMMA AnswerHeld ==
  ASSUME Inv, Inv', Held, NEW d \in Devices, NEW t \in Calls \union {None},
         UNCHANGED <<slots, line, open, session, linked, up>>,
         pending' = [pending EXCEPT ![d] = None] \/ (pending' = pending /\ t = None),
         t # None => DeviceOf[t] = d /\ pc[t] \in {"asking", "waiting"}
                     /\ pc'[t] \in {"waiting", "admitted"},
         \A c \in Calls \ {t} : pc'[c] = pc[c],
         \A c \in granted' \ granted : c = t /\ t # None /\ pc'[t] = "admitted"
                                       /\ Answered(t),
         \A s \in Sockets : \A i \in 1 .. Len(down'[s]) :
           \E k \in 1 .. Len(down[s]) : down[s][k] = down'[s][i],
         \A s \in Sockets \ open : down'[s] = down[s]
  PROVE  Held'
<1>0. /\ TypeOK /\ Links /\ Origin /\ PendingAsks /\ ReleasesFirst /\ Promised
      /\ UpOrigin /\ pc' \in [Calls -> Stages]
  BY DEF Inv, TypeOK, Held, Origin
<1>1. \A c \in Calls : /\ pc[c] # "idle" => pc'[c] # "idle"
                       /\ pc[c] \in Running => pc'[c] \in Running \union {"done"}
                       /\ pc[c] = "done" => pc'[c] = "done"
                       /\ pc'[c] \in Busy => pc[c] \in Busy
  BY DEF Busy, Running
<1>2. UpOrigin' /\ ReleasesFirst' /\ \A c \in Calls : Asked(c)' => Asked(c)
  BY <1>0, <1>1, UpKept
<1>3. LineOrigin' /\ DownOrigin' /\ GrantOrigin' /\ Promised'
  <2>1. \A c \in granted' \ granted : c \in Calls /\ pc'[c] \in Running /\ Answered(c)
    BY DEF Running
  <2> QED
    BY <1>0, <1>1, <1>2, <2>1, CallsMove
<1>4. Links'
  BY <1>0 DEF Links
<1>5. PendingAsks'
  <2> SUFFICES ASSUME NEW e \in Devices, pending'[e] # None
               PROVE  DeviceOf[pending'[e]] = e /\ pc'[pending'[e]] = "asking"
    BY DEF PendingAsks
  <2>1. pending'[e] = pending[e] /\ pending[e] \in Calls /\ (e # d \/ t = None)
    BY <1>0 DEF TypeOK
  <2>2. DeviceOf[pending[e]] = e /\ pc[pending[e]] = "asking"
    BY <1>0, <2>1 DEF PendingAsks
  <2>3. pending[e] # t
    BY <2>1, <2>2
  <2> QED
    BY <2>1, <2>2, <2>3
<1> QED
  BY <1>2, <1>3, <1>4, <1>5 DEF Held, Origin

LEMMA LinkHeld ==
  ASSUME Inv, Inv', Held, Fine', NEW d \in Devices,
         \/ Receive(d) \/ Timeout(d) \/ LosesConnection(d) \/ Disconnect(d) \/ Connect(d)
  PROVE  Held'
<1>0. /\ TypeOK /\ Links /\ PendingAsks /\ DownOrigin
      /\ pc \in [Calls -> Stages] /\ pending \in [Devices -> Calls \union {None}]
  BY DEF Inv, TypeOK, Held, Origin
<1>1. "drop" \notin hazards' /\ "mistaken" \notin hazards'
  BY DEF Fine, Protected
<1>2. ~LosesConnection(d) /\ ~Disconnect(d)
  BY <1>1 DEF LosesConnection, Disconnect, Meet
<1>3. ~Connect(d)
  BY <1>0, LinkFacts DEF Connect
<1>4. pending[d] # None => pending[d] \in Calls /\ DeviceOf[pending[d]] = d
                           /\ pc[pending[d]] = "asking"
  BY <1>0 DEF PendingAsks
<1>5. CASE Timeout(d)
  <2>1. /\ pending[d] # None /\ pc' = [pc EXCEPT ![pending[d]] = "admitted"]
        /\ pending' = [pending EXCEPT ![d] = None]
        /\ UNCHANGED <<slots, line, open, session, linked, up, granted, down>>
    BY <1>5 DEF Timeout, Reject, serverVars, linkVars
  <2>2. granted' \ granted = {}
    BY <2>1
  <2> QED
    BY <1>0, <1>4, <2>1, <2>2, AnswerHeld
<1>6. CASE Receive(d)
  <2> DEFINE S == FirstSocket(d)
             message == Head(down[S])
             c == message.call
  <2>1. /\ S \in Sockets /\ S \in open /\ down[S] # <<>>
        /\ down' = [down EXCEPT ![S] = Tail(down[S])]
        /\ IF message.type = "granted" THEN TakeGrant(d, c) ELSE TakeQueued(d)
        /\ pending[d] \in {None, c}
        /\ UNCHANGED <<slots, line, open, session, linked, up>>
    BY <1>0, <1>1, <1>6, LinkFacts DEF Receive, Meet, When, serverVars, linkVars
  <2>2. down \in [Sockets -> Seq(Responses)] /\ down[S] \in Seq(Responses)
    BY <1>0, <2>1 DEF TypeOK
  <2>3. /\ message = down[S][1] /\ 1 \in 1 .. Len(down[S]) /\ message \in Responses
        /\ Len(down'[S]) = Len(down[S]) - 1
        /\ \A i \in 1 .. Len(down'[S]) : down'[S][i] = down[S][i + 1]
                                         /\ i + 1 \in 1 .. Len(down[S])
        /\ \A s \in Sockets \ {S} : down'[s] = down[s]
    BY <2>1, <2>2
  <2>4. \A s \in Sockets : \A i \in 1 .. Len(down'[s]) :
          \E k \in 1 .. Len(down[s]) : down[s][k] = down'[s][i]
    <3> TAKE s \in Sockets
    <3>1. CASE s = S
      BY <2>3, <3>1
    <3>2. CASE s # S
      BY <2>3, <3>2
    <3> QED
      BY <3>1, <3>2
  <2>5. \A s \in Sockets \ open : down'[s] = down[s]
    BY <2>1, <2>3
  <2>6. CASE message.type = "granted"
    <3>1. c \in Calls /\ message = Response("granted", c)
      BY <2>3, <2>6 DEF Responses, Response
    <3>2. DeviceOf[c] = d
      <4>1. S[1] = DeviceOf[c]
        BY <1>0, <2>1, <2>3, <3>1 DEF DownOrigin
      <4> QED
        BY <4>1 DEF FirstSocket
    <3>3. Answered(c)
      BY <2>3, <3>1, <3>2 DEF Answered
    <3>4. pending' = [pending EXCEPT ![d] = None]
      BY <2>1, <2>6 DEF TakeGrant
    <3>5. CASE pending[d] # None \/ pc[c] = "waiting"
      <4>1. pc' = [pc EXCEPT ![c] = "admitted"] /\ granted' = granted \union {c}
        BY <2>1, <2>6, <3>5 DEF TakeGrant
      <4>2. pc[c] \in {"asking", "waiting"} /\ c # None
        BY <1>4, <2>1, <3>1, <3>5
      <4>3. pc'[c] = "admitted" /\ \A o \in Calls \ {c} : pc'[o] = pc[o]
        BY <1>0, <3>1, <4>1
      <4>4. \A o \in granted' \ granted : o = c
        BY <4>1
      <4> HIDE DEF c, message
      <4> QED
        BY <2>1, <2>4, <2>5, <3>1, <3>2, <3>3, <3>4, <4>2, <4>3, <4>4, AnswerHeld
    <3>6. CASE ~(pending[d] # None \/ pc[c] = "waiting")
      <4>1. pc' = pc /\ granted' = granted
        BY <2>1, <2>6, <3>6 DEF TakeGrant
      <4>2. granted' \ granted = {} /\ \A o \in Calls \ {None} : pc'[o] = pc[o]
        BY <4>1
      <4> QED
        BY <2>1, <2>4, <2>5, <3>4, <4>2, AnswerHeld
    <3> QED
      BY <3>5, <3>6
  <2>7. CASE message.type # "granted"
    <3>1. TakeQueued(d) /\ granted' \ granted = {}
      BY <2>1, <2>7 DEF TakeQueued
    <3>2. CASE pending[d] # None /\ KindOf[pending[d]] = "one"
      <4> DEFINE t == pending[d]
      <4>1. pc' = [pc EXCEPT ![t] = "waiting"] /\ pending' = [pending EXCEPT ![d] = None]
        BY <3>1, <3>2 DEF TakeQueued
      <4>2. t \in Calls /\ t # None /\ DeviceOf[t] = d /\ pc[t] = "asking"
        BY <1>4, <3>2
      <4>3. pc'[t] = "waiting" /\ \A o \in Calls \ {t} : pc'[o] = pc[o]
        BY <1>0, <4>1, <4>2
      <4> HIDE DEF t
      <4> QED
        BY <2>1, <2>4, <2>5, <3>1, <4>1, <4>2, <4>3, AnswerHeld
    <3>3. CASE ~(pending[d] # None /\ KindOf[pending[d]] = "one")
      <4>1. pc' = pc /\ pending' = pending
        BY <3>1, <3>3 DEF TakeQueued
      <4>2. \A o \in Calls \ {None} : pc'[o] = pc[o]
        BY <4>1
      <4> QED
        BY <2>1, <2>4, <2>5, <3>1, <4>1, <4>2, AnswerHeld
    <3> QED
      BY <3>2, <3>3
  <2> QED
    BY <2>6, <2>7
<1> QED
  BY <1>2, <1>3, <1>5, <1>6

\* What is posted reaches the device, behind what is on its way.
LEMMA PostedMessage ==
  ASSUME TypeOK, Links, NEW s \in open, NEW m \in Responses, down' = Post(s, m)
  PROVE  /\ \A r \in Sockets : \A i \in 1 .. Len(down'[r]) :
              \/ i \in 1 .. Len(down[r]) /\ down'[r][i] = down[r][i]
              \/ r = s /\ down'[r][i] = m
         /\ \A r \in Sockets \ open : down'[r] = down[r]
<1>1. s \in Sockets /\ down' = [down EXCEPT ![s] = Append(@, m)]
  BY LinkFacts DEF Post
<1>2. down \in [Sockets -> Seq(Responses)] /\ down[s] \in Seq(Responses)
  BY <1>1 DEF TypeOK
<1>3. /\ \A r \in Sockets \ {s} : down'[r] = down[r]
      /\ Len(down'[s]) = Len(down[s]) + 1
      /\ down'[s][Len(down[s]) + 1] = m
      /\ \A i \in 1 .. Len(down[s]) : down'[s][i] = down[s][i]
  BY <1>1, <1>2
<1> QED
  BY <1>1, <1>2, <1>3

\* What the server does, without the calls, the links and what it serves.
Serves ==
  /\ UNCHANGED <<pc, granted, pending, linked, open, session>>
  /\ \A c \in Calls : Asked(c)' => Asked(c)

\* The line has its entries still, and one for c at most besides.
Old(e) == \E k \in 1 .. Len(line) : /\ e.device = line[k].device
                                    /\ e.socket = line[k].socket
                                    /\ e.call = line[k].call
LineKeeps(s, c) ==
  \A i \in 1 .. Len(line') :
    \/ Old(line'[i])
    \/ line'[i].device = s[1] /\ line'[i].socket = s /\ line'[i].call = c

\* Only a grant of the server can make a promise: answers come from it, the
\* line keeps its entries, and one is new at most.
LEMMA ServerMoves ==
  ASSUME Inv, Held, Serves, NEW s \in open, NEW c \in Calls,
         DeviceOf[c] = s[1], pc[c] # "idle", ~Asked(c)',
         NEW m \in Responses, m.call = c,
         down' = Post(s, m) \/ down' = down,
         LineKeeps(s, c),
         m.type = "granted" /\ down' # down => s[1] \in slots',
         \A o \in Calls : Told(o) => DeviceOf[o] \in slots'
  PROVE  LineOrigin' /\ DownOrigin' /\ GrantOrigin' /\ PendingAsks' /\ Promised'
<1>0. /\ TypeOK /\ Links /\ LineOrigin /\ DownOrigin /\ GrantOrigin /\ PendingAsks
      /\ granted \subseteq Calls
  BY DEF Inv, TypeOK, Held, Origin
<1>1. s \in Sockets /\ s = FirstSocket(s[1])
  BY <1>0, LinkFacts
<1>2. \A r \in Sockets : \A i \in 1 .. Len(down'[r]) :
        \/ i \in 1 .. Len(down[r]) /\ down'[r][i] = down[r][i]
        \/ r = s /\ down'[r][i] = m /\ down' # down
  <2>1. CASE down' = down
    BY <2>1
  <2>2. CASE down' = Post(s, m) /\ down' # down
    BY <1>0, <2>2, PostedMessage
  <2> QED
    BY <2>1, <2>2
<1>3. LineOrigin'
  <2> SUFFICES ASSUME NEW o \in Calls, NEW i \in 1 .. Len(line'), line'[i].call = o
               PROVE  /\ line'[i].device = DeviceOf[o]
                      /\ line'[i].socket = FirstSocket(DeviceOf[o])
                      /\ pc'[o] # "idle" /\ ~Asked(o)'
    BY DEF LineOrigin
  <2> QED
    BY <1>0, <1>1 DEF LineOrigin, Serves, LineKeeps, Old
<1>4. DownOrigin'
  <2> SUFFICES ASSUME NEW r \in Sockets, NEW o \in Calls, NEW i \in 1 .. Len(down'[r]),
                      down'[r][i] = Response("granted", o)
               PROVE  r[1] = DeviceOf[o] /\ pc'[o] # "idle" /\ ~Asked(o)'
    BY DEF DownOrigin
  <2>1. CASE i \in 1 .. Len(down[r]) /\ down'[r][i] = down[r][i]
    BY <1>0, <2>1 DEF DownOrigin, Serves
  <2>2. CASE r = s /\ down'[r][i] = m
    <3>1. o = c
      BY <2>2 DEF Response
    <3> QED
      BY <2>2, <3>1 DEF Serves
  <2> QED
    BY <1>2, <2>1, <2>2
<1>5. GrantOrigin' /\ PendingAsks'
  BY <1>0 DEF GrantOrigin, PendingAsks, Serves
<1>6. Promised'
  <2> SUFFICES ASSUME NEW o \in Calls, Told(o)' PROVE DeviceOf[o] \in slots'
    BY DEF Promised
  <2>1. CASE Told(o)
    BY <2>1
  <2>2. CASE ~Told(o)
    <3>1. Answered(o)' /\ ~Answered(o)
      BY <2>2 DEF Told, Serves
    <3> DEFINE r == FirstSocket(DeviceOf[o])
    <3>2. r \in Sockets
      BY <1>0, LinkFacts
    <3>3. PICK i \in 1 .. Len(down'[r]) : down'[r][i] = Response("granted", o)
      BY <3>1 DEF Answered
    <3>4. down'[r][i] = m /\ down' # down
      BY <1>2, <3>1, <3>2, <3>3 DEF Answered
    <3>5. o = c /\ m.type = "granted"
      BY <3>3, <3>4 DEF Response
    <3> QED
      BY <3>4, <3>5
  <2> QED
    BY <2>1, <2>2
<1> QED
  BY <1>3, <1>4, <1>5, <1>6

\* The same, when the server says nothing.
LEMMA ServerQuiet ==
  ASSUME Inv, Held, Serves, down' = down,
         \A i \in 1 .. Len(line') : Old(line'[i]),
         \A o \in Calls : Told(o) => DeviceOf[o] \in slots'
  PROVE  LineOrigin' /\ DownOrigin' /\ GrantOrigin' /\ PendingAsks' /\ Promised'
<1>0. /\ LineOrigin /\ DownOrigin /\ GrantOrigin /\ PendingAsks
      /\ granted \subseteq Calls
  BY DEF Inv, TypeOK, Held, Origin
<1>1. LineOrigin'
  <2> SUFFICES ASSUME NEW o \in Calls, NEW i \in 1 .. Len(line'), line'[i].call = o
               PROVE  /\ line'[i].device = DeviceOf[o]
                      /\ line'[i].socket = FirstSocket(DeviceOf[o])
                      /\ pc'[o] # "idle" /\ ~Asked(o)'
    BY DEF LineOrigin
  <2> QED
    BY <1>0 DEF LineOrigin, Serves, Old
<1>2. DownOrigin' /\ GrantOrigin' /\ PendingAsks'
  BY <1>0 DEF DownOrigin, GrantOrigin, PendingAsks, Serves
<1>3. Promised'
  BY DEF Promised, Told, Answered, Serves
<1> QED
  BY <1>1, <1>2, <1>3

\* The slot is passed on when nobody counts on it.
LEMMA GrantHeld ==
  ASSUME Inv, Held, Serves, NEW rest \in Seq(Entries), NEW met,
         \A i \in 1 .. Len(rest) : \E k \in 1 .. Len(line) : rest[i] = line[k],
         \A o \in Calls : ~Told(o),
         GrantNext(rest, open, met)
  PROVE  /\ LineOrigin' /\ DownOrigin' /\ GrantOrigin' /\ PendingAsks' /\ Promised'
         /\ \A r \in Sockets \ open : down'[r] = down[r]
<1>0. TypeOK /\ Links /\ LineOrigin
  BY DEF Inv, Held, Origin
<1>1. CASE slots' = {} /\ line' = <<>> /\ down' = down
  BY <1>1, ServerQuiet
<1>2. ASSUME NEW i \in 1 .. Len(rest), rest[i].socket \in open,
             slots' = {rest[i].device}, line' = SubSeq(rest, i + 1, Len(rest)),
             down' = Post(rest[i].socket, Response("granted", rest[i].call))
      PROVE  /\ LineOrigin' /\ DownOrigin' /\ GrantOrigin' /\ PendingAsks' /\ Promised'
             /\ \A r \in Sockets \ open : down'[r] = down[r]
  <2> DEFINE s == rest[i].socket
             c == rest[i].call
             m == Response("granted", c)
  <2>1. PICK k \in 1 .. Len(line) : rest[i] = line[k]
    OBVIOUS
  <2>2. rest[i] \in Entries
    OBVIOUS
  <2>3. c \in Calls /\ m \in Responses /\ m.call = c
    BY <2>2 DEF Entries, Response, Responses
  <2>4. /\ rest[i].device = DeviceOf[c] /\ s = FirstSocket(DeviceOf[c])
        /\ pc[c] # "idle" /\ ~Asked(c)
    BY <1>0, <2>1, <2>3 DEF LineOrigin
  <2>5. s[1] = DeviceOf[c] /\ s[1] \in slots'
    BY <1>2, <2>4 DEF FirstSocket
  <2>6. ~Asked(c)'
    BY <2>3, <2>4 DEF Serves
  <2>7. \A j \in 1 .. Len(line') : \E n \in 1 .. Len(line) : line'[j] = line[n]
    <3>1. line' \in Seq(Entries) /\ Len(line') = Len(rest) - i
      BY <1>2
    <3>2. \A j \in 1 .. Len(line') : line'[j] = rest[i + j] /\ i + j \in 1 .. Len(rest)
      BY <1>2, <3>1
    <3> QED
      BY <3>2
  <2>8. \A r \in Sockets \ open : down'[r] = down[r]
    BY <1>0, <1>2, <2>3, PostedMessage
  <2> HIDE DEF s, c, m
  <2>9. LineOrigin' /\ DownOrigin' /\ GrantOrigin' /\ PendingAsks' /\ Promised'
    <3>1. s \in open /\ down' = Post(s, m)
      BY <1>2 DEF s, c, m
    <3>2. LineKeeps(s, c)
      BY <2>7 DEF LineKeeps, Old
    <3>3. DeviceOf[c] = s[1] /\ \A o \in Calls : Told(o) => DeviceOf[o] \in slots'
      BY <2>5
    <3> QED
      BY <2>3, <2>4, <2>5, <2>6, <3>1, <3>2, <3>3, ServerMoves
  <2> QED
    BY <2>8, <2>9
<1> QED
  BY <1>1, <1>2 DEF GrantNext

\* The server takes a message off a socket.
LEMMA Taken ==
  ASSUME TypeOK, Links, UpOrigin, ReleasesFirst, NEW s \in open, up[s] # <<>>,
         up' = [up EXCEPT ![s] = Tail(@)], pc' = pc
  PROVE  /\ UpOrigin' /\ ReleasesFirst'
         /\ \A c \in Calls : Asked(c)' => Asked(c)
         /\ \A c \in Calls : Head(up[s]) = Request(c) =>
              DeviceOf[c] = s[1] /\ pc[c] # "idle" /\ ~Asked(c)'
         /\ Head(up[s]) = Release =>
              \A c \in Calls : DeviceOf[c] = s[1] /\ pc[c] \in Busy => Asked(c)
         /\ \A r \in Sockets \ open : up'[r] = up[r]
<1>0. s \in Sockets /\ s = FirstSocket(s[1])
      /\ \A c \in Calls : FirstSocket(DeviceOf[c]) \in Sockets
  BY LinkFacts
<1>1. up \in [Sockets -> Seq(Requests)] /\ up[s] \in Seq(Requests)
  BY <1>0 DEF TypeOK
<1>2. /\ Head(up[s]) = up[s][1] /\ 1 \in 1 .. Len(up[s])
      /\ Len(up'[s]) = Len(up[s]) - 1 /\ Len(up[s]) \in Nat
      /\ \A i \in 1 .. Len(up'[s]) : up'[s][i] = up[s][i + 1]
                                     /\ i + 1 \in 1 .. Len(up[s])
      /\ \A r \in Sockets \ {s} : up'[r] = up[r]
  BY <1>0, <1>1
<1>3. \A c \in Calls : Asked(c)' => Asked(c)
  <2> SUFFICES ASSUME NEW c \in Calls, Asked(c)' PROVE Asked(c)
    OBVIOUS
  <2> DEFINE r == FirstSocket(DeviceOf[c])
  <2>1. PICK i \in 1 .. Len(up'[r]) : up'[r][i] = Request(c)
    BY DEF Asked
  <2>2. CASE r = s
    BY <1>2, <2>1, <2>2 DEF Asked
  <2>3. CASE r # s
    BY <1>0, <1>2, <2>1, <2>3 DEF Asked
  <2> QED
    BY <2>2, <2>3
<1>4. UpOrigin'
  <2> SUFFICES ASSUME NEW r \in Sockets, NEW c \in Calls, NEW i \in 1 .. Len(up'[r]),
                      up'[r][i] = Request(c)
               PROVE  /\ r[1] = DeviceOf[c] /\ pc[c] # "idle"
                      /\ \A k \in 1 .. Len(up'[r]) : up'[r][k] = Request(c) => k = i
    BY DEF UpOrigin
  <2>1. CASE r = s
    <3>1. i + 1 \in 1 .. Len(up[s]) /\ up[s][i + 1] = Request(c)
      BY <1>2, <2>1
    <3>2. \A k \in 1 .. Len(up[s]) : up[s][k] = Request(c) => k = i + 1
      BY <1>0, <3>1 DEF UpOrigin
    <3>3. ASSUME NEW k \in 1 .. Len(up'[r]), up'[r][k] = Request(c) PROVE k = i
      <4>1. k + 1 = i + 1
        BY <1>2, <2>1, <3>2, <3>3
      <4> QED
        BY <1>2, <2>1, <4>1
    <3> QED
      BY <2>1, <3>1, <3>3 DEF UpOrigin
  <2>2. CASE r # s
    BY <1>2, <2>2 DEF UpOrigin
  <2> QED
    BY <2>1, <2>2
<1>5. ReleasesFirst'
  <2> SUFFICES ASSUME NEW c \in Calls, pc[c] \in Busy,
                      NEW i \in 1 .. Len(up'[FirstSocket(DeviceOf[c])]),
                      up'[FirstSocket(DeviceOf[c])][i] = Release
               PROVE  \E k \in i + 1 .. Len(up'[FirstSocket(DeviceOf[c])]) :
                        up'[FirstSocket(DeviceOf[c])][k] = Request(c)
    BY DEF ReleasesFirst
  <2> DEFINE r == FirstSocket(DeviceOf[c])
  <2>1. CASE r = s
    <3>1. i + 1 \in 1 .. Len(up[s]) /\ up[s][i + 1] = Release
      BY <1>2, <2>1
    <3>2. PICK k \in i + 2 .. Len(up[s]) : up[s][k] = Request(c)
      BY <2>1, <3>1 DEF ReleasesFirst
    <3>3. k - 1 \in i + 1 .. Len(up'[s]) /\ k - 1 \in 1 .. Len(up'[s])
      BY <1>2, <2>1
    <3>4. up'[s][k - 1] = Request(c)
      BY <1>2, <3>2, <3>3
    <3> QED
      BY <2>1, <3>3, <3>4
  <2>2. CASE r # s
    BY <1>0, <1>2, <2>2 DEF ReleasesFirst
  <2> QED
    BY <2>1, <2>2
<1>6. ASSUME NEW c \in Calls, Head(up[s]) = Request(c)
      PROVE  DeviceOf[c] = s[1] /\ pc[c] # "idle" /\ ~Asked(c)'
  <2>1. /\ s[1] = DeviceOf[c] /\ pc[c] # "idle"
        /\ \A k \in 1 .. Len(up[s]) : up[s][k] = Request(c) => k = 1
    BY <1>0, <1>2, <1>6 DEF UpOrigin
  <2>2. \A i \in 1 .. Len(up'[s]) : up'[s][i] # Request(c)
    <3> SUFFICES ASSUME NEW i \in 1 .. Len(up'[s]), up'[s][i] = Request(c) PROVE FALSE
      OBVIOUS
    <3>1. i + 1 = 1
      BY <1>2, <2>1
    <3> QED
      BY <1>2, <3>1
  <2> QED
    BY <1>0, <2>1, <2>2 DEF Asked
<1>7. ASSUME NEW c \in Calls, Head(up[s]) = Release, DeviceOf[c] = s[1], pc[c] \in Busy
      PROVE  Asked(c)
  <2>1. PICK k \in 1 + 1 .. Len(up[s]) : up[s][k] = Request(c)
    BY <1>0, <1>2, <1>7 DEF ReleasesFirst
  <2> QED
    BY <1>0, <1>7, <2>1 DEF Asked
<1> QED
  BY <1>0, <1>2, <1>3, <1>4, <1>5, <1>6, <1>7

\* Without takes an entry out, and changes none.
LEMMA WithoutKeeps ==
  ASSUME TypeOK, NEW d
  PROVE  /\ Without(line, d) \in Seq(Entries)
         /\ \A i \in 1 .. Len(Without(line, d)) :
              \E k \in 1 .. Len(line) : Without(line, d)[i] = line[k]
  BY WithoutEntries DEF TypeOK

\* Who was told "granted" has no request on its way any more.
LEMMA ToldNotAsked ==
  ASSUME TypeOK, Links, Origin, NEW c \in Calls, Told(c)
  PROVE  ~Asked(c)
<1>1. FirstSocket(DeviceOf[c]) \in Sockets
  BY LinkFacts
<1> QED
  BY <1>1 DEF Told, Answered, Origin, DownOrigin, GrantOrigin

LEMMA ServeHeld ==
  ASSUME Inv, Held, NEW s \in Sockets, Serve(s)
  PROVE  Held'
<1> DEFINE d == s[1]
<1>0. /\ TypeOK /\ Links /\ Origin /\ ReleasesFirst /\ Promised /\ UpOrigin
      /\ OneHolder /\ s \in open /\ up[s] # <<>> /\ d \in Devices
      /\ line \in Seq(Entries) /\ down \in [Sockets -> Seq(Responses)]
  BY SocketParts DEF Inv, TypeOK, ServerInv, SlotsConsistent, Held, Origin, Serve
<1>1. /\ up' = [up EXCEPT ![s] = Tail(@)]
      /\ UNCHANGED <<pc, granted, pending, linked, open, session>>
  BY DEF Serve, linkVars, callVars
<1>2. /\ UpOrigin' /\ ReleasesFirst' /\ Serves
      /\ \A c \in Calls : Head(up[s]) = Request(c) =>
           DeviceOf[c] = d /\ pc[c] # "idle" /\ ~Asked(c)'
      /\ Head(up[s]) = Release =>
           \A c \in Calls : DeviceOf[c] = d /\ pc[c] \in Busy => Asked(c)
      /\ \A r \in Sockets \ open : up'[r] = up[r]
  BY <1>0, <1>1, Taken DEF Serves
<1>3. SUFFICES /\ LineOrigin' /\ DownOrigin' /\ GrantOrigin' /\ PendingAsks' /\ Promised'
               /\ \A r \in Sockets \ open : down'[r] = down[r]
  <2> SUFFICES ASSUME LineOrigin', DownOrigin', GrantOrigin', PendingAsks', Promised',
                      \A r \in Sockets \ open : down'[r] = down[r]
               PROVE  Held'
    OBVIOUS
  <2>1. Links'
    BY <1>0, <1>1, <1>2 DEF Links
  <2> QED
    BY <1>2, <2>1 DEF Held, Origin
<1>4. Head(up[s]) \in Requests
  BY <1>0 DEF TypeOK
<1>5. CASE Head(up[s]).type = "hello"
  <2>1. UNCHANGED <<slots, line, down>>
    BY <1>5 DEF Serve
  <2> QED
    BY <1>0, <1>2, <2>1, ServerQuiet DEF Promised, Old
<1>6. CASE Head(up[s]).type = "request"
  <2>1. PICK c \in Calls : Head(up[s]) = Request(c)
    BY <1>4, <1>6 DEF Requests, Hello, Release, Request
  <2>2. Requested(s, c)
    <3>1. Requested(s, Head(up[s]).call)
      BY <1>6 DEF Serve
    <3> QED
      BY <2>1, <3>1 DEF Request
  <2>3. DeviceOf[c] = d /\ pc[c] # "idle" /\ ~Asked(c)'
    BY <1>2, <2>1
  <2> DEFINE rest == Without(line, d)
  <2>4. /\ rest \in Seq(Entries)
        /\ \A i \in 1 .. Len(rest) : \E k \in 1 .. Len(line) : rest[i] = line[k]
    BY <1>0, WithoutKeeps
  <2>5. CASE slots \ {d} = {}
    <3> DEFINE m == Response("granted", c)
    <3>1. slots' = {d} /\ line' = rest /\ down' = Post(s, m)
      BY <2>2, <2>5 DEF Requested
    <3>2. m \in Responses /\ m.call = c
      BY <2>1 DEF Response, Responses
    <3>3. \A o \in Calls : Told(o) => DeviceOf[o] \in slots'
      BY <1>0, <2>5, <3>1 DEF Promised
    <3>4. LineKeeps(s, c)
      BY <2>4, <3>1 DEF LineKeeps, Old
    <3>5. d \in slots' /\ \A r \in Sockets \ open : down'[r] = down[r]
      BY <1>0, <3>1, <3>2, PostedMessage
    <3> HIDE DEF m
    <3> QED
      BY <1>0, <1>2, <2>1, <2>3, <3>1, <3>2, <3>3, <3>4, <3>5, ServerMoves
  <2>6. CASE slots \ {d} # {}
    <3> DEFINE m == Response("queued", c)
               entry == [device |-> d, socket |-> s, call |-> c, old |-> FALSE]
    <3>1. slots' = slots \ {d} /\ line' = Append(rest, entry) /\ down' = Post(s, m)
      BY <2>2, <2>6 DEF Requested
    <3>2. m \in Responses /\ m.call = c /\ m.type # "granted"
      BY <2>1 DEF Response, Responses
    <3>3. slots' = slots
      BY <1>0, <2>6, <3>1 DEF OneHolder
    <3>4. \A o \in Calls : Told(o) => DeviceOf[o] \in slots'
      BY <1>0, <3>3 DEF Promised
    <3>5. LineKeeps(s, c)
      <4>1. entry \in Entries
        BY <1>0, <2>1 DEF Entries
      <4>2. /\ Len(line') = Len(rest) + 1 /\ line'[Len(rest) + 1] = entry
            /\ \A i \in 1 .. Len(rest) : line'[i] = rest[i]
        BY <2>4, <3>1, <4>1
      <4> SUFFICES ASSUME NEW i \in 1 .. Len(line')
                   PROVE  \/ Old(line'[i])
                          \/ line'[i].device = d /\ line'[i].socket = s /\ line'[i].call = c
        BY DEF LineKeeps
      <4>3. CASE i \in 1 .. Len(rest)
        <5>1. PICK k \in 1 .. Len(line) : line'[i] = line[k]
          BY <2>4, <4>2, <4>3
        <5> QED
          BY <5>1 DEF Old
      <4>4. CASE i = Len(rest) + 1
        BY <4>2, <4>4
      <4> QED
        BY <2>4, <4>2, <4>3, <4>4
    <3>6. \A r \in Sockets \ open : down'[r] = down[r]
      BY <1>0, <3>1, <3>2, PostedMessage
    <3> HIDE DEF m, entry
    <3>7. LineOrigin' /\ DownOrigin' /\ GrantOrigin' /\ PendingAsks' /\ Promised'
      BY <1>0, <1>2, <2>3, <3>1, <3>2, <3>4, <3>5, ServerMoves
    <3> QED
      BY <3>6, <3>7
  <2> QED
    BY <2>5, <2>6
<1>7. CASE Head(up[s]).type = "release"
  <2>1. Head(up[s]) = Release
    BY <1>4, <1>7 DEF Requests, Hello, Release
  <2>2a. Leaves(d, open, {})
    BY <1>7 DEF Serve
  <2>2. \A c \in Calls : Told(c) => DeviceOf[c] # d
    <3> SUFFICES ASSUME NEW c \in Calls, Told(c), DeviceOf[c] = d PROVE FALSE
      OBVIOUS
    <3>1. Asked(c)
      BY <1>2, <2>1 DEF Told
    <3> QED
      BY <1>0, <3>1, ToldNotAsked
  <2> DEFINE rest == Without(line, d)
  <2>3. /\ rest \in Seq(Entries)
        /\ \A i \in 1 .. Len(rest) : \E k \in 1 .. Len(line) : rest[i] = line[k]
    BY <1>0, WithoutKeeps
  <2>4. CASE d \in slots
    <3>1. GrantNext(rest, open, {})
      BY <2>2a, <2>4 DEF Leaves
    <3>2. \A c \in Calls : ~Told(c)
      BY <1>0, <2>2, <2>4 DEF Promised, OneHolder
    <3> HIDE DEF rest
    <3> QED
      BY <1>2, <2>3, <3>1, <3>2, GrantHeld
  <2>5. CASE d \notin slots
    <3>1. line' = rest /\ slots' = slots /\ down' = down
      BY <2>2a, <2>5 DEF Leaves
    <3>2. \A i \in 1 .. Len(line') : Old(line'[i])
      BY <2>3, <3>1 DEF Old
    <3> QED
      BY <1>0, <1>2, <3>1, <3>2, ServerQuiet DEF Promised
  <2> QED
    BY <2>4, <2>5
<1> QED
  BY <1>4, <1>5, <1>6, <1>7 DEF Requests, Hello, Release

\* A step that leaves both channels and the calls alone.
LEMMA OtherHeld ==
  ASSUME Inv, Held, UNCHANGED <<pc, granted, pending, linked, open, session, up>>,
         LineOrigin' /\ DownOrigin' /\ GrantOrigin' /\ PendingAsks' /\ Promised',
         \A r \in Sockets \ open : down'[r] = down[r]
  PROVE  Held'
<1>0. Links /\ UpOrigin /\ ReleasesFirst
  BY DEF Held, Origin
<1>1. Links'
  BY <1>0 DEF Links
<1>2. UpOrigin'
  BY <1>0 DEF UpOrigin
<1>3. ReleasesFirst'
  BY <1>0 DEF ReleasesFirst
<1> QED
  BY <1>1, <1>2, <1>3 DEF Held, Origin

LEMMA ServerHeld ==
  ASSUME Inv, Held, Fine', [Next]_vars,
         ~ \E c \in Calls : \/ Ask(c) \/ Cancel(c) \/ SyncStarts(c) \/ SyncEnds(c)
                            \/ MarkFails(c),
         ~ \E d \in Devices : \/ Receive(d) \/ Timeout(d) \/ LosesConnection(d)
                              \/ Disconnect(d) \/ Connect(d)
  PROVE  Held'
<1>0. /\ TypeOK /\ Links /\ OneHolder /\ Promised
      /\ line \in Seq(Entries)
  BY DEF Inv, TypeOK, ServerInv, SlotsConsistent, Held
<1>1. hazards' \intersect Protected = {}
  BY DEF Fine
<1>2. ASSUME NEW s \in Sockets, Serve(s) PROVE Held'
  BY <1>2, ServeHeld
<1>3. ASSUME NEW s \in Sockets, SocketGone(s) PROVE Held'
  <2>1. OnLine(s)
    BY <1>0, <1>3, LinkFacts DEF SocketGone
  <2>2. "drop" \in hazards'
    BY <1>3, <2>1 DEF SocketGone, Leaves, GrantNext, Meet, When
  <2> QED
    BY <1>1, <2>2 DEF Protected
<1>4. ASSUME NEW d \in Devices, Expire(d) PROVE Held'
  <2>1. /\ d \in slots /\ GrantNext(line, open, When(Counts(d), "expired"))
        /\ UNCHANGED <<pc, granted, pending, linked, open, session, up>>
    BY <1>4 DEF Expire, linkVars, callVars
  <2>2. ~Counts(d)
    <3> SUFFICES ASSUME Counts(d) PROVE FALSE
      OBVIOUS
    <3>1. "expired" \in hazards'
      BY <2>1 DEF GrantNext, Meet, When
    <3> QED
      BY <1>1, <3>1 DEF Protected
  <2>3. \A c \in Calls : ~Told(c)
    <3> SUFFICES ASSUME NEW c \in Calls, Told(c) PROVE FALSE
      OBVIOUS
    <3>1. DeviceOf[c] = d
      BY <1>0, <2>1 DEF Promised, OneHolder
    <3>2. CASE Answered(c)
      <4>1. Socket(d) = FirstSocket(d)
        BY <1>0, <3>1, LinkFacts
      <4> QED
        BY <2>2, <3>1, <3>2, <4>1 DEF Answered, Counts, Response
    <3>3. CASE ~Answered(c)
      BY <2>2, <3>1, <3>3 DEF Told, Counts
    <3> QED
      BY <3>2, <3>3
  <2>4. Serves
    BY <2>1 DEF Serves, Asked
  <2>5. \A i \in 1 .. Len(line) : \E k \in 1 .. Len(line) : line[i] = line[k]
    OBVIOUS
  <2>6. /\ LineOrigin' /\ DownOrigin' /\ GrantOrigin' /\ PendingAsks' /\ Promised'
        /\ \A r \in Sockets \ open : down'[r] = down[r]
    BY <1>0, <2>1, <2>3, <2>4, <2>5, GrantHeld
  <2> QED
    BY <2>1, <2>6, OtherHeld
<1>5. ASSUME NEW i \in 1 .. Len(line), Age(i) PROVE Held'
  <2>1. /\ line' = [line EXCEPT ![i].old = TRUE]
        /\ UNCHANGED <<slots, pc, granted, pending, linked, open, session, up, down>>
    BY <1>5 DEF Age, linkVars, callVars
  <2>2. \A k \in 1 .. Len(line') : Old(line'[k])
    <3>1. Len(line') = Len(line) /\ \A k \in 1 .. Len(line) : line[k] \in Entries
      BY <1>0, <2>1
    <3>2. \A k \in 1 .. Len(line) : /\ line'[k].device = line[k].device
                                    /\ line'[k].socket = line[k].socket
                                    /\ line'[k].call = line[k].call
      BY <1>0, <2>1, <3>1 DEF Entries
    <3> QED
      BY <3>1, <3>2 DEF Old
  <2>3. Serves /\ \A c \in Calls : Told(c) => DeviceOf[c] \in slots'
    BY <1>0, <2>1 DEF Serves, Asked, Promised
  <2>4. LineOrigin' /\ DownOrigin' /\ GrantOrigin' /\ PendingAsks' /\ Promised'
    BY <2>1, <2>2, <2>3, ServerQuiet
  <2> QED
    BY <2>1, <2>4, OtherHeld
<1>6. CASE ServerRestarts
  BY <1>1, <1>6 DEF ServerRestarts, Meet, Protected
<1>7. CASE UNCHANGED vars
  <2>1. UNCHANGED <<slots, line, open, session, linked, pending, pc, granted, up, down>>
    BY <1>7 DEF vars, serverVars, linkVars, callVars
  <2>2. Serves /\ \A c \in Calls : Told(c) => DeviceOf[c] \in slots'
    BY <1>0, <2>1 DEF Serves, Asked, Promised
  <2>3. \A k \in 1 .. Len(line') : Old(line'[k])
    BY <2>1 DEF Old
  <2>4. LineOrigin' /\ DownOrigin' /\ GrantOrigin' /\ PendingAsks' /\ Promised'
    BY <2>1, <2>2, <2>3, ServerQuiet
  <2> QED
    BY <2>1, <2>4, OtherHeld
<1> QED
  BY <1>2, <1>3, <1>4, <1>5, <1>6, <1>7 DEF Next

LEMMA InitHeld == Init => HeldInv
<1> SUFFICES ASSUME Init PROVE Held
  BY DEF HeldInv
<1>1. /\ slots = {} /\ line = <<>> /\ granted = {} /\ open = Devices \X {1}
      /\ linked = Devices /\ session = [d \in Devices |-> 1]
      /\ pending = [d \in Devices |-> None] /\ pc = [c \in Calls |-> "idle"]
      /\ up = [s \in Sockets |-> IF s \in open THEN <<Hello>> ELSE <<>>]
      /\ down = [s \in Sockets |-> <<>>]
  BY DEF Init
<1>2. Links /\ LineOrigin /\ DownOrigin /\ GrantOrigin /\ PendingAsks
  BY <1>1 DEF Links, LineOrigin, DownOrigin, GrantOrigin, PendingAsks
<1>3. UpOrigin
  <2>1. \A s \in Sockets : \A i \in 1 .. Len(up[s]) : up[s][i] = Hello
    BY <1>1
  <2>2. \A c \in Calls : Request(c) # Hello
    BY DEF Request, Hello
  <2> QED
    BY <2>1, <2>2 DEF UpOrigin
<1>4. \A c \in Calls : pc[c] \notin Busy
  BY <1>1 DEF Busy, Running
<1> QED
  BY <1>2, <1>3, <1>4 DEF Held, Origin, ReleasesFirst, Promised, Told

\* Until the first hazard, what is on the way in both channels agrees with the
\* calls, the line and the slot.
THEOREM HeldInvariance == Spec => []HeldInv
<1>1. Inv /\ Inv' /\ HeldInv /\ [Next]_vars => HeldInv'
  <2> SUFFICES ASSUME Inv, Inv', HeldInv, [Next]_vars, Fine' PROVE Held'
    BY DEF HeldInv
  <2>1. Held
    <3>1. hazards \subseteq hazards'
      BY HazardsStay
    <3>2. Fine
      BY <3>1 DEF Fine
    <3> QED
      BY <3>2 DEF HeldInv
  <2> QED
    BY <2>1, CallHeld, LinkHeld, ServerHeld
<1> QED
  BY <1>1, InitHeld, Invariance, PTL DEF Spec

\* A sync that was told "granted" has the slot of its device for as long as it
\* runs, short of the named hazards, for any devices and calls.
THEOREM GrantedHoldsSlotCorrect == Spec => []GrantedHoldsSlot
<1>1. Inv /\ HeldInv => GrantedHoldsSlot
  <2> SUFFICES ASSUME Inv, HeldInv, hazards \intersect Protected = {},
                      NEW c \in granted, pc[c] \in Running
               PROVE  DeviceOf[c] \in slots
    BY DEF GrantedHoldsSlot
  <2>1. Promised /\ c \in Calls
    BY DEF Inv, TypeOK, HeldInv, Held, Fine
  <2> QED
    BY <2>1 DEF Promised, Told, Busy
<1> QED
  BY <1>1, Invariance, HeldInvariance, PTL

=============================================================================
