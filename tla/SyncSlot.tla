------------------------------ MODULE SyncSlot ------------------------------
(***************************************************************************)
(* The sync slot: the realtime server (src/realtime-server/server.js)      *)
(* admits one device at a time to write to the archive, and queues the     *)
(* others.  The client half is services/realtimeOperationsService.js with  *)
(* the handlers that ask for the slot: Sync Now of the renderer, one job,  *)
(* and archive:syncAllReadyJobs of main.js, a batch.                       *)
(*                                                                         *)
(* A device talks over one socket after the other.  A socket delivers in   *)
(* order; either end may notice that it broke first, and what the other    *)
(* end had sent is lost then.  Heartbeats are not messages here: Beating   *)
(* says whether the server is hearing them, and only then may a slot not   *)
(* go stale.  A connection that lives delivers one within 70 of the 90     *)
(* seconds (15 s between beats, 55 s until a silent peer is dropped).      *)
(***************************************************************************)
EXTENDS Naturals, Sequences

CONSTANTS
  Devices,
  Calls,       \* one request for the slot and the sync it is for
  DeviceOf,    \* call -> its device
  KindOf,      \* call -> "one" | "batch"
  MaxSockets,  \* bound: device -> connections it makes
  None

ASSUME SyncSlotConstants ==
  /\ DeviceOf \in [Calls -> Devices]
  /\ KindOf \in [Calls -> {"one", "batch"}]
  /\ MaxSockets \in [Devices -> Nat \ {0}]
  /\ None \notin Calls

Sockets == UNION {{d} \X (1 .. MaxSockets[d]) : d \in Devices}

Hello       == [type |-> "hello", call |-> None]
Release     == [type |-> "release", call |-> None]
Request(c)  == [type |-> "request", call |-> c]
Response(type, c) == [type |-> type, call |-> c]

Requests  == [type : {"request"}, call : Calls] \union {Hello, Release}
Responses == [type : {"granted", "queued"}, call : Calls]
Entries   == [device : Devices, socket : Sockets, call : Calls, old : BOOLEAN]

VARIABLES
  slots,    \* _syncSlots: the devices that hold a slot
  line,     \* _syncSlotQueue; "old" is past QUEUE_TIMEOUT_MS
  open,     \* sockets the server takes for connected
  session,  \* device -> number of its current or last socket
  linked,   \* devices whose socket is connected, as they see it
  pending,  \* device -> the call in _pendingSlotResolve, or None
  pc,       \* call -> where it is
  granted,  \* calls that were told "granted", not as a fallback
  beating,  \* calls whose heartbeat timer runs
  up, down, \* socket -> messages to the server, to the device
  hazards   \* history: what the protocol does not protect against, once met

serverVars == <<slots, line, open>>
linkVars   == <<session, linked>>
callVars   == <<pc, granted, beating>>
vars == <<serverVars, linkVars, pending, callVars, up, down, hazards>>

\* "waiting" is a call in _slotWaiting of the renderer; an "admitted" one may
\* sync, with the slot or as a fallback without it.
Stages == {"idle", "asking", "waiting", "admitted", "syncing", "done"}
Running == {"admitted", "syncing"}
Busy    == {"asking", "waiting"} \union Running

Socket(d) == <<d, session[d]>>

TypeOK ==
  /\ slots \subseteq Devices
  /\ line \in Seq(Entries)
  /\ open \subseteq Sockets
  /\ session \in [Devices -> Nat \ {0}]
  /\ \A d \in Devices : Socket(d) \in Sockets
  /\ linked \subseteq Devices
  /\ pending \in [Devices -> Calls \union {None}]
  /\ pc \in [Calls -> Stages]
  /\ granted \subseteq Calls
  /\ beating \subseteq Calls
  /\ up \in [Sockets -> Seq(Requests)]
  /\ down \in [Sockets -> Seq(Responses)]
  /\ hazards \subseteq {"mistaken", "shared", "displaced", "leak", "unqueued",
                        "expired", "drop", "restart"}

Init ==
  /\ slots = {}
  /\ line = <<>>
  /\ open = Devices \X {1}
  /\ session = [d \in Devices |-> 1]
  /\ linked = Devices
  /\ pending = [d \in Devices |-> None]
  /\ pc = [c \in Calls |-> "idle"]
  /\ granted = {}
  /\ beating = {}
  /\ up = [s \in Sockets |-> IF s \in open THEN <<Hello>> ELSE <<>>]
  /\ down = [s \in Sockets |-> <<>>]
  /\ hazards = {}

Meet(met) == hazards' = hazards \union met
When(condition, hazard) == IF condition THEN {hazard} ELSE {}

\* Another call of the device is under way.
Sibling(c, stages) ==
  \E o \in Calls \ {c} : DeviceOf[o] = DeviceOf[c] /\ pc[o] \in stages

-----------------------------------------------------------------------------
(* The device                                                              *)

\* _send: nothing is sent, and nothing kept, without a connection.  What is sent
\* to a socket the server has closed is lost.
Send(d, message) ==
  up' = IF d \in linked /\ Socket(d) \in open
          THEN [up EXCEPT ![Socket(d)] = Append(@, message)] ELSE up

\* The pending request of d, if there is one, is rejected: every caller takes
\* that for leave to go on without the slot.
Reject(d, stages) ==
  IF pending[d] = None THEN stages ELSE [stages EXCEPT ![pending[d]] = "admitted"]

\* requestSyncSlot, waitForSyncSlot.
Ask(c) ==
  LET d == DeviceOf[c] IN
  /\ pc[c] = "idle"
  /\ IF d \in linked
       THEN /\ pc' = [Reject(d, pc) EXCEPT ![c] = "asking"]
            /\ pending' = [pending EXCEPT ![d] = c]
            /\ Meet(When(Sibling(c, {"waiting"}), "displaced"))
       ELSE /\ pc' = [pc EXCEPT ![c] = "admitted"]
            /\ UNCHANGED <<pending, hazards>>
  /\ Send(d, Request(c))
  /\ UNCHANGED <<serverVars, linkVars, granted, beating, down>>

\* Mutant: a grant that finds no pending request is dropped.
TakeGrantPending(d, c) ==
  /\ pending' = [pending EXCEPT ![d] = None]
  /\ IF pending[d] # None
       THEN /\ pc' = [pc EXCEPT ![pending[d]] = "admitted"]
            /\ granted' = granted \union {pending[d]}
       ELSE UNCHANGED <<pc, granted>>

\* A response is for whatever request is pending, whichever it answers.  A
\* grant that finds none goes to the renderer, which knows the jobs that wait.
TakeGrant(d, c) ==
  LET taker == IF pending[d] # None THEN pending[d] ELSE c IN
  /\ pending' = [pending EXCEPT ![d] = None]
  /\ IF pending[d] # None \/ pc[c] = "waiting"
       THEN /\ pc' = [pc EXCEPT ![taker] = "admitted"]
            /\ granted' = granted \union {taker}
       ELSE UNCHANGED <<pc, granted>>

\* Mutant: a batch takes "queued" for an answer, too.
TakeQueuedAll(d) ==
  /\ IF pending[d] # None
       THEN /\ pc' = [pc EXCEPT ![pending[d]] =
                        IF KindOf[pending[d]] = "one" THEN "waiting" ELSE "admitted"]
            /\ pending' = [pending EXCEPT ![d] = None]
            /\ granted' = granted \union {c \in {pending[d]} : KindOf[c] = "batch"}
       ELSE UNCHANGED <<pc, pending, granted>>

\* "Queued" ends the request of one job, and a batch waits on.
TakeQueued(d) ==
  /\ IF pending[d] # None /\ KindOf[pending[d]] = "one"
       THEN /\ pc' = [pc EXCEPT ![pending[d]] = "waiting"]
            /\ pending' = [pending EXCEPT ![d] = None]
       ELSE UNCHANGED <<pc, pending>>
  /\ UNCHANGED granted

\* sync:slot:response arrives.
Receive(d) ==
  LET message == Head(down[Socket(d)]) IN
  /\ d \in linked /\ down[Socket(d)] # <<>>
  /\ down' = [down EXCEPT ![Socket(d)] = Tail(@)]
  /\ IF message.type = "granted" THEN TakeGrant(d, message.call) ELSE TakeQueued(d)
  /\ Meet(When(pending[d] \notin {None, message.call}, "mistaken"))
  /\ UNCHANGED <<serverVars, linkVars, beating, up>>

\* The timer of the request, 10 s, or 300 s once a batch knows it is queued.
Timeout(d) ==
  /\ pending[d] # None
  /\ pc' = Reject(d, pc)
  /\ pending' = [pending EXCEPT ![d] = None]
  /\ UNCHANGED <<serverVars, linkVars, granted, beating, up, down, hazards>>

\* The operator gives up the wait of one job.
Cancel(c) ==
  LET d == DeviceOf[c] IN
  /\ pc[c] = "waiting"
  /\ pc' = [Reject(d, pc) EXCEPT ![c] = "done"]
  /\ pending' = [pending EXCEPT ![d] = None]
  /\ Send(d, Release)
  /\ Meet(When(Sibling(c, Busy), "shared"))
  /\ UNCHANGED <<serverVars, linkVars, granted, beating, down>>

\* syncJobNow has accepted the job: it beats until it returns.  A batch does
\* not beat.
SyncStarts(c) ==
  /\ pc[c] = "admitted"
  /\ pc' = [pc EXCEPT ![c] = "syncing"]
  /\ beating' = beating \union When(KindOf[c] = "one", c)
  /\ UNCHANGED <<serverVars, linkVars, pending, granted, up, down, hazards>>

Ends(c) ==
  LET releases == KindOf[c] = "one" \/ c \in granted IN
  /\ pc' = [pc EXCEPT ![c] = "done"]
  /\ IF releases THEN Send(DeviceOf[c], Release) ELSE UNCHANGED up
  /\ UNCHANGED <<serverVars, linkVars, pending, granted, down>>

\* Mutant: the heartbeat timer is not cleared.
SyncEndsBeating(c) ==
  /\ pc[c] \in Running
  /\ Ends(c)
  /\ Meet(When(Sibling(c, Busy) /\ (KindOf[c] = "one" \/ c \in granted), "shared"))
  /\ UNCHANGED beating

\* The sync is over, or was refused before it began.  One job always releases
\* the slot, a batch only what it was granted.
SyncEnds(c) ==
  /\ pc[c] \in Running
  /\ Ends(c)
  /\ beating' = beating \ {c}
  /\ Meet(When(Sibling(c, Busy) /\ (KindOf[c] = "one" \/ c \in granted), "shared"))

\* The job cannot be marked "syncing": the handler throws between the start of
\* the timer and the try whose finally would clear it.
MarkFails(c) ==
  /\ pc[c] = "admitted" /\ KindOf[c] = "one"
  /\ Ends(c)
  /\ beating' = beating \union {c}
  /\ Meet({"leak"} \union When(Sibling(c, Busy), "shared"))

-----------------------------------------------------------------------------
(* The connection                                                          *)

MoreSockets(d) == session[d] < MaxSockets[d]

\* The device finds its socket broken, and drops what was under way on it: the
\* pending request goes on without the slot.
LosesConnection(d) ==
  /\ d \in linked
  /\ MoreSockets(d) \/ Socket(d) \notin open
  /\ linked' = linked \ {d}
  /\ down' = [down EXCEPT ![Socket(d)] = <<>>]
  /\ pc' = Reject(d, pc)
  /\ pending' = [pending EXCEPT ![d] = None]
  /\ Meet({"drop"})
  /\ UNCHANGED <<serverVars, session, granted, beating, up>>

\* realtime:configure: the listeners go first, so that the pending request is
\* left to its timer.
Disconnect(d) ==
  /\ d \in linked
  /\ MoreSockets(d)
  /\ linked' = linked \ {d}
  /\ down' = [down EXCEPT ![Socket(d)] = <<>>]
  /\ Meet({"drop"})
  /\ UNCHANGED <<serverVars, session, pending, callVars, up>>

\* connect: device:hello is the first message of a socket.
Connect(d) ==
  LET new == <<d, session[d] + 1>> IN
  /\ d \notin linked
  /\ MoreSockets(d)
  /\ session' = [session EXCEPT ![d] = @ + 1]
  /\ linked' = linked \union {d}
  /\ open' = open \union {new}
  /\ up' = [up EXCEPT ![new] = <<Hello>>]
  /\ UNCHANGED <<slots, line, pending, callVars, down, hazards>>

-----------------------------------------------------------------------------
(* The server                                                              *)

\* The device is still there.
OnLine(s) == s[1] \in linked /\ s = Socket(s[1])

\* What is sent to a device that is not is lost.
Post(s, message) ==
  IF OnLine(s)
    THEN [down EXCEPT ![s] = Append(@, message)] ELSE down

\* The first entry of d leaves the line.
Without(entries, d) ==
  IF \E i \in 1 .. Len(entries) : entries[i].device = d
    THEN LET first == CHOOSE i \in 1 .. Len(entries) :
                        /\ entries[i].device = d
                        /\ \A k \in 1 .. i - 1 : entries[k].device # d
         IN  [k \in 1 .. Len(entries) - 1 |->
                IF k < first THEN entries[k] ELSE entries[k + 1]]
    ELSE entries

\* _grantNextSlot, called when the slot has just been freed: the first entry
\* that is neither too old nor without a socket gets it, and those before it
\* are gone.
GrantNext(rest, connected, met) ==
  LET Lives(e) == ~e.old /\ e.socket \in connected IN
  \/ \E i \in 1 .. Len(rest) :
       /\ Lives(rest[i]) /\ \A k \in 1 .. i - 1 : ~Lives(rest[k])
       /\ slots' = {rest[i].device}
       /\ line' = SubSeq(rest, i + 1, Len(rest))
       /\ down' = Post(rest[i].socket, Response("granted", rest[i].call))
       /\ Meet(met \union When(\E k \in 1 .. i - 1 : rest[k].old, "unqueued"))
  \/ /\ \A i \in 1 .. Len(rest) : ~Lives(rest[i])
     /\ slots' = {}
     /\ line' = <<>>
     /\ Meet(met \union When(\E i \in 1 .. Len(rest) : rest[i].old, "unqueued"))
     /\ UNCHANGED down

\* sync:slot:request.  What the device held or waited for is given up first.
\* The slot it frees this way is the one it gets, whoever is in the line.
Requested(s, c) ==
  LET others == slots \ {s[1]}
      rest   == Without(line, s[1])
  IN
  /\ IF others = {}
       THEN /\ slots' = {s[1]}
            /\ line' = rest
            /\ down' = Post(s, Response("granted", c))
       ELSE /\ slots' = others
            /\ line' = Append(rest, [device |-> s[1], socket |-> s, call |-> c,
                                     old |-> FALSE])
            /\ down' = Post(s, Response("queued", c))
  /\ UNCHANGED hazards

\* Mutant: the slot is freed, and the line is not looked at.
LeavesUnnoticed(d, connected, met) ==
  /\ slots' = slots \ {d}
  /\ line' = Without(line, d)
  /\ Meet(met)
  /\ UNCHANGED down

\* d gives up its slot and its place in the line.
Leaves(d, connected, met) ==
  IF d \in slots
    THEN GrantNext(Without(line, d), connected, met)
    ELSE /\ line' = Without(line, d)
         /\ Meet(met)
         /\ UNCHANGED <<slots, down>>

\* The server takes the next message of a socket.
Serve(s) ==
  LET message == Head(up[s]) IN
  /\ s \in open /\ up[s] # <<>>
  /\ up' = [up EXCEPT ![s] = Tail(@)]
  /\ CASE message.type = "hello"   -> UNCHANGED <<slots, line, down, hazards>>
       [] message.type = "request" -> Requested(s, message.call)
       [] message.type = "release" -> Leaves(s[1], open, {})
  /\ UNCHANGED <<open, linkVars, pending, callVars>>

\* 'disconnect': a socket that has said hello takes the slot and the place of
\* its device with it, even those of a later socket.
SocketGone(s) ==
  LET met == When(OnLine(s), "drop") IN
  /\ s \in open
  /\ OnLine(s) => MoreSockets(s[1])
  /\ open' = open \ {s}
  /\ up' = [up EXCEPT ![s] = <<>>]
  /\ IF up[s] # <<>> /\ Head(up[s]) = Hello
       THEN Meet(met) /\ UNCHANGED <<slots, line, down>>
       ELSE Leaves(s[1], open \ {s}, met)
  /\ UNCHANGED <<linkVars, pending, callVars>>

\* The heartbeats of a device reach the server.
Beating(d) ==
  /\ d \in linked /\ Socket(d) \in open
  /\ \E c \in beating : DeviceOf[c] = d

\* The device counts on its slot, or is about to.
Counts(d) ==
  \/ \E c \in Calls : DeviceOf[c] = d /\ pc[c] \in {"asking"} \union Running
  \/ \E i \in 1 .. Len(down[Socket(d)]) : down[Socket(d)][i].type = "granted"

\* The timer that drops a slot 90 s after its last heartbeat.
Expire(d) ==
  /\ d \in slots /\ ~Beating(d)
  /\ GrantNext(line, open, When(Counts(d), "expired"))
  /\ UNCHANGED <<open, linkVars, pending, callVars, up>>

\* Entries become too old in the order they came.
Age(i) ==
  /\ ~line[i].old
  /\ i > 1 => line[i - 1].old
  /\ line' = [line EXCEPT ![i].old = TRUE]
  /\ UNCHANGED <<slots, open, linkVars, pending, callVars, up, down, hazards>>

\* The server restarts, once: slots and line are in memory only.
ServerRestarts ==
  /\ "restart" \notin hazards
  /\ slots' = {} /\ line' = <<>> /\ open' = {}
  /\ up' = [s \in Sockets |-> <<>>]
  /\ Meet({"restart"})
  /\ UNCHANGED <<linkVars, pending, callVars, down>>

-----------------------------------------------------------------------------
Next ==
  \/ \E c \in Calls : \/ Ask(c) \/ Cancel(c) \/ SyncStarts(c) \/ SyncEnds(c)
                      \/ MarkFails(c)
  \/ \E d \in Devices : \/ Receive(d) \/ Timeout(d) \/ Expire(d)
                        \/ LosesConnection(d) \/ Disconnect(d) \/ Connect(d)
  \/ \E s \in Sockets : Serve(s) \/ SocketGone(s)
  \/ \E i \in 1 .. Len(line) : Age(i)
  \/ ServerRestarts

Spec == Init /\ [][Next]_vars

\* Messages arrive and timers fire; a sync comes to an end; either end notices
\* in the end that the other is gone, and a device connects again.  Nobody has
\* to ask for a sync or to give one up, and no entry has to grow old.
Fairness ==
  /\ \A c \in Calls : WF_vars(SyncStarts(c)) /\ WF_vars(SyncEnds(c))
  /\ \A d \in Devices :
       /\ WF_vars(Receive(d)) /\ WF_vars(Timeout(d)) /\ WF_vars(Expire(d))
       /\ WF_vars(Connect(d))
       /\ WF_vars(Socket(d) \notin open /\ LosesConnection(d))
  /\ \A s \in Sockets :
       WF_vars(Serve(s)) /\ WF_vars(~OnLine(s) /\ SocketGone(s))

FairSpec == Spec /\ Fairness

-----------------------------------------------------------------------------
(* What the slot promises                                                  *)

\* The server's own bookkeeping (server.js:362-451): at most one device holds
\* the slot, a device has one entry in the line and none while it holds the
\* slot, whatever requests, releases, disconnects and expiries come in which
\* order.
OneHolder == \A d, e \in slots : d = e
LineConsistent ==
  /\ \A i \in 1 .. Len(line) : /\ line[i].device \notin slots
                               /\ line[i].socket[1] = line[i].device
  /\ \A i, k \in 1 .. Len(line) : line[i].device = line[k].device => i = k
SlotsConsistent == OneHolder /\ LineConsistent

\* Nobody waits for a free slot (server.js:125-140): every handler that frees
\* the slot passes it on, past entries that are too old or whose socket is
\* gone, or leaves no one in the line.
NoIdleSlot == line # <<>> => slots # {}

\* A sync that was told "granted" has the slot of its device for as long as it
\* runs, and with OneHolder is the only one that was (realtimeOperationsService
\* .js:321-358, server.js:362-423), unless the slot expired under it, a
\* connection or the server failed, another call of the same device gave the
\* slot back, or the answer to an earlier request was taken for its own.
Protected == {"expired", "drop", "restart", "mistaken", "shared"}
GrantedHoldsSlot ==
  hazards \intersect Protected = {} =>
    \A c \in granted : pc[c] \in Running => DeviceOf[c] \in slots

\* A job that waits in the renderer is admitted in the end (renderer.js:2118,
\* :4324) or given up, unless its place in the line was lost: to a later request
\* or a release of the same device, to a failed connection (a restart of the
\* server is one), or to QUEUE_TIMEOUT_MS; or a heartbeat timer left running
\* (main.js:3423-3424) keeps a slot that nobody uses.
LosesPlace == {"displaced", "shared", "drop", "unqueued", "leak"}
WaiterIsAdmitted ==
  \A c \in Calls :
    pc[c] = "waiting" ~> pc[c] # "waiting" \/ hazards \intersect LosesPlace # {}

\* The slot comes back (server.js:143-154): whatever was lost on the way, the
\* slot is free when no more syncs are asked for, unless a heartbeat timer was
\* left running.
SlotComesBack == [](hazards \intersect {"leak"} = {}) => <>[](slots = {})

-----------------------------------------------------------------------------
(* The invariant behind GrantedHoldsSlot                                   *)

Fine == hazards \intersect Protected = {}

FirstSocket(d) == <<d, 1>>

\* No connection was lost: each device has its first socket, and nothing else is open.
Links ==
  /\ linked = Devices /\ open = Devices \X {1}
  /\ \A d \in Devices : session[d] = 1
  /\ \A s \in Sockets \ open : up[s] = <<>> /\ down[s] = <<>>

\* The request of c is on its way to the server, a grant for it to the device.
Asked(c) ==
  LET sent == up[FirstSocket(DeviceOf[c])] IN
  \E i \in 1 .. Len(sent) : sent[i] = Request(c)
Answered(c) ==
  LET sent == down[FirstSocket(DeviceOf[c])] IN
  \E i \in 1 .. Len(sent) : sent[i] = Response("granted", c)

\* What speaks of a call was sent by its device, or to it, after the call began;
\* what the server has made of its request came after the request.
UpOrigin ==
  \A s \in Sockets, c \in Calls : \A i \in 1 .. Len(up[s]) : up[s][i] = Request(c) =>
    /\ s[1] = DeviceOf[c] /\ pc[c] # "idle"
    /\ \A k \in 1 .. Len(up[s]) : up[s][k] = Request(c) => k = i

LineOrigin ==
  \A c \in Calls : \A i \in 1 .. Len(line) : line[i].call = c =>
    /\ line[i].device = DeviceOf[c] /\ line[i].socket = FirstSocket(DeviceOf[c])
    /\ pc[c] # "idle" /\ ~Asked(c)

DownOrigin ==
  \A s \in Sockets, c \in Calls : \A i \in 1 .. Len(down[s]) :
    down[s][i] = Response("granted", c) =>
      s[1] = DeviceOf[c] /\ pc[c] # "idle" /\ ~Asked(c)

GrantOrigin == \A c \in granted : pc[c] \in Running \union {"done"} /\ ~Asked(c)

Origin == UpOrigin /\ LineOrigin /\ DownOrigin /\ GrantOrigin

PendingAsks ==
  \A d \in Devices : pending[d] # None =>
    DeviceOf[pending[d]] = d /\ pc[pending[d]] = "asking"

\* A release on its way was sent before whoever is busy now has asked.
ReleasesFirst ==
  \A c \in Calls : pc[c] \in Busy =>
    LET sent == up[FirstSocket(DeviceOf[c])] IN
    \A i \in 1 .. Len(sent) : sent[i] = Release =>
      \E k \in i + 1 .. Len(sent) : sent[k] = Request(c)

\* A grant is true from the moment it is sent.
Told(c) == pc[c] \in Busy /\ (Answered(c) \/ (c \in granted /\ pc[c] \in Running))
Promised == \A c \in Calls : Told(c) => DeviceOf[c] \in slots

\* What holds until the first of the hazards.
Held == Links /\ Origin /\ PendingAsks /\ ReleasesFirst /\ Promised
HeldInv == Fine => Held

=============================================================================
