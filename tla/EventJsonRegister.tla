-------------------------- MODULE EventJsonRegister --------------------------
(***************************************************************************)
(* What eventJsonStore.js promises: event.json is an atomic object.  A     *)
(* call is submitted, then either applied to the current document in one   *)
(* step or rejected without effect.                                        *)
(***************************************************************************)
EXTENDS EventJsonDoc

CONSTANT None

VARIABLES
  doc,   \* the document
  call   \* process -> the mutator it submitted and waits for, or None

Init ==
  /\ doc \in Docs
  /\ call = [p \in Procs |-> None]

Submit(p) ==
  /\ call[p] = None
  /\ call'[p] \in Mutators /\ call'[p].by = p
  /\ call' = [call EXCEPT ![p] = call'[p]]
  /\ UNCHANGED doc

Apply(p) ==
  /\ call[p] # None
  /\ doc' = Merge(call[p], doc)
  /\ call' = [call EXCEPT ![p] = None]

\* A mutator that throws, an unreadable document, a failed write, a crash.
Reject(P) ==
  /\ call' = [p \in Procs |-> IF p \in P THEN None ELSE call[p]]
  /\ UNCHANGED doc

Next ==
  \/ \E p \in Procs : Submit(p) \/ Apply(p)
  \/ \E P \in SUBSET Procs : Reject(P)

Spec == Init /\ [][Next]_<<doc, call>>

=============================================================================
