-------------------------- MODULE MCSequenceRename --------------------------
(* Instance of SequenceRename for TLC.                                     *)
EXTENDS SequenceRename, TLC

CONSTANTS root, comp, ali, zain, new1, new2, old1, old2

\* Each photographer has files in one scope; new ones of ali come to both.
ScopeV == (new1 :> root) @@ (new2 :> comp) @@ (old1 :> root) @@ (old2 :> comp)
ByV == (new1 :> ali) @@ (new2 :> ali) @@ (old1 :> zain) @@ (old2 :> ali)

\* Both scopes are numbered, or the root in the other order, or ali twice in it.
In(s, o) == [scope |-> s, ordered |-> o]
PlansV == { <<In(root, <<<<ali, 1>>, <<zain, 2>>>>), In(comp, <<<<ali, 1>>>>)>>,
            <<In(root, <<<<zain, 1>>, <<ali, 2>>>>)>>,
            <<In(root, <<<<ali, 1>>, <<zain, 2>>, <<ali, 3>>>>)>> }
=============================================================================
