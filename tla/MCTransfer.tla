----------------------------- MODULE MCTransfer -----------------------------
(* Instance of Transfer for TLC.                                           *)
EXTENDS Transfer, TLC

CONSTANTS first, second, new, known, small, middle, large

\* The first call is a plain or an Update Import, the second a plain one or the
\* resumption of the first.  The new file may be edited later and may be put into
\* the archive by another; the known one is there with another size.
ModesV == (first :> {"plain", "update"}) @@ (second :> {"plain", "resume"})
BatchesV == <<<<new>>, <<known>>>>
SizeV == (small :> 1) @@ (middle :> 2) @@ (large :> 3)
OnDriveV == (new :> small) @@ (known :> middle)
EditV == (new :> middle) @@ (known :> None)
BeforeV == (new :> None) @@ (known :> large)
OtherV == (new :> large) @@ (known :> None)
=============================================================================
