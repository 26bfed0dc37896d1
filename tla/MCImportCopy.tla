---------------------------- MODULE MCImportCopy ----------------------------
(* Instances of ImportCopy for TLC.                                        *)
EXTENDS ImportCopy, TLC

CONSTANTS direct, quick, card, disk, fileA, fileB, name, name_1

\* Two files of one name and different sizes.
FilesV == {fileA, fileB}
NameV == (fileA :> name) @@ (fileB :> name)
SizeV == (fileA :> 1) @@ (fileB :> 2)
SuffixV == (name :> <<name_1>>) @@ (name_1 :> << >>)
BeforeV == (name :> None) @@ (name_1 :> None)

\* A Direct Archive import of both from a card, and a Quick Import of one of them
\* from another source.
SourceV == (direct :> card) @@ (quick :> disk)
ListV == (direct :> <<fileA, fileB>>) @@ (quick :> <<fileB>>)

\* The first of them alone.
SourceOneV == (direct :> card)
ListOneV == (direct :> <<fileA, fileB>>)
=============================================================================
