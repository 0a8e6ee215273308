--------------------------- MODULE MCSupportBundle ---------------------------
(***************************************************************************)
(* SupportBundle for TLC: two bundles of the same file name, one with a    *)
(* name of its own, of one or two blocks, over files of none or three.     *)
(***************************************************************************)
EXTENDS SupportBundle
CONSTANTS b1, b2, b3, f1, f2
MCBundle == {b1, b2, b3}
MCSize == [b \in MCBundle |-> IF b = b2 THEN 1 ELSE 2]
MCFile == {f1, f2}
MCNameOf == [b \in MCBundle |-> IF b = b3 THEN f2 ELSE f1]
=============================================================================
