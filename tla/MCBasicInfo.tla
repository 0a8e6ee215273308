----------------------------- MODULE MCBasicInfo -----------------------------
(***************************************************************************)
(* BasicInfo for TLC, with two hosts of the same base name.  Accounts is   *)
(* answered by a table whose second row lacks the first key, or by rows    *)
(* without a hint, which are saved as JSON; Modules has no rows to answer. *)
(***************************************************************************)
EXTENDS BasicInfo
CONSTANTS s1, s2, h1, h2, p1, p2
MCSession == {s1, s2}
MCHost == {h1, h2}
MCPermission == {p1, p2}
\* Neither the server nor the program tells hosts, or permissions, apart.
MCSymmetry == Permutations(MCHost) \cup Permutations(MCPermission)
MCNames == [h \in MCHost |-> "esx"]
MCKeyOf == 11 :> 1 @@ 12 :> 2

Gap == [table |-> TRUE, fields |-> <<12, 11>>, rows |-> <<1 :> 5 @@ 2 :> 6, 2 :> 7>>]
Plain == [table |-> FALSE, fields |-> <<>>, rows |-> <<1 :> 8>>]
None == [table |-> FALSE, fields |-> <<>>, rows |-> <<>>]
MCAnswersTo == "Accounts" :> {Gap, Plain} @@ "Modules" :> {None}
=============================================================================
