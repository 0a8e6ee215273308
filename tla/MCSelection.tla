---------------------------- MODULE MCSelection ----------------------------
(***************************************************************************)
(* Selection for TLC: two hosts and a datacenter that come and go, and one *)
(* reconnect.  Two hosts let a list differ from the one before it in what  *)
(* it holds and in order.                                                  *)
(***************************************************************************)
EXTENDS Selection
CONSTANTS s1, s2, h1, h2, d1
MCSession == {s1, s2}
MCHost == {h1, h2}
MCDatacenter == {d1}
=============================================================================
