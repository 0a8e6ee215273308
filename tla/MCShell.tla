------------------------------- MODULE MCShell -------------------------------
(***************************************************************************)
(* Shell for TLC.  Session bounds the number of logins, vim and SSO        *)
(* together: with three, a run can reconnect and have an SSO session, or   *)
(* reconnect twice, or have two SSO sessions.                              *)
(***************************************************************************)
EXTENDS Shell
CONSTANTS s1, s2, s3
MCSession == {s1, s2, s3}
=============================================================================
