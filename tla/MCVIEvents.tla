----------------------------- MODULE MCVIEvents ------------------------------
(***************************************************************************)
(* VIEvents for TLC: two datacenters that share an event, five events      *)
(* below the root, pages of two, a channel of one page.  So a collector    *)
(* takes three pages, and the caller can find the channel full.            *)
(***************************************************************************)
EXTENDS VIEvents
CONSTANTS d1, d2, root
MCDC == {d1, d2}
MCEventsIn ==
  [r \in {d1, d2, root} |-> CASE r = d1 -> {1, 3, 5} [] r = d2 -> {2, 3} [] r = root -> 1..5]
=============================================================================
