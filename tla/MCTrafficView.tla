--------------------------- MODULE MCTrafficView ---------------------------
(***************************************************************************)
(* A small instance of TrafficView: a daemon that keeps and lists the      *)
(* newest of three records and restarts once, which is enough for a record *)
(* to be gone while it is selected, listed or replayed, and for two        *)
(* daemons to reuse an id.                                                 *)
(***************************************************************************)
EXTENDS TrafficView
=============================================================================
