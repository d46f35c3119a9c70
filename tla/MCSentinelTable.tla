--------------------------- MODULE MCSentinelTable ---------------------------
(***************************************************************************)
(* Instance of SentinelTable for TLC: one other comet of each kind.        *)
(***************************************************************************)
EXTENDS SentinelTable
=============================================================================
