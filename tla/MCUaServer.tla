----------------------------- MODULE MCUaServer -----------------------------
(***************************************************************************)
(* UaServer for TLC. Connections and session entries are taken by any free *)
(* name and no name is preferred, so that the states that differ only in   *)
(* the names are alike; the run checks safety only.                        *)
(***************************************************************************)
EXTENDS UaServer, TLC

Symmetry == Permutations(Conns) \cup Permutations(Sessions)
=============================================================================
