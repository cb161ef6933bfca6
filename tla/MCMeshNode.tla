----------------------------- MODULE MCMeshNode -----------------------------
(* Small instances of MeshNode for TLC, and a claim of its comments that    *)
(* the code does not keep.                                                  *)
EXTENDS MeshNode

(* keep_alive.cpp:20: "disconnect from parent if the root was unreachable   *)
(* for 10s".  A node that gives up its parent for this reason is cut off    *)
(* from the root.                                                           *)
GivesUpOnlyWhenCutOff ==
    [][UnreachableTimeout /\ parent # NoNode => state = CONN]_vars
=============================================================================
