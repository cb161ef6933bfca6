----------------------------- MODULE MCLifecycle -----------------------------
(* An instance of Lifecycle for TLC, in which every step that can fails.    *)
EXTENDS Lifecycle

MCFails == MayFail
=============================================================================
