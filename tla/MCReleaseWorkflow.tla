------------------------- MODULE MCReleaseWorkflow -------------------------
(* Small instances of ReleaseWorkflow for TLC. *)
EXTENDS ReleaseWorkflow
=============================================================================
