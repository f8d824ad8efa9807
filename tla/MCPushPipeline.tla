--------------------------- MODULE MCPushPipeline ---------------------------
(* The instances of PushPipeline that TLC checks: the bounds are in the .cfg files. *)
EXTENDS PushPipeline
=============================================================================
