----------------------------- MODULE MCPreview ------------------------------
(* Model-checking instance of Preview. *)
EXTENDS Preview

MCOffsets == {1}
=============================================================================
