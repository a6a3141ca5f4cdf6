------------------------------- MODULE MCAsync -------------------------------
(***************************************************************************)
(* AsyncInference for TLC.  The runs check liveness, so none of them uses  *)
(* the symmetry of the workers of the pool.                                *)
(***************************************************************************)
EXTENDS AsyncInference
=============================================================================
