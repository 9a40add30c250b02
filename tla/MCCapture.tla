------------------------------- MODULE MCCapture -------------------------------
(***************************************************************************)
(* Instances of CaptureCoordinator for TLC: two chunks, a queue with room  *)
(* for one job, one snapshot a tick.                                       *)
(***************************************************************************)
EXTENDS CaptureCoordinator

MCChunk == {1, 2}

=============================================================================
