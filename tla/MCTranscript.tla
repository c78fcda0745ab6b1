---------------------------- MODULE MCTranscript -----------------------------
(***************************************************************************)
(* The instance of Transcript that TLC checks.                               *)
(***************************************************************************)
EXTENDS Transcript, TLC
=============================================================================
