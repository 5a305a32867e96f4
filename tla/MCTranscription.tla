--------------------------- MODULE MCTranscription ---------------------------
(***************************************************************************)
(* A session of one or two clips, a window of two chunks, an overlap of    *)
(* one or two words and a pool of one or two models.                       *)
(***************************************************************************)
EXTENDS Transcription

=============================================================================
