----------------------------- MODULE MCRecording -----------------------------
(* Model checking Recording: two chunks of three pieces to a clip, and room
   for a second session. *)
EXTENDS Recording
=============================================================================
