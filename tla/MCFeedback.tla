----------------------------- MODULE MCFeedback -----------------------------
(* One debrief (debriefs share nothing but the container) of up to three     *)
(* tokens, through a container that may crash twice.                         *)
EXTENDS Feedback
=============================================================================
