------------------------------- MODULE MCClient -------------------------------
(***************************************************************************)
(* A scenario of two clips: the first leads back to itself, on to the      *)
(* second or to the end, the second to the end.                            *)
(***************************************************************************)
EXTENDS Client

CONSTANTS shout, calm

MCLeads == (shout :> {shout, calm, None}) @@ (calm :> {None})

===============================================================================
