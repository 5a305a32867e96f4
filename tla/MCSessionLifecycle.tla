------------------------- MODULE MCSessionLifecycle -------------------------
(***************************************************************************)
(* The guarded lifecycle on four session ids, one slot and a queue of      *)
(* two: places in the queue move up, and an id can be refused because the  *)
(* queue is full.                                                          *)
(***************************************************************************)
EXTENDS SessionLifecycle

=============================================================================
