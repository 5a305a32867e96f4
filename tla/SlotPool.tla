------------------------------ MODULE SlotPool ------------------------------
(***************************************************************************)
(* What the app container's session manager promises about capacity: a     *)
(* fixed number of slots, handed out while any is free, and a bounded      *)
(* waiting line served strictly first come, first served.  A slot that is  *)
(* given back goes to the head of the line, or, when nobody waits, becomes *)
(* free; nobody joins the line while a slot is free.                       *)
(*                                                                         *)
(* SessionManager.tla implements this specification under the mapping      *)
(* held <- activeSlots, line <- queue.                                     *)
(***************************************************************************)
EXTENDS Integers, Sequences

CONSTANTS
  Customers,   (* whoever may wait for a slot           *)
  Capacity,    (* number of slots                       *)
  LineLimit    (* the most customers that may wait      *)

VARIABLES
  held,        (* slots the pool counts as handed out   *)
  line         (* customers waiting, longest wait first *)

poolVars == <<held, line>>

PoolInit ==
  /\ held = 0
  /\ line = <<>>

TakeSlot ==
  /\ held < Capacity
  /\ held' = held + 1
  /\ UNCHANGED line

JoinLine(c) ==
  /\ held >= Capacity
  /\ Len(line) < LineLimit
  /\ line' = Append(line, c)
  /\ UNCHANGED held

HandOver ==
  /\ line # <<>>
  /\ line' = Tail(line)
  /\ UNCHANGED held

FreeSlot ==
  /\ line = <<>>
  /\ held' = held - 1
  /\ UNCHANGED line

PoolNext ==
  \/ TakeSlot
  \/ \E c \in Customers : JoinLine(c)
  \/ HandOver
  \/ FreeSlot

PoolSpec == PoolInit /\ [][PoolNext]_poolVars

=============================================================================
