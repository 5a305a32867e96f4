--------------------------- MODULE SessionManager ---------------------------
(***************************************************************************)
(* The lifecycle half of class SessionManager (app/src/session-manager.ts):*)
(* the state of every session, the capacity slots, the waiting queue, the  *)
(* connection and recovery timers, and the promotion callbacks.  The data  *)
(* half of a session (scenario, clips, turns) is in SessionContext.tla.    *)
(*                                                                         *)
(* Node runs each method to completion, so a method is one action, with    *)
(* everything it calls.  A timer callback is an action of its own.  There  *)
(* is no clock: an armed timer may fire at any moment.                     *)
(*                                                                         *)
(* Spec lets the rest of the container call any public method for any      *)
(* session at any time, which is all the class itself can rely on: its     *)
(* methods do not look at the state they are called in.                    *)
(* SessionLifecycle.tla is the class under callers that look first, and    *)
(* AppServer.tla composes it with the callers the container really has.    *)
(***************************************************************************)
EXTENDS Integers, Sequences

CONSTANTS
  Sessions,        (* session ids: randomUUID never repeats one             *)
  Callbacks,       (* promotion callbacks, one per WebSocket                *)
  NoCallback,
  MaxSessions,     (* config.maxSessions                                    *)
  MaxQueueSize,    (* config.maxQueueSize                                   *)
  CapacityPolicy   (* config.capacityPolicy: "QUEUE" or "REJECT"            *)

ASSUME ConfigAssumption ==
  /\ MaxSessions \in Nat \ {0}
  /\ MaxQueueSize \in Nat
  /\ CapacityPolicy \in {"QUEUE", "REJECT"}

ASSUME NoCallbackAssumption == NoCallback \notin Callbacks

VARIABLES
  state,               (* SessionContext.state; "NONE" before the id exists *)
  queuePosition,       (* SessionContext.queue_position                     *)
  queue,               (* this.queue                                        *)
  activeSlots,         (* this.activeSlots                                  *)
  timers,              (* this.timers: the live handle the map remembers    *)
  strays,              (* live timers whose map entry was overwritten       *)
  promotionCallbacks,  (* this.promotionCallbacks                           *)
  notified             (* callbacks that have been invoked                  *)

vars == <<state, queuePosition, queue, activeSlots, timers, strays,
          promotionCallbacks, notified>>

SlotStates == {"CONNECTING", "ACTIVE", "PAUSED", "DROPPED"}
SessionStates == SlotStates \cup {"QUEUED", "COMPLETED", "EXPIRED"}
TimerKinds == {"connection", "recovery"}
NoPosition == 0

Exists(s) == state[s] # "NONE"
Queued == {queue[i] : i \in 1..Len(queue)}

(* Definitions named Bad... are slips the code could contain; no action uses
   one.  Each stands before the definition it could replace and shows that
   some property of this project would notice. *)

BadHoldsSlot(s) == state[s] # "QUEUED"
HoldsSlot(s) == state[s] \in SlotStates

BadResumable(s) == state[s] \in {"DROPPED", "EXPIRED"}
Resumable(s) == state[s] = "DROPPED"

BadQueueHasRoom == Len(queue) <= MaxQueueSize
QueueHasRoom == Len(queue) < MaxQueueSize

-----------------------------------------------------------------------------
(* The helpers every method is made of. *)

(* A transition out of QUEUED forgets the position. *)
Forget(pos, s) == [pos EXCEPT ![s] = NoPosition]

(* timers.set on top of a handle that is still live leaves that one running
   where clearTimer no longer finds it. *)
Overwrite(sy, tm, s) == [sy EXCEPT ![s] = @ \cup ({tm[s]} \ {"none"})]

Arm(tm, s, kind) == [tm EXCEPT ![s] = kind]
Clear(tm, s) == [tm EXCEPT ![s] = "none"]

BadRenumber(pos, line) == pos

(* queue.forEach: everyone still in the line gets its index. *)
Renumber(pos, line) ==
  [s \in Sessions |->
     IF \E i \in 1..Len(line) : line[i] = s
     THEN CHOOSE i \in 1..Len(line) : line[i] = s
     ELSE pos[s]]

(* What queue.shift() returns and leaves. *)
BadShift == [next |-> queue[Len(queue)], rest |-> SubSeq(queue, 1, Len(queue) - 1)]
Shift == [next |-> Head(queue), rest |-> Tail(queue)]

(* The counter after releaseSlot's decrement and promoteNext's increment. *)
BadHandOver(slots) == slots - 1
HandOver(slots) == (slots - 1) + 1

(* The callback, if any, is invoked. *)
BadNotify(s) == notified
Notify(s) == notified \cup ({promotionCallbacks[s]} \ {NoCallback})

(* promoteNext: the head of the line gets the slot, whatever became of it
   since it joined the line. *)
PromoteNext(st, pos, tm, sy) ==
  LET next == Shift.next IN
    /\ queue # <<>>
    /\ queue' = Shift.rest
    /\ state' = [st EXCEPT ![next] = "CONNECTING"]
    /\ activeSlots' = HandOver(activeSlots)
    /\ timers' = Arm(tm, next, "connection")
    /\ strays' = Overwrite(sy, tm, next)
    /\ notified' = Notify(next)
    /\ promotionCallbacks' = [promotionCallbacks EXCEPT ![next] = NoCallback]
    /\ queuePosition' = Renumber(Forget(pos, next), Shift.rest)

(* releaseSlot, on top of what the caller made of the four maps. *)
ReleaseSlot(st, pos, tm, sy) ==
  \/ PromoteNext(st, pos, tm, sy)
  \/ /\ queue = <<>>
     /\ activeSlots' = activeSlots - 1
     /\ state' = st
     /\ queuePosition' = pos
     /\ timers' = tm
     /\ strays' = sy
     /\ UNCHANGED <<queue, promotionCallbacks, notified>>

(* The same four maps, when no slot is given back. *)
KeepSlot(st, pos, tm, sy) ==
  /\ state' = st
  /\ queuePosition' = pos
  /\ timers' = tm
  /\ strays' = sy
  /\ UNCHANGED <<queue, activeSlots, promotionCallbacks, notified>>

-----------------------------------------------------------------------------
(* The public methods. *)

Init ==
  /\ state = [s \in Sessions |-> "NONE"]
  /\ queuePosition = [s \in Sessions |-> NoPosition]
  /\ queue = <<>>
  /\ activeSlots = 0
  /\ timers = [s \in Sessions |-> "none"]
  /\ strays = [s \in Sessions |-> {}]
  /\ promotionCallbacks = [s \in Sessions |-> NoCallback]
  /\ notified = {}

(* createSession with a slot free. *)
CreateActive(s) ==
  /\ ~Exists(s)
  /\ activeSlots < MaxSessions
  /\ state' = [state EXCEPT ![s] = "CONNECTING"]
  /\ activeSlots' = activeSlots + 1
  /\ timers' = Arm(timers, s, "connection")
  /\ UNCHANGED <<queuePosition, queue, strays, promotionCallbacks, notified>>

(* createSession at capacity.  A rejected call changes nothing. *)
CreateQueued(s) ==
  /\ ~Exists(s)
  /\ activeSlots >= MaxSessions
  /\ CapacityPolicy = "QUEUE"
  /\ QueueHasRoom
  /\ state' = [state EXCEPT ![s] = "QUEUED"]
  /\ queuePosition' = [queuePosition EXCEPT ![s] = Len(queue) + 1]
  /\ queue' = Append(queue, s)
  /\ UNCHANGED <<activeSlots, timers, strays, promotionCallbacks, notified>>

ResumeSession(s) ==
  /\ Resumable(s)
  /\ KeepSlot([state EXCEPT ![s] = "CONNECTING"], Forget(queuePosition, s),
              Arm(timers, s, "connection"), strays)

(* endSession: the session stays in the queue if it is there. *)
EndSession(s) ==
  LET st  == [state EXCEPT ![s] = "COMPLETED"]
      pos == Forget(queuePosition, s)
      tm  == Clear(timers, s)
  IN /\ Exists(s)
     /\ \/ HoldsSlot(s) /\ ReleaseSlot(st, pos, tm, strays)
        \/ ~HoldsSlot(s) /\ KeepSlot(st, pos, tm, strays)

MarkActive(s) ==
  /\ Exists(s)
  /\ KeepSlot([state EXCEPT ![s] = "ACTIVE"], Forget(queuePosition, s),
              Clear(timers, s), strays)

MarkPaused(s) ==
  /\ Exists(s)
  /\ KeepSlot([state EXCEPT ![s] = "PAUSED"], Forget(queuePosition, s),
              timers, strays)

BadMarkDropped(s) ==
  /\ Exists(s)
  /\ KeepSlot([state EXCEPT ![s] = "DROPPED"], Forget(queuePosition, s),
              Clear(timers, s), strays)

MarkDropped(s) ==
  /\ Exists(s)
  /\ KeepSlot([state EXCEPT ![s] = "DROPPED"], Forget(queuePosition, s),
              Arm(timers, s, "recovery"), strays)

SetQueuedSocket(s, cb) ==
  /\ promotionCallbacks' = [promotionCallbacks EXCEPT ![s] = cb]
  /\ UNCHANGED <<state, queuePosition, queue, activeSlots, timers, strays,
                 notified>>

-----------------------------------------------------------------------------
(* The timer callbacks.  A timer that fires is either the one the map holds
   or a stray; tm and sy are what is live once it is spent. *)

ConnectionTimeout(s, tm, sy) ==
  \/ /\ state[s] = "CONNECTING"
     /\ KeepSlot([state EXCEPT ![s] = "DROPPED"], Forget(queuePosition, s),
                 Arm(tm, s, "recovery"), Overwrite(sy, tm, s))
  \/ /\ state[s] # "CONNECTING"
     /\ KeepSlot(state, queuePosition, tm, sy)

BadRecoveryTimeout(s, tm, sy) ==
  \/ /\ state[s] = "DROPPED"
     /\ KeepSlot([state EXCEPT ![s] = "EXPIRED"], Forget(queuePosition, s),
                 tm, sy)
  \/ /\ state[s] # "DROPPED"
     /\ KeepSlot(state, queuePosition, tm, sy)

RecoveryTimeout(s, tm, sy) ==
  \/ /\ state[s] = "DROPPED"
     /\ ReleaseSlot([state EXCEPT ![s] = "EXPIRED"], Forget(queuePosition, s),
                    tm, sy)
  \/ /\ state[s] # "DROPPED"
     /\ KeepSlot(state, queuePosition, tm, sy)

TimerFires(s) ==
  /\ timers[s] # "none"
  /\ \/ /\ timers[s] = "connection"
        /\ ConnectionTimeout(s, Clear(timers, s), strays)
     \/ /\ timers[s] = "recovery"
        /\ RecoveryTimeout(s, Clear(timers, s), strays)

StrayFires(s, kind) ==
  LET sy == [strays EXCEPT ![s] = @ \ {kind}] IN
    /\ kind \in strays[s]
    /\ \/ kind = "connection" /\ ConnectionTimeout(s, timers, sy)
       \/ kind = "recovery" /\ RecoveryTimeout(s, timers, sy)

Timeout(s) == TimerFires(s) \/ \E kind \in TimerKinds : StrayFires(s, kind)

-----------------------------------------------------------------------------
(* Any caller. *)

Create(s) == CreateActive(s) \/ CreateQueued(s)

Next ==
  \E s \in Sessions :
    \/ Create(s)
    \/ ResumeSession(s)
    \/ EndSession(s)
    \/ MarkActive(s)
    \/ MarkPaused(s)
    \/ MarkDropped(s)
    \/ Timeout(s)
    \/ \E cb \in Callbacks : SetQueuedSocket(s, cb)

Spec == Init /\ [][Next]_vars

-----------------------------------------------------------------------------
(* Properties. *)

(* Every variable has its type; the queue is within its limit. *)
TypeOK ==
  /\ state \in [Sessions -> SessionStates \cup {"NONE"}]
  /\ queuePosition \in [Sessions -> 0..MaxQueueSize]
  /\ queue \in Seq(Sessions)
  /\ Len(queue) <= MaxQueueSize
  /\ activeSlots \in Int
  /\ timers \in [Sessions -> TimerKinds \cup {"none"}]
  /\ strays \in [Sessions -> SUBSET TimerKinds]
  /\ promotionCallbacks \in [Sessions -> Callbacks \cup {NoCallback}]
  /\ notified \in SUBSET Callbacks

(* Whatever the callers do, the slot counter never passes maxSessions, and
   nobody waits in the queue while the counter shows a slot free. *)
NoIdleSlotWhileWaiting ==
  /\ activeSlots <= MaxSessions
  /\ queue # <<>> => activeSlots = MaxSessions

(* Whatever the callers do, the queue holds no session twice, holds every
   session that is told it is queued, and the position such a session is told
   (GET /session/{id}/queue) is its place in the line. *)
QueuePositionsExact ==
  /\ \A i, j \in 1..Len(queue) : queue[i] = queue[j] => i = j
  /\ \A s \in Sessions : state[s] = "QUEUED" => s \in Queued
  /\ \A i \in 1..Len(queue) :
       state[queue[i]] = "QUEUED" => queuePosition[queue[i]] = i

(* Whatever the callers do, a session that holds a slot only until a deadline
   has that deadline's timer armed: no abandoned session keeps its slot
   because its timer was lost. *)
DeadlinesArmed ==
  \A s \in Sessions :
    /\ state[s] = "CONNECTING" => timers[s] = "connection"
    /\ state[s] = "DROPPED" => timers[s] = "recovery"

(* The slots and the line behave as the pool of SlotPool.tla, whatever the
   callers do: first come, first served, and a slot given back is handed over. *)
Pool == INSTANCE SlotPool WITH
          Customers <- Sessions, Capacity <- MaxSessions,
          LineLimit <- MaxQueueSize, held <- activeSlots, line <- queue
ImplementsPool == Pool!PoolSpec

=============================================================================
