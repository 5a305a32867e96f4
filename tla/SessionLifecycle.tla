-------------------------- MODULE SessionLifecycle --------------------------
(***************************************************************************)
(* SessionManager under callers that look at the state in the very step in *)
(* which they call: the lifecycle of docs/session_lifecycle.md as the code *)
(* grants it when no call is late.  The guards are those of the request    *)
(* handlers in app/src/main.ts and app/src/clip-controller.ts.             *)
(***************************************************************************)
EXTENDS SessionManager, FiniteSets

ASSUME SessionsAssumption == IsFiniteSet(Sessions)

(* A request_clip that activates finds CONNECTING; ClipController.advance
   finds PAUSED when nothing happened to the session in the meantime. *)
Activate(s) == state[s] \in {"CONNECTING", "PAUSED"} /\ MarkActive(s)

(* clip_ended is ignored unless the session is ACTIVE. *)
EndClip(s) == state[s] = "ACTIVE" /\ MarkPaused(s)

(* The socket's close handler drops a running session only. *)
LoseSocket(s) == state[s] \in {"ACTIVE", "PAUSED"} /\ MarkDropped(s)

(* The WebSocket handler registers a callback for a queued session only. *)
AwaitSlot(s) == state[s] = "QUEUED" /\ \E cb \in Callbacks : SetQueuedSocket(s, cb)

(* POST /session/{id}/end and the timers look at nothing.  Under these
   guards no timer is ever overwritten while it is live (NobodyStrays in
   SessionLifecycleProofs), so that StrayFires has nothing to do here. *)
GuardedNext ==
  \E s \in Sessions :
    \/ Create(s)
    \/ ResumeSession(s)
    \/ EndSession(s)
    \/ Activate(s)
    \/ EndClip(s)
    \/ LoseSocket(s)
    \/ AwaitSlot(s)
    \/ TimerFires(s)

GuardedSpec == Init /\ [][GuardedNext]_vars

(* Node's event loop fires a timer whose time has come. *)
TimersRun == \A s \in Sessions : WF_vars(TimerFires(s))

FairGuardedSpec == GuardedSpec /\ TimersRun

-----------------------------------------------------------------------------
(* Properties. *)

SlotHolders == {s \in Sessions : state[s] \in SlotStates}

(* The slot counter counts the sessions that hold a slot: no slot is lost and
   none is given back twice, whichever of the ends (end, expiry, hand-over to
   the head of the queue) a session comes to. *)
SlotAccounting == activeSlots = Cardinality(SlotHolders)

Ended == {"COMPLETED", "EXPIRED"}

(* A session that has ended or expired and does not stand in the queue any
   more never lives again: no late timer and no call gives it a slot.  (A
   session ended while it waits is different: EndSession leaves it in the
   queue and PromoteNext gives it a slot.) *)
EndedStaysEnded ==
  [][\A s \in Sessions :
       (state[s] \in Ended /\ s \notin Queued) => state'[s] \in Ended]_vars

NoMoreResumes == <>[][\A s \in Sessions : ~ResumeSession(s)]_vars

(* Slots whose clients are gone reach the queue: if clients stop resuming,
   whoever waits is served unless a running session holds the slot. *)
WaitersServed ==
  NoMoreResumes =>
    \A s \in Sessions :
      (state[s] = "QUEUED") ~>
        \/ state[s] # "QUEUED"
        \/ \E t \in Sessions : state[t] \in {"ACTIVE", "PAUSED"}

=============================================================================
