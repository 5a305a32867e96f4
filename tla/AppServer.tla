------------------------------ MODULE AppServer ------------------------------
(***************************************************************************)
(* The app container at work: the HTTP routes and the WebSocket handler of *)
(* app/src/main.ts, ClipController (clip-controller.ts), Coordinator       *)
(* (coordinator.ts) and ClipSession (clip-session.ts) around one           *)
(* SessionManager.                                                         *)
(*                                                                         *)
(* A step is what Node runs without returning to the event loop.  A clip   *)
(* transition (handleClipEnded) therefore takes several: up to the wait    *)
(* for the final transcript, up to the wait for the evaluation, up to the  *)
(* wait for the two resets, and the rest.  Between them anything may       *)
(* happen to its session, and the transition never looks.                  *)
(*                                                                         *)
(* ClipSessions are numbered, and know the clip they were made for; a      *)
(* window and the evaluation of it carry both, so that a result can be     *)
(* traced to the response and to the clip it judges.  A number nobody      *)
(* refers to any more is used again.                                       *)
(***************************************************************************)
EXTENDS SessionContext, FiniteSets

CONSTANTS
  Sessions, MaxSessions, MaxQueueSize, CapacityPolicy,
  Admins,          (* the sessions created with an admin token              *)
  MaxSockets,      (* bound: WebSockets opened in a behaviour               *)
  MaxTurns,        (* bound: turns in a session's history                   *)
  Transitions,     (* bound: requests that wait in the middle at a time     *)
  Scenarios,       (* scenario ids                                          *)
  Guidance,        (* what a scenario's metadata says to the coach          *)
  Entry,           (* [Scenarios -> clip]: the entry clip                   *)
  Branches,        (* [clip -> sequence of [min, max, next]]                *)
  ScenarioOf,      (* [clip -> scenario]                                    *)
  Scores,          (* escalation scores, in tenths                          *)
  Faults           (* what else may happen: see the definitions below       *)

VARIABLES
  state, queuePosition, queue, activeSlots, timers, strays,
  promotionCallbacks, notified,
  context,         (* [Sessions -> SessionContext record]                   *)
  sockets,         (* the WebSockets in the order they were opened          *)
  entries,         (* Coordinator.sessions                                  *)
  streams,         (* ClipSessions whose transcription WebSocket is up      *)
  pending          (* requests that wait in the middle                      *)

NoSocket == 0

SM == INSTANCE SessionManager WITH
        Callbacks <- 1..MaxSockets, NoCallback <- NoSocket

appVars == <<context, sockets, entries, streams, pending>>
smVars == <<state, queuePosition, queue, activeSlots, timers, strays,
            promotionCallbacks, notified>>
vars == <<smVars, appVars>>

(* The orders of events a run may add to the usual ones:
   late_heartbeat    the heartbeat gives up a socket whose session is queued
                     or over,
   racing_end        POST /session/{id}/end overlaps a transition,
   slow_transition   a transition outlasts the recovery window, or the
                     client's return,
   wrong_clip        clip_ended names another clip than the one the session
                     is at, or none of the scenario's. *)
FaultKinds == {"late_heartbeat", "racing_end", "slow_transition", "wrong_clip"}

ASSUME FaultAssumption == Faults \subseteq FaultKinds
ASSUME SizesAssumption ==
  /\ MaxSessions \in Nat \ {0} /\ MaxQueueSize \in Nat
  /\ CapacityPolicy \in {"QUEUE", "REJECT"}
  /\ MaxSockets \in Nat
  /\ IsFiniteSet(Sessions) /\ IsFiniteSet(Transitions)
ASSUME CatalogueAssumption ==
  /\ \A sc \in Scenarios : ScenarioOf[Entry[sc]] = sc
  /\ DOMAIN ScenarioOf = DOMAIN Branches

Clips == DOMAIN Branches
Idle == [phase |-> "idle"]
Flushing == {"flushing", "analysing"}
Busy(s) == \E t \in Transitions : pending[t] # Idle /\ pending[t].session = s

(* Unless a transition may be slow, it is over before the recovery window,
   the connection timeout or the client's return can meet it. *)
Settled(s) == "slow_transition" \in Faults \/ ~Busy(s)

(* Unless it may race, POST /session/{id}/end and a transition of the session
   do not overlap. *)
Ending(s) ==
  \E t \in Transitions : pending[t].phase \in Flushing
                          /\ pending[t].kind = "end" /\ pending[t].session = s
MayEnd(s) == "racing_end" \in Faults \/ ~Busy(s)
MayStart(s) == "racing_end" \in Faults \/ ~Ending(s)

(* The client names the clip it was told to play. *)
MayName(s) ==
  IF "wrong_clip" \in Faults THEN Clips \cup {None} ELSE {context[s].clip}

-----------------------------------------------------------------------------
(* Coordinator: entries and ClipSessions. *)

(* Definitions named Bad... are slips the code could contain; no action uses
   one.  See SessionManager.tla. *)

(* What the evaluation of a window comes to: Evaluation gets the clip with the
   window, and judges the response by the rubric of that clip. *)
BehaviourResult(window, clip, score) ==
  [window |-> window, clip |-> clip, score |-> score]

(* collects: the clip the record's ClipSession was made for. *)
NoEntry == [object |-> 0, collects |-> None, stream |-> 0, result |-> None]

InUse ==
  streams
    \cup (UNION {{entries[s].object, entries[s].stream} : s \in Sessions})
    \cup {entries[s].result.window :
            s \in {u \in Sessions : entries[u].result # None}}
    \cup (UNION {{pending[t].object, pending[t].stream} :
            t \in {u \in Transitions : pending[u].phase \in Flushing}})

Fresh == CHOOSE n \in 1..(Cardinality(InUse) + 1) : n \notin InUse

(* registerSession puts a new record over the old one, if any, as it is. *)
Register(s, clip) ==
  /\ entries' = [entries EXCEPT ![s] =
       [object |-> Fresh, collects |-> clip, stream |-> Fresh, result |-> None]]
  /\ streams' = streams \cup {Fresh}

(* flushSession drops the previous clip's result first. *)
BadForgetResult(s) == entries
ForgetResult(s) == [entries EXCEPT ![s].result = None]

Without(e, s) == [e EXCEPT ![s] = NoEntry]

(* ClipSession.close, for the ClipSession that map e holds for session s. *)
BadClose(e, s) == streams
Close(e, s) == streams \ {e[s].stream}

(* deregisterSession closes the ClipSession the record holds. *)
Deregister(s) ==
  /\ entries' = Without(entries, s)
  /\ streams' = Close(entries, s)

-----------------------------------------------------------------------------
(* ClipController: what a clip leads to. *)

(* resolveNextClip: the first condition whose half-open interval holds the
   score; null when there is none, and for a clip the scenario lacks. *)
NextClip(clip, score) ==
  LET conds == IF clip \in Clips THEN Branches[clip] ELSE <<>>
      hits  == {i \in 1..Len(conds) :
                  conds[i].min <= score /\ score < conds[i].max}
  IN IF hits = {} THEN None
     ELSE conds[CHOOSE i \in hits : \A j \in hits : i <= j].next

(* A clip id the bound scenario does not have leaves no turn. *)
Known(ctx, clip) == clip \in Clips /\ ScenarioOf[clip] = ctx.scenario
InScenario(ctx, clip) == IF Known(ctx, clip) THEN clip ELSE None

(* Of the response in a turn the model keeps whose evaluation it is: that of
   the window the flush began with, judged as a response to the turn's clip;
   or that of another window, or judged by another clip's rubric. *)
Judged(clip, window, result) ==
  IF result = None THEN "fallback"
  ELSE IF result.window = window /\ result.clip = clip THEN "own" ELSE "other"

Turn(clip, window, result) ==
  [clip |-> clip, judged |-> Judged(clip, window, result)]

Record(ctx, clip, window, result) ==
  IF clip = None THEN ctx ELSE AppendTurn(ctx, Turn(clip, window, result))

(* The end of a transition: advance to the next clip or complete.  Neither
   looks at the state the session is in by now. *)
Finish(s, next, ctx) ==
  \/ /\ next # None
     /\ context' = [context EXCEPT ![s] = SetCurrentClip(ctx, next)]
     /\ SM!MarkActive(s)
     /\ UNCHANGED <<entries, streams>>
  \/ /\ next = None
     /\ context' = [context EXCEPT ![s] = ctx]
     /\ SM!EndSession(s)
     /\ Deregister(s)

-----------------------------------------------------------------------------
(* HTTP routes. *)

Init ==
  /\ SM!Init
  /\ context = [s \in Sessions |-> FreshContext(FALSE)]
  /\ sockets = <<>>
  /\ entries = [s \in Sessions |-> NoEntry]
  /\ streams = {}
  /\ pending = [t \in Transitions |-> Idle]

(* POST /session/create *)
CreateSession(s) ==
  /\ SM!Create(s)
  /\ context' = [context EXCEPT ![s] = FreshContext(s \in Admins)]
  /\ UNCHANGED <<sockets, entries, streams, pending>>

(* POST /session/{id}/resume *)
ResumeSession(s) ==
  /\ Settled(s)
  /\ SM!ResumeSession(s)
  /\ UNCHANGED appVars

(* POST /session/{id}/end waits for the flush, then ends the session and
   leaves its Coordinator entry where it is. *)
EndCall(s) ==
  /\ MayEnd(s)
  /\ SM!Exists(s)
  /\ \/ /\ entries[s] = NoEntry
        /\ SM!EndSession(s)
        /\ UNCHANGED <<entries, pending>>
     \/ /\ entries[s] # NoEntry
        /\ \E t \in Transitions :
             /\ pending[t] = Idle
             /\ pending' = [pending EXCEPT ![t] =
                  [phase |-> "flushing", kind |-> "end", session |-> s,
                   object |-> entries[s].object, collects |-> entries[s].collects,
                   stream |-> entries[s].stream]]
        /\ entries' = ForgetResult(s)
        /\ UNCHANGED smVars
  /\ UNCHANGED <<context, sockets, streams>>

-----------------------------------------------------------------------------
(* The WebSocket handler. *)

OpenSocket(s) ==
  LET k == Len(sockets) + 1 IN
    /\ k <= MaxSockets
    /\ sockets' = Append(sockets, [session |-> s, open |-> TRUE,
                                   waited |-> state[s] = "QUEUED"])
    /\ \/ state[s] = "CONNECTING" /\ UNCHANGED smVars
       \/ state[s] = "QUEUED" /\ SM!SetQueuedSocket(s, k)
    /\ UNCHANGED <<context, entries, streams, pending>>

IsOpen(k) == k <= Len(sockets) /\ sockets[k].open
SessionOf(k) == sockets[k].session

(* What request_clip { activate: true } checks in a CONNECTING session. *)
MayActivate(ctx, scenario, clip) ==
  /\ ScenarioOf[clip] = scenario
  /\ IF Bound(ctx) THEN scenario = ctx.scenario
                   ELSE ctx.admin \/ clip = Entry[scenario]

(* The setter calls of handleRequestClip, in the order of the code. *)
BindClip(ctx, scenario, clip) ==
  LET guide == Guidance[scenario]
      c1 == SetScenario(ctx, scenario)
      c2 == SetCoachingContext(c1, guide.coaching)
      c3 == SetLearningObjectives(c2, guide.objectives)
      c4 == SetTargetAudience(c3, guide.audience)
  IN SetCurrentClip(c4, clip)

(* request_clip { activate: true }.  In any other state the request changes
   nothing, like request_clip { activate: false } and get_scenarios. *)
RequestClip(k) ==
  LET s == SessionOf(k) IN
    /\ IsOpen(k)
    /\ state[s] = "CONNECTING"
    /\ \E clip \in Clips, scenario \in Scenarios :
         /\ MayActivate(context[s], scenario, clip)
         /\ context' = [context EXCEPT ![s] = BindClip(@, scenario, clip)]
         /\ Register(s, clip)
    /\ SM!MarkActive(s)
    /\ UNCHANGED <<sockets, pending>>

(* clip_ended: pause, tell the candidates, flush.  The clip is the one the
   message names; nothing compares it with the session's current clip, nor
   with the one its ClipSession was made for.
   Without a Coordinator entry nothing is waited for: the turn gets the
   fallback result, and the score 0 decides. *)
ClipEnded(k, t) ==
  LET s == SessionOf(k) IN
    /\ IsOpen(k)
    /\ state[s] = "ACTIVE"
    /\ Len(context[s].turns) < MaxTurns
    /\ MayStart(s)
    /\ \E named \in MayName(s) :
         LET clip == InScenario(context[s], named) IN
           \/ /\ entries[s] # NoEntry
              /\ pending[t] = Idle
              /\ SM!MarkPaused(s)
              /\ entries' = ForgetResult(s)
              /\ pending' = [pending EXCEPT ![t] =
                   [phase |-> "flushing", kind |-> "clip", session |-> s,
                    clip |-> clip, object |-> entries[s].object,
                    collects |-> entries[s].collects, stream |-> entries[s].stream]]
              /\ UNCHANGED <<context, streams>>
           \/ /\ entries[s] = NoEntry
              /\ Finish(s, NextClip(clip, 0), Record(context[s], clip, 0, None))
              /\ UNCHANGED pending
    /\ UNCHANGED sockets

Closed(k) == [sockets EXCEPT ![k].open = FALSE]

BadDropsOnClose(s) == SM!Exists(s)
DropsOnClose(s) == state[s] \in {"ACTIVE", "PAUSED"}

(* The close event: only a running session is dropped, whichever of its
   sockets this was. *)
CloseSocket(k) ==
  LET s == SessionOf(k) IN
    /\ IsOpen(k)
    /\ sockets' = Closed(k)
    /\ \/ /\ DropsOnClose(s)
          /\ Deregister(s)
          /\ SM!MarkDropped(s)
       \/ /\ ~DropsOnClose(s)
          /\ UNCHANGED <<smVars, entries, streams>>
    /\ UNCHANGED <<context, pending>>

(* The heartbeat gives a silent socket up: the session is dropped, whatever
   state it is in.  The close event that follows finds it DROPPED. *)
HeartbeatTimeout(k) ==
  LET s == SessionOf(k) IN
    /\ IsOpen(k)
    /\ state[s] \in SM!SlotStates \/ "late_heartbeat" \in Faults
    /\ sockets' = Closed(k)
    /\ Deregister(s)
    /\ SM!MarkDropped(s)
    /\ UNCHANGED <<context, pending>>

-----------------------------------------------------------------------------
(* Requests that wait in the middle. *)

Done(t) == [pending EXCEPT ![t] = Idle]

(* handleClipEnded from the flush to the resets; e is the Coordinator's map
   when the flush returns.  The result is read from the session's present
   entry, the resets go to the present entry's ClipSession. *)
Decide(t, e) ==
  LET s      == pending[t].session
      result == IF e[s] = NoEntry THEN None ELSE e[s].result
      score  == IF result = None THEN 0 ELSE result.score
      next   == NextClip(pending[t].clip, score)
      ctx    == Record(context[s], pending[t].clip, pending[t].stream, result)
  IN
    \/ /\ e[s] = NoEntry
       /\ Finish(s, next, ctx)
       /\ pending' = Done(t)
       /\ UNCHANGED sockets
    \/ /\ e[s] # NoEntry
       /\ context' = [context EXCEPT ![s] = ctx]
       /\ pending' = [pending EXCEPT ![t] =
            [phase |-> "resetting", session |-> s, next |-> next]]
       /\ \/ /\ next = None
             /\ entries' = e
             /\ streams' = Close(e, s)
          \/ /\ next # None
             /\ entries' = [e EXCEPT ![s].stream = Fresh, ![s].collects = next]
             /\ streams' = Close(e, s) \cup {Fresh}
       /\ UNCHANGED <<smVars, sockets>>

BadAfterFlush(t, e) ==
  /\ entries' = e
  /\ pending' = Done(t)
  /\ UNCHANGED <<smVars, context, sockets, streams>>

(* What follows `await coord.flushSession`. *)
AfterFlush(t, e) ==
  \/ pending[t].kind = "clip" /\ Decide(t, e)
  \/ /\ pending[t].kind = "end"
     /\ SM!EndSession(pending[t].session)
     /\ entries' = e
     /\ pending' = Done(t)
     /\ UNCHANGED <<context, sockets, streams>>

(* The final transcript resolves the window, which goes to Evaluation; only a
   ClipSession whose WebSocket is up can receive it. *)
WindowReady(t) ==
  /\ pending[t].phase = "flushing"
  /\ pending[t].stream \in streams
  /\ pending' = [pending EXCEPT ![t].phase = "analysing"]
  /\ UNCHANGED <<smVars, context, sockets, entries, streams>>

(* CLIP_RESOLVE_TIMEOUT_MS passes without it. *)
FlushTimeout(t) ==
  /\ pending[t].phase = "flushing"
  /\ AfterFlush(t, entries)

(* Evaluation answers, with a result or with an error; the result goes into
   the entry the flush began with, which may no longer be the session's. *)
Analysed(t) ==
  LET s == pending[t].session
      mine == entries[s] # NoEntry /\ entries[s].object = pending[t].object
      With(r) == IF mine THEN [entries EXCEPT ![s].result = r] ELSE entries
  IN
    /\ pending[t].phase = "analysing"
    /\ \/ AfterFlush(t, entries)
       \/ \E score \in Scores :
            AfterFlush(t, With(BehaviourResult(pending[t].stream, pending[t].collects, score)))

(* Both reset requests are answered, or have failed. *)
ResetDone(t) ==
  /\ pending[t].phase = "resetting"
  /\ Finish(pending[t].session, pending[t].next, context[pending[t].session])
  /\ pending' = Done(t)
  /\ UNCHANGED sockets

Timeout(s) == Settled(s) /\ SM!Timeout(s) /\ UNCHANGED appVars

-----------------------------------------------------------------------------

Next ==
  \/ \E s \in Sessions :
       CreateSession(s) \/ ResumeSession(s) \/ EndCall(s) \/ OpenSocket(s)
         \/ Timeout(s)
  \/ \E k \in 1..MaxSockets :
       \/ RequestClip(k)
       \/ \E t \in Transitions : ClipEnded(k, t)
       \/ CloseSocket(k)
       \/ HeartbeatTimeout(k)
  \/ \E t \in Transitions :
       WindowReady(t) \/ FlushTimeout(t) \/ Analysed(t) \/ ResetDone(t)

Spec == Init /\ [][Next]_vars

-----------------------------------------------------------------------------
(* Properties. *)

SlotHolders == {s \in Sessions : state[s] \in SM!SlotStates}

(* The slot counter of the container counts the sessions that hold a slot,
   through drops, resumptions, late steps of transitions and hand-overs. *)
SlotAccounting == activeSlots = Cardinality(SlotHolders)

Running == {"ACTIVE", "PAUSED"}

StreamsOwned ==
  /\ \A n \in streams : \E s \in Sessions : entries[s].stream = n
  /\ \A s, u \in Sessions :
       (s # u /\ entries[s] # NoEntry) => entries[s].stream # entries[u].stream

(* The step in which POST /session/{id}/end, after its flush, completes s. *)
EndedByRequest(s) ==
  \E t \in Transitions :
    /\ pending[t].phase \in Flushing /\ pending[t].kind = "end"
    /\ pending[t].session = s /\ pending'[t] = Idle

(* A transcription WebSocket does not outlive the run of its session: each one
   that is up belongs to one session, which is running or complete, and it is
   closed in the very step in which the session stops running, be it dropped
   by a close or a heartbeat or completed by its last clip.  The exception is
   a session that POST /session/{id}/end completes: main.ts:239-255 leaves its
   record and its WebSocket where they are. *)
NoOrphanStream ==
  /\ [](StreamsOwned /\ \A s \in Sessions :
          entries[s] # NoEntry => state[s] \in Running \cup {"COMPLETED"})
  /\ [][\A s \in Sessions :
         state[s] \in Running /\ state'[s] \notin Running /\ ~EndedByRequest(s)
           => entries[s].stream \notin streams']_vars

(* A turn holds the evaluation of the window that was collected for its clip,
   judged by the rubric of that clip, or the fallback: never the score of
   another clip (coordinator.ts:127).  That clip_ended names the clip the
   session is at is the client's part in it: see wrong_clip. *)
TurnsJudgeTheirOwnClip ==
  \A s \in Sessions : \A i \in 1..Len(context[s].turns) :
    context[s].turns[i].judged # "other"

(* No lost wake-up: the last socket opened while its session was queued has
   been sent session_ready by the time the session has left the queue. *)
WaitersAreTold ==
  \A k \in 1..Len(sockets) :
    LET s == SessionOf(k)
        last == \A j \in (k + 1)..Len(sockets) :
                  ~(SessionOf(j) = s /\ sockets[j].waited)
    IN sockets[k].waited /\ last =>
         \/ k \in notified
         \/ s \in SM!Queued /\ promotionCallbacks[s] = k

(* A session is not left paused behind its clip: while it is PAUSED some
   transition of it is still under way and will advance or complete it. *)
PausedIsAttended == \A s \in Sessions : state[s] = "PAUSED" => Busy(s)

(* docs/session_lifecycle.md: an ACTIVE session's WebSocket is open, and when
   it is lost the recovery window runs.  A session with neither keeps its
   slot for ever and cannot be resumed. *)
RunningIsWatched ==
  \A s \in Sessions : state[s] = "ACTIVE" =>
    \/ \E k \in 1..MaxSockets : IsOpen(k) /\ SessionOf(k) = s
    \/ timers[s] # "none"

=============================================================================
