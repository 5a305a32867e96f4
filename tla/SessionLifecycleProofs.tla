----------------------- MODULE SessionLifecycleProofs -----------------------
(***************************************************************************)
(* Proofs about SessionManager under any sequence of calls (Spec), and     *)
(* about the guarded lifecycle (GuardedSpec), for any number of sessions,  *)
(* slots and places in the queue.                                          *)
(*                                                                         *)
(* Any callers.  The inductive invariant IInv is the conjunction of the    *)
(* invariants the run checks and of one more, QueuedExist: a new id is not *)
(* yet in the queue, and so joining it keeps the queue free of             *)
(* repetitions.  Every method but the creation of a session is a           *)
(* transition of one session that keeps the slot or gives it back, and     *)
(* gives it back to the head of the queue or to nobody.  There is one      *)
(* lemma for each of the three; the proof of the step applies them.        *)
(*                                                                         *)
(* Guarded callers.  The slot counter counts the sessions that hold a      *)
(* slot, and what has ended stays ended.  The guards only restrict the     *)
(* callers, so IInv carries over.  It is strengthened by QueuedHoldNoSlot: *)
(* PromoteNext gives its head a slot without looking at its state, and the *)
(* counter stays right because nobody in the queue holds one already.      *)
(***************************************************************************)
EXTENDS SessionLifecycle, FiniteSetTheorems, TLAPS

QueuedExist == \A i \in 1..Len(queue) : Exists(queue[i])

IInv ==
  /\ TypeOK
  /\ NoIdleSlotWhileWaiting
  /\ QueuePositionsExact
  /\ DeadlinesArmed
  /\ QueuedExist

Timers == [Sessions -> TimerKinds \cup {"none"}]
Strays == [Sessions -> SUBSET TimerKinds]

(* The timers a transition of s to state v may leave: those of the others as
   they were, and the one v waits for armed. *)
ArmedFor(tm, s, v) ==
  /\ \A u \in Sessions \ {s} : tm[u] = timers[u]
  /\ v = "CONNECTING" => tm[s] = "connection"
  /\ v = "DROPPED" => tm[s] = "recovery"

-----------------------------------------------------------------------------

(* What the tail of a queue is. *)
LEMMA TailOfQueue ==
  ASSUME NEW S, NEW q \in Seq(S), q # <<>>
  PROVE  /\ Head(q) = q[1]
         /\ Head(q) \in S
         /\ Tail(q) \in Seq(S)
         /\ Len(Tail(q)) = Len(q) - 1
         /\ Len(q) \in Nat \ {0}
         /\ \A i \in 1..Len(Tail(q)) : Tail(q)[i] = q[i + 1] /\ i + 1 \in 1..Len(q)
  OBVIOUS

(* Renumber gives every member of a queue without repetitions its index, and
   leaves the others alone. *)
LEMMA RenumberIsIndex ==
  ASSUME NEW q \in Seq(Sessions), NEW pos \in [Sessions -> Int],
         \A i, j \in 1..Len(q) : q[i] = q[j] => i = j
  PROVE  /\ \A i \in 1..Len(q) : Renumber(pos, q)[q[i]] = i
         /\ \A s \in Sessions :
              \/ \E i \in 1..Len(q) : q[i] = s /\ Renumber(pos, q)[s] = i
              \/ Renumber(pos, q)[s] = pos[s]
         /\ DOMAIN Renumber(pos, q) = Sessions
<1>1. \A i \in 1..Len(q) : q[i] \in Sessions
  OBVIOUS
<1>2. ASSUME NEW i \in 1..Len(q)
      PROVE  Renumber(pos, q)[q[i]] = i
  <2>1. q[i] \in Sessions
    BY <1>1
  <2>2. Renumber(pos, q)[q[i]] = CHOOSE j \in 1..Len(q) : q[j] = q[i]
    BY <2>1 DEF Renumber
  <2>3. (CHOOSE j \in 1..Len(q) : q[j] = q[i]) = i
    OBVIOUS
  <2> QED
    BY <2>2, <2>3
<1>3. ASSUME NEW s \in Sessions
      PROVE  \/ \E i \in 1..Len(q) : q[i] = s /\ Renumber(pos, q)[s] = i
             \/ Renumber(pos, q)[s] = pos[s]
  <2>1. CASE \E i \in 1..Len(q) : q[i] = s
    BY <1>2, <2>1
  <2>2. CASE ~ \E i \in 1..Len(q) : q[i] = s
    BY <2>2 DEF Renumber
  <2> QED
    BY <2>1, <2>2
<1>4. DOMAIN Renumber(pos, q) = Sessions
  BY DEF Renumber
<1> QED
  BY <1>2, <1>3, <1>4

(* A transition of one session that gives no slot back. *)
LEMMA TransitionKeepsSlot ==
  ASSUME IInv,
         NEW s \in Sessions, Exists(s),
         NEW v \in SessionStates \ {"QUEUED"},
         NEW tm \in Timers, NEW sy \in Strays, ArmedFor(tm, s, v),
         KeepSlot([state EXCEPT ![s] = v], Forget(queuePosition, s), tm, sy)
  PROVE  IInv'
<1> USE DEF IInv, KeepSlot, Forget, NoPosition, Timers, Strays
<1>1. TypeOK'
  BY ConfigAssumption DEF TypeOK
<1>2. NoIdleSlotWhileWaiting'
  BY DEF NoIdleSlotWhileWaiting
<1>3. QueuePositionsExact'
  BY DEF QueuePositionsExact, Queued, TypeOK
<1>4. DeadlinesArmed'
  BY DEF DeadlinesArmed, ArmedFor, TypeOK
<1>5. QueuedExist'
  BY DEF QueuedExist, Exists, TypeOK, SessionStates, SlotStates
<1> QED
  BY <1>1, <1>2, <1>3, <1>4, <1>5

(* A transition of one session that gives its slot to the head of the queue.
   The session may be the head itself, if it was ended while it waited. *)
LEMMA TransitionPromotes ==
  ASSUME IInv,
         NEW s \in Sessions, NEW v \in {"COMPLETED", "EXPIRED"},
         NEW tm \in Timers, NEW sy \in Strays, ArmedFor(tm, s, v),
         PromoteNext([state EXCEPT ![s] = v], Forget(queuePosition, s), tm, sy)
  PROVE  IInv'
<1> DEFINE next == Head(queue)
           pos == Forget(Forget(queuePosition, s), next)
<1>1. /\ queue \in Seq(Sessions) /\ queue # <<>>
      /\ queue' = Tail(queue)
      /\ queuePosition' = Renumber(pos, Tail(queue))
      /\ state' = [[state EXCEPT ![s] = v] EXCEPT ![next] = "CONNECTING"]
      /\ activeSlots' = (activeSlots - 1) + 1
      /\ timers' = [tm EXCEPT ![next] = "connection"]
      /\ strays' = [sy EXCEPT ![next] = @ \cup ({tm[next]} \ {"none"})]
      /\ notified' = notified \cup ({promotionCallbacks[next]} \ {NoCallback})
      /\ promotionCallbacks' = [promotionCallbacks EXCEPT ![next] = NoCallback]
  BY DEF PromoteNext, Shift, HandOver, Arm, Overwrite, Notify, IInv, TypeOK
<1>2. /\ next = queue[1] /\ next \in Sessions
      /\ queue' \in Seq(Sessions)
      /\ Len(queue') = Len(queue) - 1 /\ Len(queue) \in Nat \ {0}
      /\ \A i \in 1..Len(queue') : queue'[i] = queue[i + 1] /\ i + 1 \in 1..Len(queue)
  BY <1>1, TailOfQueue
<1>3. pos \in [Sessions -> 0..MaxQueueSize]
  BY <1>2, ConfigAssumption DEF IInv, TypeOK, Forget, NoPosition
<1>4. \A i, j \in 1..Len(queue') : queue'[i] = queue'[j] => i = j
  BY <1>2 DEF IInv, QueuePositionsExact
<1>5. /\ \A i \in 1..Len(queue') : queuePosition'[queue'[i]] = i
      /\ \A u \in Sessions :
           \/ \E i \in 1..Len(queue') : queue'[i] = u /\ queuePosition'[u] = i
           \/ queuePosition'[u] = pos[u]
      /\ DOMAIN queuePosition' = Sessions
  <2>1. pos \in [Sessions -> Int]
    BY <1>3, ConfigAssumption
  <2>2. queuePosition' = Renumber(pos, queue')
    BY <1>1
  <2>3. queue' \in Seq(Sessions)
    BY <1>2
  <2> HIDE DEF next, pos
  <2> QED
    BY <1>4, <2>1, <2>2, <2>3, RenumberIsIndex
<1>6. TypeOK'
  <2>1. queuePosition' \in [Sessions -> 0..MaxQueueSize]
    <3>1. Len(queue) <= MaxQueueSize
      BY DEF IInv, TypeOK
    <3>2. ASSUME NEW u \in Sessions
          PROVE  queuePosition'[u] \in 0..MaxQueueSize
      BY <1>2, <1>3, <1>5, <3>1, ConfigAssumption
    <3>3. queuePosition' = [u \in Sessions |-> queuePosition'[u]]
      BY <1>1 DEF Renumber
    <3> QED
      BY <3>2, <3>3
  <2>2. strays' \in Strays
    <3>1. {tm[next]} \ {"none"} \subseteq TimerKinds
      BY <1>2 DEF Timers
    <3> QED
      BY <1>1, <1>2, <3>1 DEF Strays
  <2>3. /\ timers' \in Timers
        /\ state' \in [Sessions -> SessionStates \cup {"NONE"}]
    BY <1>1, <1>2 DEF IInv, TypeOK, Timers, TimerKinds, SessionStates, SlotStates
  <2>4. /\ promotionCallbacks' \in [Sessions -> Callbacks \cup {NoCallback}]
        /\ notified' \in SUBSET Callbacks
    BY <1>1, <1>2 DEF IInv, TypeOK
  <2>5. queue' \in Seq(Sessions) /\ Len(queue') <= MaxQueueSize /\ activeSlots' \in Int
    BY <1>1, <1>2, ConfigAssumption DEF IInv, TypeOK
  <2> QED
    BY <2>1, <2>2, <2>3, <2>4, <2>5 DEF TypeOK, Timers, Strays
<1>7. NoIdleSlotWhileWaiting'
  BY <1>1, ConfigAssumption DEF IInv, TypeOK, NoIdleSlotWhileWaiting
<1>8. QueuePositionsExact'
  <2>1. ASSUME NEW u \in Sessions, state'[u] = "QUEUED"
        PROVE  u \in Queued'
    <3>1. u # next /\ state[u] = "QUEUED"
      BY <1>1, <1>2, <2>1 DEF IInv, TypeOK
    <3>2. PICK i \in 1..Len(queue) : queue[i] = u
      BY <3>1 DEF IInv, QueuePositionsExact, Queued
    <3>3. i - 1 \in 1..Len(queue') /\ queue'[i - 1] = u
      BY <1>2, <3>1, <3>2
    <3> QED
      BY <3>3 DEF Queued
  <2> QED
    BY <1>4, <1>5, <2>1 DEF QueuePositionsExact
<1>9. DeadlinesArmed'
  BY <1>1, <1>2 DEF IInv, TypeOK, DeadlinesArmed, ArmedFor, Timers
<1>10. QueuedExist'
  <2>1. ASSUME NEW i \in 1..Len(queue')
        PROVE  state'[queue'[i]] # "NONE"
    <3>1. queue[i + 1] \in Sessions /\ state[queue[i + 1]] # "NONE"
      BY <1>1, <1>2 DEF IInv, QueuedExist, Exists
    <3> QED
      BY <1>1, <1>2, <3>1 DEF IInv, TypeOK
  <2> QED
    BY <2>1 DEF QueuedExist, Exists
<1> QED
  BY <1>6, <1>7, <1>8, <1>9, <1>10 DEF IInv

(* A transition of one session that gives its slot back, to the head of the
   queue or to nobody. *)
LEMMA TransitionReleasesSlot ==
  ASSUME IInv,
         NEW s \in Sessions, Exists(s), NEW v \in {"COMPLETED", "EXPIRED"},
         NEW tm \in Timers, NEW sy \in Strays, ArmedFor(tm, s, v),
         ReleaseSlot([state EXCEPT ![s] = v], Forget(queuePosition, s), tm, sy)
  PROVE  IInv'
<1>1. CASE PromoteNext([state EXCEPT ![s] = v], Forget(queuePosition, s), tm, sy)
  BY <1>1, TransitionPromotes
<1>2. CASE /\ queue = <<>>
           /\ activeSlots' = activeSlots - 1
           /\ state' = [state EXCEPT ![s] = v]
           /\ queuePosition' = Forget(queuePosition, s)
           /\ timers' = tm
           /\ strays' = sy
           /\ UNCHANGED <<queue, promotionCallbacks, notified>>
  <2> USE <1>2 DEF IInv, Forget, NoPosition, Timers, Strays
  <2>1. TypeOK'
    BY ConfigAssumption DEF TypeOK, SessionStates
  <2>2. NoIdleSlotWhileWaiting'
    BY ConfigAssumption DEF NoIdleSlotWhileWaiting, TypeOK
  <2>3. QueuePositionsExact'
    BY DEF QueuePositionsExact, Queued, TypeOK
  <2>4. DeadlinesArmed'
    BY DEF DeadlinesArmed, ArmedFor, TypeOK
  <2>5. QueuedExist'
    BY DEF QueuedExist
  <2> QED
    BY <2>1, <2>2, <2>3, <2>4, <2>5
<1> QED
  BY <1>1, <1>2 DEF ReleaseSlot

-----------------------------------------------------------------------------
(* The actions. *)

(* A new session takes a free slot, joins the line or is refused. *)
LEMMA CreationKeepsInv ==
  ASSUME IInv, NEW s \in Sessions, Create(s)
  PROVE  IInv'
<1>1. CASE CreateActive(s)
  <2> USE <1>1 DEF IInv, CreateActive, Exists, Arm
  <2>1. TypeOK'
    BY ConfigAssumption DEF TypeOK, SessionStates, SlotStates, TimerKinds
  <2>2. NoIdleSlotWhileWaiting'
    BY ConfigAssumption DEF NoIdleSlotWhileWaiting, TypeOK
  <2>3. QueuePositionsExact'
    <3>1. /\ queue' = queue /\ Queued' = Queued
          /\ queuePosition' = queuePosition
      BY DEF Queued
    <3>2. \A u \in Sessions : state'[u] = "QUEUED" => state[u] = "QUEUED"
      BY DEF TypeOK
    <3>3. \A i \in 1..Len(queue) : queue[i] \in Sessions
      BY DEF TypeOK
    <3> HIDE <1>1 DEF IInv, CreateActive
    <3> QED
      BY <3>1, <3>2, <3>3 DEF IInv, QueuePositionsExact
  <2>4. DeadlinesArmed'
    BY DEF DeadlinesArmed, TypeOK
  <2>5. QueuedExist'
    BY DEF QueuedExist, TypeOK
  <2> QED
    BY <2>1, <2>2, <2>3, <2>4, <2>5
<1>2. CASE CreateQueued(s)
  <2>1. /\ queue \in Seq(Sessions) /\ Len(queue) < MaxQueueSize
        /\ queue' = Append(queue, s)
        /\ state[s] = "NONE"
        /\ state' = [state EXCEPT ![s] = "QUEUED"]
        /\ queuePosition' = [queuePosition EXCEPT ![s] = Len(queue) + 1]
        /\ activeSlots >= MaxSessions
    BY <1>2 DEF IInv, TypeOK, CreateQueued, QueueHasRoom, Exists
  <2>2. /\ queue' \in Seq(Sessions) /\ Len(queue) \in Nat
        /\ Len(queue') = Len(queue) + 1
        /\ \A i \in 1..Len(queue) : queue'[i] = queue[i] /\ queue[i] \in Sessions
        /\ queue'[Len(queue) + 1] = s
    BY <2>1
  <2>3. \A i \in 1..Len(queue) : queue[i] # s
    BY <2>1 DEF IInv, QueuedExist, Exists
  <2>4. \A i \in 1..Len(queue') : i = Len(queue) + 1 \/ i \in 1..Len(queue)
    BY <2>2
  <2>5. TypeOK'
    BY <1>2, <2>1, <2>2, ConfigAssumption
       DEF IInv, TypeOK, CreateQueued, SessionStates
  <2>6. NoIdleSlotWhileWaiting'
    BY <1>2, <2>1, ConfigAssumption
       DEF IInv, TypeOK, CreateQueued, NoIdleSlotWhileWaiting
  <2>7. QueuePositionsExact'
    <3>1. \A i, j \in 1..Len(queue') : queue'[i] = queue'[j] => i = j
      BY <2>2, <2>3, <2>4 DEF IInv, QueuePositionsExact
    <3>2. ASSUME NEW u \in Sessions, state'[u] = "QUEUED"
          PROVE  u \in Queued'
      <4>1. CASE u = s
        BY <2>2, <4>1 DEF Queued
      <4>2. CASE u # s
        <5>1. state[u] = "QUEUED"
          BY <2>1, <3>2, <4>2 DEF IInv, TypeOK
        <5>2. PICK i \in 1..Len(queue) : queue[i] = u
          BY <5>1 DEF IInv, QueuePositionsExact, Queued
        <5> QED
          BY <2>2, <5>2 DEF Queued
      <4> QED
        BY <4>1, <4>2
    <3>3. ASSUME NEW i \in 1..Len(queue'), state'[queue'[i]] = "QUEUED"
          PROVE  queuePosition'[queue'[i]] = i
      <4>1. CASE i = Len(queue) + 1
        BY <2>1, <2>2, <4>1 DEF IInv, TypeOK
      <4>2. CASE i \in 1..Len(queue)
        BY <2>1, <2>2, <2>3, <3>3, <4>2 DEF IInv, TypeOK, QueuePositionsExact
      <4> QED
        BY <2>4, <4>1, <4>2
    <3> QED
      BY <3>1, <3>2, <3>3 DEF QueuePositionsExact
  <2>8. DeadlinesArmed'
    BY <1>2, <2>1 DEF IInv, TypeOK, CreateQueued, DeadlinesArmed
  <2>9. QueuedExist'
    BY <2>1, <2>2, <2>3, <2>4 DEF IInv, TypeOK, QueuedExist, Exists
  <2> QED
    BY <2>5, <2>6, <2>7, <2>8, <2>9 DEF IInv
<1> QED
  BY <1>1, <1>2 DEF Create

(* A timer callback that is late changes nothing but the timers; tm and sy
   are the timers without the one that fired. *)
LEMMA LateTimerKeepsInv ==
  ASSUME IInv, NEW s \in Sessions,
         NEW tm \in Timers, NEW sy \in Strays, ArmedFor(tm, s, state[s]),
         KeepSlot(state, queuePosition, tm, sy)
  PROVE  IInv'
<1> USE DEF IInv, KeepSlot
<1>1. TypeOK'
  BY DEF TypeOK, Timers, Strays
<1>2. DeadlinesArmed'
  BY DEF DeadlinesArmed, ArmedFor, TypeOK
<1>3. NoIdleSlotWhileWaiting' /\ QueuePositionsExact' /\ QueuedExist'
  BY DEF NoIdleSlotWhileWaiting, QueuePositionsExact, Queued, QueuedExist, Exists
<1> QED
  BY <1>1, <1>2, <1>3

(* The timer that fires is the one the map holds or a stray.  Either way the
   timer the session's state waits for, if any, is still armed unless it is
   the one that fired. *)
LEMMA ConnectionTimeoutKeepsInv ==
  ASSUME IInv, NEW s \in Sessions, NEW tm \in Timers, NEW sy \in Strays,
         \A u \in Sessions \ {s} : tm[u] = timers[u],
         state[s] = "DROPPED" => tm[s] = "recovery",
         ConnectionTimeout(s, tm, sy)
  PROVE  IInv'
<1>1. CASE /\ state[s] = "CONNECTING"
           /\ KeepSlot([state EXCEPT ![s] = "DROPPED"], Forget(queuePosition, s),
                       Arm(tm, s, "recovery"), Overwrite(sy, tm, s))
  <2>1. Arm(tm, s, "recovery") \in Timers
    BY DEF Arm, Timers, TimerKinds
  <2>2. Overwrite(sy, tm, s) \in Strays
    BY DEF Overwrite, Timers, Strays
  <2>3. ArmedFor(Arm(tm, s, "recovery"), s, "DROPPED")
    BY DEF ArmedFor, Arm, Timers
  <2>4. Exists(s) /\ "DROPPED" \in SessionStates \ {"QUEUED"}
    BY <1>1 DEF Exists, SessionStates, SlotStates
  <2> QED
    BY <1>1, <2>1, <2>2, <2>3, <2>4, TransitionKeepsSlot
<1>2. CASE /\ state[s] # "CONNECTING"
           /\ KeepSlot(state, queuePosition, tm, sy)
  BY <1>2, LateTimerKeepsInv DEF ArmedFor
<1> QED
  BY <1>1, <1>2 DEF ConnectionTimeout

(* The recovery timer, on time or late. *)
LEMMA RecoveryTimeoutKeepsInv ==
  ASSUME IInv, NEW s \in Sessions, NEW tm \in Timers, NEW sy \in Strays,
         \A u \in Sessions \ {s} : tm[u] = timers[u],
         state[s] = "CONNECTING" => tm[s] = "connection",
         RecoveryTimeout(s, tm, sy)
  PROVE  IInv'
<1>1. CASE /\ state[s] = "DROPPED"
           /\ ReleaseSlot([state EXCEPT ![s] = "EXPIRED"],
                          Forget(queuePosition, s), tm, sy)
  <2>1. ArmedFor(tm, s, "EXPIRED") /\ Exists(s)
    BY <1>1 DEF ArmedFor, Exists
  <2> QED
    BY <1>1, <2>1, TransitionReleasesSlot
<1>2. CASE /\ state[s] # "DROPPED"
           /\ KeepSlot(state, queuePosition, tm, sy)
  BY <1>2, LateTimerKeepsInv DEF ArmedFor
<1> QED
  BY <1>1, <1>2 DEF RecoveryTimeout

(* Any timer callback, registered or overwritten. *)
LEMMA TimeoutKeepsInv ==
  ASSUME IInv, NEW s \in Sessions, Timeout(s)
  PROVE  IInv'
<1>1. timers \in Timers /\ strays \in Strays
  BY DEF IInv, TypeOK, Timers, Strays
<1>2. /\ state[s] = "CONNECTING" => timers[s] = "connection"
      /\ state[s] = "DROPPED" => timers[s] = "recovery"
  BY DEF IInv, DeadlinesArmed
<1>3. CASE TimerFires(s)
  <2>1. /\ Clear(timers, s) \in Timers
        /\ \A u \in Sessions \ {s} : Clear(timers, s)[u] = timers[u]
    BY <1>1 DEF Clear, Timers
  <2>2. CASE timers[s] = "connection" /\ ConnectionTimeout(s, Clear(timers, s), strays)
    BY <1>1, <1>2, <2>1, <2>2, ConnectionTimeoutKeepsInv
  <2>3. CASE timers[s] = "recovery" /\ RecoveryTimeout(s, Clear(timers, s), strays)
    BY <1>1, <1>2, <2>1, <2>3, RecoveryTimeoutKeepsInv
  <2> QED
    BY <1>3, <2>2, <2>3 DEF TimerFires
<1>4. ASSUME NEW kind \in TimerKinds, StrayFires(s, kind)
      PROVE  IInv'
  <2> DEFINE sy == [strays EXCEPT ![s] = @ \ {kind}]
  <2>1. sy \in Strays
    BY <1>1 DEF Strays
  <2>2. CASE ConnectionTimeout(s, timers, sy)
    BY <1>1, <1>2, <2>1, <2>2, ConnectionTimeoutKeepsInv
  <2>3. CASE RecoveryTimeout(s, timers, sy)
    BY <1>1, <1>2, <2>1, <2>3, RecoveryTimeoutKeepsInv
  <2> QED
    BY <1>4, <2>2, <2>3 DEF StrayFires
<1> QED
  BY <1>3, <1>4 DEF Timeout

(* The four methods that move a session to another state, and endSession. *)
LEMMA TransitionsKeepInv ==
  ASSUME IInv, NEW s \in Sessions,
         ResumeSession(s) \/ EndSession(s) \/ MarkActive(s) \/ MarkPaused(s)
           \/ MarkDropped(s)
  PROVE  IInv'
<1>1. timers \in Timers /\ strays \in Strays
  BY DEF IInv, TypeOK, Timers, Strays
<1>2. /\ Arm(timers, s, "connection") \in Timers
      /\ ArmedFor(Arm(timers, s, "connection"), s, "CONNECTING")
  BY <1>1 DEF Timers, TimerKinds, Arm, ArmedFor
<1>3. /\ Arm(timers, s, "recovery") \in Timers
      /\ ArmedFor(Arm(timers, s, "recovery"), s, "DROPPED")
  BY <1>1 DEF Timers, TimerKinds, Arm, ArmedFor
<1>4. /\ Clear(timers, s) \in Timers
      /\ ArmedFor(Clear(timers, s), s, "ACTIVE")
      /\ ArmedFor(Clear(timers, s), s, "COMPLETED")
  BY <1>1 DEF Timers, Clear, ArmedFor
<1>5. ArmedFor(timers, s, "PAUSED")
  BY DEF ArmedFor
<1>6. {"CONNECTING", "ACTIVE", "PAUSED", "DROPPED", "COMPLETED"}
        \subseteq SessionStates \ {"QUEUED"}
  BY DEF SessionStates, SlotStates
<1>7. CASE ResumeSession(s)
  <2>1. Exists(s)
    BY <1>7 DEF ResumeSession, Resumable, Exists
  <2> QED
    BY <1>1, <1>2, <1>6, <1>7, <2>1, TransitionKeepsSlot DEF ResumeSession
<1>8. CASE EndSession(s)
  <2>1. CASE HoldsSlot(s)
    BY <1>1, <1>4, <1>8, <2>1, TransitionReleasesSlot DEF EndSession
  <2>2. CASE ~HoldsSlot(s)
    BY <1>1, <1>4, <1>6, <1>8, <2>2, TransitionKeepsSlot DEF EndSession
  <2> QED
    BY <2>1, <2>2
<1>9. CASE MarkActive(s)
  BY <1>1, <1>4, <1>6, <1>9, TransitionKeepsSlot DEF MarkActive
<1>10. CASE MarkPaused(s)
  BY <1>1, <1>5, <1>6, <1>10, TransitionKeepsSlot DEF MarkPaused
<1>11. CASE MarkDropped(s)
  BY <1>1, <1>3, <1>6, <1>11, TransitionKeepsSlot DEF MarkDropped
<1> QED
  BY <1>7, <1>8, <1>9, <1>10, <1>11

(* Registering for promotion touches the callbacks only. *)
LEMMA SetQueuedSocketKeepsInv ==
  ASSUME IInv, NEW s \in Sessions, NEW cb \in Callbacks, SetQueuedSocket(s, cb)
  PROVE  IInv'
<1> USE DEF IInv, SetQueuedSocket
<1>1. TypeOK'
  BY DEF TypeOK
<1>2. NoIdleSlotWhileWaiting' /\ DeadlinesArmed'
  BY DEF NoIdleSlotWhileWaiting, DeadlinesArmed
<1>3. QueuePositionsExact' /\ QueuedExist'
  BY DEF QueuePositionsExact, Queued, QueuedExist, Exists
<1> QED
  BY <1>1, <1>2, <1>3

-----------------------------------------------------------------------------
(* The theorems. *)

(* The empty session manager satisfies the invariant. *)
LEMMA InitEstablishesInv == Init => IInv
<1> SUFFICES ASSUME Init PROVE IInv
  OBVIOUS
<1> USE DEF Init, NoPosition
<1>1. TypeOK
  BY ConfigAssumption DEF TypeOK
<1>2. NoIdleSlotWhileWaiting
  BY ConfigAssumption DEF NoIdleSlotWhileWaiting
<1>3. QueuePositionsExact /\ DeadlinesArmed /\ QueuedExist
  BY DEF QueuePositionsExact, DeadlinesArmed, QueuedExist
<1> QED
  BY <1>1, <1>2, <1>3 DEF IInv

(* Every method and every timer callback keeps the invariant. *)
LEMMA StepKeepsInv == IInv /\ [Next]_vars => IInv'
<1> SUFFICES ASSUME IInv, [Next]_vars PROVE IInv'
  OBVIOUS
<1>1. CASE Next
  <2>1. PICK s \in Sessions :
          \/ Create(s)
          \/ ResumeSession(s) \/ EndSession(s) \/ MarkActive(s)
               \/ MarkPaused(s) \/ MarkDropped(s)
          \/ Timeout(s)
          \/ \E cb \in Callbacks : SetQueuedSocket(s, cb)
    BY <1>1 DEF Next
  <2> QED
    BY <2>1, CreationKeepsInv, TransitionsKeepInv, TimeoutKeepsInv,
       SetQueuedSocketKeepsInv
<1>2. CASE UNCHANGED vars
  <2> USE <1>2 DEF IInv, vars
  <2>1. TypeOK' /\ NoIdleSlotWhileWaiting' /\ DeadlinesArmed'
    BY DEF TypeOK, NoIdleSlotWhileWaiting, DeadlinesArmed
  <2>2. QueuePositionsExact' /\ QueuedExist'
    BY DEF QueuePositionsExact, Queued, QueuedExist, Exists
  <2> QED
    BY <2>1, <2>2
<1> QED
  BY <1>1, <1>2

(* Whatever the callers do, the inductive invariant holds. *)
THEOREM Invariance == Spec => []IInv
BY InitEstablishesInv, StepKeepsInv, PTL DEF Spec

(* The variables keep their types, and the queue its limit. *)
THEOREM TypeCorrect == Spec => []TypeOK
<1>1. IInv => TypeOK
  BY DEF IInv
<1> QED
  BY <1>1, Invariance, PTL

(* The counter never passes maxSessions, and nobody waits while it shows a
   slot free. *)
THEOREM WorkConserving == Spec => []NoIdleSlotWhileWaiting
<1>1. IInv => NoIdleSlotWhileWaiting
  BY DEF IInv
<1> QED
  BY <1>1, Invariance, PTL

(* The position a queued session is told is its place in the line, and nobody
   stands in the line twice. *)
THEOREM QueueCorrect == Spec => []QueuePositionsExact
<1>1. IInv => QueuePositionsExact
  BY DEF IInv
<1> QED
  BY <1>1, Invariance, PTL

(* A session that holds a slot until a deadline has that deadline's timer. *)
THEOREM DeadlinesKept == Spec => []DeadlinesArmed
<1>1. IInv => DeadlinesArmed
  BY DEF IInv
<1> QED
  BY <1>1, Invariance, PTL

-----------------------------------------------------------------------------
(* Refinement. *)

(* Giving a slot back hands it over or frees it. *)
LEMMA ReleaseIsPoolStep ==
  ASSUME NEW st, NEW pos, NEW tm, NEW sy, ReleaseSlot(st, pos, tm, sy),
         activeSlots \in Int
  PROVE  Pool!PoolNext
<1>1. CASE PromoteNext(st, pos, tm, sy)
  <2>1. /\ queue # <<>>
        /\ queue' = Tail(queue)
        /\ activeSlots' = (activeSlots - 1) + 1
    BY <1>1 DEF PromoteNext, Shift, HandOver
  <2> QED
    BY <2>1 DEF Pool!PoolNext, Pool!HandOver
<1>2. CASE queue = <<>> /\ activeSlots' = activeSlots - 1 /\ UNCHANGED queue
  BY <1>2 DEF Pool!PoolNext, Pool!FreeSlot
<1> QED
  BY <1>1, <1>2 DEF ReleaseSlot

(* A new session takes a slot or joins the line. *)
LEMMA CreationIsPoolStep ==
  ASSUME NEW s \in Sessions, Create(s)
  PROVE  Pool!PoolNext
<1>1. CASE CreateActive(s)
  BY <1>1 DEF CreateActive, Pool!PoolNext, Pool!TakeSlot
<1>2. CASE CreateQueued(s)
  BY <1>2 DEF CreateQueued, QueueHasRoom, Pool!PoolNext, Pool!JoinLine
<1> QED
  BY <1>1, <1>2 DEF Create

(* The other calls leave the slots and the line alone or give a slot back. *)
LEMMA OthersArePoolSteps ==
  ASSUME activeSlots \in Int, NEW s \in Sessions,
         \/ ResumeSession(s) \/ EndSession(s) \/ MarkActive(s)
              \/ MarkPaused(s) \/ MarkDropped(s)
         \/ Timeout(s)
         \/ \E cb \in Callbacks : SetQueuedSocket(s, cb)
  PROVE  [Pool!PoolNext]_(Pool!poolVars)
<1>1. \A st, pos, tm, sy :
        KeepSlot(st, pos, tm, sy) => UNCHANGED Pool!poolVars
  BY DEF KeepSlot, Pool!poolVars
<1>2. \A st, pos, tm, sy : ReleaseSlot(st, pos, tm, sy) => Pool!PoolNext
  BY ReleaseIsPoolStep
<1>3. CASE ResumeSession(s) \/ MarkActive(s) \/ MarkPaused(s) \/ MarkDropped(s)
  BY <1>1, <1>3 DEF ResumeSession, MarkActive, MarkPaused, MarkDropped
<1>4. CASE EndSession(s)
  BY <1>1, <1>2, <1>4 DEF EndSession
<1>5. ASSUME NEW tm, NEW sy, ConnectionTimeout(s, tm, sy)
      PROVE  UNCHANGED Pool!poolVars
  BY <1>1, <1>5 DEF ConnectionTimeout
<1>6. ASSUME NEW tm, NEW sy, RecoveryTimeout(s, tm, sy)
      PROVE  [Pool!PoolNext]_(Pool!poolVars)
  BY <1>1, <1>2, <1>6 DEF RecoveryTimeout
<1>7. CASE Timeout(s)
  BY <1>5, <1>6, <1>7 DEF Timeout, TimerFires, StrayFires
<1>8. CASE \E cb \in Callbacks : SetQueuedSocket(s, cb)
  BY <1>8 DEF SetQueuedSocket, Pool!poolVars
<1> QED
  BY <1>3, <1>4, <1>7, <1>8

(* The slots and the line behave as the pool of SlotPool: first come, first
   served, and a slot given back is handed over. *)
THEOREM PoolRefinement == Spec => ImplementsPool
<1>1. Init => Pool!PoolInit
  BY DEF Init, Pool!PoolInit
<1>2. TypeOK /\ [Next]_vars => [Pool!PoolNext]_(Pool!poolVars)
  <2> SUFFICES ASSUME TypeOK, [Next]_vars PROVE [Pool!PoolNext]_(Pool!poolVars)
    OBVIOUS
  <2>1. CASE Next
    <3>1. PICK s \in Sessions :
            \/ Create(s)
            \/ \/ ResumeSession(s) \/ EndSession(s) \/ MarkActive(s)
                    \/ MarkPaused(s) \/ MarkDropped(s)
               \/ Timeout(s)
               \/ \E cb \in Callbacks : SetQueuedSocket(s, cb)
      BY <2>1 DEF Next
    <3>2. activeSlots \in Int
      BY DEF TypeOK
    <3> QED
      BY <3>1, <3>2, CreationIsPoolStep, OthersArePoolSteps
  <2>2. CASE UNCHANGED vars
    BY <2>2 DEF vars, Pool!poolVars
  <2> QED
    BY <2>1, <2>2
<1> QED
  BY <1>1, <1>2, TypeCorrect, PTL DEF Spec, ImplementsPool, Pool!PoolSpec

-----------------------------------------------------------------------------
(* Guarded callers. *)

QueuedHoldNoSlot ==
  \A i \in 1..Len(queue) : state[queue[i]] \in {"QUEUED", "COMPLETED"}

LInv ==
  /\ IInv
  /\ SlotAccounting
  /\ QueuedHoldNoSlot

(* Who holds a slot when the states are st. *)
HoldersIn(st) == {s \in Sessions : st[s] \in SlotStates}

-----------------------------------------------------------------------------

(* Callers that look at the state first do nothing that any caller may not. *)
LEMMA GuardsRestrict == [GuardedNext]_vars => [Next]_vars
BY DEF GuardedNext, Next, Activate, EndClip, LoseSocket, AwaitSlot, Timeout

(* With finitely many ids the slot holders can be counted. *)
LEMMA SlotHoldersFinite ==
  /\ IsFiniteSet(SlotHolders)
  /\ Cardinality(SlotHolders) \in Nat
<1>1. SlotHolders \subseteq Sessions
  BY DEF SlotHolders
<1>2. IsFiniteSet(SlotHolders)
  BY <1>1, SessionsAssumption, FS_Subset
<1> QED
  BY <1>2, FS_CardinalityType

(* A transition of one session changes the number of slot holders by what it
   changes for that session. *)
LEMMA OneTransition ==
  ASSUME TypeOK, NEW s \in Sessions, NEW v \in SessionStates,
         SlotHolders' = HoldersIn([state EXCEPT ![s] = v])
  PROVE  /\ state[s] \in SlotStates /\ v \in SlotStates =>
              Cardinality(SlotHolders') = Cardinality(SlotHolders)
         /\ state[s] \notin SlotStates /\ v \notin SlotStates =>
              Cardinality(SlotHolders') = Cardinality(SlotHolders)
         /\ state[s] \notin SlotStates /\ v \in SlotStates =>
              Cardinality(SlotHolders') = Cardinality(SlotHolders) + 1
         /\ state[s] \in SlotStates /\ v \notin SlotStates =>
              Cardinality(SlotHolders') = Cardinality(SlotHolders) - 1
<1>1. \A u \in Sessions : [state EXCEPT ![s] = v][u] = IF u = s THEN v ELSE state[u]
  BY DEF TypeOK
<1>2. IsFiniteSet(SlotHolders) /\ Cardinality(SlotHolders) \in Nat
  BY SlotHoldersFinite
<1>3. ASSUME state[s] \in SlotStates <=> v \in SlotStates
      PROVE  SlotHolders' = SlotHolders
  BY <1>1, <1>3 DEF SlotHolders, HoldersIn
<1>4. ASSUME state[s] \notin SlotStates, v \in SlotStates
      PROVE  Cardinality(SlotHolders') = Cardinality(SlotHolders) + 1
  <2>1. SlotHolders' = SlotHolders \cup {s} /\ s \notin SlotHolders
    BY <1>1, <1>4 DEF SlotHolders, HoldersIn
  <2> QED
    BY <1>2, <2>1, FS_AddElement
<1>5. ASSUME state[s] \in SlotStates, v \notin SlotStates
      PROVE  Cardinality(SlotHolders') = Cardinality(SlotHolders) - 1
  <2>1. SlotHolders' = SlotHolders \ {s} /\ s \in SlotHolders
    BY <1>1, <1>5 DEF SlotHolders, HoldersIn
  <2> QED
    BY <1>2, <2>1, FS_RemoveElement
<1> QED
  BY <1>3, <1>4, <1>5

(* A transition of one session that changes nothing in the queue: its effect
   on the counter must be its effect on the holders. *)
LEMMA TransitionKeepsAccounts ==
  ASSUME LInv, NEW s \in Sessions, NEW v \in SessionStates,
         state' = [state EXCEPT ![s] = v], queue' = queue,
         state[s] \in {"QUEUED", "COMPLETED"} => v \in {"QUEUED", "COMPLETED"},
         \/ /\ state[s] \in SlotStates <=> v \in SlotStates
            /\ activeSlots' = activeSlots
         \/ /\ state[s] \notin SlotStates /\ v \in SlotStates
            /\ activeSlots' = activeSlots + 1
         \/ /\ state[s] \in SlotStates /\ v \notin SlotStates
            /\ activeSlots' = activeSlots - 1
  PROVE  SlotAccounting' /\ QueuedHoldNoSlot'
<1>1. TypeOK
  BY DEF LInv, IInv
<1>2. SlotHolders' = HoldersIn([state EXCEPT ![s] = v])
  BY DEF SlotHolders, HoldersIn
<1>3. SlotAccounting'
  BY <1>1, <1>2, OneTransition DEF LInv, SlotAccounting
<1>4. QueuedHoldNoSlot'
  <2>1. ASSUME NEW i \in 1..Len(queue)
        PROVE  state'[queue[i]] \in {"QUEUED", "COMPLETED"}
    <3>1. /\ queue[i] \in Sessions
          /\ state[queue[i]] \in {"QUEUED", "COMPLETED"}
      BY <1>1 DEF LInv, QueuedHoldNoSlot, TypeOK
    <3> QED
      BY <1>1, <3>1 DEF TypeOK
  <2> QED
    BY <2>1 DEF QueuedHoldNoSlot
<1> QED
  BY <1>3, <1>4

(* The slot of s goes to the head of the queue, which is another session. *)
LEMMA PromotionKeepsAccounts ==
  ASSUME LInv, NEW s \in Sessions, state[s] \in SlotStates,
         NEW v \in {"COMPLETED", "EXPIRED"}, NEW pos, NEW tm, NEW sy,
         PromoteNext([state EXCEPT ![s] = v], pos, tm, sy)
  PROVE  SlotAccounting' /\ QueuedHoldNoSlot'
<1> DEFINE next == Head(queue)
<1>1. TypeOK /\ QueuePositionsExact
  BY DEF LInv, IInv
<1>2. /\ queue # <<>> /\ queue \in Seq(Sessions)
      /\ queue' = Tail(queue)
      /\ state' = [[state EXCEPT ![s] = v] EXCEPT ![next] = "CONNECTING"]
      /\ activeSlots' = (activeSlots - 1) + 1
  BY <1>1 DEF PromoteNext, Shift, HandOver, TypeOK
<1>3. /\ next = queue[1] /\ next \in Sessions
      /\ Len(queue') = Len(queue) - 1 /\ Len(queue) \in Nat \ {0}
      /\ \A i \in 1..Len(queue') : queue'[i] = queue[i + 1] /\ i + 1 \in 1..Len(queue)
  BY <1>2, TailOfQueue
<1>4. state[next] \in {"QUEUED", "COMPLETED"}
  BY <1>3 DEF LInv, QueuedHoldNoSlot
<1>5. state[next] \notin SlotStates /\ next # s
  BY <1>4 DEF SlotStates
<1>6. SlotHolders' = (SlotHolders \ {s}) \cup {next}
  <2>1. \A u \in Sessions :
          state'[u] = IF u = next THEN "CONNECTING" ELSE IF u = s THEN v ELSE state[u]
    BY <1>1, <1>2, <1>3 DEF TypeOK
  <2>2. "CONNECTING" \in SlotStates /\ v \notin SlotStates
    BY DEF SlotStates
  <2> HIDE DEF next
  <2> QED
    BY <1>3, <2>1, <2>2 DEF SlotHolders
<1>7. Cardinality(SlotHolders') = Cardinality(SlotHolders)
  <2>1. IsFiniteSet(SlotHolders) /\ Cardinality(SlotHolders) \in Nat
    BY SlotHoldersFinite
  <2>2. s \in SlotHolders /\ next \notin SlotHolders
    BY <1>5 DEF SlotHolders
  <2>3. /\ IsFiniteSet(SlotHolders \ {s})
        /\ Cardinality(SlotHolders \ {s}) = Cardinality(SlotHolders) - 1
    BY <2>1, <2>2, FS_RemoveElement
  <2>4. Cardinality((SlotHolders \ {s}) \cup {next}) = Cardinality(SlotHolders \ {s}) + 1
    BY <2>2, <2>3, FS_AddElement
  <2> QED
    BY <1>6, <2>1, <2>3, <2>4
<1>8. SlotAccounting'
  BY <1>1, <1>2, <1>7 DEF LInv, SlotAccounting, TypeOK
<1>9. QueuedHoldNoSlot'
  <2>1. ASSUME NEW i \in 1..Len(queue')
        PROVE  state'[queue'[i]] \in {"QUEUED", "COMPLETED"}
    <3>1. /\ queue'[i] = queue[i + 1] /\ i + 1 \in 1..Len(queue)
          /\ queue[i + 1] \in Sessions
          /\ state[queue[i + 1]] \in {"QUEUED", "COMPLETED"}
      BY <1>2, <1>3 DEF LInv, QueuedHoldNoSlot
    <3>2. queue[i + 1] # next
      BY <1>1, <1>3, <3>1 DEF QueuePositionsExact
    <3>3. queue[i + 1] # s
      BY <3>1 DEF SlotStates
    <3> HIDE DEF next
    <3> QED
      BY <1>1, <1>2, <1>3, <3>1, <3>2, <3>3 DEF TypeOK
  <2> QED
    BY <2>1 DEF QueuedHoldNoSlot
<1> QED
  BY <1>8, <1>9

(* A slot is given back, to the head of the queue or to nobody. *)
LEMMA ReleaseKeepsAccounts ==
  ASSUME LInv, NEW s \in Sessions, state[s] \in SlotStates,
         NEW v \in {"COMPLETED", "EXPIRED"}, NEW pos, NEW tm, NEW sy,
         ReleaseSlot([state EXCEPT ![s] = v], pos, tm, sy)
  PROVE  SlotAccounting' /\ QueuedHoldNoSlot'
<1>1. CASE PromoteNext([state EXCEPT ![s] = v], pos, tm, sy)
  BY <1>1, PromotionKeepsAccounts
<1>2. CASE /\ activeSlots' = activeSlots - 1
           /\ state' = [state EXCEPT ![s] = v]
           /\ queue' = queue
  <2>1. v \in SessionStates /\ v \notin SlotStates
    BY DEF SessionStates, SlotStates
  <2>2. state[s] \notin {"QUEUED", "COMPLETED"}
    BY DEF SlotStates
  <2> QED
    BY <1>2, <2>1, <2>2, TransitionKeepsAccounts
<1> QED
  BY <1>1, <1>2 DEF ReleaseSlot

(* No slot is given back and none is taken. *)
LEMMA KeepKeepsAccounts ==
  ASSUME LInv, NEW s \in Sessions, NEW v \in SessionStates,
         state[s] \in SlotStates <=> v \in SlotStates,
         state[s] \in {"QUEUED", "COMPLETED"} => v \in {"QUEUED", "COMPLETED"},
         NEW pos, NEW tm, NEW sy, KeepSlot([state EXCEPT ![s] = v], pos, tm, sy)
  PROVE  SlotAccounting' /\ QueuedHoldNoSlot'
BY TransitionKeepsAccounts DEF KeepSlot

(* The states, the counter and the queue stay as they are. *)
LEMMA NothingHappens ==
  ASSUME LInv, UNCHANGED <<state, queue, activeSlots>>
  PROVE  SlotAccounting' /\ QueuedHoldNoSlot'
<1>1. SlotHolders' = SlotHolders
  BY DEF SlotHolders
<1> QED
  BY <1>1 DEF LInv, SlotAccounting, QueuedHoldNoSlot

(* createSession counts the slot it gives and no other. *)
LEMMA CreationKeepsAccounts ==
  ASSUME LInv, NEW s \in Sessions, Create(s)
  PROVE  SlotAccounting' /\ QueuedHoldNoSlot'
<1>1. TypeOK
  BY DEF LInv, IInv
<1>2. state[s] = "NONE" /\ "NONE" \notin SlotStates
  BY DEF Create, CreateActive, CreateQueued, Exists, SlotStates
<1>3. CASE CreateActive(s)
  <2>1. "CONNECTING" \in SlotStates /\ "CONNECTING" \in SessionStates
    BY DEF SessionStates, SlotStates
  <2> QED
    BY <1>2, <1>3, <2>1, TransitionKeepsAccounts DEF CreateActive
<1>4. CASE CreateQueued(s)
  <2>1. /\ state' = [state EXCEPT ![s] = "QUEUED"]
        /\ activeSlots' = activeSlots
        /\ queue' = Append(queue, s)
        /\ queue \in Seq(Sessions)
    BY <1>1, <1>4 DEF CreateQueued, TypeOK
  <2>2. "QUEUED" \in SessionStates /\ "QUEUED" \notin SlotStates
    BY DEF SessionStates, SlotStates
  <2>3. SlotAccounting'
    <3>1. SlotHolders' = HoldersIn([state EXCEPT ![s] = "QUEUED"])
      BY <2>1 DEF SlotHolders, HoldersIn
    <3> QED
      BY <1>1, <1>2, <2>1, <2>2, <3>1, OneTransition DEF LInv, SlotAccounting
  <2>4. QueuedHoldNoSlot'
    <3>1. ASSUME NEW i \in 1..Len(queue')
          PROVE  state'[queue'[i]] \in {"QUEUED", "COMPLETED"}
      <4>1. CASE i = Len(queue) + 1
        BY <1>1, <2>1, <4>1 DEF TypeOK
      <4>2. CASE i \in 1..Len(queue)
        <5>1. /\ queue'[i] = queue[i] /\ queue[i] \in Sessions
              /\ state[queue[i]] \in {"QUEUED", "COMPLETED"}
          BY <2>1, <4>2 DEF LInv, QueuedHoldNoSlot
        <5> QED
          BY <1>1, <2>1, <5>1 DEF TypeOK
      <4>3. i = Len(queue) + 1 \/ i \in 1..Len(queue)
        BY <2>1
      <4> QED
        BY <4>1, <4>2, <4>3
    <3> QED
      BY <3>1 DEF QueuedHoldNoSlot
  <2> QED
    BY <2>3, <2>4
<1> QED
  BY <1>3, <1>4 DEF Create

(* A timer callback gives back the slot its session holds, or nothing. *)
LEMMA TimeoutKeepsAccounts ==
  ASSUME LInv, NEW s \in Sessions, Timeout(s)
  PROVE  SlotAccounting' /\ QueuedHoldNoSlot'
<1>1. ASSUME NEW tm, NEW sy, ConnectionTimeout(s, tm, sy)
      PROVE  SlotAccounting' /\ QueuedHoldNoSlot'
  <2>1. CASE /\ state[s] = "CONNECTING"
             /\ KeepSlot([state EXCEPT ![s] = "DROPPED"],
                         Forget(queuePosition, s), Arm(tm, s, "recovery"),
                         Overwrite(sy, tm, s))
    <3>1. "DROPPED" \in SessionStates /\ "DROPPED" \in SlotStates
          /\ "CONNECTING" \in SlotStates
      BY DEF SessionStates, SlotStates
    <3> QED
      BY <2>1, <3>1, KeepKeepsAccounts
  <2>2. CASE KeepSlot(state, queuePosition, tm, sy)
    BY <2>2, NothingHappens DEF KeepSlot
  <2> QED
    BY <1>1, <2>1, <2>2 DEF ConnectionTimeout
<1>2. ASSUME NEW tm, NEW sy, RecoveryTimeout(s, tm, sy)
      PROVE  SlotAccounting' /\ QueuedHoldNoSlot'
  <2>1. CASE /\ state[s] = "DROPPED"
             /\ ReleaseSlot([state EXCEPT ![s] = "EXPIRED"],
                            Forget(queuePosition, s), tm, sy)
    <3>1. state[s] \in SlotStates
      BY <2>1 DEF SlotStates
    <3> QED
      BY <2>1, <3>1, ReleaseKeepsAccounts
  <2>2. CASE KeepSlot(state, queuePosition, tm, sy)
    BY <2>2, NothingHappens DEF KeepSlot
  <2> QED
    BY <1>2, <2>1, <2>2 DEF RecoveryTimeout
<1> QED
  BY <1>1, <1>2 DEF Timeout, TimerFires, StrayFires

(* Every guarded call keeps the counter equal to the number of holders. *)
LEMMA GuardedStepKeepsAccounts ==
  ASSUME LInv, NEW s \in Sessions,
         \/ Create(s) \/ ResumeSession(s) \/ EndSession(s) \/ Activate(s)
         \/ EndClip(s) \/ LoseSocket(s) \/ AwaitSlot(s) \/ Timeout(s)
  PROVE  SlotAccounting' /\ QueuedHoldNoSlot'
<1>1. /\ {"CONNECTING", "ACTIVE", "PAUSED", "DROPPED"} \subseteq SlotStates
      /\ {"QUEUED", "COMPLETED"} \cap SlotStates = {}
      /\ SlotStates \cup {"COMPLETED"} \subseteq SessionStates
  BY DEF SessionStates, SlotStates
<1>2. CASE Create(s)
  BY <1>2, CreationKeepsAccounts
<1>3. CASE ResumeSession(s)
  BY <1>1, <1>3, KeepKeepsAccounts DEF ResumeSession, Resumable
<1>4. CASE EndSession(s)
  <2>1. CASE HoldsSlot(s)
    BY <1>4, <2>1, ReleaseKeepsAccounts DEF EndSession, HoldsSlot
  <2>2. CASE ~HoldsSlot(s)
    BY <1>1, <1>4, <2>2, KeepKeepsAccounts DEF EndSession, HoldsSlot
  <2> QED
    BY <2>1, <2>2
<1>5. CASE Activate(s)
  BY <1>1, <1>5, KeepKeepsAccounts DEF Activate, MarkActive
<1>6. CASE EndClip(s)
  BY <1>1, <1>6, KeepKeepsAccounts DEF EndClip, MarkPaused
<1>7. CASE LoseSocket(s)
  BY <1>1, <1>7, KeepKeepsAccounts DEF LoseSocket, MarkDropped
<1>8. CASE AwaitSlot(s)
  BY <1>8, NothingHappens DEF AwaitSlot, SetQueuedSocket
<1>9. CASE Timeout(s)
  BY <1>9, TimeoutKeepsAccounts
<1> QED
  BY <1>2, <1>3, <1>4, <1>5, <1>6, <1>7, <1>8, <1>9

-----------------------------------------------------------------------------
(* The theorems. *)

(* The empty session manager satisfies the strengthened invariant. *)
LEMMA InitEstablishesLInv == Init => LInv
<1> SUFFICES ASSUME Init PROVE LInv
  OBVIOUS
<1>1. SlotHolders = {}
  BY DEF Init, SlotHolders, SlotStates
<1>2. SlotAccounting
  BY <1>1, FS_EmptySet DEF Init, SlotAccounting
<1>3. QueuedHoldNoSlot
  BY DEF Init, QueuedHoldNoSlot
<1> QED
  BY <1>2, <1>3, InitEstablishesInv DEF LInv

(* Every guarded call keeps the strengthened invariant. *)
LEMMA GuardedStepKeepsLInv == LInv /\ [GuardedNext]_vars => LInv'
<1> SUFFICES ASSUME LInv, [GuardedNext]_vars PROVE LInv'
  OBVIOUS
<1>1. IInv'
  BY GuardsRestrict, StepKeepsInv DEF LInv
<1>2. SlotAccounting' /\ QueuedHoldNoSlot'
  <2>1. CASE GuardedNext
    BY <2>1, GuardedStepKeepsAccounts DEF GuardedNext, Timeout
  <2>2. CASE UNCHANGED vars
    BY <2>2, NothingHappens DEF vars
  <2> QED
    BY <2>1, <2>2
<1> QED
  BY <1>1, <1>2 DEF LInv

(* The strengthened invariant holds as long as callers look first. *)
THEOREM GuardedInvariance == GuardedSpec => []LInv
BY InitEstablishesLInv, GuardedStepKeepsLInv, PTL DEF GuardedSpec

(* The slot counter counts the sessions that hold a slot: none is lost and
   none is given back twice. *)
THEOREM SlotsAccountedFor == GuardedSpec => []SlotAccounting
<1>1. LInv => SlotAccounting
  BY DEF LInv
<1> QED
  BY <1>1, GuardedInvariance, PTL

(* No more sessions hold a slot than there are slots. *)
THEOREM CapacityKept == GuardedSpec => [](Cardinality(SlotHolders) <= MaxSessions)
<1>1. LInv => Cardinality(SlotHolders) <= MaxSessions
  BY DEF LInv, IInv, SlotAccounting, NoIdleSlotWhileWaiting
<1> QED
  BY <1>1, GuardedInvariance, PTL

-----------------------------------------------------------------------------

(* Who is not in the queue is not promoted. *)
LEMMA ReleaseLeavesEnded ==
  ASSUME LInv, NEW s \in Sessions, state[s] \in Ended, s \notin Queued,
         NEW u \in Sessions, NEW v \in Ended, NEW pos, NEW tm, NEW sy,
         ReleaseSlot([state EXCEPT ![u] = v], pos, tm, sy)
  PROVE  state'[s] \in Ended
<1>1. TypeOK
  BY DEF LInv, IInv
<1>2. [state EXCEPT ![u] = v][s] \in Ended
  BY <1>1 DEF TypeOK
<1>3. CASE PromoteNext([state EXCEPT ![u] = v], pos, tm, sy)
  <2>1. /\ queue # <<>> /\ queue \in Seq(Sessions)
        /\ state' = [[state EXCEPT ![u] = v] EXCEPT ![Head(queue)] = "CONNECTING"]
    BY <1>1, <1>3 DEF PromoteNext, Shift, TypeOK
  <2>2. Head(queue) \in Queued
    BY <2>1, TailOfQueue DEF Queued
  <2>3. Head(queue) # s
    BY <2>2
  <2> QED
    BY <1>1, <1>2, <2>1, <2>3 DEF TypeOK
<1>4. CASE state' = [state EXCEPT ![u] = v]
  BY <1>2, <1>4
<1> QED
  BY <1>3, <1>4 DEF ReleaseSlot

(* No timer callback revives an ended session that does not wait. *)
LEMMA TimeoutLeavesEnded ==
  ASSUME LInv, NEW s \in Sessions, state[s] \in Ended, s \notin Queued,
         NEW u \in Sessions, Timeout(u)
  PROVE  state'[s] \in Ended
<1>1. TypeOK
  BY DEF LInv, IInv
<1>2. ASSUME NEW tm, NEW sy, ConnectionTimeout(u, tm, sy)
      PROVE  state'[s] \in Ended
  <2>1. \/ state[u] = "CONNECTING" /\ state' = [state EXCEPT ![u] = "DROPPED"]
        \/ state' = state
    BY <1>2 DEF ConnectionTimeout, KeepSlot
  <2> QED
    BY <1>1, <2>1 DEF TypeOK, Ended
<1>3. ASSUME NEW tm, NEW sy, RecoveryTimeout(u, tm, sy)
      PROVE  state'[s] \in Ended
  <2>1. \/ ReleaseSlot([state EXCEPT ![u] = "EXPIRED"], Forget(queuePosition, u),
                       tm, sy)
        \/ state' = state
    BY <1>3 DEF RecoveryTimeout, KeepSlot
  <2>2. "EXPIRED" \in Ended
    BY DEF Ended
  <2> QED
    BY <2>1, <2>2, ReleaseLeavesEnded
<1> QED
  BY <1>2, <1>3 DEF Timeout, TimerFires, StrayFires

(* No call at all revives an ended session that does not wait. *)
LEMMA StepLeavesEnded ==
  ASSUME LInv, NEW s \in Sessions, state[s] \in Ended, s \notin Queued,
         [GuardedNext]_vars
  PROVE  state'[s] \in Ended
<1>1. TypeOK
  BY DEF LInv, IInv
<1>2. ASSUME NEW u \in Sessions, EndSession(u)
      PROVE  state'[s] \in Ended
  <2>1. "COMPLETED" \in Ended
    BY DEF Ended
  <2>2. CASE ReleaseSlot([state EXCEPT ![u] = "COMPLETED"],
                         Forget(queuePosition, u), Clear(timers, u), strays)
    BY <2>1, <2>2, ReleaseLeavesEnded
  <2>3. CASE state' = [state EXCEPT ![u] = "COMPLETED"]
    BY <1>1, <2>1, <2>3 DEF TypeOK
  <2> QED
    BY <1>2, <2>2, <2>3 DEF EndSession, KeepSlot
<1>3. ASSUME NEW u \in Sessions,
             Create(u) \/ ResumeSession(u) \/ Activate(u) \/ EndClip(u)
               \/ LoseSocket(u) \/ AwaitSlot(u)
      PROVE  state'[s] \in Ended
  <2>1. \/ state' = state
        \/ state[u] \notin Ended /\ \E v : state' = [state EXCEPT ![u] = v]
    BY <1>3 DEF Create, CreateActive, CreateQueued, Exists, ResumeSession,
                Resumable, Activate, MarkActive, EndClip, MarkPaused, LoseSocket,
                MarkDropped, AwaitSlot, SetQueuedSocket, KeepSlot, Ended
  <2> QED
    BY <1>1, <2>1 DEF TypeOK
<1>4. CASE GuardedNext
  BY <1>2, <1>3, <1>4, TimeoutLeavesEnded DEF GuardedNext, Timeout
<1>5. CASE UNCHANGED vars
  BY <1>5 DEF vars
<1> QED
  BY <1>4, <1>5

(* What has ended, and does not stand in the queue, stays ended. *)
THEOREM EndingIsFinal == GuardedSpec => EndedStaysEnded
<1>1. LInv /\ [GuardedNext]_vars =>
        [\A s \in Sessions :
           (state[s] \in Ended /\ s \notin Queued) => state'[s] \in Ended]_vars
  BY StepLeavesEnded
<1> QED
  BY <1>1, GuardedInvariance, PTL DEF GuardedSpec, EndedStaysEnded

-----------------------------------------------------------------------------
(* Timers. *)

NoStrays == \A s \in Sessions : strays[s] = {}

(* Whoever waits, and whoever is not there yet, has no timer. *)
Untimed ==
  \A s \in Sessions : state[s] = "NONE" \/ s \in Queued => timers[s] = "none"

(* Who waits has not been forgotten and holds no slot. *)
LEMMA WaitingStates ==
  ASSUME LInv, NEW s \in Queued
  PROVE  s \in Sessions /\ state[s] \in {"QUEUED", "COMPLETED"}
BY DEF LInv, IInv, TypeOK, QueuedHoldNoSlot, Queued

(* A promotion finds nobody's timer in its way. *)
LEMMA ReleaseFindsNoTimer ==
  ASSUME LInv, NoStrays, Untimed, NEW s \in Sessions, NEW v \in SessionStates, NEW pos,
         ReleaseSlot([state EXCEPT ![s] = v], pos, Clear(timers, s), strays)
  PROVE  NoStrays' /\ Untimed'
<1> DEFINE st == [state EXCEPT ![s] = v]
           tm == Clear(timers, s)
<1>1. TypeOK
  BY DEF LInv, IInv
<1>2. /\ timers \in [Sessions -> TimerKinds \cup {"none"}]
      /\ strays \in [Sessions -> SUBSET TimerKinds]
      /\ state \in [Sessions -> SessionStates \cup {"NONE"}]
  BY <1>1 DEF TypeOK
<1>3. v # "NONE"
  BY DEF SessionStates, SlotStates
<1>4. \A u \in Sessions : /\ u = s => tm[u] = "none"
                          /\ u # s => tm[u] = timers[u]
                          /\ st[u] = "NONE" => state[u] = "NONE"
  BY <1>2, <1>3 DEF Clear
<1> HIDE DEF st, tm
<1>5. CASE PromoteNext(st, pos, tm, strays)
  <2> DEFINE next == Head(queue)
  <2>1. /\ queue # <<>> /\ queue \in Seq(Sessions) /\ queue' = Tail(queue)
        /\ state' = [st EXCEPT ![next] = "CONNECTING"]
        /\ timers' = Arm(tm, next, "connection")
        /\ strays' = Overwrite(strays, tm, next)
    BY <1>1, <1>5 DEF PromoteNext, Shift, TypeOK
  <2>2. next \in Queued /\ next \in Sessions
    BY <2>1, TailOfQueue DEF Queued
  <2>3. tm[next] = "none"
    BY <1>4, <2>2 DEF Untimed
  <2>4. NoStrays'
    BY <1>2, <2>1, <2>3 DEF NoStrays, Overwrite
  <2>5. \A u \in Queued' : u \in Queued /\ u # next
    <3>1. \A i, j \in 1..Len(queue) : queue[i] = queue[j] => i = j
      BY DEF LInv, IInv, QueuePositionsExact
    <3>2. \A i \in 1..Len(queue') : /\ queue'[i] = queue[i + 1]
                                    /\ i + 1 \in 1..Len(queue) /\ i + 1 # 1
      BY <2>1, TailOfQueue
    <3>3. next = queue[1] /\ 1 \in 1..Len(queue)
      BY <2>1, TailOfQueue
    <3> QED BY <3>1, <3>2, <3>3 DEF Queued
  <2>6. ASSUME NEW u \in Sessions, state'[u] = "NONE" \/ u \in Queued'
        PROVE  timers'[u] = "none"
    <3>1. u # next
      BY <1>2, <2>1, <2>2, <2>5, <2>6 DEF st
    <3>2. timers'[u] = tm[u] /\ state'[u] = st[u]
      BY <1>2, <2>1, <3>1 DEF Arm, tm, st, Clear
    <3> QED BY <1>4, <2>5, <2>6, <3>2 DEF Untimed
  <2> QED BY <2>4, <2>6 DEF Untimed
<1>6. CASE queue' = queue /\ state' = st /\ timers' = tm /\ strays' = strays
  <2>1. Queued' = Queued
    BY <1>6 DEF Queued
  <2> QED BY <1>4, <1>6, <2>1 DEF NoStrays, Untimed
<1> QED BY <1>5, <1>6 DEF ReleaseSlot, st, tm

(* A guarded call arms no timer over a live one. *)
LEMMA GuardedStepStraysNot ==
  ASSUME LInv, NoStrays, Untimed, [GuardedNext]_vars
  PROVE  NoStrays' /\ Untimed'
<1>1. /\ TypeOK
      /\ timers \in [Sessions -> TimerKinds \cup {"none"}]
      /\ strays \in [Sessions -> SUBSET TimerKinds]
      /\ state \in [Sessions -> SessionStates \cup {"NONE"}]
      /\ queue \in Seq(Sessions)
  BY DEF LInv, IInv, TypeOK
<1>2. ASSUME NEW s \in Sessions, CreateActive(s) PROVE NoStrays' /\ Untimed'
  <2>1. Queued' = Queued /\ s \notin Queued
    BY <1>2, WaitingStates DEF CreateActive, Exists, Queued
  <2> QED BY <1>1, <1>2, <2>1 DEF CreateActive, Arm, NoStrays, Untimed
<1>3. ASSUME NEW s \in Sessions, CreateQueued(s) PROVE NoStrays' /\ Untimed'
  <2>1. Queued' \subseteq Queued \cup {s}
    BY <1>1, <1>3 DEF CreateQueued, Queued
  <2> QED BY <1>1, <1>3, <2>1 DEF CreateQueued, Exists, NoStrays, Untimed
<1>4. ASSUME NEW s \in Sessions, NEW v \in SessionStates, NEW pos, NEW tm,
             KeepSlot([state EXCEPT ![s] = v], pos, tm, strays),
             \/ tm \in {timers, Clear(timers, s)}
             \/ \E kind : tm = Arm(timers, s, kind) /\ s \notin Queued,
             state[s] # "NONE"
      PROVE  NoStrays' /\ Untimed'
  <2>1. Queued' = Queued /\ timers' = tm /\ strays' = strays
    BY <1>4 DEF KeepSlot, Queued
  <2>2. ASSUME NEW u \in Sessions, state'[u] = "NONE" PROVE state[u] = "NONE"
    BY <1>1, <1>4, <2>2 DEF KeepSlot, SessionStates, SlotStates
  <2>3. ASSUME NEW u \in Sessions, state'[u] = "NONE" \/ u \in Queued
        PROVE  timers'[u] = "none"
    <3>1. timers[u] = "none"
      BY <2>2, <2>3 DEF Untimed
    <3>2. CASE u = s
      BY <1>1, <1>4, <2>1, <2>2, <2>3, <3>1, <3>2 DEF Arm, Clear
    <3>3. CASE u # s
      BY <1>1, <1>4, <2>1, <3>1, <3>3 DEF Arm, Clear
    <3> QED BY <3>2, <3>3
  <2> QED BY <2>1, <2>3 DEF NoStrays, Untimed
<1>5. SlotStates \cup {"COMPLETED", "EXPIRED"} \subseteq SessionStates
  BY DEF SessionStates
<1>6. \A s \in Sessions : state[s] \in SlotStates => s \notin Queued
  BY WaitingStates DEF SlotStates
<1>7. "NONE" \notin SlotStates
  BY DEF SlotStates
<1>8. ASSUME NEW s \in Sessions, ResumeSession(s) PROVE NoStrays' /\ Untimed'
  <2>1. state[s] \in SlotStates /\ "CONNECTING" \in SessionStates
    BY <1>5, <1>8 DEF ResumeSession, Resumable, SlotStates
  <2> QED BY <1>4, <1>6, <1>7, <1>8, <2>1 DEF ResumeSession
<1>9. ASSUME NEW s \in Sessions, EndSession(s) PROVE NoStrays' /\ Untimed'
  BY <1>4, <1>5, <1>9, ReleaseFindsNoTimer DEF EndSession, Exists
<1>10. ASSUME NEW s \in Sessions, Activate(s) \/ EndClip(s) \/ LoseSocket(s)
       PROVE  NoStrays' /\ Untimed'
  <2>1. state[s] \in SlotStates /\ {"ACTIVE", "PAUSED", "DROPPED"} \subseteq SessionStates
    BY <1>5, <1>10 DEF Activate, EndClip, LoseSocket, SlotStates
  <2>2. CASE Activate(s)
    BY <1>4, <1>7, <2>1, <2>2 DEF Activate, MarkActive
  <2>3. CASE EndClip(s)
    BY <1>4, <1>7, <2>1, <2>3 DEF EndClip, MarkPaused
  <2>4. CASE LoseSocket(s)
    BY <1>4, <1>6, <1>7, <2>1, <2>4 DEF LoseSocket, MarkDropped
  <2> QED BY <1>10, <2>2, <2>3, <2>4
<1>11. ASSUME UNCHANGED <<state, queue, strays>>,
              timers' = timers \/ \E s \in Sessions : timers' = Clear(timers, s)
       PROVE  NoStrays' /\ Untimed'
  <2>1. Queued' = Queued
    BY <1>11 DEF Queued
  <2> QED BY <1>1, <1>11, <2>1 DEF NoStrays, Untimed, Clear
<1>12. ASSUME NEW s \in Sessions, TimerFires(s) PROVE NoStrays' /\ Untimed'
  <2>1. CASE ConnectionTimeout(s, Clear(timers, s), strays)
    <3>1. CASE /\ state[s] = "CONNECTING"
               /\ KeepSlot([state EXCEPT ![s] = "DROPPED"], Forget(queuePosition, s),
                           Arm(Clear(timers, s), s, "recovery"),
                           Overwrite(strays, Clear(timers, s), s))
      <4>1. Overwrite(strays, Clear(timers, s), s) = strays
        BY <1>1 DEF Overwrite, Clear
      <4>2. Arm(Clear(timers, s), s, "recovery") = Arm(timers, s, "recovery")
        BY <1>1 DEF Arm, Clear
      <4>3. state[s] \in SlotStates /\ "DROPPED" \in SessionStates
        BY <1>5, <3>1 DEF SlotStates
      <4> QED BY <1>4, <1>6, <1>7, <3>1, <4>1, <4>2, <4>3
    <3>2. CASE KeepSlot(state, queuePosition, Clear(timers, s), strays)
      BY <1>11, <3>2 DEF KeepSlot
    <3> QED BY <2>1, <3>1, <3>2 DEF ConnectionTimeout
  <2>2. CASE RecoveryTimeout(s, Clear(timers, s), strays)
    <3>1. CASE ReleaseSlot([state EXCEPT ![s] = "EXPIRED"], Forget(queuePosition, s),
                           Clear(timers, s), strays)
      BY <1>5, <3>1, ReleaseFindsNoTimer
    <3>2. CASE KeepSlot(state, queuePosition, Clear(timers, s), strays)
      BY <1>11, <3>2 DEF KeepSlot
    <3> QED BY <2>2, <3>1, <3>2 DEF RecoveryTimeout
  <2> QED BY <1>12, <2>1, <2>2 DEF TimerFires
<1>13. ASSUME NEW s \in Sessions, AwaitSlot(s) PROVE NoStrays' /\ Untimed'
  BY <1>11, <1>13 DEF AwaitSlot, SetQueuedSocket
<1>14. CASE UNCHANGED vars
  BY <1>11, <1>14 DEF vars
<1> QED
  BY <1>2, <1>3, <1>8, <1>9, <1>10, <1>12, <1>13, <1>14 DEF GuardedNext, Create

(* timers.set in startConnectionTimer and startRecoveryTimer never replaces a
   live handle, so clearTimer finds every timer that may still fire, as long
   as callers look at the state first. *)
THEOREM NobodyStrays == GuardedSpec => []NoStrays
<1>1. Init => NoStrays /\ Untimed
  BY DEF Init, NoStrays, Untimed
<1>2. LInv /\ (NoStrays /\ Untimed) /\ [GuardedNext]_vars => (NoStrays /\ Untimed)'
  BY GuardedStepStraysNot
<1> QED BY <1>1, <1>2, GuardedInvariance, PTL DEF GuardedSpec

=============================================================================
