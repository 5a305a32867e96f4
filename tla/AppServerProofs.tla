--------------------------- MODULE AppServerProofs ---------------------------
(***************************************************************************)
(* Proofs about the app container, for any number of sessions, sockets,    *)
(* transitions, clips and scores.                                          *)
(*                                                                         *)
(* Whichever faults happen: the container is a run of its SessionManager,  *)
(* so that what SessionLifecycleProofs shows of any caller holds of it; who  *)
(* is paused is attended; who waited is told.  Without late heartbeats: a  *)
(* transcription WebSocket has one owner and is closed when that one stops *)
(* running, unless POST /session/{id}/end stopped it.  Without any fault:  *)
(* the slot counter counts the holders, and no turn gets another clip's    *)
(* score.                                                                  *)
(*                                                                         *)
(* Each of the last three needs an invariant that follows a request        *)
(* through its waits: which records may be replaced while it waits (Fits), *)
(* in what state it finds its session when it goes on (Attending), and     *)
(* which clip the session's ClipSession collects for (Collecting).         *)
(***************************************************************************)
EXTENDS AppServer, FiniteSetTheorems, TLAPS

SL == INSTANCE SessionLifecycleProofs WITH
        Callbacks <- 1..MaxSockets, NoCallback <- NoSocket

-----------------------------------------------------------------------------
(* Types. *)

Targets == {NextClip(clip, score) : clip \in Clips \cup {None}, score \in Scores \cup {0}}
Collected == Clips \cup Targets \cup {None}

Result == [window : Nat, clip : Collected, score : Scores]
Record0 == [object : Nat, collects : Collected, stream : Nat, result : Result \cup {None}]

EndRequest ==
  [phase : Flushing, kind : {"end"}, session : Sessions, object : Nat,
   collects : Collected, stream : Nat]
ClipRequest ==
  [phase : Flushing, kind : {"clip"}, session : Sessions,
   clip : Clips \cup {None}, object : Nat, collects : Collected, stream : Nat]
ResetRequest == [phase : {"resetting"}, session : Sessions, next : Targets]

SocketsTyped ==
  sockets \in Seq([session : Sessions, open : BOOLEAN, waited : BOOLEAN])
EntriesTyped == entries \in [Sessions -> Record0]
StreamsTyped == streams \in SUBSET Nat /\ IsFiniteSet(streams)
PendingTyped ==
  pending \in [Transitions -> {Idle} \cup EndRequest \cup ClipRequest \cup ResetRequest]

Typed == SocketsTyped /\ EntriesTyped /\ StreamsTyped /\ PendingTyped

(* What is taken from the records of a finite set is finite. *)
LEMMA FiniteImage ==
  ASSUME NEW S, IsFiniteSet(S), NEW f \in [S -> Nat]
  PROVE  IsFiniteSet({f[x] : x \in S})
<1>1. f \in Surjection(S, {f[x] : x \in S})
  BY DEF Surjection
<1> QED BY <1>1, FS_Surjection

(* A number that nobody refers to can always be found. *)
LEMMA NumberLeft ==
  ASSUME NEW S, IsFiniteSet(S)
  PROVE  \E n \in 1..(Cardinality(S) + 1) : n \notin S
<1> DEFINE c == Cardinality(S)
<1>1. c \in Nat
  BY FS_CardinalityType
<1>2. SUFFICES ASSUME 1..(c + 1) \subseteq S PROVE FALSE
  OBVIOUS
<1>3. Cardinality(1..(c + 1)) <= c
  BY <1>2, FS_Subset
<1>4. Cardinality(1..(c + 1)) = c + 1
  BY <1>1, FS_Interval
<1> QED BY <1>1, <1>3, <1>4

(* Only finitely many numbers are in use. *)
LEMMA InUseFinite == Typed => IsFiniteSet(InUse)
<1> SUFFICES ASSUME Typed PROVE IsFiniteSet(InUse)
  OBVIOUS
<1> USE DEF Typed, EntriesTyped, StreamsTyped, PendingTyped
<1> DEFINE S1 == {u \in Sessions : entries[u].result # None}
           T1 == {u \in Transitions : pending[u].phase \in Flushing}
           f1 == [s \in Sessions |-> entries[s].object]
           f2 == [s \in Sessions |-> entries[s].stream]
           f3 == [s \in S1 |-> entries[s].result.window]
           f4 == [t \in T1 |-> pending[t].object]
           f5 == [t \in T1 |-> pending[t].stream]
           U1 == {f1[s] : s \in Sessions}
           U2 == {f2[s] : s \in Sessions}
           U3 == {f3[s] : s \in S1}
           U4 == {f4[t] : t \in T1}
           U5 == {f5[t] : t \in T1}
<1>1. IsFiniteSet(Sessions) /\ IsFiniteSet(Transitions)
  BY SizesAssumption
<1>2. IsFiniteSet(S1) /\ IsFiniteSet(T1)
  BY <1>1, FS_Subset
<1>3. f1 \in [Sessions -> Nat] /\ f2 \in [Sessions -> Nat]
  BY DEF Record0
<1>4. f3 \in [S1 -> Nat]
  BY DEF Record0, Result
<1>5. f4 \in [T1 -> Nat] /\ f5 \in [T1 -> Nat]
  <2>1. \A t \in T1 : pending[t] \in EndRequest \cup ClipRequest
    BY DEF Idle, ResetRequest, Flushing
  <2> QED BY <2>1 DEF EndRequest, ClipRequest
<1>6. IsFiniteSet(U1) /\ IsFiniteSet(U2)
  <2> HIDE DEF f1, f2
  <2> QED BY <1>1, <1>3, FiniteImage
<1>7. IsFiniteSet(U3)
  <2> HIDE DEF S1, f3
  <2> QED BY <1>2, <1>4, FiniteImage
<1>8. IsFiniteSet(U4) /\ IsFiniteSet(U5)
  <2> HIDE DEF T1, f4, f5
  <2> QED BY <1>2, <1>5, FiniteImage
<1>9. IsFiniteSet(((((streams \cup U1) \cup U2) \cup U3) \cup U4) \cup U5)
  BY <1>6, <1>7, <1>8, FS_Union
<1>10. InUse \subseteq ((((streams \cup U1) \cup U2) \cup U3) \cup U4) \cup U5
  <2>1. UNION {{entries[s].object, entries[s].stream} : s \in Sessions} = U1 \cup U2
    OBVIOUS
  <2>2. {entries[s].result.window : s \in S1} = U3
    OBVIOUS
  <2>3. UNION {{pending[t].object, pending[t].stream} : t \in T1} = U4 \cup U5
    <3>1. \A t \in T1 : pending[t].object = f4[t] /\ pending[t].stream = f5[t]
      OBVIOUS
    <3> HIDE DEF T1, f4, f5
    <3> QED BY <3>1
  <2> HIDE DEF U1, U2, U3, U4, U5
  <2> QED BY <2>1, <2>2, <2>3 DEF InUse
<1> QED BY <1>9, <1>10, FS_Subset

(* The number a new ClipSession gets is nobody's. *)
LEMMA FreshIsNew ==
  ASSUME Typed
  PROVE  Fresh \in Nat \ {0} /\ Fresh \notin InUse
<1>1. IsFiniteSet(InUse)
  BY InUseFinite
<1>2. Cardinality(InUse) \in Nat
  BY <1>1, FS_CardinalityType
<1>3. \E n \in 1..(Cardinality(InUse) + 1) : n \notin InUse
  BY <1>1, NumberLeft
<1>4. Fresh \in 1..(Cardinality(InUse) + 1) /\ Fresh \notin InUse
  BY <1>3 DEF Fresh
<1> QED BY <1>2, <1>4

-----------------------------------------------------------------------------
(* Every step keeps the types. *)

(* registerSession keeps the types. *)
LEMMA RegisterTyped ==
  ASSUME Typed, NEW s \in Sessions, NEW clip \in Clips, Register(s, clip)
  PROVE  EntriesTyped' /\ StreamsTyped'
<1>1. Fresh \in Nat
  BY FreshIsNew
<1>2. IsFiniteSet(streams \cup {Fresh})
  BY FS_AddElement DEF Typed, StreamsTyped
<1> QED BY <1>1, <1>2 DEF Typed, EntriesTyped, StreamsTyped, Register, Record0, Collected

(* Closing a WebSocket leaves finitely many. *)
LEMMA CloseTyped ==
  ASSUME Typed, NEW s, NEW e
  PROVE  Close(e, s) \in SUBSET Nat /\ IsFiniteSet(Close(e, s))
BY FS_RemoveElement DEF Typed, StreamsTyped, Close

(* So does dropping a record. *)
LEMMA WithoutTyped ==
  ASSUME NEW e \in [Sessions -> Record0], NEW s \in Sessions
  PROVE  Without(e, s) \in [Sessions -> Record0]
BY DEF Without, NoEntry, Record0, Collected

(* So does forgetting a result. *)
LEMMA ForgetTyped ==
  ASSUME Typed, NEW s \in Sessions
  PROVE  ForgetResult(s) \in [Sessions -> Record0]
BY DEF Typed, EntriesTyped, ForgetResult, Record0

(* deregisterSession keeps the types. *)
LEMMA DeregisterTyped ==
  ASSUME Typed, NEW s \in Sessions, Deregister(s)
  PROVE  EntriesTyped' /\ StreamsTyped'
BY CloseTyped, WithoutTyped DEF Typed, EntriesTyped, StreamsTyped, Deregister

(* The end of a transition keeps the types. *)
LEMMA FinishTyped ==
  ASSUME Typed, NEW s \in Sessions, NEW next, NEW ctx, Finish(s, next, ctx)
  PROVE  EntriesTyped' /\ StreamsTyped'
BY DeregisterTyped DEF Typed, EntriesTyped, StreamsTyped, Finish

(* The phase of a request tells its fields. *)
LEMMA KindsOfRequests ==
  ASSUME Typed, NEW t \in Transitions
  PROVE  /\ pending[t] \in {Idle} \cup EndRequest \cup ClipRequest \cup ResetRequest
         /\ pending[t].phase \in Flushing => pending[t] \in EndRequest \cup ClipRequest
         /\ pending[t].phase = "resetting" => pending[t] \in ResetRequest
         /\ pending[t].phase \in Flushing \cup {"resetting"} => pending[t].session \in Sessions
         /\ pending[t] # Idle <=> pending[t].phase \in Flushing \cup {"resetting"}
         /\ pending[t] \in EndRequest => pending[t].kind = "end"
         /\ pending[t] \in ClipRequest => pending[t].kind = "clip"
BY DEF Typed, PendingTyped, Idle, EndRequest, ClipRequest, ResetRequest, Flushing

(* The sessions of the sockets. *)
LEMMA SocketsOfSessions ==
  ASSUME Typed, NEW k \in 1..MaxSockets, IsOpen(k)
  PROVE  /\ SessionOf(k) \in Sessions
         /\ Closed(k) \in Seq([session : Sessions, open : BOOLEAN, waited : BOOLEAN])
<1>1. k \in 1..Len(sockets)
  BY SizesAssumption DEF IsOpen, Typed, SocketsTyped
<1> DEFINE Socket == [session : Sessions, open : BOOLEAN, waited : BOOLEAN]
           closed == [sockets[k] EXCEPT !.open = FALSE]
<1>2. sockets \in Seq(Socket) /\ sockets[k] \in Socket
  <2>1. sockets \in Seq(Socket)
    BY DEF Typed, SocketsTyped
  <2> HIDE DEF Socket
  <2> QED BY <1>1, <2>1
<1>3. closed \in Socket /\ sockets[k].session \in Sessions
  BY <1>2
<1>4. [sockets EXCEPT ![k] = closed] \in Seq(Socket)
  <2> HIDE DEF closed, Socket
  <2> QED BY <1>1, <1>2, <1>3
<1> QED BY <1>3, <1>4 DEF SessionOf, Closed

(* What follows a flush keeps the types. *)
LEMMA AfterFlushTyped ==
  ASSUME Typed, NEW t \in Transitions, pending[t].phase \in Flushing,
         NEW e \in [Sessions -> Record0], AfterFlush(t, e)
  PROVE  Typed'
<1> DEFINE s == pending[t].session
           result == IF e[s] = NoEntry THEN None ELSE e[s].result
           score == IF result = None THEN 0 ELSE result.score
           next == NextClip(pending[t].clip, score)
<1>1. pending[t] \in EndRequest \cup ClipRequest /\ s \in Sessions
  BY KindsOfRequests
<1>2. PendingTyped /\ SocketsTyped
  BY DEF Typed
<1>3. Done(t) \in [Transitions -> {Idle} \cup EndRequest \cup ClipRequest \cup ResetRequest]
  BY <1>2 DEF PendingTyped, Done
<1>4. CASE pending[t].kind = "end"
  <2>1. /\ entries' = e /\ pending' = Done(t) /\ UNCHANGED <<sockets, streams>>
    BY <1>4 DEF AfterFlush
  <2> QED BY <2>1, <1>3 DEF Typed, PendingTyped, SocketsTyped, StreamsTyped, EntriesTyped
<1>5. CASE pending[t].kind = "clip" /\ Decide(t, e)
  <2>1. next \in Targets
    <3>1. pending[t].clip \in Clips \cup {None}
      BY <1>1, <1>5 DEF EndRequest, ClipRequest
    <3>2. score \in Scores \cup {0}
      BY <1>1 DEF Record0, Result
    <3> HIDE DEF score
    <3> QED BY <3>1, <3>2 DEF Targets
  <2>2. CASE /\ e[s] = NoEntry
             /\ Finish(s, next, Record(context[s], pending[t].clip, pending[t].stream, result))
             /\ pending' = Done(t)
             /\ UNCHANGED sockets
    <3>1. EntriesTyped' /\ StreamsTyped'
      BY <1>1, <2>2, FinishTyped
    <3> QED BY <2>2, <3>1, <1>2, <1>3 DEF Typed, PendingTyped, SocketsTyped
  <2>3. CASE /\ pending' = [pending EXCEPT ![t] =
                  [phase |-> "resetting", session |-> s, next |-> next]]
             /\ \/ entries' = e /\ streams' = Close(e, s)
                \/ /\ entries' = [e EXCEPT ![s].stream = Fresh, ![s].collects = next]
                   /\ streams' = Close(e, s) \cup {Fresh}
             /\ UNCHANGED sockets
    <3>1. PendingTyped'
      <4>1. [phase |-> "resetting", session |-> s, next |-> next] \in ResetRequest
        BY <1>1, <2>1 DEF ResetRequest
      <4> HIDE DEF next, s
      <4> QED BY <4>1, <2>3, <1>2 DEF PendingTyped
    <3>2. Fresh \in Nat
      BY FreshIsNew
    <3>3. EntriesTyped'
      <4>0. next \in Collected
        BY <2>1 DEF Collected
      <4> HIDE DEF next, s
      <4>1. [e EXCEPT ![s].stream = Fresh, ![s].collects = next] \in [Sessions -> Record0]
        BY <1>1, <3>2, <4>0 DEF Record0
      <4> QED BY <2>3, <4>1 DEF EntriesTyped
    <3>4. Close(e, s) \in SUBSET Nat /\ IsFiniteSet(Close(e, s))
      BY CloseTyped
    <3>5. IsFiniteSet(Close(e, s) \cup {Fresh})
      BY <3>4, FS_AddElement
    <3>6. StreamsTyped'
      BY <2>3, <3>2, <3>4, <3>5 DEF StreamsTyped
    <3> QED BY <2>3, <1>2, <3>1, <3>3, <3>6 DEF Typed, SocketsTyped
  <2> QED BY <1>5, <2>2, <2>3 DEF Decide
<1> QED BY <1>1, <1>4, <1>5, KindsOfRequests DEF AfterFlush, EndRequest, ClipRequest

(* Every step keeps the types. *)
LEMMA StepTyped == Typed /\ [Next]_vars => Typed'
<1> SUFFICES ASSUME Typed, [Next]_vars PROVE Typed'
  OBVIOUS
<1>1. SocketsTyped /\ EntriesTyped /\ StreamsTyped /\ PendingTyped
  BY DEF Typed
<1>2. ASSUME UNCHANGED <<sockets, entries, streams, pending>>
      PROVE  Typed'
  BY <1>2 DEF Typed, SocketsTyped, EntriesTyped, StreamsTyped, PendingTyped
<1>3. CASE UNCHANGED vars
  BY <1>2, <1>3 DEF vars, appVars
<1>4. ASSUME NEW s \in Sessions, CreateSession(s) \/ ResumeSession(s) \/ Timeout(s)
      PROVE  Typed'
  BY <1>2, <1>4 DEF CreateSession, ResumeSession, Timeout, appVars
<1>5. ASSUME NEW s \in Sessions, EndCall(s)
      PROVE  Typed'
  <2>1. CASE UNCHANGED <<entries, pending>>
    BY <1>2, <1>5, <2>1 DEF EndCall
  <2>2. CASE \E t \in Transitions :
               /\ pending' = [pending EXCEPT ![t] =
                    [phase |-> "flushing", kind |-> "end", session |-> s,
                     object |-> entries[s].object, collects |-> entries[s].collects,
                     stream |-> entries[s].stream]]
               /\ entries' = ForgetResult(s)
    <3>1. [phase |-> "flushing", kind |-> "end", session |-> s,
           object |-> entries[s].object, collects |-> entries[s].collects,
           stream |-> entries[s].stream] \in EndRequest
      BY <1>1 DEF EndRequest, Flushing, EntriesTyped, Record0
    <3>2. PendingTyped'
      BY <1>1, <2>2, <3>1 DEF PendingTyped
    <3>3. EntriesTyped'
      BY <2>2, ForgetTyped DEF EntriesTyped
    <3>4. UNCHANGED <<sockets, streams>>
      BY <1>5 DEF EndCall
    <3> QED BY <1>1, <3>2, <3>3, <3>4 DEF Typed, SocketsTyped, StreamsTyped
  <2> QED BY <1>5, <2>1, <2>2 DEF EndCall
<1>6. ASSUME NEW s \in Sessions, OpenSocket(s)
      PROVE  Typed'
  <2>1. [session |-> s, open |-> TRUE, waited |-> state[s] = "QUEUED"]
          \in [session : Sessions, open : BOOLEAN, waited : BOOLEAN]
    OBVIOUS
  <2>2. SocketsTyped'
    BY <1>1, <1>6, <2>1 DEF OpenSocket, SocketsTyped
  <2> QED BY <1>1, <1>6, <2>2 DEF OpenSocket, Typed, EntriesTyped, StreamsTyped, PendingTyped
<1>7. ASSUME NEW k \in 1..MaxSockets, RequestClip(k)
      PROVE  Typed'
  <2>1. SessionOf(k) \in Sessions
    BY <1>7, SocketsOfSessions DEF RequestClip
  <2>2. EntriesTyped' /\ StreamsTyped'
    <3>1. \E clip \in Clips : Register(SessionOf(k), clip)
      BY <1>7 DEF RequestClip
    <3> QED BY <2>1, <3>1, RegisterTyped
  <2> QED BY <1>1, <1>7, <2>2 DEF RequestClip, Typed, SocketsTyped, PendingTyped
<1>8. ASSUME NEW k \in 1..MaxSockets, NEW t \in Transitions, ClipEnded(k, t)
      PROVE  Typed'
  <2> DEFINE s == SessionOf(k)
  <2>1. s \in Sessions
    BY <1>8, SocketsOfSessions DEF ClipEnded
  <2>2. PICK named :
          LET clip == InScenario(context[s], named) IN
           \/ /\ entries' = ForgetResult(s)
              /\ pending' = [pending EXCEPT ![t] =
                   [phase |-> "flushing", kind |-> "clip", session |-> s,
                    clip |-> clip, object |-> entries[s].object, collects |-> entries[s].collects,
                    stream |-> entries[s].stream]]
              /\ UNCHANGED streams
           \/ /\ Finish(s, NextClip(clip, 0), Record(context[s], clip, 0, None))
              /\ UNCHANGED pending
    BY <1>8 DEF ClipEnded
  <2> DEFINE clip == InScenario(context[s], named)
  <2>3. CASE /\ entries' = ForgetResult(s)
             /\ pending' = [pending EXCEPT ![t] =
                   [phase |-> "flushing", kind |-> "clip", session |-> s,
                    clip |-> clip, object |-> entries[s].object, collects |-> entries[s].collects,
                    stream |-> entries[s].stream]]
             /\ UNCHANGED streams
    <3>1. clip \in Clips \cup {None}
      BY DEF InScenario, Known
    <3>2. [phase |-> "flushing", kind |-> "clip", session |-> s, clip |-> clip,
           object |-> entries[s].object, collects |-> entries[s].collects,
           stream |-> entries[s].stream] \in ClipRequest
      <4> HIDE DEF clip, s
      <4> QED BY <1>1, <2>1, <3>1 DEF ClipRequest, Flushing, EntriesTyped, Record0
    <3>3. PendingTyped'
      <4> HIDE DEF clip, s
      <4> QED BY <1>1, <2>3, <3>2 DEF PendingTyped
    <3>4. EntriesTyped'
      BY <2>1, <2>3, ForgetTyped DEF EntriesTyped
    <3> QED BY <1>1, <1>8, <2>3, <3>3, <3>4 DEF ClipEnded, Typed, SocketsTyped, StreamsTyped
  <2>4. CASE /\ Finish(s, NextClip(clip, 0), Record(context[s], clip, 0, None))
             /\ UNCHANGED pending
    <3>1. EntriesTyped' /\ StreamsTyped'
      BY <2>1, <2>4, FinishTyped
    <3> QED BY <1>1, <1>8, <2>4, <3>1 DEF ClipEnded, Typed, SocketsTyped, PendingTyped
  <2> QED BY <2>2, <2>3, <2>4
<1>9. ASSUME NEW k \in 1..MaxSockets, CloseSocket(k) \/ HeartbeatTimeout(k)
      PROVE  Typed'
  <2>1. /\ SessionOf(k) \in Sessions
        /\ Closed(k) \in Seq([session : Sessions, open : BOOLEAN, waited : BOOLEAN])
    BY <1>9, SocketsOfSessions DEF CloseSocket, HeartbeatTimeout
  <2>2. SocketsTyped'
    BY <1>9, <2>1 DEF CloseSocket, HeartbeatTimeout, SocketsTyped
  <2>3. CASE Deregister(SessionOf(k))
    <3>1. EntriesTyped' /\ StreamsTyped'
      BY <2>1, <2>3, DeregisterTyped
    <3> QED BY <1>1, <1>9, <2>2, <3>1 DEF CloseSocket, HeartbeatTimeout, Typed, PendingTyped
  <2>4. CASE UNCHANGED <<entries, streams>>
    BY <1>1, <1>9, <2>2, <2>4
       DEF CloseSocket, HeartbeatTimeout, Typed, EntriesTyped, StreamsTyped, PendingTyped
  <2> QED BY <1>9, <2>3, <2>4 DEF CloseSocket, HeartbeatTimeout
<1>10. ASSUME NEW t \in Transitions, WindowReady(t)
       PROVE  Typed'
  <2>1. pending[t] \in EndRequest \cup ClipRequest
    BY <1>10, KindsOfRequests DEF WindowReady, Flushing
  <2>2. [pending[t] EXCEPT !.phase = "analysing"] \in EndRequest \cup ClipRequest
    BY <2>1 DEF EndRequest, ClipRequest, Flushing
  <2>3. pending' = [pending EXCEPT ![t] = [pending[t] EXCEPT !.phase = "analysing"]]
    BY <1>10 DEF WindowReady
  <2>4. PendingTyped'
    BY <1>1, <2>2, <2>3 DEF PendingTyped
  <2> QED BY <1>1, <1>10, <2>4 DEF WindowReady, Typed, SocketsTyped, EntriesTyped, StreamsTyped
<1>11. ASSUME NEW t \in Transitions, FlushTimeout(t)
       PROVE  Typed'
  BY <1>1, <1>11, AfterFlushTyped DEF FlushTimeout, Flushing, EntriesTyped
<1>12. ASSUME NEW t \in Transitions, Analysed(t)
       PROVE  Typed'
  <2> DEFINE s == pending[t].session
             mine == entries[s] # NoEntry /\ entries[s].object = pending[t].object
             With(r) == IF mine THEN [entries EXCEPT ![s].result = r] ELSE entries
  <2>1. pending[t] \in EndRequest \cup ClipRequest /\ s \in Sessions
    BY <1>12, KindsOfRequests DEF Analysed, Flushing
  <2>2. CASE AfterFlush(t, entries)
    BY <1>1, <1>12, <2>2, AfterFlushTyped DEF Analysed, Flushing, EntriesTyped
  <2>3. ASSUME NEW score \in Scores,
               AfterFlush(t, With([window |-> pending[t].stream,
                                   clip |-> pending[t].collects, score |-> score]))
        PROVE  Typed'
    <3>1. [window |-> pending[t].stream, clip |-> pending[t].collects, score |-> score]
            \in Result
      BY <2>1 DEF EndRequest, ClipRequest, Result
    <3>2. ASSUME NEW r \in Result
          PROVE  With(r) \in [Sessions -> Record0]
      BY <1>1, <2>1, <3>2 DEF EntriesTyped, Record0
    <3>3. With([window |-> pending[t].stream, clip |-> pending[t].collects,
                score |-> score]) \in [Sessions -> Record0]
      <4> HIDE DEF With
      <4> QED BY <3>1, <3>2
    <3> HIDE DEF With
    <3> QED BY <1>12, <2>3, <3>3, AfterFlushTyped DEF Analysed, Flushing
  <2> QED BY <1>12, <2>2, <2>3 DEF Analysed, BehaviourResult
<1>13. ASSUME NEW t \in Transitions, ResetDone(t)
       PROVE  Typed'
  <2>1. pending[t].session \in Sessions
    BY <1>13, KindsOfRequests DEF ResetDone
  <2>2. EntriesTyped' /\ StreamsTyped'
    BY <1>13, <2>1, FinishTyped DEF ResetDone
  <2>3. PendingTyped'
    BY <1>1, <1>13 DEF ResetDone, Done, PendingTyped
  <2> QED BY <1>1, <1>13, <2>2, <2>3 DEF ResetDone, Typed, SocketsTyped
<1> QED BY <1>3, <1>4, <1>5, <1>6, <1>7, <1>8, <1>9, <1>10, <1>11, <1>12, <1>13 DEF Next

(* The container starts with them. *)
LEMMA InitTyped == Init => Typed
<1> SUFFICES ASSUME Init PROVE Typed
  OBVIOUS
<1>1. SocketsTyped /\ PendingTyped
  BY DEF Init, SocketsTyped, PendingTyped
<1>2. EntriesTyped
  <2>1. NoEntry \in Record0
    BY DEF NoEntry, Record0, Collected
  <2> QED BY <2>1 DEF Init, EntriesTyped
<1>3. StreamsTyped
  BY FS_EmptySet DEF Init, StreamsTyped
<1> QED BY <1>1, <1>2, <1>3 DEF Typed

(* The container's records, WebSockets and requests have their types. *)
THEOREM ContainerTyped == Spec => []Typed
BY InitTyped, StepTyped, PTL DEF Spec

-----------------------------------------------------------------------------
(* The container calls the manager's methods, and changes nothing behind its
   back. *)

(* The end of a transition calls one method. *)
LEMMA FinishCalls ==
  ASSUME NEW s \in Sessions, NEW next, NEW ctx, Finish(s, next, ctx)
  PROVE  SM!MarkActive(s) \/ SM!EndSession(s)
BY DEF Finish

(* What follows a flush calls one method, or none. *)
LEMMA AfterFlushCalls ==
  ASSUME NEW t \in Transitions, pending[t].session \in Sessions, NEW e, AfterFlush(t, e)
  PROVE  \/ SM!MarkActive(pending[t].session) \/ SM!EndSession(pending[t].session)
         \/ UNCHANGED smVars
<1>1. CASE SM!EndSession(pending[t].session)
  BY <1>1
<1>2. CASE Decide(t, e)
  <2>1. CASE \E next, ctx : Finish(pending[t].session, next, ctx)
    BY <2>1, FinishCalls
  <2> QED BY <1>2, <2>1 DEF Decide
<1> QED BY <1>1, <1>2 DEF AfterFlush

(* The calls. *)
ServedCall(s) ==
  \/ SM!Create(s) \/ SM!ResumeSession(s) \/ SM!EndSession(s) \/ SM!MarkActive(s)
  \/ SM!MarkPaused(s) \/ SM!MarkDropped(s) \/ SM!Timeout(s)
Calls(s) == ServedCall(s) \/ \E k \in 1..MaxSockets : SM!SetQueuedSocket(s, k)

(* A step that opens no socket calls one method other than setQueuedSocket. *)
LEMMA StepCalls ==
  ASSUME Typed, [Next]_vars
  PROVE  \/ (\E s \in Sessions : ServedCall(s)) \/ UNCHANGED smVars
         \/ \E s \in Sessions : OpenSocket(s)
<1>1. CASE UNCHANGED vars
  BY <1>1 DEF vars
<1>2. ASSUME NEW s \in Sessions,
             CreateSession(s) \/ ResumeSession(s) \/ EndCall(s) \/ Timeout(s)
      PROVE  ServedCall(s) \/ UNCHANGED smVars
  BY <1>2 DEF CreateSession, ResumeSession, EndCall, Timeout, ServedCall
<1>3. ASSUME NEW k \in 1..MaxSockets,
             \/ RequestClip(k) \/ CloseSocket(k) \/ HeartbeatTimeout(k)
             \/ \E t \in Transitions : ClipEnded(k, t)
      PROVE  (\E s \in Sessions : ServedCall(s)) \/ UNCHANGED smVars
  <2>1. IsOpen(k)
    BY <1>3 DEF RequestClip, CloseSocket, HeartbeatTimeout, ClipEnded
  <2>2. SessionOf(k) \in Sessions
    BY <2>1, SocketsOfSessions
  <2>3. CASE RequestClip(k) \/ CloseSocket(k) \/ HeartbeatTimeout(k)
    BY <2>2, <2>3 DEF RequestClip, CloseSocket, HeartbeatTimeout, ServedCall
  <2>4. CASE \E t \in Transitions : ClipEnded(k, t)
    <3>1. \/ SM!MarkPaused(SessionOf(k))
          \/ \E next, ctx : Finish(SessionOf(k), next, ctx)
      BY <2>4 DEF ClipEnded
    <3> QED BY <2>2, <3>1, FinishCalls DEF ServedCall
  <2> QED BY <1>3, <2>3, <2>4
<1>4. ASSUME NEW t \in Transitions, WindowReady(t)
      PROVE  UNCHANGED smVars
  BY <1>4 DEF WindowReady
<1>5. ASSUME NEW t \in Transitions, FlushTimeout(t) \/ Analysed(t)
      PROVE  (\E s \in Sessions : ServedCall(s)) \/ UNCHANGED smVars
  <2>1. pending[t].session \in Sessions
    BY <1>5, KindsOfRequests DEF FlushTimeout, Analysed, Flushing
  <2>2. \E e : AfterFlush(t, e)
    BY <1>5 DEF FlushTimeout, Analysed
  <2> QED BY <2>1, <2>2, AfterFlushCalls DEF ServedCall
<1>6. ASSUME NEW t \in Transitions, ResetDone(t)
      PROVE  \E s \in Sessions : ServedCall(s)
  <2>1. pending[t].session \in Sessions
    BY <1>6, KindsOfRequests DEF ResetDone
  <2> QED BY <1>6, <2>1, FinishCalls DEF ResetDone, ServedCall
<1> QED BY <1>1, <1>2, <1>3, <1>4, <1>5, <1>6 DEF Next

(* Opening a socket calls setQueuedSocket, or nothing. *)
LEMMA OpeningCalls ==
  ASSUME Typed, NEW s \in Sessions, OpenSocket(s)
  PROVE  Calls(s) \/ UNCHANGED smVars
<1> DEFINE k == Len(sockets) + 1
<1>1. k \in 1..MaxSockets
  <2>1. Len(sockets) \in Nat
    BY DEF Typed, SocketsTyped
  <2> QED BY <2>1, SizesAssumption DEF OpenSocket
<1>2. SM!SetQueuedSocket(s, k) \/ UNCHANGED smVars
  BY DEF OpenSocket
<1> QED BY <1>1, <1>2 DEF Calls

(* A call is a step of the manager. *)
LEMMA CallsAreSteps ==
  ASSUME NEW s \in Sessions, Calls(s) PROVE SM!Next
BY DEF Calls, ServedCall, SM!Next

(* The container is a run of its SessionManager, whichever faults happen. *)
THEOREM ManagerImplemented == Spec => SM!Spec
<1>1. Init => SM!Init
  BY DEF Init
<1>2. Typed /\ [Next]_vars => [SM!Next]_(SM!vars)
  BY StepCalls, OpeningCalls, CallsAreSteps DEF SM!vars, smVars, Calls
<1> QED BY <1>1, <1>2, ContainerTyped, PTL DEF Spec, SM!Spec

(* No socket has the number that stands for none. *)
LEMMA NoSocketIsNone == NoSocket \notin 1..MaxSockets
BY DEF NoSocket

(* The two instances of the manager are the same. *)
LEMMA SameMethods ==
  ASSUME NEW s \in Sessions
  PROVE  /\ SM!Create(s) <=> SL!Create(s)
         /\ SM!ResumeSession(s) <=> SL!ResumeSession(s)
         /\ SM!EndSession(s) <=> SL!EndSession(s)
         /\ SM!MarkActive(s) <=> SL!MarkActive(s)
         /\ SM!MarkPaused(s) <=> SL!MarkPaused(s)
         /\ SM!MarkDropped(s) <=> SL!MarkDropped(s)
         /\ SM!Timeout(s) <=> SL!Timeout(s)
         /\ \A k : SM!SetQueuedSocket(s, k) <=> SL!SetQueuedSocket(s, k)
<1>1. \A st, pos, tm, sy : SM!ReleaseSlot(st, pos, tm, sy) <=> SL!ReleaseSlot(st, pos, tm, sy)
  BY DEF SM!ReleaseSlot, SL!ReleaseSlot, SM!PromoteNext, SL!PromoteNext, SM!Shift, SL!Shift,
         SM!HandOver, SL!HandOver, SM!Renumber, SL!Renumber, SM!Notify, SL!Notify,
         SM!Overwrite, SL!Overwrite, SM!Arm, SL!Arm, SM!Forget, SL!Forget,
         SM!NoPosition, SL!NoPosition
<1> QED
  BY <1>1
     DEF SM!Create, SL!Create, SM!CreateActive, SL!CreateActive, SM!CreateQueued,
         SL!CreateQueued, SM!ResumeSession, SL!ResumeSession, SM!EndSession, SL!EndSession,
         SM!MarkActive, SL!MarkActive, SM!MarkPaused, SL!MarkPaused, SM!MarkDropped,
         SL!MarkDropped, SM!Timeout, SL!Timeout, SM!TimerFires, SL!TimerFires,
         SM!StrayFires, SL!StrayFires, SM!ConnectionTimeout, SL!ConnectionTimeout,
         SM!RecoveryTimeout, SL!RecoveryTimeout, SM!SetQueuedSocket, SL!SetQueuedSocket,
         SM!KeepSlot, SL!KeepSlot, SM!Forget, SL!Forget, SM!Arm, SL!Arm, SM!Clear, SL!Clear,
         SM!Overwrite, SL!Overwrite, SM!Exists, SL!Exists, SM!HoldsSlot, SL!HoldsSlot,
         SM!SlotStates, SL!SlotStates, SM!Resumable, SL!Resumable,
         SM!QueueHasRoom, SL!QueueHasRoom, SM!TimerKinds, SL!TimerKinds,
         SM!NoPosition, SL!NoPosition

(* ... and so are their specifications. *)
LEMMA SameSpec == SM!Spec => SL!Spec
<1>1. SM!Init => SL!Init
  BY DEF SM!Init, SL!Init, SM!NoPosition, SL!NoPosition
<1>2. [SM!Next]_(SM!vars) => [SL!Next]_(SL!vars)
  BY SameMethods DEF SM!Next, SL!Next, SM!vars, SL!vars
<1> QED BY <1>1, <1>2, PTL DEF SM!Spec, SL!Spec

(* The manager's inductive invariant holds in the container. *)
LEMMA ManagerInvariant == Spec => []SL!IInv
<1>0. SL!IsFiniteSet(Sessions)
  BY SizesAssumption DEF SL!IsFiniteSet, IsFiniteSet
<1>1. SL!Init => SL!IInv
  BY <1>0, SL!InitEstablishesInv, SizesAssumption, NoSocketIsNone
<1>2. SL!IInv /\ [SL!Next]_(SL!vars) => SL!IInv'
  BY <1>0, SL!StepKeepsInv, SizesAssumption, NoSocketIsNone
<1> QED BY <1>1, <1>2, ManagerImplemented, SameSpec, PTL DEF SL!Spec

(* Whatever the clients, timers and transitions do, and however late, the
   counter never passes maxSessions, nobody waits while a slot is free,
   everyone who waits knows his place, and no deadline loses its timer. *)
THEOREM ManagerKeepsItsWord ==
  Spec => [](SM!NoIdleSlotWhileWaiting /\ SM!QueuePositionsExact /\ SM!DeadlinesArmed)
<1>1. SL!IInv => SM!NoIdleSlotWhileWaiting /\ SM!QueuePositionsExact /\ SM!DeadlinesArmed
  BY DEF SL!IInv, SL!NoIdleSlotWhileWaiting, SM!NoIdleSlotWhileWaiting,
         SL!QueuePositionsExact, SM!QueuePositionsExact, SL!Queued, SM!Queued,
         SL!DeadlinesArmed, SM!DeadlinesArmed
<1> QED BY <1>1, ManagerInvariant, PTL

-----------------------------------------------------------------------------
(* What a call does to the states and to the queue. *)

Untouched(u) == state'[u] = state[u] /\ (u \in SM!Queued' <=> u \in SM!Queued)
Promoted(u) == u \in SM!Queued /\ u \notin SM!Queued' /\ state'[u] = "CONNECTING"
Becomes(s, v) == state'[s] = v /\ (s \in SM!Queued' <=> s \in SM!Queued)
Others(s) == \A u \in Sessions \ {s} : Untouched(u) \/ Promoted(u)

(* What the manager's invariant says of states and queue. *)
LEMMA StatesAndQueue ==
  ASSUME SL!IInv
  PROVE  /\ state \in [Sessions -> SM!SessionStates \cup {"NONE"}]
         /\ queue \in Seq(Sessions)
         /\ SM!Queued \subseteq Sessions
         /\ \A i, j \in 1..Len(queue) : queue[i] = queue[j] => i = j
         /\ \A s \in Sessions : state[s] = "QUEUED" => s \in SM!Queued
         /\ \A s \in SM!Queued : state[s] # "NONE"
<1>1. queue \in Seq(Sessions)
  BY DEF SL!IInv, SL!TypeOK
<1>2. SM!Queued \subseteq Sessions
  BY <1>1 DEF SM!Queued
<1>3. \A s \in SM!Queued : state[s] # "NONE"
  BY DEF SL!IInv, SL!QueuedExist, SL!Exists, SM!Queued
<1> QED BY <1>1, <1>2, <1>3
        DEF SL!IInv, SL!TypeOK, SL!QueuePositionsExact, SL!SessionStates, SM!SessionStates,
            SL!SlotStates, SM!SlotStates, SL!Queued, SM!Queued

(* queue.shift() takes the head out of the line, and nobody else. *)
LEMMA HeadLeaves ==
  ASSUME SL!IInv, queue # <<>>, queue' = Tail(queue)
  PROVE  /\ Head(queue) \in SM!Queued
         /\ SM!Queued' = SM!Queued \ {Head(queue)}
<1>1. /\ Head(queue) = queue[1]
      /\ Len(Tail(queue)) = Len(queue) - 1
      /\ Len(queue) \in Nat \ {0}
      /\ \A i \in 1..Len(Tail(queue)) : Tail(queue)[i] = queue[i + 1]
  BY StatesAndQueue
<1>2. SM!Queued' = {Tail(queue)[i] : i \in 1..Len(Tail(queue))}
  BY DEF SM!Queued
<1>3. \A i, j \in 1..Len(queue) : queue[i] = queue[j] => i = j
  BY StatesAndQueue
<1>4. Head(queue) \in SM!Queued
  BY <1>1 DEF SM!Queued
<1>5. ASSUME NEW u \in SM!Queued' PROVE u \in SM!Queued \ {Head(queue)}
  <2>1. PICK i \in 1..(Len(queue) - 1) : u = queue[i + 1]
    BY <1>1, <1>2, <1>5
  <2>2. i + 1 \in 1..Len(queue) /\ 1 \in 1..Len(queue) /\ i + 1 # 1
    BY <1>1, <2>1
  <2> QED BY <1>1, <1>3, <2>1, <2>2 DEF SM!Queued
<1>6. ASSUME NEW u \in SM!Queued, u # Head(queue) PROVE u \in SM!Queued'
  <2>1. PICK i \in 1..Len(queue) : u = queue[i]
    BY <1>6 DEF SM!Queued
  <2>2. i # 1
    BY <1>1, <1>6, <2>1
  <2>3. i - 1 \in 1..Len(Tail(queue)) /\ Tail(queue)[i - 1] = queue[i]
    BY <1>1, <2>1, <2>2
  <2> QED BY <1>2, <2>1, <2>3
<1> QED BY <1>4, <1>5, <1>6

(* releaseSlot ends one session and promotes one at most. *)
LEMMA ReleaseEffect ==
  ASSUME SL!IInv, NEW s \in Sessions, NEW v, NEW pos, NEW tm, NEW sy,
         SM!ReleaseSlot([state EXCEPT ![s] = v], pos, tm, sy)
  PROVE  Others(s) /\ (Becomes(s, v) \/ Promoted(s))
<1>1. state \in [Sessions -> SM!SessionStates \cup {"NONE"}]
  BY StatesAndQueue
<1>2. CASE queue' = queue /\ state' = [state EXCEPT ![s] = v]
  BY <1>1, <1>2 DEF Others, Untouched, Becomes, SM!Queued
<1>3. CASE /\ queue # <<>>
           /\ queue' = Tail(queue)
           /\ state' = [[state EXCEPT ![s] = v] EXCEPT ![Head(queue)] = "CONNECTING"]
  <2>1. Head(queue) \in SM!Queued /\ SM!Queued' = SM!Queued \ {Head(queue)}
    BY <1>3, HeadLeaves
  <2>2. Head(queue) \in Sessions
    BY <2>1, StatesAndQueue
  <2> QED BY <1>1, <1>3, <2>1, <2>2 DEF Others, Untouched, Becomes, Promoted
<1> QED BY <1>2, <1>3 DEF SM!ReleaseSlot, SM!PromoteNext, SM!Shift

(* A step that keeps its slot changes one session. *)
LEMMA KeepEffect ==
  ASSUME SL!IInv, NEW s \in Sessions, NEW v, NEW pos, NEW tm, NEW sy,
         SM!KeepSlot([state EXCEPT ![s] = v], pos, tm, sy)
  PROVE  Others(s) /\ Becomes(s, v)
<1>1. state \in [Sessions -> SM!SessionStates \cup {"NONE"}]
  BY StatesAndQueue
<1> QED BY <1>1 DEF SM!KeepSlot, Others, Untouched, Becomes, SM!Queued

(* A step may leave all sessions alone. *)
LEMMA SameEffect ==
  ASSUME NEW s, UNCHANGED <<state, queue>>
  PROVE  Others(s) /\ Becomes(s, state[s])
BY DEF Others, Untouched, Becomes, SM!Queued

(* What the marks and resumeSession do. *)
LEMMA MarkEffect ==
  ASSUME SL!IInv, NEW s \in Sessions
  PROVE  /\ SM!MarkActive(s) => Others(s) /\ Becomes(s, "ACTIVE")
         /\ SM!MarkPaused(s) => Others(s) /\ Becomes(s, "PAUSED")
         /\ SM!MarkDropped(s) => Others(s) /\ Becomes(s, "DROPPED")
         /\ SM!ResumeSession(s) =>
              state[s] = "DROPPED" /\ Others(s) /\ Becomes(s, "CONNECTING")
BY KeepEffect DEF SM!MarkActive, SM!MarkPaused, SM!MarkDropped, SM!ResumeSession, SM!Resumable

(* What endSession does. *)
LEMMA EndEffect ==
  ASSUME SL!IInv, NEW s \in Sessions, SM!EndSession(s)
  PROVE  Others(s) /\ (Becomes(s, "COMPLETED") \/ Promoted(s))
BY KeepEffect, ReleaseEffect DEF SM!EndSession

(* What createSession does. *)
LEMMA CreateEffect ==
  ASSUME SL!IInv, NEW s \in Sessions, SM!Create(s)
  PROVE  /\ state[s] = "NONE" /\ Others(s)
         /\ \/ Becomes(s, "CONNECTING")
            \/ state'[s] = "QUEUED" /\ s \in SM!Queued'
<1>1. /\ state \in [Sessions -> SM!SessionStates \cup {"NONE"}]
      /\ queue \in Seq(Sessions)
  BY StatesAndQueue
<1>2. CASE SM!CreateActive(s)
  BY <1>1, <1>2 DEF SM!CreateActive, SM!Exists, Others, Untouched, Becomes, SM!Queued
<1>3. CASE SM!CreateQueued(s)
  <2>1. /\ queue' = Append(queue, s) /\ state' = [state EXCEPT ![s] = "QUEUED"]
        /\ state[s] = "NONE"
    BY <1>3 DEF SM!CreateQueued, SM!Exists
  <2>2. SM!Queued' = SM!Queued \cup {s}
    <3>1. /\ Len(queue) \in Nat /\ Len(Append(queue, s)) = Len(queue) + 1
          /\ Append(queue, s)[Len(queue) + 1] = s
          /\ \A i \in 1..Len(queue) : Append(queue, s)[i] = queue[i]
      BY <1>1
    <3> QED BY <2>1, <3>1 DEF SM!Queued
  <2> QED BY <1>1, <2>1, <2>2 DEF Others, Untouched
<1> QED BY <1>2, <1>3 DEF SM!Create

(* What a timer that fires does. *)
LEMMA TimeoutEffect ==
  ASSUME SL!IInv, NEW s \in Sessions, SM!Timeout(s)
  PROVE  /\ Others(s)
         /\ \/ Becomes(s, state[s])
            \/ state[s] = "CONNECTING" /\ Becomes(s, "DROPPED")
            \/ state[s] = "DROPPED" /\ (Becomes(s, "EXPIRED") \/ Promoted(s))
<1>1. ASSUME NEW tm, NEW sy, SM!ConnectionTimeout(s, tm, sy)
      PROVE  /\ Others(s)
             /\ \/ Becomes(s, state[s])
                \/ state[s] = "CONNECTING" /\ Becomes(s, "DROPPED")
  <2>1. CASE SM!KeepSlot(state, queuePosition, tm, sy)
    BY <2>1, SameEffect DEF SM!KeepSlot
  <2> QED BY <1>1, <2>1, KeepEffect DEF SM!ConnectionTimeout
<1>2. ASSUME NEW tm, NEW sy, SM!RecoveryTimeout(s, tm, sy)
      PROVE  /\ Others(s)
             /\ \/ Becomes(s, state[s])
                \/ state[s] = "DROPPED" /\ (Becomes(s, "EXPIRED") \/ Promoted(s))
  <2>1. CASE SM!KeepSlot(state, queuePosition, tm, sy)
    BY <2>1, SameEffect DEF SM!KeepSlot
  <2> QED BY <1>2, <2>1, ReleaseEffect DEF SM!RecoveryTimeout
<1> QED BY <1>1, <1>2 DEF SM!Timeout, SM!TimerFires, SM!StrayFires

-----------------------------------------------------------------------------
(* The transcription WebSockets. *)

(* What makes a record of the Coordinator safe to replace or to drop: it
   belongs to a session that runs or is complete, and is neither new, nor
   waiting, nor about to start over. *)
Fits(s) ==
  /\ entries[s] # NoEntry =>
       /\ entries[s].stream # 0
       /\ state[s] \in {"ACTIVE", "PAUSED", "COMPLETED"}
  /\ s \in SM!Queued =>
       entries[s] = NoEntry /\ state[s] \in {"QUEUED", "COMPLETED"} /\ ~Busy(s)
  /\ state[s] = "NONE" => ~Busy(s)

(* Every WebSocket that is up has one owner; no WebSocket has the number that
   stands for none. *)
Owned == StreamsOwned /\ 0 \notin streams

StreamsInv ==
  /\ Typed /\ SL!IInv
  /\ \A s \in Sessions : Fits(s)
  /\ Owned

(* A step that concerns s leaves the others as they were, or promotes them. *)
LEMMA OthersFit ==
  ASSUME NEW u \in Sessions, Fits(u), Untouched(u) \/ Promoted(u),
         entries'[u] = entries[u], Busy(u)' => Busy(u)
  PROVE  Fits(u)'
<1>1. CASE Untouched(u)
  BY <1>1 DEF Fits, Untouched
<1>2. CASE Promoted(u)
  BY <1>2 DEF Fits, Promoted
<1> QED BY <1>1, <1>2

(* A request that is begun, goes on or is done concerns its session only. *)
LEMMA OthersBusy ==
  ASSUME Typed, NEW t \in Transitions, NEW s, NEW r,
         pending' = [pending EXCEPT ![t] = r],
         r = Idle \/ r.session = s
  PROVE  \A u \in Sessions \ {s} : Busy(u)' => Busy(u)
BY DEF Typed, PendingTyped, Busy

(* A request under way makes its session busy. *)
LEMMA BusySession ==
  ASSUME NEW t \in Transitions, pending[t] # Idle
  PROVE  Busy(pending[t].session)
BY DEF Busy

(* A busy session has begun and does not wait. *)
LEMMA BusyRuns ==
  ASSUME NEW s \in Sessions, Fits(s), Busy(s)
  PROVE  s \notin SM!Queued /\ state[s] # "NONE"
BY DEF Fits

(* StreamsOwned under each change of the records and WebSockets. *)

SameStreams(e) ==
  \A s \in Sessions : e[s].stream = entries[s].stream
                       /\ (e[s] = NoEntry <=> entries[s] = NoEntry)

(* Only results change. *)
LEMMA RecordsKept ==
  ASSUME Owned, SameStreams(entries'), streams' = streams
  PROVE  Owned'
BY DEF Owned, StreamsOwned, SameStreams

(* A new record where there was none. *)
LEMMA RegisterOwns ==
  ASSUME Typed, Owned, NEW s \in Sessions, entries[s] = NoEntry,
         NEW clip, Register(s, clip)
  PROVE  Owned' /\ entries'[s].stream # 0
<1>1. Fresh \in Nat \ {0} /\ Fresh \notin InUse
  BY FreshIsNew
<1>2. \A u \in Sessions : entries[u].stream # Fresh
  BY <1>1 DEF InUse
<1>3. /\ \A u \in Sessions \ {s} : entries'[u] = entries[u]
      /\ entries'[s].stream = Fresh
      /\ streams' = streams \cup {Fresh}
  BY DEF Register, Typed, EntriesTyped
<1>4. \A n \in streams : \E u \in Sessions \ {s} : entries[u].stream = n
  BY DEF Owned, StreamsOwned, NoEntry
<1>5. \A n \in streams' : \E u \in Sessions : entries'[u].stream = n
  BY <1>3, <1>4
<1>6. \A u, w \in Sessions :
        u # w /\ entries'[u] # NoEntry => entries'[u].stream # entries'[w].stream
  BY <1>2, <1>3 DEF Owned, StreamsOwned
<1> QED BY <1>1, <1>3, <1>5, <1>6 DEF Owned, StreamsOwned

(* A record is dropped and its WebSocket closed. *)
LEMMA DeregisterOwns ==
  ASSUME Typed, Owned, NEW s \in Sessions, Deregister(s),
         \A u \in Sessions : entries[u] # NoEntry => entries[u].stream # 0
  PROVE  Owned' /\ entries'[s] = NoEntry
<1>1. /\ \A u \in Sessions \ {s} : entries'[u] = entries[u]
      /\ entries'[s] = NoEntry /\ NoEntry.stream = 0
      /\ streams' = streams \ {entries[s].stream}
  BY DEF Deregister, Without, Close, NoEntry, Typed, EntriesTyped
<1>2. \A n \in streams' : \E u \in Sessions : entries'[u].stream = n
  BY <1>1 DEF Owned, StreamsOwned
<1>3. \A u, w \in Sessions :
        u # w /\ entries'[u] # NoEntry => entries'[u].stream # entries'[w].stream
  BY <1>1 DEF Owned, StreamsOwned
<1> QED BY <1>1, <1>2, <1>3 DEF Owned, StreamsOwned

(* The two ways a transition goes on to its resets. *)
LEMMA ResetsOwn ==
  ASSUME Typed, Owned, NEW s \in Sessions, entries[s] # NoEntry,
         \A u \in Sessions : entries[u] # NoEntry => entries[u].stream # 0,
         NEW e \in [Sessions -> Record0], SameStreams(e), NEW next,
         \/ entries' = e /\ streams' = Close(e, s)
         \/ /\ entries' = [e EXCEPT ![s].stream = Fresh, ![s].collects = next]
            /\ streams' = Close(e, s) \cup {Fresh}
  PROVE  /\ Owned'
         /\ entries'[s].stream # 0
         /\ \A u \in Sessions \ {s} : entries'[u] = e[u]
<1>1. Fresh \in Nat \ {0} /\ Fresh \notin InUse
  BY FreshIsNew
<1>2. \A u \in Sessions : entries[u].stream # Fresh
  BY <1>1 DEF InUse
<1>3. Close(e, s) = streams \ {entries[s].stream}
  BY DEF Close, SameStreams
<1>4. CASE entries' = e /\ streams' = Close(e, s)
  BY <1>3, <1>4 DEF Owned, StreamsOwned, SameStreams
<1>5. CASE /\ entries' = [e EXCEPT ![s].stream = Fresh, ![s].collects = next]
           /\ streams' = Close(e, s) \cup {Fresh}
  <2>1. /\ \A u \in Sessions \ {s} : entries'[u] = e[u]
        /\ entries'[s].stream = Fresh
    BY <1>5 DEF Record0
  <2>2. \A n \in streams' : \E u \in Sessions : entries'[u].stream = n
    BY <1>3, <1>5, <2>1 DEF Owned, StreamsOwned, SameStreams
  <2>3. \A u, w \in Sessions :
          u # w /\ entries'[u] # NoEntry => entries'[u].stream # entries'[w].stream
    BY <1>2, <2>1 DEF Owned, StreamsOwned, SameStreams
  <2> QED BY <1>1, <1>3, <1>5, <2>1, <2>2, <2>3 DEF Owned, StreamsOwned
<1> QED BY <1>4, <1>5

(* Forgetting a result changes no WebSocket. *)
LEMMA ForgetSame ==
  ASSUME Typed, NEW s \in Sessions, entries[s] # NoEntry => entries[s].stream # 0,
         entries' = ForgetResult(s)
  PROVE  /\ SameStreams(entries')
         /\ entries'[s].result = None
         /\ \A u \in Sessions \ {s} : entries'[u] = entries[u]
<1>1. entries \in [Sessions -> Record0]
  BY DEF Typed, EntriesTyped
<1>2. \A u \in Sessions \ {s} : entries'[u] = entries[u]
  BY <1>1 DEF ForgetResult
<1>3. entries'[s] = [entries[s] EXCEPT !.result = None]
  BY <1>1 DEF ForgetResult
<1>4. entries'[s].stream = entries[s].stream /\ entries'[s].result = None
  BY <1>1, <1>3 DEF Record0
<1>5. entries'[s] = NoEntry <=> entries[s] = NoEntry
  <2>1. CASE entries[s] = NoEntry
    BY <1>3, <2>1 DEF NoEntry
  <2>2. CASE entries[s] # NoEntry
    BY <1>4, <2>2 DEF NoEntry
  <2> QED BY <2>1, <2>2
<1> QED BY <1>2, <1>4, <1>5 DEF SameStreams

(* With what an evaluation is answered. *)
LEMMA AnsweredWith ==
  ASSUME Typed, NEW t \in Transitions, Analysed(t)
  PROVE  \E e : AfterFlush(t, e) /\ (e = entries \/ \E r \in Result :
            /\ entries[pending[t].session] # NoEntry
            /\ r.window = pending[t].stream /\ r.clip = pending[t].collects
            /\ e = [entries EXCEPT ![pending[t].session].result = r])
<1> DEFINE s == pending[t].session
           mine == entries[s] # NoEntry /\ entries[s].object = pending[t].object
           With(r) == IF mine THEN [entries EXCEPT ![s].result = r] ELSE entries
<1>1. pending[t].stream \in Nat /\ pending[t].collects \in Collected
  BY KindsOfRequests DEF Analysed, Flushing, EndRequest, ClipRequest
<1>2. CASE AfterFlush(t, entries)
  BY <1>2
<1>3. ASSUME NEW score \in Scores,
             AfterFlush(t, With([window |-> pending[t].stream,
                                 clip |-> pending[t].collects, score |-> score]))
      PROVE  \E e : AfterFlush(t, e) /\ (e = entries \/ \E r \in Result :
                /\ entries[s] # NoEntry
                /\ r.window = pending[t].stream /\ r.clip = pending[t].collects
                /\ e = [entries EXCEPT ![s].result = r])
  <2> DEFINE r == [window |-> pending[t].stream, clip |-> pending[t].collects,
                   score |-> score]
  <2>1. r \in Result /\ r.window = pending[t].stream /\ r.clip = pending[t].collects
    BY <1>1 DEF Result
  <2>2. AfterFlush(t, With(r))
    BY <1>3
  <2> HIDE DEF r
  <2>3. CASE mine
    BY <2>1, <2>2, <2>3
  <2>4. CASE ~mine
    <3>1. With(r) = entries
      BY <2>4
    <3> HIDE DEF With
    <3> QED BY <2>2, <3>1
  <2> QED BY <2>3, <2>4
<1> QED BY <1>2, <1>3 DEF Analysed, BehaviourResult

(* The end of a transition keeps every WebSocket owned. *)
LEMMA FinishFits ==
  ASSUME StreamsInv, NEW s \in Sessions, NEW next, NEW ctx, Finish(s, next, ctx),
         s \notin SM!Queued
  PROVE  Owned' /\ Fits(s)' /\ \A u \in Sessions \ {s} :
           (Untouched(u) \/ Promoted(u)) /\ entries'[u] = entries[u]
<1>1. Typed /\ SL!IInv /\ Owned /\ Fits(s)
  BY DEF StreamsInv
<1>2. CASE SM!MarkActive(s) /\ UNCHANGED <<entries, streams>>
  <2>1. Others(s) /\ Becomes(s, "ACTIVE")
    BY <1>1, <1>2, MarkEffect
  <2>2. Owned'
    BY <1>1, <1>2 DEF Owned, StreamsOwned
  <2> QED BY <1>1, <1>2, <2>1, <2>2 DEF Others, Becomes, Fits
<1>3. CASE SM!EndSession(s) /\ Deregister(s)
  <2>1. Others(s) /\ (Becomes(s, "COMPLETED") \/ Promoted(s))
    BY <1>1, <1>3, EndEffect
  <2>2. Owned' /\ entries'[s] = NoEntry
    BY <1>1, <1>3, DeregisterOwns DEF StreamsInv, Fits
  <2>3. \A u \in Sessions \ {s} : entries'[u] = entries[u]
    BY <1>1, <1>3 DEF Deregister, Without, Typed, EntriesTyped
  <2>4. Becomes(s, "COMPLETED")
    BY <2>1 DEF Promoted
  <2> QED BY <2>1, <2>2, <2>3, <2>4 DEF Others, Becomes, Fits
<1> QED BY <1>2, <1>3 DEF Finish

(* The rest of a transition after its flush, for records that differ in
   their results only. *)
LEMMA AfterFlushFits ==
  ASSUME StreamsInv, NEW t \in Transitions, pending[t].phase \in Flushing,
         NEW e \in [Sessions -> Record0], SameStreams(e),
         \A u \in Sessions : u # pending[t].session => e[u] = entries[u],
         AfterFlush(t, e)
  PROVE  Owned' /\ \A u \in Sessions : Fits(u)'
<1>1. Typed /\ SL!IInv /\ Owned /\ \A u \in Sessions : Fits(u)
  BY DEF StreamsInv
<1>2. PICK s \in Sessions : s = pending[t].session /\ pending[t] # Idle
  BY <1>1, KindsOfRequests
<1>3. s \notin SM!Queued /\ state[s] # "NONE"
  BY <1>1, <1>2, BusySession, BusyRuns
<1>4. ASSUME pending' = Done(t)
      PROVE  \A u \in Sessions \ {s} : Busy(u)' => Busy(u)
  BY <1>1, <1>2, <1>4, OthersBusy DEF Done
<1>5. ASSUME SM!EndSession(s), entries' = e, pending' = Done(t), UNCHANGED streams
      PROVE  Owned' /\ \A u \in Sessions : Fits(u)'
  <2>1. Others(s) /\ Becomes(s, "COMPLETED")
    BY <1>1, <1>2, <1>3, <1>5, EndEffect DEF Promoted
  <2>2. Owned'
    BY <1>1, <1>5, RecordsKept
  <2>3. Fits(s)'
    BY <1>1, <1>2, <1>3, <1>5, <2>1 DEF Becomes, Fits, SameStreams
  <2>4. \A u \in Sessions \ {s} : Fits(u)'
    BY <1>1, <1>2, <1>4, <1>5, <2>1, OthersFit DEF Others
  <2> QED BY <2>2, <2>3, <2>4
<1>6. ASSUME NEW next, NEW ctx, Finish(s, next, ctx), pending' = Done(t)
      PROVE  Owned' /\ \A u \in Sessions : Fits(u)'
  BY <1>1, <1>2, <1>3, <1>4, <1>6, FinishFits, OthersFit
<1>7. ASSUME NEW next, entries[s] # NoEntry,
             pending' = [pending EXCEPT ![t] =
                [phase |-> "resetting", session |-> s, next |-> next]],
             \/ entries' = e /\ streams' = Close(e, s)
             \/ /\ entries' = [e EXCEPT ![s].stream = Fresh, ![s].collects = next]
                /\ streams' = Close(e, s) \cup {Fresh},
             UNCHANGED smVars
      PROVE  Owned' /\ \A u \in Sessions : Fits(u)'
  <2>1. /\ Owned' /\ entries'[s].stream # 0
        /\ \A u \in Sessions \ {s} : entries'[u] = entries[u]
    BY <1>1, <1>2, <1>7, ResetsOwn DEF Fits
  <2>2. Others(s) /\ Becomes(s, state[s])
    BY <1>7, SameEffect DEF smVars
  <2>3. \A u \in Sessions \ {s} : Busy(u)' => Busy(u)
    BY <1>1, <1>7, OthersBusy
  <2>4. Fits(s)'
    BY <1>1, <1>2, <1>3, <1>7, <2>1, <2>2 DEF Becomes, Fits
  <2>5. \A u \in Sessions \ {s} : Fits(u)'
    BY <1>1, <2>1, <2>2, <2>3, OthersFit DEF Others
  <2> QED BY <2>1, <2>4, <2>5
<1>8. CASE Decide(t, e)
  <2>1. \/ /\ \E next, ctx : Finish(s, next, ctx)
           /\ pending' = Done(t)
        \/ /\ e[s] # NoEntry
           /\ \E next :
                /\ pending' = [pending EXCEPT ![t] =
                     [phase |-> "resetting", session |-> s, next |-> next]]
                /\ \/ entries' = e /\ streams' = Close(e, s)
                   \/ /\ entries' = [e EXCEPT ![s].stream = Fresh, ![s].collects = next]
                      /\ streams' = Close(e, s) \cup {Fresh}
           /\ UNCHANGED smVars
    BY <1>2, <1>8 DEF Decide
  <2>2. e[s] # NoEntry => entries[s] # NoEntry
    BY <1>2 DEF SameStreams
  <2> QED BY <1>6, <1>7, <2>1, <2>2
<1> QED BY <1>2, <1>5, <1>8 DEF AfterFlush

(* Every step does, unless a heartbeat is late. *)
LEMMA StreamsStep ==
  ASSUME "late_heartbeat" \notin Faults, StreamsInv, [Next]_vars
  PROVE  Owned' /\ \A u \in Sessions : Fits(u)'
<1>1. Typed /\ SL!IInv /\ Owned /\ \A u \in Sessions : Fits(u)
  BY DEF StreamsInv
<1>2. /\ \A s \in Sessions : state[s] = "QUEUED" => s \in SM!Queued
      /\ \A s \in SM!Queued : s \in Sessions /\ state[s] # "NONE"
  BY <1>1, StatesAndQueue
<1>3. /\ \A s \in Sessions : \A v : Becomes(s, v) => state'[s] = v
      /\ {"CONNECTING", "ACTIVE", "PAUSED", "DROPPED"} = SM!SlotStates
  BY DEF Becomes, SM!SlotStates
<1>4. ASSUME NEW s \in Sessions, Others(s), Fits(s)', UNCHANGED <<entries, streams, pending>>
      PROVE  Owned' /\ \A u \in Sessions : Fits(u)'
  <2>1. \A u \in Sessions \ {s} : Fits(u)'
    BY <1>1, <1>4, OthersFit DEF Others, Busy
  <2> QED BY <1>1, <1>4, <2>1 DEF Owned, StreamsOwned
<1>5. CASE UNCHANGED vars
  <2>1. \A u \in Sessions : Untouched(u)
    BY <1>5 DEF vars, smVars, Untouched, SM!Queued
  <2> QED BY <1>1, <1>5, <2>1, OthersFit DEF vars, appVars, Owned, StreamsOwned, Busy
<1>6. ASSUME NEW s \in Sessions, CreateSession(s)
      PROVE  Owned' /\ \A u \in Sessions : Fits(u)'
  <2>1. /\ state[s] = "NONE" /\ Others(s)
        /\ \/ Becomes(s, "CONNECTING")
           \/ state'[s] = "QUEUED" /\ s \in SM!Queued'
    BY <1>1, <1>6, CreateEffect DEF CreateSession
  <2>2. UNCHANGED <<entries, streams, pending>>
    BY <1>6 DEF CreateSession
  <2>3. Fits(s)'
    BY <1>1, <1>2, <2>1, <2>2 DEF Fits, Becomes, Busy
  <2> QED BY <1>4, <2>1, <2>2, <2>3
<1>7. ASSUME NEW s \in Sessions, ResumeSession(s)
      PROVE  Owned' /\ \A u \in Sessions : Fits(u)'
  <2>1. state[s] = "DROPPED" /\ Others(s) /\ Becomes(s, "CONNECTING")
    BY <1>1, <1>7, MarkEffect DEF ResumeSession
  <2>2. UNCHANGED <<entries, streams, pending>>
    BY <1>7 DEF ResumeSession, appVars
  <2>3. Fits(s)'
    BY <1>1, <2>1, <2>2 DEF Fits, Becomes
  <2> QED BY <1>4, <2>1, <2>2, <2>3
<1>8. ASSUME NEW s \in Sessions, Timeout(s)
      PROVE  Owned' /\ \A u \in Sessions : Fits(u)'
  <2>1. /\ Others(s)
        /\ \/ Becomes(s, state[s])
           \/ state[s] = "CONNECTING" /\ Becomes(s, "DROPPED")
           \/ state[s] = "DROPPED" /\ (Becomes(s, "EXPIRED") \/ Promoted(s))
    BY <1>1, <1>8, TimeoutEffect DEF Timeout
  <2>2. UNCHANGED <<entries, streams, pending>>
    BY <1>8 DEF Timeout, appVars
  <2>3. Fits(s)'
    BY <1>1, <2>1, <2>2 DEF Fits, Becomes, Promoted, Busy
  <2> QED BY <1>4, <2>1, <2>2, <2>3
<1>9. ASSUME NEW s \in Sessions, EndCall(s)
      PROVE  Owned' /\ \A u \in Sessions : Fits(u)'
  <2>1. state[s] # "NONE"
    BY <1>9 DEF EndCall, SM!Exists
  <2>2. CASE entries[s] = NoEntry /\ SM!EndSession(s) /\ UNCHANGED <<entries, pending>>
    <3>1. Others(s) /\ (Becomes(s, "COMPLETED") \/ Promoted(s))
      BY <1>1, <2>2, EndEffect
    <3>2. UNCHANGED <<entries, streams, pending>>
      BY <1>9, <2>2 DEF EndCall
    <3>3. Fits(s)'
      BY <1>1, <2>2, <3>1, <3>2 DEF Fits, Becomes, Promoted, Busy
    <3> QED BY <1>4, <3>1, <3>2, <3>3
  <2>3. CASE /\ entries[s] # NoEntry
             /\ \E t \in Transitions :
                  /\ pending[t] = Idle
                  /\ pending' = [pending EXCEPT ![t] =
                       [phase |-> "flushing", kind |-> "end", session |-> s,
                        object |-> entries[s].object, collects |-> entries[s].collects,
                        stream |-> entries[s].stream]]
             /\ entries' = ForgetResult(s) /\ UNCHANGED smVars
    <3>1. UNCHANGED streams
      BY <1>9 DEF EndCall
    <3>2. SameStreams(entries') /\ \A u \in Sessions \ {s} : entries'[u] = entries[u]
      BY <1>1, <2>3, ForgetSame DEF Fits
    <3>3. Owned'
      BY <1>1, <3>1, <3>2, RecordsKept
    <3>4. \A u \in Sessions \ {s} : Busy(u)' => Busy(u)
      BY <1>1, <2>3, OthersBusy
    <3>5. Others(s) /\ Becomes(s, state[s])
      BY <2>3, SameEffect DEF smVars
    <3>6. Fits(s)'
      BY <1>1, <2>1, <2>3, <3>2, <3>5 DEF Fits, Becomes, SameStreams
    <3> QED BY <1>1, <3>2, <3>3, <3>4, <3>5, <3>6, OthersFit DEF Others
  <2> QED BY <1>9, <2>2, <2>3 DEF EndCall
<1>10. ASSUME NEW s \in Sessions, OpenSocket(s)
       PROVE  Owned' /\ \A u \in Sessions : Fits(u)'
  <2>1. UNCHANGED <<state, queue, entries, streams, pending>>
    BY <1>10 DEF OpenSocket, smVars, SM!SetQueuedSocket
  <2>2. Others(s) /\ Becomes(s, state[s])
    BY <2>1, SameEffect
  <2>3. Fits(s)'
    BY <1>1, <2>1, <2>2 DEF Fits, Becomes, Busy
  <2> QED BY <1>4, <2>1, <2>2, <2>3
<1>11. ASSUME NEW k \in 1..MaxSockets, RequestClip(k)
       PROVE  Owned' /\ \A u \in Sessions : Fits(u)'
  <2>1. PICK s \in Sessions : s = SessionOf(k)
    BY <1>1, <1>11, SocketsOfSessions DEF RequestClip
  <2>2. PICK clip : /\ state[s] = "CONNECTING" /\ Register(s, clip) /\ SM!MarkActive(s)
                    /\ UNCHANGED pending
    BY <1>11, <2>1 DEF RequestClip
  <2>3. entries[s] = NoEntry /\ s \notin SM!Queued
    BY <1>1, <2>1, <2>2 DEF Fits
  <2>4. Owned' /\ entries'[s].stream # 0
    BY <1>1, <2>1, <2>2, <2>3, RegisterOwns
  <2>5. \A u \in Sessions \ {s} : entries'[u] = entries[u]
    BY <1>1, <2>2 DEF Register, Typed, EntriesTyped
  <2>6. Others(s) /\ Becomes(s, "ACTIVE")
    BY <1>1, <2>1, <2>2, MarkEffect
  <2>7. Fits(s)'
    BY <2>3, <2>4, <2>6 DEF Fits, Becomes
  <2> QED BY <1>1, <2>2, <2>4, <2>5, <2>6, <2>7, OthersFit DEF Others, Busy
<1>12. ASSUME NEW k \in 1..MaxSockets, NEW t \in Transitions, ClipEnded(k, t)
       PROVE  Owned' /\ \A u \in Sessions : Fits(u)'
  <2>1. PICK s \in Sessions : s = SessionOf(k)
    BY <1>1, <1>12, SocketsOfSessions DEF ClipEnded
  <2>2. state[s] = "ACTIVE" /\ s \notin SM!Queued
    BY <1>1, <1>12, <2>1 DEF ClipEnded, Fits
  <2>3. \/ \E r : /\ entries[s] # NoEntry /\ SM!MarkPaused(s) /\ entries' = ForgetResult(s)
                  /\ pending' = [pending EXCEPT ![t] = r] /\ r.session = s
                  /\ UNCHANGED streams
        \/ \E next, ctx : Finish(s, next, ctx) /\ UNCHANGED pending
    <3>1. PICK clip :
            \/ /\ entries[s] # NoEntry /\ SM!MarkPaused(s) /\ entries' = ForgetResult(s)
               /\ pending' = [pending EXCEPT ![t] =
                    [phase |-> "flushing", kind |-> "clip", session |-> s,
                     clip |-> clip, object |-> entries[s].object, collects |-> entries[s].collects,
                     stream |-> entries[s].stream]]
               /\ UNCHANGED streams
            \/ /\ Finish(s, NextClip(clip, 0), Record(context[s], clip, 0, None))
               /\ UNCHANGED pending
      BY <1>12, <2>1 DEF ClipEnded
    <3> DEFINE r == [phase |-> "flushing", kind |-> "clip", session |-> s,
                     clip |-> clip, object |-> entries[s].object, collects |-> entries[s].collects,
                     stream |-> entries[s].stream]
    <3>2. r.session = s
      OBVIOUS
    <3> HIDE DEF r
    <3> QED BY <3>1, <3>2 DEF r
  <2>4. ASSUME NEW r, entries[s] # NoEntry, SM!MarkPaused(s), entries' = ForgetResult(s),
               pending' = [pending EXCEPT ![t] = r], r.session = s, UNCHANGED streams
        PROVE  Owned' /\ \A u \in Sessions : Fits(u)'
    <3>1. SameStreams(entries') /\ \A u \in Sessions \ {s} : entries'[u] = entries[u]
      BY <1>1, <2>1, <2>4, ForgetSame DEF Fits
    <3>2. Owned'
      BY <1>1, <2>4, <3>1, RecordsKept
    <3>3. \A u \in Sessions \ {s} : Busy(u)' => Busy(u)
      BY <1>1, <2>4, OthersBusy
    <3>4. Others(s) /\ Becomes(s, "PAUSED")
      BY <1>1, <2>1, <2>4, MarkEffect
    <3>5. Fits(s)'
      BY <1>1, <2>1, <2>2, <3>1, <3>4 DEF Fits, Becomes, SameStreams
    <3> QED BY <1>1, <3>1, <3>2, <3>3, <3>4, <3>5, OthersFit DEF Others
  <2>5. ASSUME NEW next, NEW ctx, Finish(s, next, ctx), UNCHANGED pending
        PROVE  Owned' /\ \A u \in Sessions : Fits(u)'
    BY <1>1, <2>1, <2>2, <2>5, FinishFits, OthersFit DEF Busy
  <2> QED BY <2>3, <2>4, <2>5
<1>13. ASSUME NEW k \in 1..MaxSockets, CloseSocket(k) \/ HeartbeatTimeout(k)
       PROVE  Owned' /\ \A u \in Sessions : Fits(u)'
  <2>1. PICK s \in Sessions : s = SessionOf(k)
    BY <1>1, <1>13, SocketsOfSessions DEF CloseSocket, HeartbeatTimeout
  <2>2. UNCHANGED pending
    BY <1>13 DEF CloseSocket, HeartbeatTimeout
  <2>3. CASE UNCHANGED <<smVars, entries, streams>>
    <3>1. Others(s) /\ Becomes(s, state[s])
      BY <2>3, SameEffect DEF smVars
    <3>2. Fits(s)'
      BY <1>1, <2>1, <2>2, <2>3, <3>1 DEF Fits, Becomes, Busy
    <3> QED BY <1>4, <2>1, <2>2, <2>3, <3>1, <3>2
  <2>4. CASE state[s] \in SM!SlotStates /\ Deregister(s) /\ SM!MarkDropped(s)
    <3>1. s \notin SM!Queued
      BY <1>1, <1>3, <2>1, <2>4 DEF Fits
    <3>2. Owned' /\ entries'[s] = NoEntry
      BY <1>1, <2>1, <2>4, DeregisterOwns DEF Fits
    <3>3. \A u \in Sessions \ {s} : entries'[u] = entries[u]
      BY <1>1, <2>4 DEF Deregister, Without, Typed, EntriesTyped
    <3>4. Others(s) /\ Becomes(s, "DROPPED")
      BY <1>1, <2>1, <2>4, MarkEffect
    <3>5. Fits(s)'
      BY <3>1, <3>2, <3>4 DEF Fits, Becomes
    <3> QED BY <1>1, <2>2, <3>2, <3>3, <3>4, <3>5, OthersFit DEF Others, Busy
  <2> QED BY <1>3, <1>13, <2>1, <2>3, <2>4 DEF CloseSocket, HeartbeatTimeout, DropsOnClose
<1>14. ASSUME NEW t \in Transitions, WindowReady(t)
       PROVE  Owned' /\ \A u \in Sessions : Fits(u)'
  <2>1. pending[t] \in EndRequest \cup ClipRequest
    BY <1>1, <1>14, KindsOfRequests DEF WindowReady, Flushing
  <2> DEFINE r == [pending[t] EXCEPT !.phase = "analysing"]
  <2>2. r.session = pending[t].session /\ pending[t] # Idle
    BY <2>1 DEF EndRequest, ClipRequest, Idle
  <2>3. pending' = [pending EXCEPT ![t] = r]
    BY <1>14 DEF WindowReady
  <2>4. \A u \in Sessions : Busy(u)' => Busy(u)
    <3> HIDE DEF r
    <3>1. \A u \in Sessions \ {pending[t].session} : Busy(u)' => Busy(u)
      BY <1>1, <2>2, <2>3, OthersBusy
    <3> QED BY <2>2, <3>1, BusySession
  <2>5. UNCHANGED <<smVars, entries, streams>>
    BY <1>14 DEF WindowReady
  <2>6. \A u \in Sessions : Untouched(u)
    BY <2>5 DEF smVars, Untouched, SM!Queued
  <2> QED BY <1>1, <2>4, <2>5, <2>6, OthersFit DEF Owned, StreamsOwned
<1>15. ASSUME NEW t \in Transitions, FlushTimeout(t)
       PROVE  Owned' /\ \A u \in Sessions : Fits(u)'
  <2>1. entries \in [Sessions -> Record0] /\ SameStreams(entries)
    BY <1>1 DEF Typed, EntriesTyped, SameStreams
  <2> QED BY <1>15, <2>1, AfterFlushFits DEF FlushTimeout, Flushing
<1>16. ASSUME NEW t \in Transitions, Analysed(t)
       PROVE  Owned' /\ \A u \in Sessions : Fits(u)'
  <2>1. pending[t].phase \in Flushing
    BY <1>16 DEF Analysed, Flushing
  <2>0. PICK s \in Sessions : s = pending[t].session
    BY <1>1, <2>1, KindsOfRequests
  <2>2. \E e : AfterFlush(t, e) /\ (e = entries \/ \E r \in Result :
              /\ entries[s] # NoEntry /\ e = [entries EXCEPT ![s].result = r])
    <3>1. PICK e : AfterFlush(t, e) /\ (e = entries \/ \E r \in Result :
              /\ entries[pending[t].session] # NoEntry
              /\ r.window = pending[t].stream /\ r.clip = pending[t].collects
              /\ e = [entries EXCEPT ![pending[t].session].result = r])
      BY <1>1, <1>16, AnsweredWith
    <3> QED BY <2>0, <3>1
  <2>3. ASSUME NEW r \in Result, entries[s] # NoEntry,
               AfterFlush(t, [entries EXCEPT ![s].result = r])
        PROVE  Owned' /\ \A u \in Sessions : Fits(u)'
    <3> DEFINE e == [entries EXCEPT ![s].result = r]
    <3>2. e \in [Sessions -> Record0]
      BY <1>1 DEF Typed, EntriesTyped, Record0
    <3>3. \A u \in Sessions : u # s => e[u] = entries[u]
      BY <1>1 DEF Typed, EntriesTyped
    <3>4. e[s].stream = entries[s].stream /\ entries[s].stream # 0
      BY <1>1, <2>3 DEF Typed, EntriesTyped, Record0, Fits
    <3>5. SameStreams(e)
      BY <2>3, <3>3, <3>4 DEF SameStreams, NoEntry
    <3> HIDE DEF e
    <3> QED BY <2>0, <2>1, <2>3, <3>2, <3>3, <3>5, AfterFlushFits DEF e
  <2>4. CASE AfterFlush(t, entries)
    <3>1. entries \in [Sessions -> Record0] /\ SameStreams(entries)
      BY <1>1 DEF Typed, EntriesTyped, SameStreams
    <3> QED BY <2>1, <2>4, <3>1, AfterFlushFits
  <2> QED BY <2>2, <2>3, <2>4
<1>17. ASSUME NEW t \in Transitions, ResetDone(t)
       PROVE  Owned' /\ \A u \in Sessions : Fits(u)'
  <2>1. PICK s \in Sessions : s = pending[t].session /\ pending[t] # Idle
    BY <1>1, <1>17, KindsOfRequests DEF ResetDone
  <2>2. s \notin SM!Queued
    BY <1>1, <2>1, BusySession, BusyRuns
  <2>3. \A u \in Sessions \ {s} : Busy(u)' => Busy(u)
    BY <1>1, <1>17, <2>1, OthersBusy DEF ResetDone, Done
  <2> QED BY <1>1, <1>17, <2>1, <2>2, <2>3, FinishFits, OthersFit DEF ResetDone
<1> QED BY <1>5, <1>6, <1>7, <1>8, <1>9, <1>10, <1>11, <1>12, <1>13, <1>14, <1>15,
           <1>16, <1>17 DEF Next

(* It holds at the start. *)
LEMMA StreamsInit == Init => StreamsInv
<1> SUFFICES ASSUME Init PROVE StreamsInv
  OBVIOUS
<1>1. Typed
  BY InitTyped
<1>2. SL!IInv
  <2>1. SL!IsFiniteSet(Sessions)
    BY SizesAssumption DEF SL!IsFiniteSet, IsFiniteSet
  <2>2. SL!Init
    BY DEF Init, SM!Init, SL!Init, SM!NoPosition, SL!NoPosition
  <2> QED BY <2>1, <2>2, SL!InitEstablishesInv, SizesAssumption, NoSocketIsNone
<1>3. Owned /\ \A s \in Sessions : Fits(s)
  BY DEF Init, SM!Init, Owned, StreamsOwned, Fits, SM!Queued, Busy
<1> QED BY <1>1, <1>2, <1>3 DEF StreamsInv

(* The invariant of the WebSockets. *)
LEMMA StreamsAlways ==
  ASSUME "late_heartbeat" \notin Faults
  PROVE  Spec => []StreamsInv
<1>1. StreamsInv /\ Typed' /\ SL!IInv' /\ [Next]_vars => StreamsInv'
  BY StreamsStep DEF StreamsInv
<1> QED BY <1>1, StreamsInit, ContainerTyped, ManagerInvariant, PTL DEF Spec

(* Whoever stops running in a step is dropped or completed by it, and its
   WebSocket is closed, unless POST /session/{id}/end completed it. *)
Closes(s) ==
  state[s] \in Running /\ state'[s] \notin Running /\ ~EndedByRequest(s)
    => entries[s].stream \notin streams'

(* A step that concerns s stops no other session. *)
LEMMA OthersRun ==
  ASSUME StreamsInv, NEW s \in Sessions, Others(s), Closes(s)
  PROVE  \A u \in Sessions : Closes(u)
<1> SUFFICES ASSUME NEW u \in Sessions \ {s} PROVE Closes(u)
  OBVIOUS
<1>1. CASE Untouched(u)
  BY <1>1 DEF Untouched, Closes
<1>2. CASE Promoted(u)
  BY <1>2 DEF Promoted, Closes, StreamsInv, Fits, Running
<1> QED BY <1>1, <1>2 DEF Others

(* The end of a transition closes the WebSocket, or the session runs. *)
LEMMA FinishCloses ==
  ASSUME StreamsInv, NEW s \in Sessions, NEW next, NEW ctx, Finish(s, next, ctx)
  PROVE  Others(s) /\ Closes(s)
<1>1. SL!IInv
  BY DEF StreamsInv
<1>2. CASE SM!MarkActive(s)
  BY <1>1, <1>2, MarkEffect DEF Becomes, Closes, Running
<1>3. CASE SM!EndSession(s) /\ Deregister(s)
  BY <1>1, <1>3, EndEffect DEF Closes, Deregister, Close
<1> QED BY <1>2, <1>3 DEF Finish

(* So does every step. *)
LEMMA ClosingStep ==
  ASSUME StreamsInv, [Next]_vars
  PROVE  \A u \in Sessions : Closes(u)
<1>1. Typed /\ SL!IInv /\ Owned /\ \A u \in Sessions : Fits(u)
  BY DEF StreamsInv
<1>2. ASSUME UNCHANGED state PROVE \A u \in Sessions : Closes(u)
  BY <1>2 DEF Closes
<1>3. CASE UNCHANGED vars
  BY <1>2, <1>3 DEF vars, smVars
<1>4. ASSUME NEW s \in Sessions,
             CreateSession(s) \/ ResumeSession(s) \/ Timeout(s)
      PROVE  \A u \in Sessions : Closes(u)
  <2>1. SM!Create(s) \/ SM!ResumeSession(s) \/ SM!Timeout(s)
    BY <1>4 DEF CreateSession, ResumeSession, Timeout
  <2>2. Others(s) /\ (state[s] \in Running => state'[s] \in Running)
    BY <1>1, <2>1, CreateEffect, MarkEffect, TimeoutEffect
       DEF Becomes, Promoted, Running, Fits
  <2> QED BY <2>2, OthersRun DEF Closes
<1>5. ASSUME NEW s \in Sessions, EndCall(s)
      PROVE  \A u \in Sessions : Closes(u)
  <2>1. CASE entries[s] = NoEntry /\ SM!EndSession(s)
    <3>1. entries[s].stream = 0 /\ UNCHANGED streams
      BY <1>5, <2>1 DEF NoEntry, EndCall
    <3> QED BY <1>1, <2>1, <3>1, EndEffect, OthersRun DEF Closes, Owned
  <2>2. CASE UNCHANGED smVars
    BY <1>2, <2>2 DEF smVars
  <2> QED BY <1>5, <2>1, <2>2 DEF EndCall
<1>6. ASSUME NEW s \in Sessions, OpenSocket(s)
      PROVE  \A u \in Sessions : Closes(u)
  BY <1>2, <1>6 DEF OpenSocket, smVars, SM!SetQueuedSocket
<1>7. ASSUME NEW k \in 1..MaxSockets,
             \/ RequestClip(k) \/ CloseSocket(k) \/ HeartbeatTimeout(k)
             \/ \E t \in Transitions : ClipEnded(k, t)
      PROVE  \A u \in Sessions : Closes(u)
  <2>1. PICK s \in Sessions : s = SessionOf(k)
    BY <1>1, <1>7, SocketsOfSessions DEF RequestClip, CloseSocket, HeartbeatTimeout, ClipEnded
  <2>2. CASE SM!MarkActive(s) \/ SM!MarkPaused(s)
    BY <1>1, <2>2, MarkEffect, OthersRun DEF Becomes, Closes, Running
  <2>3. CASE SM!MarkDropped(s) /\ Deregister(s)
    BY <1>1, <2>3, MarkEffect, OthersRun DEF Closes, Deregister, Close
  <2>4. CASE \E next, ctx : Finish(s, next, ctx)
    BY <2>4, FinishCloses, OthersRun
  <2>5. CASE UNCHANGED smVars
    BY <1>2, <2>5 DEF smVars
  <2> QED BY <1>7, <2>1, <2>2, <2>3, <2>4, <2>5
          DEF RequestClip, CloseSocket, HeartbeatTimeout, ClipEnded
<1>8. ASSUME NEW t \in Transitions, WindowReady(t)
      PROVE  \A u \in Sessions : Closes(u)
  BY <1>2, <1>8 DEF WindowReady, smVars
<1>9. ASSUME NEW t \in Transitions, pending[t].phase \in Flushing,
             NEW e, AfterFlush(t, e)
      PROVE  \A u \in Sessions : Closes(u)
  <2>1. PICK s \in Sessions : s = pending[t].session
    BY <1>1, <1>9, KindsOfRequests
  <2>2. CASE pending[t].kind = "end" /\ SM!EndSession(s) /\ pending' = Done(t)
    <3>1. pending'[t] = Idle
      BY <1>1, <2>2 DEF Done, Typed, PendingTyped
    <3>2. EndedByRequest(s)
      BY <1>9, <2>1, <2>2, <3>1 DEF EndedByRequest
    <3> QED BY <1>1, <2>2, <3>2, EndEffect, OthersRun DEF Closes
  <2>3. CASE \E next, ctx : Finish(s, next, ctx)
    BY <2>3, FinishCloses, OthersRun
  <2>4. CASE UNCHANGED smVars
    BY <1>2, <2>4 DEF smVars
  <2> QED BY <1>9, <2>1, <2>2, <2>3, <2>4 DEF AfterFlush, Decide
<1>10. ASSUME NEW t \in Transitions, FlushTimeout(t) \/ Analysed(t)
       PROVE  \A u \in Sessions : Closes(u)
  BY <1>9, <1>10 DEF FlushTimeout, Analysed, Flushing
<1>11. ASSUME NEW t \in Transitions, ResetDone(t)
       PROVE  \A u \in Sessions : Closes(u)
  <2>1. PICK s \in Sessions : s = pending[t].session
    BY <1>1, <1>11, KindsOfRequests DEF ResetDone
  <2> QED BY <1>11, <2>1, FinishCloses, OthersRun DEF ResetDone
<1> QED BY <1>3, <1>4, <1>5, <1>6, <1>7, <1>8, <1>10, <1>11 DEF Next

(* Unless a heartbeat is late, a transcription WebSocket belongs to one
   session, which is running or complete, and is closed when the session
   stops running, however transitions, ends and drops overlap; only a session
   that POST /session/{id}/end completes keeps its own. *)
THEOREM NoStreamOrphaned ==
  ASSUME "late_heartbeat" \notin Faults
  PROVE  Spec => NoOrphanStream
<1> DEFINE Owners == StreamsOwned /\ \A s \in Sessions :
                       entries[s] # NoEntry => state[s] \in Running \cup {"COMPLETED"}
           Closing == \A s \in Sessions :
             state[s] \in Running /\ state'[s] \notin Running /\ ~EndedByRequest(s)
               => entries[s].stream \notin streams'
<1>2. StreamsInv => Owners
  BY DEF StreamsInv, Owned, Fits, Running
<1>3. StreamsInv /\ [Next]_vars => [Closing]_vars
  BY ClosingStep DEF Closes
<1>4. Spec => []StreamsInv
  BY StreamsAlways
<1>5. Spec => []Owners
  BY <1>2, <1>4, PTL
<1>6. Spec => [][Closing]_vars
  BY <1>3, <1>4, PTL DEF Spec
<1> QED BY <1>5, <1>6 DEF NoOrphanStream

-----------------------------------------------------------------------------
(* Who is paused is attended, whichever faults happen. *)

(* A session stays busy unless its own request ends. *)
LEMMA StillBusy ==
  ASSUME Typed, NEW u, Busy(u), NEW t \in Transitions, NEW r,
         pending' = [pending EXCEPT ![t] = r],
         pending[t] = Idle \/ pending[t].session # u \/ (r # Idle /\ r.session = u)
  PROVE  Busy(u)'
<1>1. PICK w \in Transitions : pending[w] # Idle /\ pending[w].session = u
  BY DEF Busy
<1>2. pending' \in [Transitions -> {pending[w2] : w2 \in Transitions} \cup {r}]
      /\ pending'[t] = r /\ \A w2 \in Transitions \ {t} : pending'[w2] = pending[w2]
  BY DEF Typed, PendingTyped
<1>3. CASE w # t
  BY <1>1, <1>2, <1>3 DEF Busy
<1>4. CASE w = t
  BY <1>1, <1>2, <1>4 DEF Busy
<1> QED BY <1>3, <1>4

(* A step of one session pauses no other. *)
LEMMA OthersPause ==
  ASSUME PausedIsAttended, NEW s \in Sessions, Others(s),
         NEW u \in Sessions \ {s}, Busy(u) => Busy(u)', state'[u] = "PAUSED"
  PROVE  Busy(u)'
BY DEF PausedIsAttended, Others, Untouched, Promoted

(* The end of a transition leaves its session advanced or complete. *)
LEMMA FinishUnpauses ==
  ASSUME SL!IInv, NEW s \in Sessions, NEW next, NEW ctx, Finish(s, next, ctx)
  PROVE  Others(s) /\ state'[s] # "PAUSED"
BY MarkEffect, EndEffect DEF Finish, Becomes, Promoted

(* What follows a flush leaves nobody paused and alone. *)
LEMMA AfterFlushAttends ==
  ASSUME Typed, SL!IInv, PausedIsAttended, NEW t \in Transitions,
         pending[t].phase \in Flushing, NEW e, AfterFlush(t, e)
  PROVE  PausedIsAttended'
<1>1. PICK s \in Sessions : s = pending[t].session /\ pending[t] # Idle
  BY KindsOfRequests
<1>2. CASE pending' = Done(t) /\ Others(s) /\ state'[s] # "PAUSED"
  <2>1. \A u \in Sessions \ {s} : Busy(u) => Busy(u)'
    BY <1>1, <1>2, StillBusy DEF Done
  <2> QED BY <1>2, <2>1, OthersPause DEF PausedIsAttended
<1>3. ASSUME NEW r, pending' = [pending EXCEPT ![t] = r], r # Idle, r.session = s,
             UNCHANGED smVars
      PROVE  PausedIsAttended'
  <2>1. \A u \in Sessions : Busy(u) => Busy(u)'
    BY <1>1, <1>3, StillBusy
  <2> QED BY <1>3, <2>1 DEF PausedIsAttended, smVars
<1>4. CASE SM!EndSession(s) /\ pending' = Done(t)
  BY <1>2, <1>4, EndEffect DEF Becomes, Promoted
<1>5. CASE Decide(t, e)
  <2>1. CASE \E next, ctx : Finish(s, next, ctx) /\ pending' = Done(t)
    BY <1>2, <2>1, FinishUnpauses
  <2>2. CASE UNCHANGED smVars /\ \E next : pending' = [pending EXCEPT ![t] =
               [phase |-> "resetting", session |-> s, next |-> next]]
    <3>1. PICK next : pending' = [pending EXCEPT ![t] =
               [phase |-> "resetting", session |-> s, next |-> next]]
      BY <2>2
    <3> DEFINE r == [phase |-> "resetting", session |-> s, next |-> next]
    <3>2. r # Idle /\ r.session = s
      BY DEF Idle
    <3>3. pending' = [pending EXCEPT ![t] = r]
      BY <3>1
    <3> HIDE DEF r
    <3> QED BY <1>3, <2>2, <3>2, <3>3
  <2> QED BY <1>1, <1>5, <2>1, <2>2 DEF Decide
<1> QED BY <1>1, <1>4, <1>5 DEF AfterFlush

(* No step does. *)
LEMMA AttendedStep ==
  ASSUME Typed, SL!IInv, PausedIsAttended, [Next]_vars
  PROVE  PausedIsAttended'
<1>1. ASSUME NEW s \in Sessions, Others(s), state'[s] # "PAUSED" \/ state'[s] = state[s],
             UNCHANGED pending
      PROVE  PausedIsAttended'
  BY <1>1, OthersPause DEF PausedIsAttended, Busy
<1>2. CASE UNCHANGED <<state, pending>>
  BY <1>2 DEF PausedIsAttended, Busy
<1>3. ASSUME NEW s \in Sessions, CreateSession(s) \/ ResumeSession(s) \/ Timeout(s)
      PROVE  PausedIsAttended'
  <2>1. SM!Create(s) \/ SM!ResumeSession(s) \/ SM!Timeout(s)
    BY <1>3 DEF CreateSession, ResumeSession, Timeout
  <2>2. Others(s) /\ (state'[s] # "PAUSED" \/ state'[s] = state[s])
    BY <2>1, CreateEffect, MarkEffect, TimeoutEffect DEF Becomes, Promoted
  <2> QED BY <1>1, <1>3, <2>2 DEF CreateSession, ResumeSession, Timeout, appVars
<1>4. ASSUME NEW s \in Sessions, NEW t \in Transitions, NEW r, pending[t] = Idle,
             pending' = [pending EXCEPT ![t] = r], r # Idle, r.session = s, Others(s)
      PROVE  PausedIsAttended'
  <2>1. \A u \in Sessions : Busy(u) => Busy(u)'
    BY <1>4, StillBusy
  <2>2. Busy(s)'
    BY <1>4 DEF Busy, Typed, PendingTyped
  <2> QED BY <1>4, <2>1, <2>2, OthersPause DEF PausedIsAttended
<1>5. ASSUME NEW s \in Sessions, EndCall(s)
      PROVE  PausedIsAttended'
  <2>1. CASE SM!EndSession(s) /\ UNCHANGED pending
    BY <1>1, <2>1, EndEffect DEF Becomes, Promoted
  <2>2. CASE /\ \E t \in Transitions :
                  /\ pending[t] = Idle
                  /\ pending' = [pending EXCEPT ![t] =
                       [phase |-> "flushing", kind |-> "end", session |-> s,
                        object |-> entries[s].object, collects |-> entries[s].collects,
                        stream |-> entries[s].stream]]
             /\ UNCHANGED smVars
    <3> DEFINE r == [phase |-> "flushing", kind |-> "end", session |-> s,
                     object |-> entries[s].object, collects |-> entries[s].collects,
                     stream |-> entries[s].stream]
    <3>1. r # Idle /\ r.session = s
      BY DEF Idle
    <3>2. \E t \in Transitions : pending[t] = Idle /\ pending' = [pending EXCEPT ![t] = r]
      BY <2>2
    <3>3. Others(s)
      BY <2>2, SameEffect DEF smVars
    <3> HIDE DEF r
    <3> QED BY <1>4, <3>1, <3>2, <3>3
  <2> QED BY <1>5, <2>1, <2>2 DEF EndCall
<1>6. ASSUME NEW s \in Sessions, OpenSocket(s)
      PROVE  PausedIsAttended'
  BY <1>2, <1>6 DEF OpenSocket, smVars, SM!SetQueuedSocket
<1>7. ASSUME NEW k \in 1..MaxSockets, RequestClip(k) \/ CloseSocket(k) \/ HeartbeatTimeout(k)
      PROVE  PausedIsAttended'
  <2>1. PICK s \in Sessions : s = SessionOf(k)
    BY <1>7, SocketsOfSessions DEF RequestClip, CloseSocket, HeartbeatTimeout
  <2>2. CASE SM!MarkActive(s) \/ SM!MarkDropped(s)
    <3>1. Others(s) /\ state'[s] # "PAUSED"
      BY <2>2, MarkEffect DEF Becomes
    <3> QED BY <1>1, <1>7, <3>1 DEF RequestClip, CloseSocket, HeartbeatTimeout
  <2>3. CASE UNCHANGED <<smVars, pending>>
    BY <1>2, <2>3 DEF smVars
  <2> QED BY <1>7, <2>1, <2>2, <2>3 DEF RequestClip, CloseSocket, HeartbeatTimeout
<1>8. ASSUME NEW k \in 1..MaxSockets, NEW t \in Transitions, ClipEnded(k, t)
      PROVE  PausedIsAttended'
  <2>1. PICK s \in Sessions : s = SessionOf(k)
    BY <1>8, SocketsOfSessions DEF ClipEnded
  <2>2. PICK clip :
            \/ /\ pending[t] = Idle /\ SM!MarkPaused(s)
               /\ pending' = [pending EXCEPT ![t] =
                    [phase |-> "flushing", kind |-> "clip", session |-> s,
                     clip |-> clip, object |-> entries[s].object, collects |-> entries[s].collects,
                     stream |-> entries[s].stream]]
            \/ /\ Finish(s, NextClip(clip, 0), Record(context[s], clip, 0, None))
               /\ UNCHANGED pending
    BY <1>8, <2>1 DEF ClipEnded
  <2> DEFINE r == [phase |-> "flushing", kind |-> "clip", session |-> s, clip |-> clip,
                   object |-> entries[s].object, collects |-> entries[s].collects,
                   stream |-> entries[s].stream]
  <2>3. CASE /\ pending[t] = Idle /\ SM!MarkPaused(s)
             /\ pending' = [pending EXCEPT ![t] = r]
    <3>1. r # Idle /\ r.session = s
      BY DEF Idle
    <3>2. Others(s)
      BY <2>3, MarkEffect
    <3> HIDE DEF r
    <3> QED BY <1>4, <2>3, <3>1, <3>2
  <2>4. CASE \E next, ctx : Finish(s, next, ctx) /\ UNCHANGED pending
    BY <1>1, <2>4, FinishUnpauses
  <2> QED BY <2>2, <2>3, <2>4
<1>9. ASSUME NEW t \in Transitions, WindowReady(t)
      PROVE  PausedIsAttended'
  <2>1. pending[t] \in EndRequest \cup ClipRequest
    BY <1>9, KindsOfRequests DEF WindowReady, Flushing
  <2> DEFINE r == [pending[t] EXCEPT !.phase = "analysing"]
  <2>2. r # Idle /\ r.session = pending[t].session
    BY <2>1 DEF EndRequest, ClipRequest, Idle
  <2>3. pending' = [pending EXCEPT ![t] = r] /\ UNCHANGED smVars
    BY <1>9 DEF WindowReady
  <2> HIDE DEF r
  <2>4. \A u \in Sessions : Busy(u) => Busy(u)'
    BY <2>2, <2>3, StillBusy
  <2> QED BY <2>3, <2>4 DEF PausedIsAttended, smVars
<1>10. ASSUME NEW t \in Transitions, FlushTimeout(t) \/ Analysed(t)
       PROVE  PausedIsAttended'
  BY <1>10, AfterFlushAttends DEF FlushTimeout, Analysed, Flushing
<1>11. ASSUME NEW t \in Transitions, ResetDone(t)
       PROVE  PausedIsAttended'
  <2>1. PICK s \in Sessions : s = pending[t].session
    BY <1>11, KindsOfRequests DEF ResetDone
  <2>2. Others(s) /\ state'[s] # "PAUSED"
    BY <1>11, <2>1, FinishUnpauses DEF ResetDone
  <2>3. \A u \in Sessions \ {s} : Busy(u) => Busy(u)'
    BY <1>11, <2>1, StillBusy DEF ResetDone, Done
  <2> QED BY <2>2, <2>3, OthersPause DEF PausedIsAttended
<1> QED BY <1>2, <1>3, <1>5, <1>6, <1>7, <1>8, <1>9, <1>10, <1>11
        DEF Next, vars, smVars, appVars

(* A session is not left paused behind its clip, however its transition and
   its ends, drops and timers overlap: as long as it is PAUSED, some request
   of it is under way. *)
THEOREM PausedAttended == Spec => []PausedIsAttended
<1>1. Init => PausedIsAttended
  BY DEF Init, SM!Init, PausedIsAttended
<1> QED BY <1>1, AttendedStep, ContainerTyped, ManagerInvariant, PTL DEF Spec

-----------------------------------------------------------------------------
(* Who waited is told, whichever faults happen. *)

(* No callback of a waiting session is forgotten: it stays where it is, with
   the session in the queue, or it is called. *)
CallbacksKept ==
  /\ notified \subseteq notified'
  /\ \A s \in SM!Queued : promotionCallbacks[s] # NoSocket =>
       \/ promotionCallbacks[s] \in notified'
       \/ s \in SM!Queued' /\ promotionCallbacks'[s] = promotionCallbacks[s]

(* releaseSlot calls the callback of the one it promotes. *)
LEMMA ReleaseTells ==
  ASSUME SL!IInv, NEW st, NEW pos, NEW tm, NEW sy, SM!ReleaseSlot(st, pos, tm, sy)
  PROVE  CallbacksKept
<1>1. CASE UNCHANGED <<queue, promotionCallbacks, notified>>
  BY <1>1 DEF CallbacksKept, SM!Queued
<1>2. CASE /\ queue # <<>> /\ queue' = Tail(queue)
           /\ notified' = notified \cup ({promotionCallbacks[Head(queue)]} \ {NoSocket})
           /\ promotionCallbacks' = [promotionCallbacks EXCEPT ![Head(queue)] = NoSocket]
  <2>1. Head(queue) \in SM!Queued /\ SM!Queued' = SM!Queued \ {Head(queue)}
    BY <1>2, HeadLeaves
  <2>2. promotionCallbacks \in [Sessions -> 1..MaxSockets \cup {NoSocket}]
    BY DEF SL!IInv, SL!TypeOK
  <2>3. SM!Queued \subseteq Sessions
    BY StatesAndQueue
  <2> QED BY <1>2, <2>1, <2>2, <2>3 DEF CallbacksKept
<1> QED BY <1>1, <1>2 DEF SM!ReleaseSlot, SM!PromoteNext, SM!Shift, SM!Notify

(* No other call forgets a callback either. *)
LEMMA CallTells ==
  ASSUME SL!IInv, NEW s \in Sessions,
         ServedCall(s)
  PROVE  CallbacksKept
<1>1. ASSUME NEW st, NEW pos, NEW tm, NEW sy, SM!KeepSlot(st, pos, tm, sy)
      PROVE  CallbacksKept
  BY <1>1 DEF SM!KeepSlot, CallbacksKept, SM!Queued
<1>2. CASE SM!Create(s)
  <2>1. queue' = queue \/ queue' = Append(queue, s)
    BY <1>2 DEF SM!Create, SM!CreateActive, SM!CreateQueued
  <2>2. UNCHANGED <<promotionCallbacks, notified>>
    BY <1>2 DEF SM!Create, SM!CreateActive, SM!CreateQueued
  <2>3. queue \in Seq(Sessions)
    BY StatesAndQueue
  <2>4. SM!Queued \subseteq SM!Queued'
    <3>1. CASE queue' = Append(queue, s)
      <4>1. /\ Len(queue) \in Nat /\ Len(Append(queue, s)) = Len(queue) + 1
            /\ \A i \in 1..Len(queue) : Append(queue, s)[i] = queue[i]
        BY <2>3
      <4> QED BY <3>1, <4>1 DEF SM!Queued
    <3> QED BY <2>1, <3>1 DEF SM!Queued
  <2> QED BY <2>2, <2>4 DEF CallbacksKept
<1>3. CASE SM!ResumeSession(s) \/ SM!MarkActive(s) \/ SM!MarkPaused(s) \/ SM!MarkDropped(s)
  BY <1>1, <1>3 DEF SM!ResumeSession, SM!MarkActive, SM!MarkPaused, SM!MarkDropped
<1>4. CASE SM!EndSession(s)
  BY <1>1, <1>4, ReleaseTells DEF SM!EndSession
<1>5. CASE SM!Timeout(s)
  BY <1>1, <1>5, ReleaseTells
     DEF SM!Timeout, SM!TimerFires, SM!StrayFires, SM!ConnectionTimeout, SM!RecoveryTimeout
<1> QED BY <1>2, <1>3, <1>4, <1>5 DEF ServedCall

(* Steps that open no socket close one at most. *)
SameSockets ==
  /\ Len(sockets') = Len(sockets)
  /\ \A k \in 1..Len(sockets) :
       sockets'[k].session = sockets[k].session /\ sockets'[k].waited = sockets[k].waited

(* Closing a socket keeps whose it is. *)
LEMMA ClosedSame ==
  ASSUME Typed, NEW k \in 1..MaxSockets, IsOpen(k), sockets' = Closed(k)
  PROVE  SameSockets
<1> DEFINE Socket == [session : Sessions, open : BOOLEAN, waited : BOOLEAN]
           closed == [sockets[k] EXCEPT !.open = FALSE]
<1>1. sockets \in Seq(Socket) /\ k \in 1..Len(sockets)
  BY SizesAssumption DEF Typed, SocketsTyped, IsOpen
<1>2. sockets[k] \in Socket
  <2> HIDE DEF Socket
  <2> QED BY <1>1
<1>3. closed.session = sockets[k].session /\ closed.waited = sockets[k].waited
  BY <1>2
<1>4. sockets' = [sockets EXCEPT ![k] = closed]
  BY DEF Closed
<1> HIDE DEF closed, Socket
<1>5. Len(sockets') = Len(sockets)
      /\ \A j \in 1..Len(sockets) : sockets'[j] = IF j = k THEN closed ELSE sockets[j]
  BY <1>1, <1>4
<1> QED BY <1>3, <1>5 DEF SameSockets

(* Where no socket is opened, who was told stays told. *)
LEMMA SameSocketsTold ==
  ASSUME Typed, WaitersAreTold, SameSockets, CallbacksKept
  PROVE  WaitersAreTold'
<1> SUFFICES ASSUME NEW k \in 1..Len(sockets'), sockets'[k].waited,
                    \A j \in (k + 1)..Len(sockets') :
                      ~(SessionOf(j)' = SessionOf(k)' /\ sockets'[j].waited)
             PROVE  \/ k \in notified'
                    \/ SessionOf(k)' \in SM!Queued' /\ promotionCallbacks'[SessionOf(k)'] = k
  BY DEF WaitersAreTold
<1>1. Len(sockets) \in Nat /\ k \in 1..Len(sockets)
  BY DEF Typed, SocketsTyped, SameSockets
<1>2. /\ sockets[k].waited /\ SessionOf(k)' = SessionOf(k)
      /\ \A j \in (k + 1)..Len(sockets) : ~(SessionOf(j) = SessionOf(k) /\ sockets[j].waited)
  BY <1>1 DEF SameSockets, SessionOf
<1>3. \/ k \in notified
      \/ SessionOf(k) \in SM!Queued /\ promotionCallbacks[SessionOf(k)] = k
  BY <1>1, <1>2 DEF WaitersAreTold
<1>4. k # NoSocket
  BY <1>1 DEF NoSocket
<1> QED BY <1>2, <1>3, <1>4 DEF CallbacksKept

(* A socket opened while its session waits is the one to be told. *)
LEMMA OpenedTold ==
  ASSUME Typed, SL!IInv, WaitersAreTold, NEW s \in Sessions, OpenSocket(s)
  PROVE  WaitersAreTold'
<1> DEFINE Socket == [session : Sessions, open : BOOLEAN, waited : BOOLEAN]
           new == [session |-> s, open |-> TRUE, waited |-> state[s] = "QUEUED"]
           n == Len(sockets)
<1>1. sockets \in Seq(Socket) /\ new \in Socket /\ n \in Nat
  BY DEF Typed, SocketsTyped
<1>2. sockets' = Append(sockets, new) /\ new.session = s /\ new.waited = (state[s] = "QUEUED")
  BY DEF OpenSocket
<1> HIDE DEF new, Socket
<1>3. /\ Len(sockets') = n + 1 /\ sockets'[n + 1] = new
      /\ \A j \in 1..n : sockets'[j] = sockets[j]
  BY <1>1, <1>2
<1>4. /\ UNCHANGED <<queue, notified>> /\ SM!Queued' = SM!Queued
      /\ \A u \in Sessions \ {s} : promotionCallbacks'[u] = promotionCallbacks[u]
      /\ \/ state[s] # "QUEUED" /\ UNCHANGED promotionCallbacks
         \/ state[s] = "QUEUED" /\ promotionCallbacks'[s] = n + 1
  <2>1. promotionCallbacks \in [Sessions -> 1..MaxSockets \cup {NoSocket}]
    BY DEF SL!IInv, SL!TypeOK
  <2> QED BY <2>1 DEF OpenSocket, smVars, SM!SetQueuedSocket, SM!Queued
<1>5. SUFFICES ASSUME NEW k \in 1..(n + 1), sockets'[k].waited,
                      \A j \in (k + 1)..(n + 1) :
                        ~(sockets'[j].session = sockets'[k].session /\ sockets'[j].waited)
               PROVE  \/ k \in notified'
                      \/ /\ sockets'[k].session \in SM!Queued'
                         /\ promotionCallbacks'[sockets'[k].session] = k
  BY <1>3 DEF WaitersAreTold, SessionOf
<1>6. CASE k = n + 1
  BY <1>2, <1>3, <1>4, <1>5, <1>6, StatesAndQueue
<1>7. CASE k \in 1..n
  <2>1. sockets[k] \in Socket /\ sockets'[k] = sockets[k]
    BY <1>1, <1>3, <1>7
  <2>2. sockets[k].session \in Sessions
    BY <2>1 DEF Socket
  <2>3. \A j \in (k + 1)..n : ~(sockets[j].session = sockets[k].session /\ sockets[j].waited)
    BY <1>1, <1>3, <1>5, <1>7
  <2>4. \/ k \in notified
        \/ sockets[k].session \in SM!Queued /\ promotionCallbacks[sockets[k].session] = k
    BY <1>5, <1>7, <2>1, <2>3 DEF WaitersAreTold, SessionOf
  <2>5. n + 1 \in (k + 1)..(n + 1)
    BY <1>1, <1>7
  <2>6. sockets[k].session = s => state[s] # "QUEUED"
    BY <1>2, <1>3, <1>5, <2>1, <2>5
  <2> QED BY <1>4, <2>1, <2>2, <2>4, <2>6
<1> QED BY <1>1, <1>6, <1>7

(* Every step keeps the promise. *)
LEMMA ToldStep ==
  ASSUME Typed, SL!IInv, WaitersAreTold, [Next]_vars
  PROVE  WaitersAreTold'
<1>1. CASE \E s \in Sessions : OpenSocket(s)
  BY <1>1, OpenedTold
<1>2. CASE ~\E s \in Sessions : OpenSocket(s)
  <2>1. SameSockets
    <3>1. CASE UNCHANGED sockets
      BY <3>1 DEF SameSockets
    <3>2. CASE \E k \in 1..MaxSockets : CloseSocket(k) \/ HeartbeatTimeout(k)
      BY <3>2, ClosedSame DEF CloseSocket, HeartbeatTimeout
    <3>3. ASSUME NEW s \in Sessions,
                 CreateSession(s) \/ ResumeSession(s) \/ EndCall(s) \/ Timeout(s)
          PROVE  UNCHANGED sockets
      BY <3>3 DEF CreateSession, ResumeSession, EndCall, Timeout, appVars
    <3>4. ASSUME NEW k \in 1..MaxSockets,
                 RequestClip(k) \/ \E t \in Transitions : ClipEnded(k, t)
          PROVE  UNCHANGED sockets
      BY <3>4 DEF RequestClip, ClipEnded
    <3>5. ASSUME NEW t \in Transitions, NEW e, AfterFlush(t, e)
          PROVE  UNCHANGED sockets
      BY <3>5 DEF AfterFlush, Decide
    <3>6. ASSUME NEW t \in Transitions,
                 WindowReady(t) \/ FlushTimeout(t) \/ Analysed(t) \/ ResetDone(t)
          PROVE  UNCHANGED sockets
      BY <3>5, <3>6 DEF WindowReady, FlushTimeout, Analysed, ResetDone
    <3> QED BY <1>2, <3>1, <3>2, <3>3, <3>4, <3>6 DEF Next, vars, appVars
  <2>2. CallbacksKept
    <3>1. CASE UNCHANGED smVars
      BY <3>1 DEF smVars, CallbacksKept, SM!Queued
    <3>2. CASE \E s \in Sessions : ServedCall(s)
      BY <3>2, CallTells
    <3> QED BY <1>2, <3>1, <3>2, StepCalls
  <2> QED BY <2>1, <2>2, SameSocketsTold
<1> QED BY <1>1, <1>2

(* No lost wake-up, whichever faults happen: when a session leaves the queue,
   the last socket opened while it waited has been sent session_ready. *)
THEOREM WaitersTold == Spec => []WaitersAreTold
<1>1. Init => WaitersAreTold
  BY DEF Init, WaitersAreTold
<1> QED BY <1>1, ToldStep, ContainerTyped, ManagerInvariant, PTL DEF Spec

-----------------------------------------------------------------------------
(* Slots and turns, when no fault happens. *)

(* What the container asks of the manager for session s. *)
KeptCall(s) ==
  \/ SM!Create(s) \/ SM!ResumeSession(s) \/ SM!EndSession(s) \/ SM!Timeout(s)
  \/ UNCHANGED <<state, queue, activeSlots>>
  \/ /\ state[s] \in SM!SlotStates
     /\ SM!MarkActive(s) \/ SM!MarkPaused(s) \/ SM!MarkDropped(s)

(* Such a call keeps the counter right. *)
LEMMA CallKeepsAccounts ==
  ASSUME SL!LInv, NEW s \in Sessions, KeptCall(s)
  PROVE  SL!SlotAccounting' /\ SL!QueuedHoldNoSlot'
<1>1. SL!IsFiniteSet(Sessions)
  BY SizesAssumption DEF SL!IsFiniteSet, IsFiniteSet
<1>2. CASE SM!Create(s) \/ SM!ResumeSession(s) \/ SM!EndSession(s) \/ SM!Timeout(s)
  <2>1. SL!Create(s) \/ SL!ResumeSession(s) \/ SL!EndSession(s) \/ SL!Timeout(s)
    BY <1>2, SameMethods
  <2> QED BY <1>1, <2>1, SL!GuardedStepKeepsAccounts, SizesAssumption, NoSocketIsNone
<1>3. CASE UNCHANGED <<state, queue, activeSlots>>
  BY <1>1, <1>3, SL!NothingHappens, SizesAssumption, NoSocketIsNone
<1>4. CASE /\ state[s] \in SM!SlotStates
           /\ SM!MarkActive(s) \/ SM!MarkPaused(s) \/ SM!MarkDropped(s)
  <2>1. PICK v \in {"ACTIVE", "PAUSED", "DROPPED"} :
          \E pos, tm, sy : SL!KeepSlot([state EXCEPT ![s] = v], pos, tm, sy)
    BY <1>4 DEF SM!MarkActive, SM!MarkPaused, SM!MarkDropped, SM!KeepSlot, SL!KeepSlot
  <2>2. /\ v \in SL!SessionStates /\ v \in SL!SlotStates /\ state[s] \in SL!SlotStates
        /\ state[s] \notin {"QUEUED", "COMPLETED"}
    BY <1>4 DEF SM!SlotStates, SL!SlotStates, SL!SessionStates
  <2> QED BY <1>1, <2>1, <2>2, SL!KeepKeepsAccounts, SizesAssumption, NoSocketIsNone
<1> QED BY <1>2, <1>3, <1>4 DEF KeptCall

(* The two ways of counting agree. *)
LEMMA SameAccounts == SL!SlotAccounting => SlotAccounting
<1>1. SL!SlotHolders = SlotHolders
  BY DEF SL!SlotHolders, SlotHolders, SL!SlotStates, SM!SlotStates
<1>2. \A S : SL!Cardinality(S) = Cardinality(S)
  BY DEF SL!Cardinality, Cardinality
<1> QED BY <1>1, <1>2 DEF SL!SlotAccounting, SlotAccounting

(* Requests that will advance or complete a session, and their sessions. *)
Turning(t) == pending[t] \in ClipRequest \cup ResetRequest

(* A session has one request under way at most; while that is a transition,
   the session is paused or dropped, no result is in its record before the
   transition's own, and the turn it will add is that of the clip its
   ClipSession was made for; once the ClipSession is reset, it is the one of
   the clip to come. *)
OnlyOne ==
  \A t, u \in Transitions :
    pending[t] # Idle /\ pending[u] # Idle /\ pending[t].session = pending[u].session
      => t = u
ReadyFor(next, entry) == next # None /\ entry # NoEntry => entry.collects = next
Attends(t) ==
  /\ Turning(t) => state[pending[t].session] \in {"PAUSED", "DROPPED"}
  /\ pending[t] \in ClipRequest =>
       /\ entries[pending[t].session].result = None
       /\ pending[t].clip \in {None, pending[t].collects}
  /\ pending[t] \in ResetRequest =>
       ReadyFor(pending[t].next, entries[pending[t].session])
Attending == OnlyOne /\ \A t \in Transitions : Attends(t)

(* Every turn says whose evaluation it has got, and it is never another's. *)
Turns == Seq([clip : Clips \cup {None}, judged : {"fallback", "own"}])
TurnsOwn(ctx) == {"turns", "clip"} \subseteq DOMAIN ctx /\ ctx.turns \in Turns
ContextsOwn == DOMAIN context = Sessions /\ \A s \in Sessions : TurnsOwn(context[s])

(* An active session's ClipSession was made for the clip it is at. *)
Collects(s) ==
  state[s] = "ACTIVE" /\ entries[s] # NoEntry => entries[s].collects = context[s].clip
Collecting == \A s \in Sessions : Collects(s)

OrderlyInv == Typed /\ SL!LInv /\ Attending /\ ContextsOwn /\ Collecting

(* Only appendTurn touches the history. *)
LEMMA SettersKeepTurns ==
  ASSUME NEW ctx, TurnsOwn(ctx)
  PROVE  /\ \A x : TurnsOwn(SetScenario(ctx, x)) /\ TurnsOwn(SetCoachingContext(ctx, x))
         /\ \A x : TurnsOwn(SetLearningObjectives(ctx, x)) /\ TurnsOwn(SetTargetAudience(ctx, x))
         /\ \A x : TurnsOwn(SetCurrentClip(ctx, x))
BY DEF TurnsOwn, SetScenario, SetCoachingContext, SetLearningObjectives, SetTargetAudience,
       SetCurrentClip

(* request_clip leaves it alone. *)
LEMMA BindKeepsTurns ==
  ASSUME NEW ctx, TurnsOwn(ctx), NEW scenario, NEW clip
  PROVE  TurnsOwn(BindClip(ctx, scenario, clip)) /\ BindClip(ctx, scenario, clip).clip = clip
<1> DEFINE guide == Guidance[scenario]
           c1 == SetScenario(ctx, scenario)
           c2 == SetCoachingContext(c1, guide.coaching)
           c3 == SetLearningObjectives(c2, guide.objectives)
           c4 == SetTargetAudience(c3, guide.audience)
<1>1. TurnsOwn(c1) /\ TurnsOwn(c2) /\ TurnsOwn(c3) /\ TurnsOwn(c4)
  <2>1. TurnsOwn(c1)
    BY SettersKeepTurns
  <2>2. TurnsOwn(c2)
    BY <2>1, SettersKeepTurns
  <2>3. TurnsOwn(c3)
    BY <2>2, SettersKeepTurns
  <2>4. TurnsOwn(c4)
    BY <2>3, SettersKeepTurns
  <2> QED BY <2>1, <2>2, <2>3, <2>4
<1>2. BindClip(ctx, scenario, clip) = SetCurrentClip(c4, clip)
  BY DEF BindClip
<1> HIDE DEF c1, c2, c3, c4
<1>3. SetCurrentClip(c4, clip).clip = clip
  BY <1>1 DEF SetCurrentClip, TurnsOwn
<1> QED BY <1>1, <1>2, <1>3, SettersKeepTurns

(* A new session has no history. *)
LEMMA FreshTurns == \A admin : TurnsOwn(FreshContext(admin))
BY DEF TurnsOwn, Turns, FreshContext

(* A turn judged by its own window and clip, or by none, may join it. *)
LEMMA RecordKeepsTurns ==
  ASSUME NEW ctx, TurnsOwn(ctx), NEW clip \in Clips \cup {None}, NEW window, NEW result,
         \/ result = None \/ clip = None
         \/ result.window = window /\ result.clip = clip
  PROVE  TurnsOwn(Record(ctx, clip, window, result))
<1> DEFINE turn == [clip |-> clip, judged |-> Judged(clip, window, result)]
<1>0. CASE clip = None
  BY <1>0 DEF Record
<1> SUFFICES ASSUME clip # None PROVE TurnsOwn(Record(ctx, clip, window, result))
  BY <1>0
<1>1. turn \in [clip : Clips \cup {None}, judged : {"fallback", "own"}]
  BY DEF Judged
<1> HIDE DEF turn
<1>2. Append(ctx.turns, turn) \in Turns
  BY <1>1 DEF TurnsOwn, Turns
<1>3. Record(ctx, clip, window, result) \in {ctx, [ctx EXCEPT !.turns = Append(ctx.turns, turn)]}
  BY DEF Record, AppendTurn, Turn, turn
<1> QED BY <1>2, <1>3 DEF TurnsOwn

(* A step changes one session's context. *)
LEMMA OneContext ==
  ASSUME ContextsOwn, NEW s \in Sessions, NEW ctx, TurnsOwn(ctx),
         context' = [context EXCEPT ![s] = ctx]
  PROVE  ContextsOwn'
BY DEF ContextsOwn

(* A session whose transition is under way does not wait in the queue. *)
LEMMA TurningNotQueued ==
  ASSUME OrderlyInv, NEW t \in Transitions, Turning(t)
  PROVE  /\ pending[t].session \in Sessions \ SM!Queued /\ pending[t] # Idle
         /\ state[pending[t].session] \in {"PAUSED", "DROPPED"}
<1>1. state[pending[t].session] \in {"PAUSED", "DROPPED"}
  BY DEF OrderlyInv, Attending, Attends
<1>2. pending[t].session \in Sessions /\ pending[t] # Idle
  BY DEF Turning, ClipRequest, ResetRequest, Idle, Flushing
<1>3. \A u \in SM!Queued : state[u] \in {"QUEUED", "COMPLETED"}
  BY DEF OrderlyInv, SL!LInv, SL!QueuedHoldNoSlot, SM!Queued
<1> QED BY <1>1, <1>2, <1>3

(* A request of another session goes on as before. *)
LEMMA OthersAttend ==
  ASSUME OrderlyInv, NEW s \in Sessions, Others(s), NEW t \in Transitions,
         pending'[t] = pending[t], pending[t] # Idle => pending[t].session # s,
         \A u \in Sessions \ {s} : entries'[u] = entries[u]
  PROVE  Attends(t)'
<1>1. Attends(t)
  BY DEF OrderlyInv, Attending
<1>2. CASE Turning(t)
  BY <1>1, <1>2, TurningNotQueued
     DEF Others, Untouched, Promoted, Attends, Turning
<1> QED BY <1>2 DEF Attends, Turning

(* A step of s that begins and ends no request. *)
LEMMA NoRequestAttends ==
  ASSUME OrderlyInv, NEW s \in Sessions, Others(s), UNCHANGED pending,
         \A u \in Sessions \ {s} : entries'[u] = entries[u],
         \/ ~Busy(s)
         \/ state[s] \notin {"PAUSED", "DROPPED"}
         \/ /\ state'[s] \in {"PAUSED", "DROPPED", state[s]}
            /\ entries'[s] \in {NoEntry, entries[s]}
  PROVE  Attending'
<1>1. OnlyOne'
  BY DEF OrderlyInv, Attending, OnlyOne
<1>2. ASSUME NEW t \in Transitions PROVE Attends(t)'
  <2>1. CASE pending[t] # Idle => pending[t].session # s
    BY <2>1, OthersAttend
  <2>2. CASE pending[t] # Idle /\ pending[t].session = s /\ Turning(t)
    <3>1. Busy(s) /\ state[s] \in {"PAUSED", "DROPPED"}
      BY <2>2, TurningNotQueued DEF Busy
    <3>2. Attends(t)
      BY DEF OrderlyInv, Attending
    <3>3. pending'[t] = pending[t] /\ NoEntry.result = None
      BY DEF NoEntry
    <3> QED BY <2>2, <3>1, <3>2, <3>3 DEF Attends, Turning, ReadyFor
  <2>3. CASE ~Turning(t)
    BY <2>3 DEF Attends, Turning
  <2> QED BY <2>1, <2>2, <2>3
<1> QED BY <1>1, <1>2 DEF Attending

(* A step that begins, continues or ends request t of s, the only one of s. *)
LEMMA RequestAttends ==
  ASSUME OrderlyInv, NEW s \in Sessions, NEW t \in Transitions, NEW r,
         pending' = [pending EXCEPT ![t] = r],
         \A u \in Transitions \ {t} : pending[u] # Idle => pending[u].session # s,
         r = Idle \/ r.session = s,
         Others(s), \A u \in Sessions \ {s} : entries'[u] = entries[u],
         r \in ClipRequest \cup ResetRequest => state'[s] \in {"PAUSED", "DROPPED"},
         r \in ClipRequest => entries'[s].result = None /\ r.clip \in {None, r.collects},
         r \in ResetRequest => ReadyFor(r.next, entries'[s])
  PROVE  Attending'
<1>1. pending'[t] = r /\ \A u \in Transitions \ {t} : pending'[u] = pending[u]
  BY DEF OrderlyInv, Typed, PendingTyped
<1>2. OnlyOne'
  BY <1>1 DEF OrderlyInv, Attending, OnlyOne
<1>3. ASSUME NEW u \in Transitions \ {t} PROVE Attends(u)'
  BY <1>1, OthersAttend
<1>4. Attends(t)'
  BY <1>1 DEF Attends, Turning, Idle, ClipRequest, ResetRequest, Flushing
<1> QED BY <1>2, <1>3, <1>4 DEF Attending

(* A step that concerns s keeps Collecting, if s does. *)
LEMMA OneCollects ==
  ASSUME OrderlyInv, NEW s \in Sessions, Others(s),
         \A u \in Sessions \ {s} : entries'[u] = entries[u],
         context' = context \/ \E ctx : context' = [context EXCEPT ![s] = ctx],
         \/ state'[s] # "ACTIVE" \/ entries'[s] = NoEntry
         \/ entries'[s].collects = context'[s].clip
         \/ /\ state'[s] = state[s] /\ entries[s] # NoEntry
            /\ entries'[s].collects = entries[s].collects /\ context' = context
  PROVE  Collecting'
<1>1. Collects(s)'
  BY DEF OrderlyInv, Collecting, Collects
<1>2. ASSUME NEW u \in Sessions \ {s} PROVE Collects(u)'
  <2>1. context'[u] = context[u] /\ entries'[u] = entries[u] /\ Collects(u)
    BY DEF OrderlyInv, Collecting, ContextsOwn
  <2>2. state'[u] = "ACTIVE" => state[u] = "ACTIVE"
    BY DEF Others, Untouched, Promoted
  <2> QED BY <2>1, <2>2 DEF Collects
<1> QED BY <1>1, <1>2 DEF Collecting

(* The end of a transition that finds its session holding a slot. *)
LEMMA FinishOrderly ==
  ASSUME OrderlyInv, NEW s \in Sessions, state[s] \in SM!SlotStates,
         NEW next, NEW ctx, TurnsOwn(ctx), ReadyFor(next, entries[s]), Finish(s, next, ctx)
  PROVE  /\ KeptCall(s) /\ Others(s) /\ ContextsOwn' /\ Collecting'
         /\ \A u \in Sessions \ {s} : entries'[u] = entries[u]
<1>1. SL!IInv /\ entries \in [Sessions -> Record0] /\ ContextsOwn
  BY DEF OrderlyInv, SL!LInv, Typed, EntriesTyped
<1>2. CASE /\ context' = [context EXCEPT ![s] = SetCurrentClip(ctx, next)]
           /\ next # None /\ SM!MarkActive(s) /\ UNCHANGED <<entries, streams>>
  <2>1. TurnsOwn(SetCurrentClip(ctx, next)) /\ SetCurrentClip(ctx, next).clip = next
    BY SettersKeepTurns DEF SetCurrentClip, TurnsOwn
  <2>2. context'[s].clip = next
    BY <1>1, <1>2, <2>1 DEF ContextsOwn
  <2>3. Others(s)
    BY <1>1, <1>2, MarkEffect
  <2>4. Collecting'
    BY <1>2, <2>2, <2>3, OneCollects DEF ReadyFor
  <2> QED BY <1>1, <1>2, <2>1, <2>3, <2>4, OneContext DEF KeptCall
<1>3. CASE context' = [context EXCEPT ![s] = ctx] /\ SM!EndSession(s) /\ Deregister(s)
  <2>1. \A u \in Sessions \ {s} : entries'[u] = entries[u]
    BY <1>1, <1>3 DEF Deregister, Without
  <2>2. Others(s) /\ state'[s] # "ACTIVE"
    BY <1>1, <1>3, EndEffect DEF Becomes, Promoted
  <2>3. Collecting'
    BY <1>3, <2>1, <2>2, OneCollects
  <2> QED BY <1>1, <1>3, <2>1, <2>2, <2>3, OneContext DEF KeptCall
<1> QED BY <1>2, <1>3 DEF Finish

(* What follows the flush of request t, with records e that hold no result of
   its session but the one of its own window. *)
LEMMA AfterFlushOrderly ==
  ASSUME OrderlyInv, NEW t \in Transitions, pending[t].phase \in Flushing,
         NEW e \in [Sessions -> Record0],
         \A u \in Sessions : u # pending[t].session => e[u] = entries[u],
         pending[t] \in ClipRequest =>
            LET result == e[pending[t].session].result
            IN \/ result = None
               \/ result.window = pending[t].stream /\ result.clip = pending[t].collects,
         e[pending[t].session] = NoEntry <=> entries[pending[t].session] = NoEntry,
         e[pending[t].session].collects = entries[pending[t].session].collects,
         AfterFlush(t, e)
  PROVE  (\E s \in Sessions : KeptCall(s)) /\ Attending' /\ ContextsOwn' /\ Collecting'
<1>1. Typed /\ SL!IInv /\ ContextsOwn /\ OnlyOne /\ Attends(t)
  BY DEF OrderlyInv, SL!LInv, Attending
<1>2. PICK s \in Sessions : s = pending[t].session /\ pending[t] # Idle
  BY <1>1, KindsOfRequests
<1>3. \A u \in Transitions \ {t} : pending[u] # Idle => pending[u].session # s
  BY <1>1, <1>2 DEF OnlyOne
<1>4. Idle \notin ClipRequest \cup ResetRequest
  BY DEF Idle, ClipRequest, ResetRequest, Flushing
<1>5. CASE pending[t].kind = "end" /\ SM!EndSession(s) /\ entries' = e
           /\ pending' = Done(t) /\ UNCHANGED context
  <2>1. Others(s)
    BY <1>1, <1>5, EndEffect
  <2>2. Attending'
    BY <1>2, <1>3, <1>4, <1>5, <2>1, RequestAttends DEF Done
  <2>3. state'[s] # "ACTIVE"
    BY <1>1, <1>5, EndEffect DEF Becomes, Promoted
  <2>4. Collecting'
    BY <1>2, <1>5, <2>1, <2>3, OneCollects
  <2> QED BY <1>1, <1>5, <2>2, <2>4 DEF KeptCall, ContextsOwn
<1>6. CASE pending[t].kind = "clip" /\ Decide(t, e)
  <2>1. pending[t] \in ClipRequest
    BY <1>1, <1>6, KindsOfRequests
  <2>2. state[s] \in {"PAUSED", "DROPPED"} /\ state[s] \in SM!SlotStates
    BY <1>1, <1>2, <2>1 DEF Attends, Turning, SM!SlotStates
  <2>3. pending[t].clip \in Clips \cup {None} /\ TurnsOwn(context[s])
    BY <1>1, <2>1 DEF ClipRequest, ContextsOwn
  <2> DEFINE result == IF e[s] = NoEntry THEN None ELSE e[s].result
             score == IF result = None THEN 0 ELSE result.score
             next == NextClip(pending[t].clip, score)
             ctx == Record(context[s], pending[t].clip, pending[t].stream, result)
  <2>4. TurnsOwn(ctx)
    <3>1. \/ result = None
          \/ /\ result.window = pending[t].stream
             /\ pending[t].clip \in {None, result.clip}
      BY <1>1, <1>2, <2>1 DEF Attends
    <3> HIDE DEF result
    <3>2. TurnsOwn(Record(context[s], pending[t].clip, pending[t].stream, result))
      <4> DEFINE clip == pending[t].clip
                 window == pending[t].stream
      <4>1. \/ result = None \/ clip = None
            \/ result.window = window /\ result.clip = clip
        BY <3>1
      <4>2. clip \in Clips \cup {None}
        BY <2>3
      <4> HIDE DEF clip, window
      <4>3. TurnsOwn(Record(context[s], clip, window, result))
        BY <2>3, <4>1, <4>2, RecordKeepsTurns
      <4> QED BY <4>3 DEF clip, window
    <3> QED BY <3>2
  <2>5. next \in Targets
    <3>1. score \in Scores \cup {0}
      BY DEF Record0, Result
    <3> HIDE DEF score
    <3> QED BY <2>3, <3>1 DEF Targets
  <2>6. CASE e[s] = NoEntry /\ Finish(s, next, ctx) /\ pending' = Done(t)
    <3>1. /\ KeptCall(s) /\ Others(s) /\ ContextsOwn' /\ Collecting'
          /\ \A u \in Sessions \ {s} : entries'[u] = entries[u]
      <4> HIDE DEF next, ctx
      <4>1. ReadyFor(next, entries[s])
        BY <1>2, <2>6 DEF ReadyFor
      <4> QED BY <2>2, <2>4, <2>6, <4>1, FinishOrderly
    <3>2. Attending'
      BY <1>2, <1>3, <1>4, <2>6, <3>1, RequestAttends DEF Done
    <3> QED BY <3>1, <3>2
  <2>7. CASE /\ context' = [context EXCEPT ![s] = ctx]
             /\ pending' = [pending EXCEPT ![t] =
                  [phase |-> "resetting", session |-> s, next |-> next]]
             /\ \/ next = None /\ entries' = e
                \/ entries' = [e EXCEPT ![s].stream = Fresh, ![s].collects = next]
             /\ UNCHANGED smVars
    <3> DEFINE r == [phase |-> "resetting", session |-> s, next |-> next]
    <3>1. r.session = s /\ r \notin ClipRequest
      BY DEF ClipRequest, Flushing
    <3>2. pending' = [pending EXCEPT ![t] = r]
      BY <2>7
    <3>3. Others(s) /\ state'[s] \in {"PAUSED", "DROPPED"} /\ KeptCall(s)
      BY <2>2, <2>7, SameEffect DEF smVars, KeptCall
    <3>4. \A u \in Sessions \ {s} : entries'[u] = entries[u]
      BY <1>2, <2>7
    <3>5. ContextsOwn'
      <4> HIDE DEF ctx
      <4> QED BY <1>1, <2>4, <2>7, OneContext
    <3>6. ReadyFor(r.next, entries'[s])
      <4>1. r.next = next
        OBVIOUS
      <4>2. next = None \/ entries'[s].collects = next
        <5> HIDE DEF next
        <5> QED BY <2>7 DEF Record0
      <4> HIDE DEF r, next
      <4> QED BY <4>1, <4>2 DEF ReadyFor
    <3>7. Attending'
      <4> HIDE DEF r
      <4> QED BY <1>3, <3>1, <3>2, <3>3, <3>4, <3>6, RequestAttends
    <3>8. Collecting'
      <4> HIDE DEF ctx
      <4> QED BY <2>7, <3>3, <3>4, OneCollects
    <3> QED BY <3>3, <3>5, <3>7, <3>8
  <2> QED BY <1>2, <1>6, <2>6, <2>7 DEF Decide
<1> QED BY <1>2, <1>5, <1>6 DEF AfterFlush

(* Every step of the container, when no fault happens. *)
LEMMA OrderlyStep ==
  ASSUME Faults = {}, OrderlyInv, StreamsInv, Next
  PROVE  (\E s \in Sessions : KeptCall(s)) /\ Attending' /\ ContextsOwn' /\ Collecting'
<1>1. /\ Typed /\ SL!IInv /\ Attending /\ ContextsOwn /\ Collecting
      /\ entries \in [Sessions -> Record0]
  BY DEF OrderlyInv, SL!LInv, Typed, EntriesTyped
<1>2. /\ \A s \in Sessions : Settled(s) => ~Busy(s)
      /\ \A s \in Sessions : MayEnd(s) => ~Busy(s)
      /\ \A s \in Sessions : MayStart(s) => ~Ending(s)
  BY DEF Settled, MayEnd, MayStart
<1>3. {"CONNECTING", "ACTIVE", "PAUSED", "DROPPED"} = SM!SlotStates
  BY DEF SM!SlotStates
<1>4. ASSUME NEW s \in Sessions, CreateSession(s)
      PROVE  KeptCall(s) /\ Attending' /\ ContextsOwn' /\ Collecting'
  <2>1. SM!Create(s) /\ state[s] = "NONE" /\ Others(s)
    BY <1>1, <1>4, CreateEffect DEF CreateSession
  <2>2. Attending'
    BY <1>4, <2>1, NoRequestAttends DEF CreateSession
  <2>3. ContextsOwn'
    BY <1>1, <1>4, OneContext, FreshTurns DEF CreateSession
  <2>4. state'[s] # "ACTIVE"
    BY <1>1, <2>1, CreateEffect DEF Becomes
  <2>5. Collecting'
    BY <1>4, <2>1, <2>4, OneCollects DEF CreateSession
  <2> QED BY <2>1, <2>2, <2>3, <2>5 DEF KeptCall
<1>5. ASSUME NEW s \in Sessions, ResumeSession(s) \/ Timeout(s)
      PROVE  KeptCall(s) /\ Attending' /\ ContextsOwn' /\ Collecting'
  <2>1. ~Busy(s) /\ UNCHANGED appVars /\ (SM!ResumeSession(s) \/ SM!Timeout(s))
    BY <1>2, <1>5 DEF ResumeSession, Timeout
  <2>2. Others(s)
    BY <1>1, <2>1, MarkEffect, TimeoutEffect
  <2>3. state'[s] = state[s] \/ state'[s] # "ACTIVE"
    BY <1>1, <2>1, MarkEffect, TimeoutEffect DEF Becomes, Promoted
  <2>4. Collecting'
    BY <1>1, <2>1, <2>2, <2>3, OneCollects DEF appVars
  <2> QED BY <1>1, <2>1, <2>2, <2>4, NoRequestAttends DEF appVars, KeptCall, ContextsOwn
<1>6. ASSUME NEW s \in Sessions, EndCall(s)
      PROVE  KeptCall(s) /\ Attending' /\ ContextsOwn' /\ Collecting'
  <2>1. ~Busy(s) /\ UNCHANGED context
    BY <1>2, <1>6 DEF EndCall
  <2>2. ContextsOwn'
    BY <1>1, <2>1 DEF ContextsOwn
  <2>3. CASE SM!EndSession(s) /\ UNCHANGED <<entries, pending>>
    <3>1. Others(s) /\ state'[s] # "ACTIVE"
      BY <1>1, <2>3, EndEffect DEF Becomes, Promoted
    <3>2. Collecting'
      BY <2>1, <2>3, <3>1, OneCollects
    <3> QED BY <1>1, <2>1, <2>2, <2>3, <3>1, <3>2, NoRequestAttends DEF KeptCall
  <2>4. CASE /\ \E t \in Transitions :
                  /\ pending[t] = Idle
                  /\ pending' = [pending EXCEPT ![t] =
                       [phase |-> "flushing", kind |-> "end", session |-> s,
                        object |-> entries[s].object, collects |-> entries[s].collects,
                        stream |-> entries[s].stream]]
             /\ entries[s] # NoEntry /\ entries' = ForgetResult(s) /\ UNCHANGED smVars
    <3> DEFINE r == [phase |-> "flushing", kind |-> "end", session |-> s,
                     object |-> entries[s].object, collects |-> entries[s].collects,
                     stream |-> entries[s].stream]
    <3>1. r.session = s /\ r \notin ClipRequest \cup ResetRequest
      BY DEF ClipRequest, ResetRequest
    <3>2. PICK t \in Transitions : pending' = [pending EXCEPT ![t] = r]
      BY <2>4
    <3> HIDE DEF r
    <3>3. Others(s) /\ KeptCall(s)
      BY <2>4, SameEffect DEF smVars, KeptCall
    <3>4. \A u \in Sessions \ {s} : entries'[u] = entries[u]
      BY <1>1, <2>4 DEF ForgetResult
    <3>5. \A u \in Transitions : pending[u] # Idle => pending[u].session # s
      BY <2>1 DEF Busy
    <3>6. Attending'
      BY <3>1, <3>2, <3>3, <3>4, <3>5, RequestAttends
    <3>7. entries'[s].collects = entries[s].collects
      BY <1>1, <2>4 DEF ForgetResult, Record0
    <3>8. Collecting'
      BY <2>1, <2>4, <3>3, <3>4, <3>7, OneCollects DEF smVars
    <3> QED BY <2>2, <3>3, <3>6, <3>8
  <2> QED BY <1>6, <2>3, <2>4 DEF EndCall
<1>7. ASSUME NEW s \in Sessions, OpenSocket(s)
      PROVE  KeptCall(s) /\ Attending' /\ ContextsOwn' /\ Collecting'
  <2>1. UNCHANGED <<state, queue, activeSlots, context, entries, pending>>
    BY <1>7 DEF OpenSocket, smVars, SM!SetQueuedSocket
  <2>2. Others(s) /\ KeptCall(s)
    BY <2>1, SameEffect DEF KeptCall
  <2>3. Collecting'
    BY <2>1, <2>2, OneCollects
  <2> QED BY <1>1, <2>1, <2>2, <2>3, NoRequestAttends DEF ContextsOwn
<1>8. ASSUME NEW k \in 1..MaxSockets, RequestClip(k)
      PROVE  (\E s \in Sessions : KeptCall(s)) /\ Attending' /\ ContextsOwn' /\ Collecting'
  <2>1. PICK s \in Sessions : s = SessionOf(k)
    BY <1>1, <1>8, SocketsOfSessions DEF RequestClip
  <2>2. PICK clip \in Clips, scenario \in Scenarios :
          /\ context' = [context EXCEPT ![s] = BindClip(context[s], scenario, clip)]
          /\ Register(s, clip) /\ state[s] = "CONNECTING"
          /\ SM!MarkActive(s) /\ UNCHANGED pending
    BY <1>1, <1>8, <2>1 DEF RequestClip, ContextsOwn
  <2>3. Others(s) /\ KeptCall(s)
    BY <1>1, <1>3, <2>1, <2>2, MarkEffect DEF KeptCall
  <2>4. \A u \in Sessions \ {s} : entries'[u] = entries[u]
    BY <1>1, <2>2 DEF Register
  <2>5. /\ TurnsOwn(BindClip(context[s], scenario, clip))
        /\ BindClip(context[s], scenario, clip).clip = clip
    BY <1>1, BindKeepsTurns DEF ContextsOwn
  <2>6. ContextsOwn'
    BY <1>1, <2>2, <2>5, OneContext
  <2>7. entries'[s].collects = clip /\ context'[s].clip = clip
    BY <1>1, <2>2, <2>5 DEF Register, ContextsOwn
  <2>8. Collecting'
    BY <2>2, <2>3, <2>4, <2>7, OneCollects
  <2> QED BY <2>2, <2>3, <2>4, <2>6, <2>8, NoRequestAttends
<1>9. ASSUME NEW k \in 1..MaxSockets, NEW t \in Transitions, ClipEnded(k, t)
      PROVE  (\E s \in Sessions : KeptCall(s)) /\ Attending' /\ ContextsOwn' /\ Collecting'
  <2>1. PICK s \in Sessions : s = SessionOf(k)
    BY <1>1, <1>9, SocketsOfSessions DEF ClipEnded
  <2>2. state[s] = "ACTIVE" /\ ~Ending(s) /\ TurnsOwn(context[s])
    BY <1>1, <1>2, <1>9, <2>1 DEF ClipEnded, ContextsOwn
  <2>3. ~Busy(s)
    <3> SUFFICES ASSUME NEW u \in Transitions, pending[u] # Idle, pending[u].session = s
                 PROVE  FALSE
      BY DEF Busy
    <3>1. ~Turning(u)
      BY <2>2, TurningNotQueued
    <3>2. pending[u] \in EndRequest
      BY <1>1, <3>1, KindsOfRequests DEF Turning
    <3> QED BY <2>2, <3>2 DEF EndRequest, Ending
  <2>4. PICK clip \in Clips \cup {None} :
            \/ /\ SM!MarkPaused(s) /\ entries' = ForgetResult(s)
               /\ clip \in {None, entries[s].collects}
               /\ pending' = [pending EXCEPT ![t] =
                    [phase |-> "flushing", kind |-> "clip", session |-> s,
                     clip |-> clip, object |-> entries[s].object, collects |-> entries[s].collects,
                     stream |-> entries[s].stream]]
               /\ UNCHANGED context
            \/ /\ Finish(s, NextClip(clip, 0), Record(context[s], clip, 0, None))
               /\ UNCHANGED pending /\ entries[s] = NoEntry
    <3> DEFINE clip == InScenario(context[s], context[s].clip)
    <3>1. clip \in Clips \cup {None} /\ clip \in {None, context[s].clip}
      BY DEF InScenario, Known
    <3>2. MayName(s) = {context[s].clip}
      BY DEF MayName
    <3>3. entries[s] # NoEntry => clip \in {None, entries[s].collects}
      BY <1>1, <2>2, <3>1 DEF Collecting, Collects
    <3>4. \/ /\ SM!MarkPaused(s) /\ entries' = ForgetResult(s) /\ entries[s] # NoEntry
             /\ pending' = [pending EXCEPT ![t] =
                  [phase |-> "flushing", kind |-> "clip", session |-> s,
                   clip |-> clip, object |-> entries[s].object, collects |-> entries[s].collects,
                   stream |-> entries[s].stream]]
             /\ UNCHANGED context
          \/ /\ Finish(s, NextClip(clip, 0), Record(context[s], clip, 0, None))
             /\ UNCHANGED pending /\ entries[s] = NoEntry
      BY <1>9, <2>1, <3>2 DEF ClipEnded
    <3> HIDE DEF clip
    <3> QED BY <3>1, <3>3, <3>4
  <2> DEFINE r == [phase |-> "flushing", kind |-> "clip", session |-> s, clip |-> clip,
                   object |-> entries[s].object, collects |-> entries[s].collects,
                   stream |-> entries[s].stream]
  <2>5. CASE /\ SM!MarkPaused(s) /\ entries' = ForgetResult(s)
             /\ clip \in {None, entries[s].collects}
             /\ pending' = [pending EXCEPT ![t] = r] /\ UNCHANGED context
    <3>1. /\ r.session = s /\ r.clip \in {None, r.collects}
          /\ r \notin ResetRequest
      BY <2>5 DEF ResetRequest
    <3> HIDE DEF r
    <3>2. Others(s) /\ KeptCall(s) /\ state'[s] = "PAUSED"
      BY <1>1, <1>3, <2>2, <2>5, MarkEffect DEF KeptCall, Becomes
    <3>3. /\ \A u \in Sessions \ {s} : entries'[u] = entries[u]
          /\ entries'[s].result = None
      BY <1>1, <2>5 DEF ForgetResult, Record0
    <3>4. \A u \in Transitions : pending[u] # Idle => pending[u].session # s
      BY <2>3 DEF Busy
    <3>5. Attending'
      BY <2>5, <3>1, <3>2, <3>3, <3>4, RequestAttends
    <3>6. Collecting'
      BY <2>5, <3>2, <3>3, OneCollects
    <3> QED BY <1>1, <2>5, <3>2, <3>5, <3>6 DEF ContextsOwn
  <2>6. CASE /\ Finish(s, NextClip(clip, 0), Record(context[s], clip, 0, None))
             /\ UNCHANGED pending /\ entries[s] = NoEntry
    <3>0. ReadyFor(NextClip(clip, 0), entries[s])
      BY <2>6 DEF ReadyFor
    <3>1. TurnsOwn(Record(context[s], clip, 0, None))
      <4> DEFINE result == None
      <4>1. result = None
        OBVIOUS
      <4> HIDE DEF result
      <4>2. TurnsOwn(Record(context[s], clip, 0, result))
        BY <2>2, <4>1, RecordKeepsTurns
      <4> QED BY <4>1, <4>2
    <3>2. /\ KeptCall(s) /\ Others(s) /\ ContextsOwn' /\ Collecting'
          /\ \A u \in Sessions \ {s} : entries'[u] = entries[u]
      BY <1>3, <2>2, <2>6, <3>0, <3>1, FinishOrderly
    <3> QED BY <2>3, <2>6, <3>2, NoRequestAttends
  <2> QED BY <2>4, <2>5, <2>6
<1>10. ASSUME NEW k \in 1..MaxSockets, CloseSocket(k) \/ HeartbeatTimeout(k)
       PROVE  (\E s \in Sessions : KeptCall(s)) /\ Attending' /\ ContextsOwn' /\ Collecting'
  <2>1. PICK s \in Sessions : s = SessionOf(k)
    BY <1>1, <1>10, SocketsOfSessions DEF CloseSocket, HeartbeatTimeout
  <2>2. UNCHANGED <<context, pending>>
    BY <1>10 DEF CloseSocket, HeartbeatTimeout
  <2>3. ContextsOwn'
    BY <1>1, <2>2 DEF ContextsOwn
  <2>4. CASE UNCHANGED <<smVars, entries>>
    <3>1. Others(s) /\ KeptCall(s)
      BY <2>4, SameEffect DEF smVars, KeptCall
    <3>2. Collecting'
      BY <1>1, <2>2, <2>4, <3>1, OneCollects DEF smVars
    <3> QED BY <2>2, <2>3, <2>4, <3>1, <3>2, NoRequestAttends DEF smVars
  <2>5. CASE state[s] \in SM!SlotStates /\ Deregister(s) /\ SM!MarkDropped(s)
    <3>1. Others(s) /\ KeptCall(s) /\ state'[s] = "DROPPED"
      BY <1>1, <2>5, MarkEffect DEF KeptCall, Becomes
    <3>2. /\ \A u \in Sessions \ {s} : entries'[u] = entries[u]
          /\ entries'[s] = NoEntry
      BY <1>1, <2>5 DEF Deregister, Without
    <3>3. Collecting'
      BY <2>2, <3>1, <3>2, OneCollects
    <3> QED BY <2>2, <2>3, <3>1, <3>2, <3>3, NoRequestAttends
  <2> QED BY <1>3, <1>10, <2>1, <2>4, <2>5 DEF CloseSocket, HeartbeatTimeout, DropsOnClose
<1>11. ASSUME NEW t \in Transitions, WindowReady(t)
       PROVE  (\E s \in Sessions : KeptCall(s)) /\ Attending' /\ ContextsOwn' /\ Collecting'
  <2>1. pending[t] \in EndRequest \cup ClipRequest /\ pending[t] # Idle
    BY <1>1, <1>11, KindsOfRequests DEF WindowReady, Flushing
  <2>2. PICK s \in Sessions : s = pending[t].session
    BY <1>1, <1>11, KindsOfRequests DEF WindowReady, Flushing
  <2> DEFINE r == [pending[t] EXCEPT !.phase = "analysing"]
  <2>3. /\ r.session = s /\ r \notin ResetRequest
        /\ r \in ClipRequest =>
             /\ pending[t] \in ClipRequest
             /\ r.clip = pending[t].clip /\ r.collects = pending[t].collects
    BY <2>1, <2>2 DEF EndRequest, ClipRequest, ResetRequest
  <2>4. /\ pending' = [pending EXCEPT ![t] = r]
        /\ UNCHANGED <<smVars, context, entries>>
    BY <1>11 DEF WindowReady
  <2>5. Others(s) /\ KeptCall(s)
    BY <2>4, SameEffect DEF smVars, KeptCall
  <2>6. \A u \in Transitions \ {t} : pending[u] # Idle => pending[u].session # s
    BY <1>1, <2>1, <2>2 DEF Attending, OnlyOne
  <2>7. pending[t] \in ClipRequest =>
          /\ state[s] \in {"PAUSED", "DROPPED"} /\ entries[s].result = None
          /\ pending[t].clip \in {None, pending[t].collects}
    BY <1>1, <2>2 DEF Attending, Attends, Turning
  <2> HIDE DEF r
  <2>8. Attending'
    BY <2>3, <2>4, <2>5, <2>6, <2>7, RequestAttends DEF smVars
  <2>9. Collecting'
    BY <2>4, <2>5, OneCollects DEF smVars
  <2> QED BY <1>1, <2>4, <2>5, <2>8, <2>9 DEF ContextsOwn
<1>12. ASSUME NEW t \in Transitions, FlushTimeout(t)
       PROVE  (\E s \in Sessions : KeptCall(s)) /\ Attending' /\ ContextsOwn' /\ Collecting'
  <2>1. pending[t] \in ClipRequest => entries[pending[t].session].result = None
    BY <1>1 DEF Attending, Attends
  <2> QED BY <1>1, <1>12, <2>1, AfterFlushOrderly DEF FlushTimeout, Flushing
<1>13. ASSUME NEW t \in Transitions, Analysed(t)
       PROVE  (\E s \in Sessions : KeptCall(s)) /\ Attending' /\ ContextsOwn' /\ Collecting'
  <2>1. pending[t].phase \in Flushing
    BY <1>13 DEF Analysed, Flushing
  <2>2. PICK s \in Sessions : s = pending[t].session
    BY <1>1, <2>1, KindsOfRequests
  <2>3. pending[t] \in ClipRequest => entries[s].result = None
    BY <1>1, <2>2 DEF Attending, Attends
  <2>4. \E e : AfterFlush(t, e) /\ (e = entries \/ \E r \in Result :
              /\ entries[s] # NoEntry
              /\ r.window = pending[t].stream /\ r.clip = pending[t].collects
              /\ e = [entries EXCEPT ![s].result = r])
    <3>1. PICK e : AfterFlush(t, e) /\ (e = entries \/ \E r \in Result :
              /\ entries[pending[t].session] # NoEntry
              /\ r.window = pending[t].stream /\ r.clip = pending[t].collects
              /\ e = [entries EXCEPT ![pending[t].session].result = r])
      BY <1>1, <1>13, AnsweredWith
    <3> QED BY <2>2, <3>1
  <2>5. ASSUME NEW r \in Result, entries[s] # NoEntry,
               r.window = pending[t].stream, r.clip = pending[t].collects,
               AfterFlush(t, [entries EXCEPT ![s].result = r])
        PROVE  (\E u \in Sessions : KeptCall(u)) /\ Attending' /\ ContextsOwn' /\ Collecting'
    <3> DEFINE e == [entries EXCEPT ![s].result = r]
    <3>1. /\ e \in [Sessions -> Record0] /\ e[s].result = r
          /\ \A u \in Sessions : u # s => e[u] = entries[u]
      BY <1>1 DEF Record0
    <3>2. AfterFlush(t, e)
      BY <2>5
    <3>3. /\ e[s].result.window = pending[t].stream
          /\ e[s].result.clip = pending[t].collects
      BY <2>5, <3>1
    <3>4. e[s] # NoEntry /\ e[s].collects = entries[s].collects
      <4>1. e[s].stream = entries[s].stream /\ e[s].collects = entries[s].collects
        BY <1>1 DEF Record0
      <4>2. entries[s].stream # 0
        BY <2>5 DEF StreamsInv, Fits
      <4> QED BY <4>1, <4>2 DEF NoEntry
    <3> HIDE DEF e
    <3> QED BY <2>1, <2>2, <2>5, <3>1, <3>2, <3>3, <3>4, AfterFlushOrderly
  <2>6. CASE AfterFlush(t, entries)
    BY <1>1, <2>1, <2>2, <2>3, <2>6, AfterFlushOrderly
  <2> QED BY <2>4, <2>5, <2>6
<1>14. ASSUME NEW t \in Transitions, ResetDone(t)
       PROVE  (\E s \in Sessions : KeptCall(s)) /\ Attending' /\ ContextsOwn' /\ Collecting'
  <2>1. Turning(t)
    BY <1>1, <1>14, KindsOfRequests DEF ResetDone, Turning
  <2>2. PICK s \in Sessions : s = pending[t].session
    BY <2>1, TurningNotQueued
  <2>3. state[s] \in SM!SlotStates /\ pending[t] # Idle
    BY <1>3, <2>1, <2>2, TurningNotQueued
  <2>4. /\ KeptCall(s) /\ Others(s) /\ ContextsOwn' /\ Collecting'
        /\ \A u \in Sessions \ {s} : entries'[u] = entries[u]
    <3>1. ReadyFor(pending[t].next, entries[s])
      BY <1>1, <1>14, <2>2, KindsOfRequests DEF ResetDone, Attending, Attends
    <3> QED BY <1>1, <1>14, <2>2, <2>3, <3>1, FinishOrderly DEF ResetDone, ContextsOwn
  <2>5. \A u \in Transitions \ {t} : pending[u] # Idle => pending[u].session # s
    BY <1>1, <2>2, <2>3 DEF Attending, OnlyOne
  <2>6. Idle \notin ClipRequest \cup ResetRequest
    BY DEF Idle, ClipRequest, ResetRequest, Flushing
  <2>7. Attending'
    BY <1>14, <2>4, <2>5, <2>6, RequestAttends DEF ResetDone, Done
  <2> QED BY <2>4, <2>7
<1> QED BY <1>4, <1>5, <1>6, <1>7, <1>8, <1>9, <1>10, <1>11, <1>12, <1>13, <1>14 DEF Next

(* The invariant of the orderly container. *)
LEMMA OrderlyInduction ==
  ASSUME Faults = {}
  PROVE  Spec => []OrderlyInv
<1>0. SL!IsFiniteSet(Sessions)
  BY SizesAssumption DEF SL!IsFiniteSet, IsFiniteSet
<1>1. Init => OrderlyInv
  <2> SUFFICES ASSUME Init PROVE OrderlyInv
    OBVIOUS
  <2>1. SL!LInv
    <3>1. SL!Init
      BY DEF Init, SM!Init, SL!Init, SM!NoPosition, SL!NoPosition
    <3> QED BY <1>0, <3>1, SL!InitEstablishesLInv, SizesAssumption, NoSocketIsNone
  <2>2. Attending
    BY DEF Init, Attending, OnlyOne, Attends, Turning, Idle, ClipRequest, ResetRequest, Flushing
  <2>3. ContextsOwn
    BY FreshTurns DEF Init, ContextsOwn
  <2>4. Collecting
    BY DEF Init, SM!Init, Collecting, Collects
  <2> QED BY <2>1, <2>2, <2>3, <2>4, InitTyped DEF OrderlyInv
<1>2. OrderlyInv /\ StreamsInv /\ Typed' /\ SL!IInv' /\ [Next]_vars => OrderlyInv'
  <2> SUFFICES ASSUME OrderlyInv, StreamsInv, Typed', SL!IInv', [Next]_vars PROVE OrderlyInv'
    OBVIOUS
  <2>1. CASE Next
    BY <2>1, OrderlyStep, CallKeepsAccounts DEF OrderlyInv, SL!LInv
  <2>2. CASE UNCHANGED vars
    <3>1. SL!SlotAccounting' /\ SL!QueuedHoldNoSlot'
      BY <1>0, <2>2, SL!NothingHappens, SizesAssumption, NoSocketIsNone
         DEF OrderlyInv, vars, smVars
    <3>2. Attending' /\ ContextsOwn' /\ Collecting'
      BY <2>2 DEF OrderlyInv, vars, smVars, appVars, Attending, OnlyOne, Attends, Turning,
                  ReadyFor, ContextsOwn, Collecting, Collects
    <3> QED BY <3>1, <3>2 DEF OrderlyInv, SL!LInv
  <2> QED BY <2>1, <2>2
<1>3. Spec => []StreamsInv
  BY StreamsAlways
<1> QED BY <1>1, <1>2, <1>3, ContainerTyped, ManagerInvariant, PTL DEF Spec

(* As long as no end, timer or heartbeat overlaps a transition, the counter
   counts the sessions that hold a slot, in the whole container. *)
THEOREM SlotsCounted ==
  ASSUME Faults = {}
  PROVE  Spec => []SlotAccounting
<1>1. OrderlyInv => SlotAccounting
  BY SameAccounts DEF OrderlyInv, SL!LInv
<1> QED BY <1>1, OrderlyInduction, PTL

(* ... and a turn of a session's history holds the score of the response to
   its clip, judged by that clip's rubric, or the fallback, given that
   clip_ended names the clip the session is at (wrong_clip is a fault). *)
THEOREM TurnsOwnClip ==
  ASSUME Faults = {}
  PROVE  Spec => []TurnsJudgeTheirOwnClip
<1>1. ASSUME OrderlyInv, NEW s \in Sessions, NEW i \in 1..Len(context[s].turns)
      PROVE  context[s].turns[i].judged # "other"
  <2> DEFINE OwnTurn == [clip : Clips \cup {None}, judged : {"fallback", "own"}]
             turns == context[s].turns
  <2>1. turns \in Seq(OwnTurn)
    BY <1>1 DEF OrderlyInv, ContextsOwn, TurnsOwn, Turns
  <2>2. turns[i] \in OwnTurn
    <3> HIDE DEF OwnTurn, turns
    <3> QED BY <1>1, <2>1 DEF turns
  <2> QED BY <2>2
<1>2. OrderlyInv => TurnsJudgeTheirOwnClip
  BY <1>1 DEF TurnsJudgeTheirOwnClip
<1> QED BY <1>2, OrderlyInduction, PTL
=============================================================================
