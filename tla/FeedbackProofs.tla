---------------------------- MODULE FeedbackProofs ----------------------------
(***************************************************************************)
(* What holds of the debrief for any number of sessions, tokens and        *)
(* crashes: types, the model that serves, the keepalive timer, and the     *)
(* order and wholeness of what a trainee is sent.                          *)
(***************************************************************************)
EXTENDS Feedback, SequenceTheorems, TLAPS

(* What Ollama said is what the route yielded and what it skipped. *)
Counted(g) == g.said = g.tokens + g.skipped

(* What is on its way to the app: k tokens, and once the container is done
   with the answer the final event and the end, or only the end. *)
Arriving(s, k) ==
  /\ \A i \in 1..k : wire[s][i] = Token
  /\ \/ Len(wire[s]) = k
     \/ /\ gen[s].phase = "over"
        /\ Len(wire[s]) = k + 2
        /\ wire[s][k + 1] \in {Error, Complete(gen[s].tokens)}
        /\ wire[s][k + 2] = End
     \/ gen[s].phase = "over" /\ k = 0 /\ wire[s] = <<End>>
  /\ open[s] /\ stream[s] # "over" => view[s].streamed + k = gen[s].tokens

(* No token is lost between the route and the trainee, a final message is the
   last but for an abort, and advice that is shown is all that was yielded. *)
Orderly(s) ==
  /\ \E k \in 0..Len(wire[s]) : Arriving(s, k)
  /\ Counted(gen[s])
  /\ stream[s] = "over" => wire[s] = <<>>
  /\ outcomes[s] # <<>> => stream[s] = "over" \/ wire[s] = <<End>>
  /\ \A i \in 2..Len(outcomes[s]) : outcomes[s][i] = Error
  /\ view[s].final # -1 => /\ outcomes[s] # <<>>
                           /\ gen[s].phase = "over"
                           /\ view[s].final = gen[s].tokens
                           /\ view[s].streamed = gen[s].tokens

DebriefInv == TypeOK /\ \A s \in Sessions : Orderly(s)

-----------------------------------------------------------------------------
(* Startup. *)

(* A container that starts does not serve in production before it has
   looked at its model. *)
LEMMA ServesStep ==
  ASSUME ServesExpectedModel, [Next]_vars PROVE ServesExpectedModel'
<1> USE DEF ServesExpectedModel
<1>1. CASE Listed
  BY <1>1 DEF Listed, AfterListing
<1>2. CASE Pulled
  BY <1>2 DEF Pulled
<1>3. CASE Verified
  BY <1>3 DEF Verified
<1>4. CASE Restarted
  BY <1>4 DEF Restarted, Started
<1>5. CASE Crash
  BY <1>5 DEF Crash, Started
<1>6. CASE UNCHANGED containerVars
  BY <1>6 DEF containerVars
<1>7. ASSUME NEW s \in Sessions,
             \/ Accept(s) \/ OllamaAnswers(s) \/ OllamaFails(s)
             \/ LineSkipped(s) \/ BodyEnds(s)
             \/ \E response, done \in BOOLEAN : OllamaSays(s, response, done)
             \/ CompleteSession(s) \/ FetchFails(s) \/ HeadersArrive(s) \/ ReadEvent(s)
             \/ BodyBreaks(s) \/ Abort(s) \/ KeepaliveTick(s) \/ SocketCloses(s)
      PROVE  UNCHANGED containerVars
  BY <1>7 DEF Accept, OllamaAnswers, OllamaFails, OllamaSays, LineSkipped, BodyEnds,
              CompleteSession, FetchFails,
              HeadersArrive, ReadEvent, BodyBreaks, Abort, KeepaliveTick, SocketCloses
<1>8. CASE UNCHANGED vars
  BY <1>8, <1>6 DEF vars
<1> QED BY <1>1, <1>2, <1>3, <1>4, <1>5, <1>6, <1>7, <1>8 DEF Next, Startup

(* The keepalive timer is set and cleared with the loop that reads. *)
LEMMA KeepaliveStep ==
  ASSUME TypeOK, KeepaliveOnlyWhileReading, [Next]_vars
  PROVE  KeepaliveOnlyWhileReading'
<1> SUFFICES ASSUME NEW t \in Sessions
             PROVE  keepalive'[t] = (stream'[t] = "reading")
  BY DEF KeepaliveOnlyWhileReading
<1>0. /\ keepalive \in [Sessions -> BOOLEAN]
      /\ stream \in [Sessions -> {"idle", "fetching", "reading", "over"}]
      /\ keepalive[t] = (stream[t] = "reading")
  BY DEF TypeOK, KeepaliveOnlyWhileReading
<1>1. CASE UNCHANGED <<keepalive, stream>>
  BY <1>0, <1>1
<1>2. ASSUME NEW s \in Sessions, CompleteSession(s) \/ FetchFails(s)
      PROVE  keepalive'[t] = (stream'[t] = "reading")
  <2>1. /\ keepalive' = keepalive
        /\ stream[s] # "reading"
        /\ \E p \in {"fetching", "over"} : stream' = [stream EXCEPT ![s] = p]
    BY <1>2 DEF CompleteSession, FetchFails
  <2> QED BY <1>0, <2>1
<1>3. ASSUME NEW s \in Sessions, HeadersArrive(s)
      PROVE  keepalive'[t] = (stream'[t] = "reading")
  <2>1. /\ keepalive' = [keepalive EXCEPT ![s] = TRUE]
        /\ stream' = [stream EXCEPT ![s] = "reading"]
    BY <1>3 DEF HeadersArrive
  <2>2. CASE t = s
    BY <1>0, <2>1, <2>2
  <2>3. CASE t # s
    BY <1>0, <2>1, <2>3
  <2> QED BY <2>2, <2>3
<1>4. ASSUME NEW s \in Sessions, Finish(s)
      PROVE  keepalive'[t] = (stream'[t] = "reading")
  <2>1. CASE t = s
    BY <1>0, <1>4, <2>1 DEF Finish
  <2>2. CASE t # s
    BY <1>0, <1>4, <2>2 DEF Finish
  <2> QED BY <2>1, <2>2
<1>5. ASSUME NEW s \in Sessions, ReadEvent(s)
      PROVE  Finish(s) \/ UNCHANGED <<keepalive, stream>>
  BY <1>5 DEF ReadEvent
<1>6. ASSUME NEW s \in Sessions, BodyBreaks(s) \/ Abort(s)
      PROVE  Finish(s)
  BY <1>6 DEF BodyBreaks, Abort
<1>7. ASSUME NEW s \in Sessions,
             \/ Accept(s) \/ OllamaAnswers(s) \/ OllamaFails(s)
             \/ LineSkipped(s) \/ BodyEnds(s)
             \/ \E response, done \in BOOLEAN : OllamaSays(s, response, done)
             \/ KeepaliveTick(s) \/ SocketCloses(s)
      PROVE  UNCHANGED <<keepalive, stream>>
  BY <1>7 DEF Accept, OllamaAnswers, OllamaFails, OllamaSays, LineSkipped, BodyEnds, KeepaliveTick,
              SocketCloses, appVars
<1>8. ASSUME Startup \/ Crash \/ UNCHANGED vars PROVE UNCHANGED <<keepalive, stream>>
  BY <1>8 DEF Startup, Listed, Pulled, Verified, Restarted, Crash, vars, appVars
<1> QED BY <1>1, <1>2, <1>3, <1>4, <1>5, <1>6, <1>7, <1>8 DEF Next

-----------------------------------------------------------------------------
(* Events. *)

LEMMA EventKinds ==
  /\ Token # Error /\ Token # End /\ Error # End
  /\ \A n : Complete(n) # Token /\ Complete(n) # Error /\ Complete(n) # End
  /\ Token.type = "token" /\ Error.type = "error" /\ End.type = "end"
  /\ \A n : Complete(n).type = "complete" /\ Complete(n).advice = n
  /\ Heartbeat.type = "heartbeat"
BY DEF Token, Error, End, Complete, Heartbeat

LEMMA EventTypes ==
  /\ {Token, Error, End} \subseteq Events
  /\ \A n \in 0..MaxTokens : Complete(n) \in Events
  /\ \A e \in Events : \/ e \in {Token, Error, End}
                       \/ \E n \in 0..MaxTokens : e = Complete(n)
BY DEF Events

(* What a client makes of each message. *)
LEMMA SeenFields ==
  ASSUME NEW v \in View
  PROVE  /\ Seen(v, Token) = [v EXCEPT !.streamed = @ + 1]
         /\ Seen(v, Error) = [v EXCEPT !.unavailable = TRUE]
         /\ Seen(v, Heartbeat) = [v EXCEPT !.heartbeat = TRUE]
         /\ \A n : Seen(v, Complete(n)) =
                     IF v.final = -1 THEN [v EXCEPT !.final = n] ELSE v
BY EventKinds DEF Seen

(* One token less to come, one more that was seen. *)
LEMMA OneMore ==
  ASSUME NEW seen \in Nat, NEW said \in 0..MaxTokens, NEW k \in Nat, k >= 1, seen + k = said
  PROVE  (seen + 1) + (k - 1) = said /\ seen < MaxTokens
BY FeedbackAssumption

(* A sequence of one element. *)
LEMMA Singleton ==
  ASSUME NEW S, NEW q \in Seq(S), NEW e
  PROVE  (q = <<e>>) <=> (Len(q) = 1 /\ q[1] = e)
<1>1. ASSUME q = <<e>> PROVE Len(q) = 1 /\ q[1] = e
  BY <1>1
<1>2. ASSUME Len(q) = 1, q[1] = e PROVE q = <<e>>
  BY <1>2
<1> QED BY <1>1, <1>2

-----------------------------------------------------------------------------
(* Order, one kind of step at a time. *)

(* Nothing is written, read or decided. *)
LEMMA Undisturbed ==
  ASSUME NEW s \in Sessions, Orderly(s),
         wire'[s] = wire[s], outcomes'[s] = outcomes[s],
         gen'[s].tokens = gen[s].tokens, Counted(gen[s]) => Counted(gen'[s]),
         gen[s].phase = "over" => gen'[s].phase = "over",
         open'[s] => open[s],
         stream'[s] = "over" <=> stream[s] = "over",
         view'[s].streamed = view[s].streamed, view'[s].final = view[s].final
  PROVE  Orderly(s)'
<1>1. PICK k \in 0..Len(wire[s]) : Arriving(s, k)
  BY DEF Orderly
<1>2. Arriving(s, k)'
  BY <1>1 DEF Arriving
<1>3. \E j \in 0..Len(wire'[s]) : Arriving(s, j)'
  BY <1>1, <1>2
<1> QED BY <1>3 DEF Orderly

(* The app gives the stream up. *)
LEMMA GivenUp ==
  ASSUME NEW s \in Sessions, Orderly(s), outcomes[s] \in Seq(Outcomes),
         wire'[s] = <<>>, outcomes'[s] = Append(outcomes[s], Error),
         gen'[s] = gen[s], stream'[s] = "over",
         view'[s].streamed = view[s].streamed, view'[s].final = view[s].final
  PROVE  Orderly(s)'
<1>1. Arriving(s, 0)'
  BY DEF Arriving
<1>2. \E k \in 0..Len(wire'[s]) : Arriving(s, k)'
  BY <1>1
<1>3. outcomes'[s] # <<>>
  OBVIOUS
<1>4. \A i \in 2..Len(outcomes'[s]) : outcomes'[s][i] = Error
  BY DEF Orderly
<1> QED BY <1>2, <1>3, <1>4 DEF Orderly

(* The container writes a token or none, as Ollama said one or none, and
   then what ends the answer. *)
LEMMA Written ==
  ASSUME NEW s \in Sessions, Orderly(s), stream[s] # "over",
         wire[s] \in Seq(Events), gen[s] \in Gen, view[s] \in View,
         gen[s].phase # "over",
         NEW n \in {0, 1}, NEW new \in Seq(Events),
         n = 1 => Len(new) >= 1 /\ new[1] = Token,
         \/ Len(new) = n
         \/ /\ gen'[s].phase = "over" /\ Len(new) = n + 2
            /\ new[n + 1] \in {Error, Complete(gen'[s].tokens)} /\ new[n + 2] = End,
         wire'[s] = wire[s] \o new,
         gen'[s].tokens = gen[s].tokens + n, Counted(gen'[s]),
         UNCHANGED <<stream, open, outcomes, view>>
  PROVE  Orderly(s)'
<1>1. PICK k \in 0..Len(wire[s]) : Arriving(s, k)
  BY DEF Orderly
<1>2. Len(wire[s]) = k
  BY <1>1 DEF Arriving
<1>3. wire[s] # <<End>>
  <2>1. \A q \in Seq(Events) : q = <<End>> => Len(q) = 1 /\ q[1] = End
    BY Singleton
  <2>2. Len(wire[s]) = 1 => wire[s][1] = Token
    BY <1>1, <1>2 DEF Arriving
  <2> QED BY <2>1, <2>2, EventKinds
<1>4. outcomes[s] = <<>> /\ view[s].final = -1
  BY <1>3 DEF Orderly
<1>5. /\ Len(wire'[s]) = k + Len(new)
      /\ \A i \in 1..k : wire'[s][i] = wire[s][i]
      /\ \A i \in 1..Len(new) : wire'[s][k + i] = new[i]
  <2>1. Len(wire[s] \o new) = Len(wire[s]) + Len(new) /\ k \in Nat /\ Len(new) \in Nat
    BY <1>2
  <2>2. \A i \in 1..(k + Len(new)) :
          (wire[s] \o new)[i] = IF i <= k THEN wire[s][i] ELSE new[i - k]
    <3>1. \A S : \A a, b \in Seq(S) : \A i \in 1..(Len(a) + Len(b)) :
            (a \o b)[i] = IF i <= Len(a) THEN a[i] ELSE b[i - Len(a)]
      BY ConcatProperties
    <3> QED BY <1>2, <3>1
  <2>3. \A i \in 1..k : (wire[s] \o new)[i] = wire[s][i]
    BY <2>1, <2>2
  <2>4. ASSUME NEW i \in 1..Len(new) PROVE (wire[s] \o new)[k + i] = new[i]
    <3>1. k + i \in 1..(k + Len(new)) /\ ~(k + i <= k) /\ (k + i) - k = i
      BY <2>1
    <3> QED BY <2>2, <3>1
  <2> QED BY <1>2, <2>1, <2>3, <2>4
<1>6. \A i \in 1..(k + n) : wire'[s][i] = Token
  <2> SUFFICES ASSUME NEW i \in 1..(k + n) PROVE wire'[s][i] = Token
    OBVIOUS
  <2>1. CASE i \in 1..k
    BY <1>1, <1>5, <2>1 DEF Arriving
  <2>2. CASE n = 1 /\ i = k + 1
    BY <1>5, <2>2
  <2> QED BY <1>2, <2>1, <2>2
<1>7. open'[s] /\ stream'[s] # "over" => view'[s].streamed + (k + n) = gen'[s].tokens
  <2>1. open[s] /\ stream[s] # "over" => view[s].streamed + k = gen[s].tokens
    BY <1>1 DEF Arriving
  <2>2. view[s].streamed \in Nat /\ gen[s].tokens \in Nat /\ k \in Nat
    BY <1>2, FeedbackAssumption DEF Gen, View
  <2>3. \A a, b \in Nat : a + k = b => a + (k + n) = b + n
    BY <2>2
  <2> QED BY <2>1, <2>2, <2>3
<1>8. Arriving(s, k + n)'
  <2>1. CASE Len(new) = n
    BY <1>5, <1>6, <1>7, <2>1 DEF Arriving
  <2>2. CASE Len(new) # n
    <3>1. /\ gen'[s].phase = "over" /\ Len(wire'[s]) = (k + n) + 2
          /\ wire'[s][(k + n) + 1] = new[n + 1]
          /\ wire'[s][(k + n) + 2] = new[n + 2]
      <4>1. n + 1 \in 1..Len(new) /\ n + 2 \in 1..Len(new) /\ Len(new) = n + 2
        BY <2>2
      <4>2. wire'[s][k + (n + 1)] = new[n + 1] /\ wire'[s][k + (n + 2)] = new[n + 2]
        BY <1>5, <4>1
      <4>3. k + (n + 1) = (k + n) + 1 /\ k + (n + 2) = (k + n) + 2 /\ k \in Nat
        BY <1>2
      <4> QED BY <1>5, <2>2, <4>1, <4>2, <4>3
    <3> QED BY <1>6, <1>7, <2>2, <3>1 DEF Arriving
  <2> QED BY <2>1, <2>2
<1>9. k + n \in 0..Len(wire'[s])
  BY <1>5
<1> QED BY <1>4, <1>8, <1>9 DEF Orderly

-----------------------------------------------------------------------------
(* What is read. *)

(* The first event on the wire, and what follows it. *)
LEMMA FirstEvent ==
  ASSUME NEW s \in Sessions, Orderly(s), wire[s] \in Seq(Events), wire[s] # <<>>
  PROVE  /\ Head(wire[s]) = wire[s][1] /\ Head(wire[s]) \in Events
         /\ Tail(wire[s]) \in Seq(Events)
         /\ Len(Tail(wire[s])) = Len(wire[s]) - 1
         /\ \A i \in 1..Len(Tail(wire[s])) : Tail(wire[s])[i] = wire[s][i + 1]
         /\ Head(wire[s]) = End => wire[s] = <<End>>
         /\ Head(wire[s]) \notin {End, Token} =>
              /\ gen[s].phase = "over"
              /\ Arriving(s, 0) /\ Len(wire[s]) = 2 /\ wire[s][2] = End
              /\ Head(wire[s]) \in {Error, Complete(gen[s].tokens)}
         /\ Head(wire[s]) = Token => wire[s] # <<End>>
<1>1. PICK k \in 0..Len(wire[s]) : Arriving(s, k)
  BY DEF Orderly
<1>2. Head(wire[s]) = wire[s][1] /\ Head(wire[s]) \in Events
  OBVIOUS
<1>3. /\ Tail(wire[s]) \in Seq(Events)
      /\ Len(Tail(wire[s])) = Len(wire[s]) - 1
      /\ \A i \in 1..Len(Tail(wire[s])) : Tail(wire[s])[i] = wire[s][i + 1]
  BY HeadTailProperties
<1>4. CASE k >= 1
  <2>1. wire[s][1] = Token
    BY <1>1, <1>4 DEF Arriving
  <2> QED BY <1>2, <1>3, <2>1, EventKinds
<1>5. CASE k = 0
  <2>1. CASE wire[s] = <<End>>
    BY <1>2, <1>3, <2>1, EventKinds
  <2>2. CASE wire[s] # <<End>>
    <3>1. /\ gen[s].phase = "over" /\ Len(wire[s]) = 2 /\ wire[s][2] = End
          /\ wire[s][1] \in {Error, Complete(gen[s].tokens)}
      BY <1>1, <1>5, <2>2 DEF Arriving
    <3> QED BY <1>1, <1>2, <1>3, <1>5, <3>1, EventKinds
  <2> QED BY <2>1, <2>2
<1> QED BY <1>4, <1>5

(* A token is read. *)
LEMMA TokenRead ==
  ASSUME NEW s \in Sessions, Orderly(s), TypeOK, stream[s] # "over",
         wire[s] # <<>>, Head(wire[s]) = Token,
         wire'[s] = Tail(wire[s]), gen' = gen,
         UNCHANGED <<stream, open>>, outcomes'[s] = outcomes[s],
         view'[s].final = view[s].final,
         open[s] => view'[s].streamed = view[s].streamed + 1
  PROVE  Orderly(s)' /\ (open[s] => view[s].streamed < MaxTokens)
<1>1. PICK k \in 0..Len(wire[s]) : Arriving(s, k)
  BY DEF Orderly
<1>2. wire[s] \in Seq(Events) /\ gen[s] \in Gen /\ view[s] \in View
  BY DEF TypeOK
<1>3. k >= 1
  <2> SUFFICES ASSUME k = 0 PROVE FALSE
    BY <1>1
  <2>1. wire[s][1] = Token
    BY <1>2, FirstEvent
  <2> QED BY <1>1, <1>2, <2>1, EventKinds DEF Arriving
<1>4. /\ Len(wire'[s]) = Len(wire[s]) - 1
      /\ \A i \in 1..Len(wire'[s]) : wire'[s][i] = wire[s][i + 1]
  BY <1>2, FirstEvent
<1>5. wire[s] # <<End>>
  BY <1>2, FirstEvent
<1>6. outcomes[s] = <<>> /\ view[s].final = -1
  BY <1>5 DEF Orderly
<1>7. Len(wire[s]) \in Nat /\ k \in Nat
  BY <1>2
<1>8. open[s] => view'[s].streamed + (k - 1) = gen'[s].tokens /\ view[s].streamed < MaxTokens
  <2>1. /\ view[s].streamed \in 0..MaxTokens /\ gen[s].tokens \in 0..MaxTokens
        /\ MaxTokens \in Nat
    BY <1>2, FeedbackAssumption DEF View, Gen
  <2>2. open[s] => view[s].streamed + k = gen[s].tokens
    BY <1>1 DEF Arriving
  <2>3. open[s] => (view[s].streamed + 1) + (k - 1) = gen[s].tokens /\ view[s].streamed < MaxTokens
    <3>1. ASSUME open[s], view[s].streamed + k = gen[s].tokens
          PROVE  (view[s].streamed + 1) + (k - 1) = gen[s].tokens /\ view[s].streamed < MaxTokens
      <4>1. view[s].streamed \in Nat
        BY <2>1
      <4> QED BY <3>1, <1>3, <1>7, <2>1, <4>1, OneMore
    <3> QED BY <3>1, <2>2
  <2>4. gen'[s].tokens = gen[s].tokens
    OBVIOUS
  <2> QED BY <2>3, <2>4
<1>9. Arriving(s, k - 1)'
  <2>1. \A i \in 1..(k - 1) : wire'[s][i] = Token
    BY <1>1, <1>3, <1>4, <1>7 DEF Arriving
  <2>2. CASE Len(wire[s]) = k
    BY <1>4, <1>8, <2>1, <2>2 DEF Arriving
  <2>3. CASE Len(wire[s]) # k
    <3>1. /\ gen[s].phase = "over" /\ Len(wire[s]) = k + 2
          /\ wire[s][k + 1] \in {Error, Complete(gen[s].tokens)} /\ wire[s][k + 2] = End
      BY <1>1, <1>3, <2>3 DEF Arriving
    <3>2. /\ Len(wire'[s]) = (k - 1) + 2
          /\ wire'[s][(k - 1) + 1] = wire[s][k + 1]
          /\ wire'[s][(k - 1) + 2] = wire[s][k + 2]
      BY <1>3, <1>4, <3>1
    <3> QED BY <1>8, <2>1, <3>1, <3>2 DEF Arriving
  <2> QED BY <2>2, <2>3
<1>10. k - 1 \in 0..Len(wire'[s])
  BY <1>3, <1>4, <1>7
<1> QED BY <1>6, <1>8, <1>9, <1>10 DEF Orderly

(* The final event is read. *)
LEMMA FinalRead ==
  ASSUME NEW s \in Sessions, Orderly(s), TypeOK, stream[s] # "over",
         wire[s] # <<>>, Head(wire[s]) \notin {Token, End},
         wire'[s] = Tail(wire[s]), gen' = gen,
         UNCHANGED <<stream, open>>,
         outcomes'[s] = Append(outcomes[s], Head(wire[s])),
         view'[s].streamed = view[s].streamed,
         \/ view'[s].final = view[s].final
         \/ /\ Head(wire[s]) = Complete(gen[s].tokens) /\ open[s]
            /\ view'[s].final = gen[s].tokens
  PROVE  Orderly(s)'
<1>1. /\ wire[s] \in Seq(Events) /\ gen[s] \in Gen /\ view[s] \in View
      /\ outcomes[s] \in Seq(Outcomes)
  BY DEF TypeOK
<1>2. /\ gen[s].phase = "over" /\ Arriving(s, 0)
      /\ Len(wire[s]) = 2 /\ wire[s][2] = End
      /\ Len(wire'[s]) = 1 /\ wire'[s][1] = End /\ wire'[s] \in Seq(Events)
  BY <1>1, FirstEvent
<1>3. wire'[s] = <<End>> /\ wire[s] # <<End>>
  <2>1. wire'[s] = <<End>>
    <3>1. \A q \in Seq(Events) : Len(q) = 1 /\ q[1] = End => q = <<End>>
      BY Singleton
    <3> QED BY <1>2, <3>1
  <2>2. wire[s] # <<End>>
    <3>1. Len(<<End>>) = 1
      OBVIOUS
    <3>2. Len(wire[s]) = 2
      BY <1>2
    <3> HIDE <1>2
    <3> QED BY <3>1, <3>2
  <2> QED BY <2>1, <2>2
<1>4. outcomes[s] = <<>> /\ view[s].final = -1
  BY <1>3 DEF Orderly
<1>5. open[s] => view[s].streamed = gen[s].tokens
  BY <1>1, <1>2 DEF Arriving, Gen, View
<1>6. outcomes'[s] # <<>> /\ Len(outcomes'[s]) = 1
  BY <1>4
<1>7. Arriving(s, 0)'
  <2>1. open'[s] /\ stream'[s] # "over" => view'[s].streamed + 0 = gen'[s].tokens
    BY <1>1, <1>5 DEF Gen, View
  <2>2. \A i \in 1..0 : wire'[s][i] = Token
    OBVIOUS
  <2>3. gen'[s].phase = "over" /\ 0 = 0 /\ wire'[s] = <<End>>
    BY <1>2, <1>3
  <2> QED BY <2>1, <2>2, <2>3, Zenon DEF Arriving
<1>8. \E k \in 0..Len(wire'[s]) : Arriving(s, k)'
  <2>1. 0 \in 0..Len(wire'[s])
    BY <1>2
  <2> WITNESS 0 \in 0..Len(wire'[s])
  <2> QED BY <1>7
<1>9. view'[s].final # -1 => /\ gen'[s].phase = "over"
                             /\ view'[s].final = gen'[s].tokens
                             /\ view'[s].streamed = gen'[s].tokens
  BY <1>2, <1>4, <1>5
<1>10. \A i \in 2..Len(outcomes'[s]) : outcomes'[s][i] = Error
  BY <1>6
<1>11. Counted(gen'[s]) /\ stream'[s] # "over"
  BY DEF Orderly
<1> QED BY <1>3, <1>6, <1>8, <1>9, <1>10, <1>11 DEF Orderly

(* The end of the stream is read. *)
LEMMA EndRead ==
  ASSUME NEW s \in Sessions, Orderly(s),
         wire'[s] = <<>>, gen' = gen, stream'[s] = "over",
         UNCHANGED <<outcomes, view>>
  PROVE  Orderly(s)'
<1>1. Arriving(s, 0)' /\ 0 \in 0..Len(wire'[s])
  BY DEF Arriving
<1> QED BY <1>1 DEF Orderly

(* The container writes to an app that has gone. *)
LEMMA Lost ==
  ASSUME NEW s \in Sessions, Orderly(s), stream[s] = "over", gen[s].phase # "over",
         wire'[s] = <<>>, Counted(gen'[s]),
         UNCHANGED <<stream, open, outcomes, view>>
  PROVE  Orderly(s)'
<1>1. Arriving(s, 0)' /\ 0 \in 0..Len(wire'[s])
  BY DEF Arriving
<1>2. view[s].final = -1
  BY DEF Orderly
<1> QED BY <1>1, <1>2 DEF Orderly

-----------------------------------------------------------------------------
(* The steps. *)

OfSession(s) ==
  \/ Accept(s) \/ OllamaAnswers(s) \/ OllamaFails(s)
  \/ LineSkipped(s) \/ BodyEnds(s)
  \/ \E response, done \in BOOLEAN : OllamaSays(s, response, done)
  \/ CompleteSession(s) \/ FetchFails(s) \/ HeadersArrive(s) \/ ReadEvent(s)
  \/ BodyBreaks(s) \/ Abort(s) \/ KeepaliveTick(s) \/ SocketCloses(s)

(* A step of one session leaves the others as they are. *)
LEMMA Elsewhere ==
  ASSUME TypeOK, NEW s \in Sessions, NEW t \in Sessions, t # s, OfSession(s), Orderly(t)
  PROVE  Orderly(t)'
<1> DEFINE Same == /\ gen'[t] = gen[t] /\ wire'[t] = wire[t] /\ stream'[t] = stream[t]
                   /\ open'[t] = open[t] /\ outcomes'[t] = outcomes[t] /\ view'[t] = view[t]
<1> SUFFICES Same
  BY Undisturbed
<1>1. /\ DOMAIN gen = Sessions /\ DOMAIN wire = Sessions /\ DOMAIN stream = Sessions
      /\ DOMAIN open = Sessions /\ DOMAIN outcomes = Sessions /\ DOMAIN view = Sessions
  BY DEF TypeOK
<1>2. CASE Accept(s) \/ OllamaAnswers(s)
  BY <1>1, <1>2 DEF Accept, OllamaAnswers, appVars
<1>3. CASE OllamaFails(s) \/ BodyEnds(s) \/ LineSkipped(s)
  BY <1>1, <1>3 DEF OllamaFails, BodyEnds, LineSkipped, Write, appVars
<1>4. ASSUME NEW response \in BOOLEAN, NEW done \in BOOLEAN, OllamaSays(s, response, done)
      PROVE  Same
  BY <1>1, <1>4 DEF OllamaSays, Write, appVars
<1>5. CASE CompleteSession(s) \/ HeadersArrive(s) \/ SocketCloses(s)
  BY <1>1, <1>5 DEF CompleteSession, HeadersArrive, SocketCloses, genVars
<1>6. CASE FetchFails(s) \/ BodyBreaks(s) \/ Abort(s)
  BY <1>1, <1>6 DEF FetchFails, BodyBreaks, Abort, Finish, Send, genVars
<1>7. CASE ReadEvent(s)
  BY <1>1, <1>7 DEF ReadEvent, Finish, Send
<1>8. CASE KeepaliveTick(s)
  BY <1>1, <1>8 DEF KeepaliveTick, Send, genVars
<1> QED BY <1>2, <1>3, <1>4, <1>5, <1>6, <1>7, <1>8 DEF OfSession

(* A view that has changed in one field is a view. *)
LEMMA ViewUpdates ==
  ASSUME NEW v \in View
  PROVE  /\ v.streamed < MaxTokens => [v EXCEPT !.streamed = @ + 1] \in View
         /\ \A n \in 0..MaxTokens : [v EXCEPT !.final = n] \in View
<1>1. v.streamed \in 0..MaxTokens /\ MaxTokens \in Nat
  BY FeedbackAssumption DEF View
<1>2. ASSUME v.streamed < MaxTokens PROVE [v EXCEPT !.streamed = @ + 1] \in View
  <2>1. v.streamed + 1 \in 0..MaxTokens
    BY <1>1, <1>2
  <2> QED BY <2>1 DEF View
<1>3. ASSUME NEW n \in 0..MaxTokens PROVE [v EXCEPT !.final = n] \in View
  <2>1. n \in -1..MaxTokens
    BY <1>1
  <2> QED BY <2>1 DEF View
<1> QED BY <1>2, <1>3

(* A message that is sent keeps the types. *)
LEMMA SendTypes ==
  ASSUME TypeOK, NEW s \in Sessions, NEW msg \in (Events \ {End}) \cup {Heartbeat}, Send(s, msg),
         msg = Token /\ open[s] => view[s].streamed < MaxTokens
  PROVE  view' \in [Sessions -> View] /\ outcomes' \in [Sessions -> Seq(Outcomes)]
<1>1. /\ view \in [Sessions -> View] /\ view[s] \in View /\ MaxTokens \in Nat
      /\ outcomes \in [Sessions -> Seq(Outcomes)]
  BY FeedbackAssumption DEF TypeOK
<1>2. open[s] => Seen(view[s], msg) \in View
  <2> DEFINE v == view[s]
  <2>0. /\ Seen(v, Token) = [v EXCEPT !.streamed = @ + 1]
        /\ Seen(v, Error) = [v EXCEPT !.unavailable = TRUE]
        /\ Seen(v, Heartbeat) = [v EXCEPT !.heartbeat = TRUE]
        /\ \A n : Seen(v, Complete(n)) = IF v.final = -1 THEN [v EXCEPT !.final = n] ELSE v
    BY <1>1, SeenFields
  <2>1. ASSUME v.streamed < MaxTokens PROVE Seen(v, Token) \in View
    BY <1>1, <2>0, <2>1, ViewUpdates
  <2>2. Seen(v, Error) \in View /\ Seen(v, Heartbeat) \in View
    BY <1>1, <2>0 DEF View
  <2>3. \A n \in 0..MaxTokens : Seen(v, Complete(n)) \in View
    BY <1>1, <2>0, ViewUpdates
  <2>4. \/ msg \in {Token, Error, Heartbeat}
        \/ \E n \in 0..MaxTokens : msg = Complete(n)
    BY EventTypes
  <2> QED BY <2>1, <2>2, <2>3, <2>4
<1>3. view' \in [Sessions -> View]
  BY <1>1, <1>2 DEF Send
<1>4. msg.type \in {"complete", "error"} => msg \in Outcomes
  BY EventKinds, EventTypes DEF Outcomes
<1>5. outcomes' \in [Sessions -> Seq(Outcomes)]
  <2>1. CASE msg.type \in {"complete", "error"}
    <3>1. Append(outcomes[s], msg) \in Seq(Outcomes)
      BY <1>1, <1>4, <2>1
    <3> QED BY <1>1, <2>1, <3>1 DEF Send
  <2>2. CASE msg.type \notin {"complete", "error"}
    BY <1>1, <2>2 DEF Send
  <2> QED BY <2>1, <2>2
<1> QED BY <1>3, <1>5

(* What is sent, field by field. *)
LEMMA Sent ==
  ASSUME TypeOK, NEW s \in Sessions, NEW msg, Send(s, msg)
  PROVE  /\ msg.type \in {"complete", "error"} => outcomes'[s] = Append(outcomes[s], msg)
         /\ msg.type \notin {"complete", "error"} => outcomes'[s] = outcomes[s]
         /\ view'[s] = IF open[s] THEN Seen(view[s], msg) ELSE view[s]
BY DEF Send, TypeOK

LEMMA ContainerSteps ==
  ASSUME DebriefInv, Startup \/ Crash \/ UNCHANGED vars
  PROVE  DebriefInv'
<1>1. TypeOK
  BY DEF DebriefInv
<1>2. CASE Startup
  <2>1. UNCHANGED <<genVars, appVars, config, crashes>>
    BY <1>2 DEF Startup, Listed, Pulled, Verified, Restarted
  <2>2. container' \in Phases /\ model' \in Models
    BY <1>1, <1>2 DEF Startup, Listed, Pulled, Verified, Restarted, AfterListing, Started,
                      TypeOK, Phases, Models
  <2>3. TypeOK'
    BY <1>1, <2>1, <2>2 DEF TypeOK, genVars, appVars
  <2>4. ASSUME NEW s \in Sessions PROVE Orderly(s)'
    BY <2>1, <2>4, Undisturbed DEF DebriefInv, genVars, appVars
  <2> QED BY <2>3, <2>4 DEF DebriefInv
<1>3. CASE Crash
  <2>1. /\ UNCHANGED <<wire, appVars, config, model>>
        /\ container' = Started
        /\ crashes < MaxCrashes /\ crashes' = crashes + 1
        /\ gen' = [s \in Sessions |->
             IF gen[s].phase \in {"asking", "streaming"} THEN [gen[s] EXCEPT !.phase = "over"]
             ELSE gen[s]]
        /\ cut' = [s \in Sessions |-> cut[s] \/ gen[s].phase \in {"asking", "streaming"}]
    BY <1>3 DEF Crash
  <2>2. gen' \in [Sessions -> Gen] /\ cut' \in [Sessions -> BOOLEAN]
    <3>1. gen \in [Sessions -> Gen] /\ cut \in [Sessions -> BOOLEAN]
      BY <1>1 DEF TypeOK
    <3>2. \A g \in Gen : [g EXCEPT !.phase = "over"] \in Gen
      BY DEF Gen
    <3>3. gen' \in [Sessions -> Gen]
      BY <2>1, <3>1, <3>2
    <3>4. cut' \in [Sessions -> BOOLEAN]
      BY <2>1, <3>1
    <3> QED BY <3>3, <3>4
  <2>3. container' \in Phases /\ crashes' \in 0..MaxCrashes
    BY <1>1, <2>1, FeedbackAssumption DEF TypeOK, Started, Phases
  <2>4. TypeOK'
    BY <1>1, <2>1, <2>2, <2>3 DEF TypeOK, appVars
  <2>5. ASSUME NEW s \in Sessions PROVE Orderly(s)'
    <3>1. gen[s] \in Gen
      BY <1>1 DEF TypeOK
    <3>2. /\ gen'[s].tokens = gen[s].tokens /\ (Counted(gen[s]) => Counted(gen'[s]))
          /\ gen[s].phase = "over" => gen'[s].phase = "over"
      BY <2>1, <3>1 DEF Gen, Counted
    <3> QED BY <2>1, <3>2, Undisturbed DEF DebriefInv, appVars
  <2> QED BY <2>4, <2>5 DEF DebriefInv
<1>4. CASE UNCHANGED vars
  <2>1. UNCHANGED <<containerVars, genVars, appVars>>
    BY <1>4 DEF vars
  <2>2. TypeOK'
    BY <1>1, <2>1 DEF TypeOK, containerVars, genVars, appVars
  <2>3. ASSUME NEW s \in Sessions PROVE Orderly(s)'
    BY <2>1, <2>3, Undisturbed DEF DebriefInv, genVars, appVars
  <2> QED BY <2>2, <2>3 DEF DebriefInv
<1> QED BY <1>2, <1>3, <1>4

(* The steps that neither write, read nor decide. *)
LEMMA QuietSteps ==
  ASSUME DebriefInv, NEW s \in Sessions,
         \/ Accept(s) \/ OllamaAnswers(s) \/ CompleteSession(s) \/ HeadersArrive(s)
         \/ KeepaliveTick(s) \/ SocketCloses(s)
  PROVE  TypeOK' /\ Orderly(s)'
<1>0. TypeOK /\ Orderly(s)
  BY DEF DebriefInv
<1>1. CASE Accept(s) \/ OllamaAnswers(s)
  <2>1. /\ UNCHANGED <<containerVars, wire, cut, appVars>>
        /\ gen[s].phase \in {"none", "asking"}
        /\ \E p \in {"asking", "streaming"} : gen' = [gen EXCEPT ![s].phase = p]
    BY <1>1 DEF Accept, OllamaAnswers
  <2>2. gen \in [Sessions -> Gen] /\ gen[s] \in Gen
    BY <1>0 DEF TypeOK
  <2>3. /\ gen' \in [Sessions -> Gen]
        /\ gen'[s].tokens = gen[s].tokens /\ (Counted(gen[s]) => Counted(gen'[s]))
    BY <2>1, <2>2 DEF Gen, Counted
  <2>4. TypeOK'
    BY <1>0, <2>1, <2>3 DEF TypeOK, containerVars, appVars
  <2>5. Orderly(s)'
    BY <1>0, <2>1, <2>3, Undisturbed DEF appVars
  <2> QED BY <2>4, <2>5
<1>2. CASE CompleteSession(s) \/ HeadersArrive(s)
  <2>1. /\ UNCHANGED <<containerVars, genVars, tokenSentInWindow, open, outcomes, view>>
        /\ stream[s] \in {"idle", "fetching"}
        /\ \E p \in {"fetching", "reading"} : stream' = [stream EXCEPT ![s] = p]
        /\ keepalive' = keepalive \/ keepalive' = [keepalive EXCEPT ![s] = TRUE]
    BY <1>2 DEF CompleteSession, HeadersArrive
  <2>2. /\ stream' \in [Sessions -> {"idle", "fetching", "reading", "over"}]
        /\ keepalive' \in [Sessions -> BOOLEAN]
        /\ stream'[s] # "over"
    <3>1. /\ stream \in [Sessions -> {"idle", "fetching", "reading", "over"}]
          /\ keepalive \in [Sessions -> BOOLEAN]
      BY <1>0 DEF TypeOK
    <3>2. PICK p \in {"fetching", "reading"} : stream' = [stream EXCEPT ![s] = p]
      BY <2>1
    <3>3. keepalive' \in [Sessions -> BOOLEAN]
      BY <2>1, <3>1
    <3> QED BY <3>1, <3>2, <3>3
  <2>3. TypeOK'
    BY <1>0, <2>1, <2>2 DEF TypeOK, containerVars, genVars
  <2>4. Orderly(s)'
    BY <1>0, <2>1, <2>2, Undisturbed DEF genVars
  <2> QED BY <2>3, <2>4
<1>3. CASE KeepaliveTick(s)
  <2>1. /\ UNCHANGED <<containerVars, genVars, stream, keepalive, open>>
        /\ tokenSentInWindow' \in [Sessions -> BOOLEAN]
        /\ UNCHANGED <<outcomes, view>> \/ Send(s, Heartbeat)
    BY <1>0, <1>3 DEF KeepaliveTick, TypeOK, Heartbeat
  <2>2. /\ view' \in [Sessions -> View]
        /\ outcomes' \in [Sessions -> Seq(Outcomes)]
        /\ outcomes'[s] = outcomes[s]
        /\ view'[s].streamed = view[s].streamed /\ view'[s].final = view[s].final
    <3>1. CASE UNCHANGED <<outcomes, view>>
      BY <1>0, <3>1 DEF TypeOK
    <3>2. CASE Send(s, Heartbeat)
      <4>1. view[s] \in View
        BY <1>0 DEF TypeOK
      <4>2. /\ Seen(view[s], Heartbeat).streamed = view[s].streamed
            /\ Seen(view[s], Heartbeat).final = view[s].final
        BY <4>1, SeenFields DEF View
      <4>3. outcomes'[s] = outcomes[s]
        BY <1>0, <3>2, Sent, EventKinds
      <4>4. view'[s] = IF open[s] THEN Seen(view[s], Heartbeat) ELSE view[s]
        BY <1>0, <3>2, Sent
      <4>5. Heartbeat # Token
        BY EventKinds
      <4> QED BY <1>0, <3>2, <4>2, <4>3, <4>4, <4>5, SendTypes
    <3> QED BY <2>1, <3>1, <3>2
  <2>3. TypeOK'
    BY <1>0, <2>1, <2>2 DEF TypeOK, containerVars, genVars
  <2>4. Orderly(s)'
    BY <1>0, <2>1, <2>2, Undisturbed DEF genVars
  <2> QED BY <2>3, <2>4
<1>4. CASE SocketCloses(s)
  <2>1. /\ UNCHANGED <<containerVars, genVars, stream, keepalive, tokenSentInWindow,
                       outcomes, view>>
        /\ open[s] /\ open' = [open EXCEPT ![s] = FALSE]
    BY <1>4 DEF SocketCloses
  <2>2. open' \in [Sessions -> BOOLEAN]
    BY <1>0, <2>1 DEF TypeOK
  <2>3. TypeOK'
    BY <1>0, <2>1, <2>2 DEF TypeOK, containerVars, genVars
  <2>4. Orderly(s)'
    BY <1>0, <2>1, Undisturbed DEF genVars
  <2> QED BY <2>3, <2>4
<1> QED BY <1>1, <1>2, <1>3, <1>4

(* Failures end the debrief with an apology. *)
LEMMA FailureSteps ==
  ASSUME DebriefInv, NEW s \in Sessions, FetchFails(s) \/ BodyBreaks(s) \/ Abort(s)
  PROVE  TypeOK' /\ Orderly(s)'
<1>0. TypeOK /\ Orderly(s)
  BY DEF DebriefInv
<1>1. /\ Send(s, Error)
      /\ stream' = [stream EXCEPT ![s] = "over"]
      /\ keepalive' = keepalive \/ keepalive' = [keepalive EXCEPT ![s] = FALSE]
      /\ wire' = [wire EXCEPT ![s] = <<>>] \/ (wire' = wire /\ wire[s] = <<>>)
      /\ UNCHANGED <<containerVars, gen, cut, tokenSentInWindow, open>>
  BY DEF FetchFails, BodyBreaks, Abort, Finish, genVars
<1>2. /\ stream' \in [Sessions -> {"idle", "fetching", "reading", "over"}]
      /\ keepalive' \in [Sessions -> BOOLEAN]
      /\ stream'[s] = "over"
  BY <1>0, <1>1 DEF TypeOK
<1>3. wire' \in [Sessions -> Seq(Events)] /\ wire'[s] = <<>>
  <2>1. wire \in [Sessions -> Seq(Events)] /\ <<>> \in Seq(Events)
    BY <1>0 DEF TypeOK
  <2>2. CASE wire' = [wire EXCEPT ![s] = <<>>]
    BY <2>1, <2>2
  <2>3. CASE wire' = wire /\ wire[s] = <<>>
    BY <2>1, <2>3
  <2> QED BY <1>1, <2>2, <2>3
<1>4. /\ view' \in [Sessions -> View]
      /\ outcomes' \in [Sessions -> Seq(Outcomes)]
  BY <1>0, <1>1, SendTypes, EventKinds, EventTypes
<1>5. outcomes'[s] = Append(outcomes[s], Error)
  BY <1>0, <1>1, Sent, EventKinds
<1>6. view'[s].streamed = view[s].streamed /\ view'[s].final = view[s].final
  <2>1. view[s] \in View
    BY <1>0 DEF TypeOK
  <2>2. /\ Seen(view[s], Error).streamed = view[s].streamed
        /\ Seen(view[s], Error).final = view[s].final
    BY <2>1, SeenFields DEF View
  <2>3. view'[s] = IF open[s] THEN Seen(view[s], Error) ELSE view[s]
    BY <1>0, <1>1, Sent
  <2> QED BY <2>2, <2>3
<1>7. TypeOK'
  BY <1>0, <1>1, <1>2, <1>3, <1>4 DEF TypeOK, containerVars
<1>8. outcomes[s] \in Seq(Outcomes)
  BY <1>0 DEF TypeOK
<1>9. Orderly(s)'
  BY <1>0, <1>1, <1>2, <1>3, <1>5, <1>6, <1>8, GivenUp
<1> QED BY <1>7, <1>9

(* What the container writes, when nobody has gone and when somebody has. *)
LEMMA WriteSteps ==
  ASSUME DebriefInv, NEW s \in Sessions,
         \/ OllamaFails(s) \/ LineSkipped(s) \/ BodyEnds(s)
         \/ \E response, done \in BOOLEAN : OllamaSays(s, response, done)
  PROVE  TypeOK' /\ Orderly(s)'
<1>0. TypeOK /\ Orderly(s)
  BY DEF DebriefInv
<1>1. /\ gen \in [Sessions -> Gen] /\ wire \in [Sessions -> Seq(Events)]
      /\ gen[s] \in Gen /\ wire[s] \in Seq(Events) /\ view[s] \in View
      /\ gen[s].said \in 0..MaxTokens /\ gen[s].skipped \in 0..MaxTokens
      /\ gen[s].tokens \in 0..MaxTokens /\ Counted(gen[s])
      /\ MaxTokens \in Nat
  BY <1>0, FeedbackAssumption DEF TypeOK, Orderly, Gen
<1>2. CASE OllamaFails(s) \/ BodyEnds(s)
  <2>1. PICK last \in {Error, Complete(gen[s].tokens)} :
          /\ gen' = [gen EXCEPT ![s].phase = "over"] /\ Write(s, <<last, End>>)
          /\ gen[s].phase # "over"
          /\ UNCHANGED <<containerVars, cut, appVars>>
    BY <1>2 DEF OllamaFails, OnFailure, BodyEnds, Completed
  <2>2. /\ gen' \in [Sessions -> Gen]
        /\ gen'[s].phase = "over" /\ gen'[s].tokens = gen[s].tokens
        /\ Counted(gen'[s])
    BY <1>1, <2>1 DEF Gen, Counted
  <2>3. /\ <<last, End>> \in Seq(Events) /\ Len(<<last, End>>) = 0 + 2
        /\ <<last, End>>[0 + 1] = last /\ <<last, End>>[0 + 2] = End
    BY <1>1, EventTypes
  <2>4. /\ wire' \in [Sessions -> Seq(Events)]
        /\ wire'[s] = IF stream[s] = "over" THEN <<>> ELSE wire[s] \o <<last, End>>
    BY <1>1, <2>1, <2>3 DEF Write
  <2>5. TypeOK'
    BY <1>0, <2>1, <2>2, <2>4 DEF TypeOK, containerVars, appVars
  <2>6. CASE stream[s] = "over"
    <3>1. wire'[s] = wire[s]
      BY <1>0, <2>4, <2>6 DEF Orderly
    <3>2. Orderly(s)'
      BY <1>0, <2>1, <2>2, <3>1, Undisturbed DEF appVars
    <3> QED BY <2>5, <3>2
  <2>7. CASE stream[s] # "over"
    <3>1. gen'[s].tokens = gen[s].tokens + 0
      BY <1>1, <2>2
    <3>2. wire'[s] = wire[s] \o <<last, End>>
      BY <2>4, <2>7
    <3>3. UNCHANGED <<stream, open, outcomes, view>>
      BY <2>1 DEF appVars
    <3>4. 0 \in {0, 1} /\ (0 = 1 => Len(<<last, End>>) >= 1 /\ <<last, End>>[1] = Token)
      OBVIOUS
    <3>5. /\ gen'[s].phase = "over" /\ Len(<<last, End>>) = 0 + 2
          /\ <<last, End>>[0 + 1] \in {Error, Complete(gen'[s].tokens)}
          /\ <<last, End>>[0 + 2] = End
      BY <2>1, <2>2, <2>3
    <3> DEFINE new == <<last, End>>
    <3> HIDE DEF new
    <3>6. Orderly(s)'
      BY <1>0, <1>1, <2>1, <2>2, <2>3, <2>7, <3>1, <3>2, <3>3, <3>4, <3>5, Written
    <3> QED BY <2>5, <3>6
  <2> QED BY <2>6, <2>7
<1>4. CASE LineSkipped(s)
  <2>1. /\ gen[s].phase = "streaming" /\ gen[s].said < MaxTokens
        /\ gen' = [gen EXCEPT ![s].said = @ + 1, ![s].skipped = @ + 1]
        /\ UNCHANGED <<containerVars, wire, cut, appVars>>
    BY <1>4 DEF LineSkipped
  <2>2. gen[s].said + 1 \in 0..MaxTokens /\ gen[s].skipped + 1 \in 0..MaxTokens
    BY <1>1, <2>1 DEF Counted
  <2>3. /\ gen' \in [Sessions -> Gen]
        /\ gen'[s].phase = gen[s].phase /\ gen'[s].tokens = gen[s].tokens
    BY <1>1, <2>1, <2>2 DEF Gen
  <2>4. gen'[s].said = gen[s].said + 1 /\ gen'[s].skipped = gen[s].skipped + 1
    BY <1>1, <2>1 DEF Gen
  <2>5. Counted(gen'[s])
    BY <1>1, <2>3, <2>4 DEF Counted
  <2>6. TypeOK'
    BY <1>0, <2>1, <2>3 DEF TypeOK, containerVars, appVars
  <2>7. Orderly(s)'
    BY <1>0, <2>1, <2>3, <2>5, Undisturbed DEF appVars
  <2> QED BY <2>6, <2>7
<1>3. ASSUME NEW response \in BOOLEAN, NEW done \in BOOLEAN, OllamaSays(s, response, done)
      PROVE  TypeOK' /\ Orderly(s)'
  <2> DEFINE n == IF response THEN 1 ELSE 0
             m == gen[s].tokens + n
             new == (IF response THEN <<Token>> ELSE <<>>)
                      \o (IF done THEN <<Complete(m), End>> ELSE <<>>)
  <2>1. /\ gen[s].phase = "streaming"
        /\ response => gen[s].said < MaxTokens
        /\ gen' = [gen EXCEPT ![s] = [phase |-> IF done THEN "over" ELSE "streaming",
                                      said |-> gen[s].said + n,
                                      skipped |-> gen[s].skipped, tokens |-> m]]
        /\ Write(s, new)
        /\ UNCHANGED <<containerVars, cut, appVars>>
    BY <1>1, <1>3 DEF OllamaSays, Yielded, Completed
  <2>2. /\ n \in {0, 1} /\ gen[s].said + n \in 0..MaxTokens
        /\ m \in 0..MaxTokens /\ gen[s].said + n = m + gen[s].skipped
    BY <1>1, <2>1 DEF Counted
  <2>3. /\ gen' \in [Sessions -> Gen]
        /\ gen'[s].tokens = gen[s].tokens + n /\ Counted(gen'[s])
        /\ gen'[s].tokens = m /\ (done => gen'[s].phase = "over")
    BY <1>1, <2>1, <2>2 DEF Gen, Counted
  <2>4. Complete(m) \in Events /\ Token \in Events /\ End \in Events
    BY <2>2, EventTypes
  <2>5. /\ new \in Seq(Events)
        /\ n = 1 => Len(new) >= 1 /\ new[1] = Token
        /\ ~done => Len(new) = n
        /\ done => /\ Len(new) = n + 2
                   /\ new[n + 1] = Complete(m) /\ new[n + 2] = End
    <3>1. CASE response
      BY <2>4, <3>1
    <3>2. CASE ~response
      BY <2>4, <3>2
    <3> QED BY <3>1, <3>2
  <2> HIDE DEF n, m, new
  <2>6. /\ wire' \in [Sessions -> Seq(Events)]
        /\ wire'[s] = IF stream[s] = "over" THEN <<>> ELSE wire[s] \o new
    BY <1>1, <2>1, <2>5 DEF Write
  <2>7. TypeOK'
    BY <1>0, <2>1, <2>3, <2>6 DEF TypeOK, containerVars, appVars
  <2>8. UNCHANGED <<stream, open, outcomes, view>>
    BY <2>1 DEF appVars
  <2>9. CASE stream[s] = "over"
    <3>1. Orderly(s)'
      BY <1>0, <2>1, <2>3, <2>6, <2>8, <2>9, Lost
    <3> QED BY <2>7, <3>1
  <2>10. CASE stream[s] # "over"
    <3>1. \/ Len(new) = n
          \/ /\ gen'[s].phase = "over" /\ Len(new) = n + 2
             /\ new[n + 1] \in {Error, Complete(gen'[s].tokens)} /\ new[n + 2] = End
      BY <2>3, <2>5
    <3>2. wire'[s] = wire[s] \o new
      BY <2>6, <2>10
    <3>3. Orderly(s)'
      BY <1>0, <1>1, <2>1, <2>2, <2>3, <2>5, <2>8, <2>10, <3>1, <3>2, Written
    <3> QED BY <2>7, <3>3
  <2> QED BY <2>9, <2>10
<1> QED BY <1>2, <1>3, <1>4

(* What the app reads. *)
LEMMA ReadStep ==
  ASSUME DebriefInv, NEW s \in Sessions, ReadEvent(s)
  PROVE  TypeOK' /\ Orderly(s)'
<1>0. TypeOK /\ Orderly(s)
  BY DEF DebriefInv
<1>1. /\ wire \in [Sessions -> Seq(Events)] /\ wire[s] \in Seq(Events)
      /\ gen[s] \in Gen /\ view[s] \in View /\ gen[s].tokens \in 0..MaxTokens
      /\ outcomes[s] \in Seq(Outcomes)
  BY <1>0 DEF TypeOK, Gen
<1>2. /\ stream[s] = "reading" /\ wire[s] # <<>>
      /\ wire' = [wire EXCEPT ![s] = Tail(@)]
      /\ UNCHANGED <<containerVars, gen, cut, open>>
  BY DEF ReadEvent
<1>3. /\ Tail(wire[s]) \in Seq(Events) /\ Head(wire[s]) \in Events
      /\ Head(wire[s]) = End => wire[s] = <<End>>
      /\ Head(wire[s]) \notin {End, Token} =>
           Head(wire[s]) \in {Error, Complete(gen[s].tokens)}
  BY <1>0, <1>1, <1>2, FirstEvent
<1>4. wire' \in [Sessions -> Seq(Events)] /\ wire'[s] = Tail(wire[s])
  BY <1>1, <1>2, <1>3
<1>5. CASE Head(wire[s]) = End
  <2>1. Finish(s) /\ UNCHANGED <<tokenSentInWindow, outcomes, view>>
    BY <1>5 DEF ReadEvent
  <2>2. /\ stream' \in [Sessions -> {"idle", "fetching", "reading", "over"}]
        /\ keepalive' \in [Sessions -> BOOLEAN]
        /\ stream'[s] = "over"
    BY <1>0, <2>1 DEF TypeOK, Finish
  <2>3. wire'[s] = <<>>
    <3>1. Tail(<<End>>) = <<>>
      OBVIOUS
    <3> QED BY <1>3, <1>4, <1>5, <3>1
  <2>4. TypeOK'
    BY <1>0, <1>2, <1>4, <2>1, <2>2 DEF TypeOK, containerVars
  <2>5. Orderly(s)'
    BY <1>0, <1>2, <2>1, <2>2, <2>3, EndRead
  <2> QED BY <2>4, <2>5
<1>6. CASE Head(wire[s]) # End
  <2> DEFINE event == Head(wire[s])
  <2>1. /\ Send(s, event)
        /\ tokenSentInWindow' = [tokenSentInWindow EXCEPT ![s] = @ \/ event = Token]
        /\ UNCHANGED <<stream, keepalive>>
    BY <1>6 DEF ReadEvent
  <2>2. tokenSentInWindow' \in [Sessions -> BOOLEAN]
    BY <1>0, <2>1 DEF TypeOK
  <2>3. view'[s] = IF open[s] THEN Seen(view[s], event) ELSE view[s]
    BY <1>0, <2>1, Sent
  <2>4. CASE event = Token
    <3>1. outcomes'[s] = outcomes[s]
      BY <1>0, <2>1, <2>4, Sent, EventKinds
    <3>2. /\ Seen(view[s], Token).streamed = view[s].streamed + 1
          /\ Seen(view[s], Token).final = view[s].final
      BY <1>1, SeenFields DEF View
    <3>3. /\ view'[s].final = view[s].final
          /\ open[s] => view'[s].streamed = view[s].streamed + 1
      BY <2>3, <2>4, <3>2
    <3>4. Orderly(s)' /\ (open[s] => view[s].streamed < MaxTokens)
      BY <1>0, <1>2, <1>4, <2>1, <2>4, <3>1, <3>3, TokenRead
    <3>5. event \in (Events \ {End}) \cup {Heartbeat}
      BY <1>3, <1>6
    <3>6. /\ view' \in [Sessions -> View]
          /\ outcomes' \in [Sessions -> Seq(Outcomes)]
      BY <1>0, <2>1, <3>4, <3>5, SendTypes
    <3>7. TypeOK'
      BY <1>0, <1>2, <1>4, <2>1, <2>2, <3>6 DEF TypeOK, containerVars
    <3> QED BY <3>4, <3>7
  <2>5. CASE event # Token
    <3>1. event \in {Error, Complete(gen[s].tokens)}
      BY <1>3, <1>6, <2>5
    <3>2. outcomes'[s] = Append(outcomes[s], event)
      BY <1>0, <2>1, <3>1, Sent, EventKinds
    <3>3. /\ view'[s].streamed = view[s].streamed
          /\ \/ view'[s].final = view[s].final
             \/ /\ event = Complete(gen[s].tokens) /\ open[s]
                /\ view'[s].final = gen[s].tokens
      <4>1. /\ Seen(view[s], Error).streamed = view[s].streamed
            /\ Seen(view[s], Error).final = view[s].final
        BY <1>1, SeenFields DEF View
      <4>2. Seen(view[s], Complete(gen[s].tokens)) =
              IF view[s].final = -1 THEN [view[s] EXCEPT !.final = gen[s].tokens] ELSE view[s]
        BY <1>1, SeenFields
      <4>3. /\ Seen(view[s], Complete(gen[s].tokens)).streamed = view[s].streamed
            /\ Seen(view[s], Complete(gen[s].tokens)).final \in {view[s].final, gen[s].tokens}
        BY <1>1, <4>2 DEF View
      <4> QED BY <2>3, <3>1, <4>1, <4>3
    <3>4. Orderly(s)'
      BY <1>0, <1>2, <1>4, <1>6, <2>1, <2>5, <3>2, <3>3, FinalRead
    <3>5. event \in (Events \ {End}) \cup {Heartbeat}
      BY <1>3, <1>6
    <3>6. /\ view' \in [Sessions -> View]
          /\ outcomes' \in [Sessions -> Seq(Outcomes)]
      BY <1>0, <2>1, <2>5, <3>5, SendTypes
    <3>7. TypeOK'
      BY <1>0, <1>2, <1>4, <2>1, <2>2, <3>6 DEF TypeOK, containerVars
    <3> QED BY <3>4, <3>7
  <2> QED BY <2>4, <2>5
<1> QED BY <1>5, <1>6

-----------------------------------------------------------------------------
(* The invariant, and what follows from it. *)

LEMMA DebriefInit == Init => DebriefInv
<1> SUFFICES ASSUME Init PROVE DebriefInv
  OBVIOUS
<1> USE FeedbackAssumption
<1>1. NoGen \in Gen /\ EmptyView \in View
  BY DEF NoGen, Gen, EmptyView, View
<1>2. TypeOK
  BY <1>1 DEF Init, TypeOK, Started, Phases
<1>3. ASSUME NEW s \in Sessions PROVE Orderly(s)
  <2>1. /\ wire[s] = <<>> /\ outcomes[s] = <<>> /\ gen[s] = NoGen /\ view[s] = EmptyView
        /\ stream[s] = "idle"
    BY DEF Init
  <2>2. Arriving(s, 0) /\ 0 \in 0..Len(wire[s])
    BY <2>1 DEF Arriving, NoGen, EmptyView
  <2> QED BY <2>1, <2>2 DEF Orderly, Counted, NoGen, EmptyView
<1> QED BY <1>2, <1>3 DEF DebriefInv

LEMMA DebriefStep == DebriefInv /\ [Next]_vars => DebriefInv'
<1> SUFFICES ASSUME DebriefInv, [Next]_vars PROVE DebriefInv'
  OBVIOUS
<1>1. CASE Startup \/ Crash \/ UNCHANGED vars
  BY <1>1, ContainerSteps
<1>2. ASSUME NEW s \in Sessions, OfSession(s) PROVE DebriefInv'
  <2>1. TypeOK' /\ Orderly(s)'
    BY <1>2, QuietSteps, FailureSteps, WriteSteps, ReadStep DEF OfSession
  <2>2. ASSUME NEW t \in Sessions, t # s PROVE Orderly(t)'
    BY <1>2, <2>2, Elsewhere DEF DebriefInv
  <2> QED BY <2>1, <2>2 DEF DebriefInv
<1> QED BY <1>1, <1>2 DEF Next, OfSession

LEMMA DebriefInvariant == Spec => []DebriefInv
BY DebriefInit, DebriefStep, PTL DEF Spec

(* The debrief keeps its types. *)
THEOREM FeedbackTyped == Spec => []TypeOK
<1>1. DebriefInv => TypeOK
  BY DEF DebriefInv
<1> QED BY <1>1, DebriefInvariant, PTL

(* A container in production with a digest serves no other model. *)
THEOREM ServesExpected == Spec => []ServesExpectedModel
<1>1. Init => ServesExpectedModel
  BY DEF Init, Started, ServesExpectedModel
<1>2. ServesExpectedModel /\ [Next]_vars => ServesExpectedModel'
  BY ServesStep
<1> QED BY <1>1, <1>2, PTL DEF Spec

(* The timer runs exactly while the stream is read. *)
THEOREM KeepaliveStops == Spec => []KeepaliveOnlyWhileReading
<1>1. Init => KeepaliveOnlyWhileReading
  BY DEF Init, KeepaliveOnlyWhileReading
<1>2. TypeOK /\ KeepaliveOnlyWhileReading /\ [Next]_vars => KeepaliveOnlyWhileReading'
  BY KeepaliveStep
<1> QED BY <1>1, <1>2, FeedbackTyped, PTL DEF Spec

(* Between Ollama's lines and the trainee nothing is added, lost or counted
   twice: the advice shown is what was streamed, and what Ollama said but for
   the lines that could not be parsed. *)
THEOREM AdviceFaithful == Spec => []AdviceAsStreamed
<1>1. ASSUME DebriefInv PROVE AdviceAsStreamed
  <2> SUFFICES ASSUME NEW s \in Sessions, view[s].final # -1
               PROVE  /\ view[s].final = gen[s].said - gen[s].skipped
                      /\ view[s].streamed = view[s].final
    BY DEF AdviceAsStreamed
  <2>1. gen[s] \in Gen /\ Orderly(s)
    BY <1>1 DEF DebriefInv, TypeOK
  <2>2. gen[s].tokens \in Nat /\ gen[s].skipped \in Nat /\ Counted(gen[s])
    BY <2>1, FeedbackAssumption DEF Gen, Orderly
  <2>3. view[s].final = gen[s].tokens /\ view[s].streamed = gen[s].tokens
    BY <2>1 DEF Orderly
  <2> QED BY <2>2, <2>3 DEF Counted
<1> QED BY <1>1, DebriefInvariant, PTL

(* Nothing but an apology follows a final message. *)
THEOREM FailureIsFinal == Spec => []NothingAfterFailure
<1>1. DebriefInv => NothingAfterFailure
  BY DEF DebriefInv, Orderly, NothingAfterFailure
<1> QED BY <1>1, DebriefInvariant, PTL
=============================================================================
