------------------------------ MODULE Feedback ------------------------------
(***************************************************************************)
(* The debrief: the feedback container (ensure-model.ts, main.ts and the   *)
(* generators), the FeedbackClient of the app that reads its event stream, *)
(* and what the trainee's client makes of the messages.                    *)
(*                                                                         *)
(* Text is left out: Ollama says so many tokens, and the advice of a       *)
(* complete event is the number of tokens it was assembled from.  There is *)
(* no clock, but OLLAMA_TIMEOUT_MS is shorter than FEEDBACK_TIMEOUT_MS, so *)
(* while the container's timer runs it fires before the app's.             *)
(***************************************************************************)
EXTENDS Integers, Sequences

CONSTANTS
  Sessions,
  MaxTokens,      (* bound: tokens Ollama says in one answer               *)
  MaxCrashes      (* bound: crashes of the container                       *)

ASSUME FeedbackAssumption == MaxTokens \in Nat /\ MaxCrashes \in Nat

VARIABLES
  config,         (* the container's environment                           *)
  model,          (* the model Ollama has under the configured name        *)
  container,      (* where the container's startup is                      *)
  crashes,
  gen,            (* POST /feedback/generate/stream, per session           *)
  wire,           (* the event stream on its way to the app                *)
  cut,            (* the stream was cut: nothing follows what is on it     *)
  stream,         (* FeedbackClient.stream                                 *)
  keepalive,      (* its interval timer is set                             *)
  tokenSentInWindow,
  open,           (* the client's WebSocket                                *)
  outcomes,       (* the final messages handed to it, in order             *)
  view            (* what the client has received: see View                *)

containerVars == <<config, model, container, crashes>>
genVars == <<gen, wire, cut>>
appVars == <<stream, keepalive, tokenSentInWindow, open, outcomes, view>>
vars == <<containerVars, genVars, appVars>>

Config == [generatorImpl : {"stub", "production"}, digest : BOOLEAN]
Models == {"absent", "expected", "other"}
Phases == {"listing", "pulling", "verifying", "serving", "exited"}

(* asking: the fetch to Ollama has not returned, its timer is running.
   Of what Ollama said, the route has yielded tokens and lost the lines that
   were skipped; said and skipped are read by properties only. *)
Gen == [phase : {"none", "asking", "streaming", "over"},
        said : 0..MaxTokens, skipped : 0..MaxTokens, tokens : 0..MaxTokens]
NoGen == [phase |-> "none", said |-> 0, skipped |-> 0, tokens |-> 0]

Token == [type |-> "token"]
Error == [type |-> "error"]
Complete(n) == [type |-> "complete", advice |-> n]
End == [type |-> "end"]
Events == {Token, Error, End} \cup {Complete(n) : n \in 0..MaxTokens}

(* What the app sends to the client of them, and in their absence. *)
Heartbeat == [type |-> "heartbeat"]
Outcomes == {Error} \cup {Complete(n) : n \in 0..MaxTokens}

(* streamedAdvice, finalMessage, feedbackUnavailable and heartbeatStatus. *)
View == [streamed : 0..MaxTokens, final : -1..MaxTokens,
         unavailable : BOOLEAN, heartbeat : BOOLEAN]
EmptyView == [streamed |-> 0, final |-> -1, unavailable |-> FALSE, heartbeat |-> FALSE]

(* The stub generator does without Ollama. *)
Started == IF config.generatorImpl = "production" THEN "listing" ELSE "serving"

Init ==
  /\ config \in Config
  /\ model \in Models
  /\ container = Started
  /\ crashes = 0
  /\ gen = [s \in Sessions |-> NoGen]
  /\ wire = [s \in Sessions |-> <<>>]
  /\ cut = [s \in Sessions |-> FALSE]
  /\ stream = [s \in Sessions |-> "idle"]
  /\ keepalive = [s \in Sessions |-> FALSE]
  /\ tokenSentInWindow = [s \in Sessions |-> FALSE]
  /\ open = [s \in Sessions |-> TRUE]
  /\ outcomes = [s \in Sessions |-> <<>>]
  /\ view = [s \in Sessions |-> EmptyView]

-----------------------------------------------------------------------------
(* ensureModel.  A list that fails counts as a model that is absent; every
   other failure, timeouts included, ends the process.  Definitions named
   Bad... are slips the code could contain; no action uses one. *)

BadAfterListing(listed) == IF listed THEN "serving" ELSE "pulling"
AfterListing(listed) == IF listed THEN "verifying" ELSE "pulling"

Listed ==
  /\ container = "listing"
  /\ \E answered \in BOOLEAN :
       container' = AfterListing(answered /\ model # "absent")
  /\ UNCHANGED <<config, model, crashes, genVars, appVars>>

Pulled ==
  /\ container = "pulling"
  /\ \/ container' = "exited" /\ UNCHANGED model
     \/ container' = "verifying" /\ model' \in {"expected", "other"}
  /\ UNCHANGED <<config, crashes, genVars, appVars>>

Verified ==
  /\ container = "verifying"
  /\ container' \in IF ~config.digest THEN {"serving"}
                    ELSE IF model = "expected" THEN {"serving", "exited"}
                    ELSE {"exited"}
  /\ UNCHANGED <<config, model, crashes, genVars, appVars>>

(* Docker starts a container again that has given up (docker-compose.yml). *)
Restarted ==
  /\ container = "exited"
  /\ container' = Started
  /\ UNCHANGED <<config, model, crashes, genVars, appVars>>

(* The process dies and is started again; what it had written arrives. *)
Crash ==
  /\ container = "serving"
  /\ crashes < MaxCrashes
  /\ crashes' = crashes + 1
  /\ container' = Started
  /\ gen' = [s \in Sessions |->
       IF gen[s].phase \in {"asking", "streaming"} THEN [gen[s] EXCEPT !.phase = "over"]
       ELSE gen[s]]
  /\ cut' = [s \in Sessions |-> cut[s] \/ gen[s].phase \in {"asking", "streaming"}]
  /\ UNCHANGED <<config, model, wire, appVars>>

-----------------------------------------------------------------------------
(* The route of the container and its generators. *)

(* What is written after the app has gone is lost. *)
Write(s, events) ==
  wire' = [wire EXCEPT ![s] = IF stream[s] = "over" THEN <<>> ELSE @ \o events]

(* The route: headers, then the tokens as they come. *)
Accept(s) ==
  /\ stream[s] = "fetching"
  /\ container = "serving"
  /\ gen[s].phase = "none"
  /\ gen' = [gen EXCEPT ![s].phase =
       IF config.generatorImpl = "production" THEN "asking" ELSE "streaming"]
  /\ UNCHANGED <<containerVars, wire, cut, appVars>>

(* catch and finally of the route. *)
BadOnFailure(s) == <<Error, Complete(gen[s].tokens), End>>
OnFailure(s) == <<Error, End>>

(* fetch of generateStream: the timer is cleared when it returns. *)
OllamaAnswers(s) ==
  /\ gen[s].phase = "asking"
  /\ gen' = [gen EXCEPT ![s].phase = "streaming"]
  /\ UNCHANGED <<containerVars, wire, cut, appVars>>

(* The fetch fails or is aborted, the status is not 2xx, or the connection
   breaks while the body is read. *)
OllamaFails(s) ==
  /\ \/ gen[s].phase = "asking"
     \/ gen[s].phase = "streaming" /\ config.generatorImpl = "production"
  /\ gen' = [gen EXCEPT ![s].phase = "over"]
  /\ Write(s, OnFailure(s))
  /\ UNCHANGED <<containerVars, cut, appVars>>

(* What the route writes when generateStream returns. *)
Completed(n) == <<Complete(n), End>>

(* One line of Ollama's stream, with a token or without, the last or not. *)
BadYielded(response, done) == response /\ ~done
Yielded(response, done) == response

OllamaSays(s, response, done) ==
  /\ gen[s].phase = "streaming"
  /\ response \/ done
  /\ response => gen[s].said < MaxTokens
  /\ LET n == gen[s].tokens + IF Yielded(response, done) THEN 1 ELSE 0
     IN  /\ gen' = [gen EXCEPT ![s] =
              [phase |-> IF done THEN "over" ELSE "streaming",
               said |-> @.said + IF response THEN 1 ELSE 0,
               skipped |-> @.skipped, tokens |-> n]]
         /\ Write(s, (IF Yielded(response, done) THEN <<Token>> ELSE <<>>)
                       \o (IF done THEN Completed(n) ELSE <<>>))
  /\ UNCHANGED <<containerVars, cut, appVars>>

(* A line with a token that JSON.parse refuses is skipped, and the stream
   goes on. *)
LineSkipped(s) ==
  /\ gen[s].phase = "streaming" /\ config.generatorImpl = "production"
  /\ gen[s].said < MaxTokens
  /\ gen' = [gen EXCEPT ![s].said = @ + 1, ![s].skipped = @ + 1]
  /\ UNCHANGED <<containerVars, wire, cut, appVars>>

(* The body ends without a last line that says done: closed early, after a
   line with an error object, or the last line could not be parsed.  The loop
   of generateStream is over all the same and the route completes. *)
BodyEnds(s) ==
  /\ gen[s].phase = "streaming" /\ config.generatorImpl = "production"
  /\ gen' = [gen EXCEPT ![s].phase = "over"]
  /\ Write(s, Completed(gen[s].tokens))
  /\ UNCHANGED <<containerVars, cut, appVars>>

-----------------------------------------------------------------------------
(* FeedbackClient.stream, and the client behind sendFn. *)

(* handleMessage and the switch of useSession: the first session_complete
   stays, and an error is remembered whatever came before it. *)
Seen(v, msg) ==
  CASE msg.type = "token" -> [v EXCEPT !.streamed = @ + 1]
    [] msg.type = "complete" /\ v.final = -1 -> [v EXCEPT !.final = msg.advice]
    [] msg.type = "error" -> [v EXCEPT !.unavailable = TRUE]
    [] msg.type = "heartbeat" -> [v EXCEPT !.heartbeat = TRUE]
    [] OTHER -> v

(* DebriefScreen: the apology goes before the advice, and only a debrief
   that has ended has the button for a new session. *)
Debrief(v) ==
  IF v.unavailable THEN "apology" ELSE IF v.final # -1 THEN "advice" ELSE "generating"

CanRestart(v) == Debrief(v) # "generating"

(* A message to a socket that is closed is lost without an error. *)
Send(s, msg) ==
  /\ view' = [view EXCEPT ![s] = IF open[s] THEN Seen(@, msg) ELSE @]
  /\ outcomes' = [outcomes EXCEPT ![s] =
       IF msg.type \in {"complete", "error"} THEN Append(@, msg) ELSE @]

(* ClipController.complete: the session is over before the stream starts. *)
CompleteSession(s) ==
  /\ stream[s] = "idle"
  /\ stream' = [stream EXCEPT ![s] = "fetching"]
  /\ UNCHANGED <<containerVars, genVars, keepalive, tokenSentInWindow, open, outcomes, view>>

(* The fetch fails: nobody listens, or the container died meanwhile. *)
FetchFails(s) ==
  /\ stream[s] = "fetching"
  /\ container # "serving" \/ cut[s]
  /\ stream' = [stream EXCEPT ![s] = "over"]
  /\ wire' = [wire EXCEPT ![s] = <<>>]
  /\ Send(s, Error)
  /\ UNCHANGED <<containerVars, gen, cut, keepalive, tokenSentInWindow, open>>

(* The headers arrive, with the first event at the latest. *)
HeadersArrive(s) ==
  /\ stream[s] = "fetching"
  /\ gen[s].phase # "none"
  /\ wire[s] # <<>> \/ ~cut[s]
  /\ stream' = [stream EXCEPT ![s] = "reading"]
  /\ keepalive' = [keepalive EXCEPT ![s] = TRUE]
  /\ UNCHANGED <<containerVars, genVars, tokenSentInWindow, open, outcomes, view>>

(* The end of stream(): finally stops the timer. *)
BadFinish(s) ==
  /\ stream' = [stream EXCEPT ![s] = "over"]
  /\ UNCHANGED keepalive

Finish(s) ==
  /\ stream' = [stream EXCEPT ![s] = "over"]
  /\ keepalive' = [keepalive EXCEPT ![s] = FALSE]

(* onEvent, and the regular end of the body. *)
ReadEvent(s) ==
  /\ stream[s] = "reading"
  /\ wire[s] # <<>>
  /\ wire' = [wire EXCEPT ![s] = Tail(@)]
  /\ LET event == Head(wire[s])
     IN  IF event = End
         THEN Finish(s) /\ UNCHANGED <<tokenSentInWindow, outcomes, view>>
         ELSE /\ Send(s, event)
              /\ tokenSentInWindow' = [tokenSentInWindow EXCEPT ![s] = @ \/ event = Token]
              /\ UNCHANGED <<stream, keepalive>>
  /\ UNCHANGED <<containerVars, gen, cut, open>>

(* The catch around the body: the stream was cut. *)
BodyBreaks(s) ==
  /\ stream[s] = "reading"
  /\ cut[s] /\ wire[s] = <<>>
  /\ Finish(s)
  /\ Send(s, Error)
  /\ UNCHANGED <<containerVars, genVars, tokenSentInWindow, open>>

(* AbortSignal.timeout covers the fetch and the body. *)
BadAbortable(s) == stream[s] = "fetching"
Abortable(s) == stream[s] \in {"fetching", "reading"}

Abort(s) ==
  /\ Abortable(s)
  /\ gen[s].phase # "asking"
  /\ Finish(s)
  /\ wire' = [wire EXCEPT ![s] = <<>>]
  /\ Send(s, Error)
  /\ UNCHANGED <<containerVars, gen, cut, tokenSentInWindow, open>>

(* The callback of setInterval. *)
KeepaliveTick(s) ==
  /\ keepalive[s]
  /\ IF tokenSentInWindow[s] THEN UNCHANGED <<outcomes, view>>
     ELSE Send(s, Heartbeat)
  /\ tokenSentInWindow' = [tokenSentInWindow EXCEPT ![s] = FALSE]
  /\ UNCHANGED <<containerVars, genVars, stream, keepalive, open>>

SocketCloses(s) ==
  /\ open[s]
  /\ open' = [open EXCEPT ![s] = FALSE]
  /\ UNCHANGED <<containerVars, genVars, stream, keepalive, tokenSentInWindow, outcomes, view>>

-----------------------------------------------------------------------------
Startup == Listed \/ Pulled \/ Verified \/ Restarted

Next ==
  \/ Startup \/ Crash
  \/ \E s \in Sessions :
       \/ Accept(s) \/ OllamaAnswers(s) \/ OllamaFails(s)
       \/ LineSkipped(s) \/ BodyEnds(s)
       \/ \E response, done \in BOOLEAN : OllamaSays(s, response, done)
       \/ CompleteSession(s) \/ FetchFails(s) \/ HeadersArrive(s) \/ ReadEvent(s)
       \/ BodyBreaks(s) \/ Abort(s) \/ KeepaliveTick(s) \/ SocketCloses(s)

Spec == Init /\ [][Next]_vars

(* Timers fire, and what is on the wire is read.  Ollama owes nothing: it
   may stall at any point, and only the timers end the wait for it. *)
Fairness ==
  /\ WF_vars(Startup)
  /\ \A s \in Sessions : /\ WF_vars(Abort(s))
                         /\ WF_vars(OllamaFails(s) /\ gen[s].phase = "asking")
                         /\ WF_vars(ReadEvent(s))

FairSpec == Spec /\ Fairness

-----------------------------------------------------------------------------
(* Properties. *)

(* Types. *)
TypeOK ==
  /\ config \in Config
  /\ model \in Models
  /\ container \in Phases
  /\ crashes \in 0..MaxCrashes
  /\ gen \in [Sessions -> Gen]
  /\ wire \in [Sessions -> Seq(Events)]
  /\ cut \in [Sessions -> BOOLEAN]
  /\ stream \in [Sessions -> {"idle", "fetching", "reading", "over"}]
  /\ keepalive \in [Sessions -> BOOLEAN]
  /\ tokenSentInWindow \in [Sessions -> BOOLEAN]
  /\ open \in [Sessions -> BOOLEAN]
  /\ outcomes \in [Sessions -> Seq(Outcomes)]
  /\ view \in [Sessions -> View]

(* A container in production with a digest configured serves no other
   model than the expected one, whatever was there or was pulled. *)
ServesExpectedModel ==
  container = "serving" /\ config.generatorImpl = "production" /\ config.digest
    => model = "expected"

(* The advice a client gets at the end is what it was streamed before, token
   for token, and what Ollama had said by the end of its body but for the
   lines that could not be parsed: the app, the route and the event stream
   add nothing and lose nothing, whatever fails.  That Ollama was done is not
   said: a body that ends early passes for a whole one. *)
AdviceAsStreamed ==
  \A s \in Sessions :
    view[s].final # -1 => /\ view[s].final = gen[s].said - gen[s].skipped
                          /\ view[s].streamed = view[s].final

(* A debrief that was called unavailable is never completed afterwards, and
   none is completed twice. *)
NothingAfterFailure ==
  \A s \in Sessions : \A i \in 2..Len(outcomes[s]) : outcomes[s][i] = Error

(* The keepalive timer runs exactly as long as the stream is read: the
   client is told that feedback is coming only while it may still come. *)
KeepaliveOnlyWhileReading ==
  \A s \in Sessions : keepalive[s] = (stream[s] = "reading")

(* Whatever Ollama and the container do, stalls and crashes included, the
   trainee gets to the end of the debrief, unless the connection is lost:
   no timer of the client would end the wait. *)
DebriefCanBeLeft ==
  \A s \in Sessions : stream[s] = "fetching" ~> CanRestart(view[s]) \/ ~open[s]
=============================================================================
