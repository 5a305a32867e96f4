-------------------------------- MODULE Client --------------------------------
(***************************************************************************)
(* The browser and the app container at the two ends of a WebSocket:       *)
(* SessionHandler (client/src/session-handler.ts) with its transport,      *)
(* useSession, Demo and CaptureSession on one side, and on the other what  *)
(* app/src/main.ts and clip-controller.ts answer.  Messages take their     *)
(* time and keep their order; a connection may be lost.                    *)
(*                                                                         *)
(* The two sides keep a state each and nothing compares them: the client   *)
(* follows the messages, the server its own steps.  A step is what runs    *)
(* without returning to the event loop of either side.                     *)
(*                                                                         *)
(* Other sessions take and free the slots, so creation is answered in any  *)
(* way and promotion comes at any time.  What becomes of a session after   *)
(* its client has left it is in AppServer, the stream of a debrief in      *)
(* Feedback.                                                               *)
(***************************************************************************)
EXTENDS Naturals, Sequences, FiniteSets, SequencesExt

CONSTANTS
  None,
  Entries,         (* the entry clips of the scenarios                      *)
  Leads,           (* [clip -> clips and None]: what its branches name      *)
  MaxConnects,     (* bound: sessions the browser asks for                  *)
  MaxTurns,        (* bound: clips answered in a session                    *)
  MaxRequests,     (* bound: messages under way when the player asks          *)
  Faults           (* what else may happen: see the definition below        *)

(* Orders of events that the code admits and does not survive:
   hasty_disconnect  disconnect() while connect() waits,
   early_promotion   a slot is free before the WebSocket is open,
   slow_choice       the connection timeout passes while a scenario is chosen,
   early_preload     a clip is preloaded before a scenario runs,
   double_click      a scenario is chosen again while the camera starts,
   quick_clip        a clip ends before the server has reset the last one. *)
FaultKinds == {"hasty_disconnect", "early_promotion", "slow_choice",
               "early_preload", "double_click", "quick_clip"}

ASSUME ClientFaultAssumption == Faults \subseteq FaultKinds
ASSUME ConnectsAssumption == MaxConnects \in Nat
(* Of a scenario that the loader accepted. *)
ASSUME LeadsAssumption ==
  /\ Entries \subseteq DOMAIN Leads /\ None \notin DOMAIN Leads
  /\ \A clip \in DOMAIN Leads : Leads[clip] \subseteq DOMAIN Leads \cup {None}

Clips == DOMAIN Leads
Ids == 1..MaxConnects
NoId == 0

VARIABLES
  state,           (* SessionHandler._state                                 *)
  sessionId, transport,
  clean, loopsCancelled,
  lastCandidates,
  scenarioChosen,  (* _activeScenarioId is set                              *)
  currentClip,     (* useSession: currentClipData                           *)
  history,         (* useSession: sessionHistory, of the present session    *)
  player,          (* PlayerScreen: the video runs, or the answer           *)
  loops,           (* kinds of media for which a loop waits                 *)
  running, starting,  (* capture: the flag; calls of start() that wait      *)
  feeds,           (* microphones that fill capture's buffer                *)
  link,            (* [Ids -> how far the attempt to connect has come]      *)
  up, down,        (* [Ids -> messages to the server, to the client]        *)
  server           (* [Ids -> the session as the app container has it]      *)

handlerVars == <<state, sessionId, transport, clean, loopsCancelled,
                 lastCandidates, scenarioChosen>>
pageVars == <<currentClip, history, player, loops>>
captureVars == <<running, starting, feeds>>
clientVars == <<handlerVars, pageVars, captureVars>>
vars == <<clientVars, link, up, down, server>>

(* session_id in the app: its state, clip and turns; `step` is where
   handleClipEnded waits, `told` whether promotion has a socket to tell. *)
NoSession == [state |-> "none", clip |-> None, turns |-> <<>>,
              step |-> "idle", next |-> None, told |-> FALSE]

Init ==
  /\ state = "idle" /\ sessionId = NoId /\ transport = NoId
  /\ clean = FALSE /\ loopsCancelled = FALSE
  /\ lastCandidates = {} /\ scenarioChosen = FALSE
  /\ currentClip = None /\ history = <<>> /\ player = "off" /\ loops = {}
  /\ running = FALSE /\ starting = 0 /\ feeds = 0
  /\ link = [n \in Ids |-> "none"]
  /\ up = [n \in Ids |-> <<>>] /\ down = [n \in Ids |-> <<>>]
  /\ server = [n \in Ids |-> NoSession]

(* Both ends of the WebSocket of session n are open; the client reads it
   once connect() has set the handlers. *)
Attached(n) == link[n] \in {"accepted", "open"}
Waits == {"asked", "created", "queued", "refused", "opening", "accepted", "failed"}
Over == {"none", "closed"}
Pending(n) == link[n] \in Waits

Ask(n, m) == up' = [up EXCEPT ![n] = Append(@, m)]
Reply(n, m) == down' = [down EXCEPT ![n] = Append(@, m)]
Served(n) == up' = [up EXCEPT ![n] = Tail(@)]

-----------------------------------------------------------------------------
(* The messages (shared/types.ts), without the session and what is only
   shown.  Definitions named Bad... are slips the code could contain; no
   action uses one. *)

GetScenarios == [type |-> "get_scenarios"]
Request(clip, activate) == [type |-> "request_clip", clip |-> clip, activate |-> activate]
EndOf(clip) == [type |-> "clip_ended", clip |-> clip]

(* Frames and audio aside. *)
Requests == [type : {"request_clip"}, clip : Clips, activate : BOOLEAN]
ToServer == {GetScenarios} \cup Requests \cup {EndOf(clip) : clip \in Clips}

(* What may follow a clip: buildCandidates(). *)
BadCandidates(clip) == {}
Candidates(clip) == Leads[clip] \ {None}

Ready == [type |-> "session_ready"]
List == [type |-> "scenarios_list"]
Data(clip) == [type |-> "clip_data", clip |-> clip]
Announced(clip) == [type |-> "clip_candidates", clips |-> Candidates(clip)]
Verdict(next) == [type |-> "clip_selected", clip |-> next]
Failure == [type |-> "error"]

(* Those of the debrief are in Feedback. *)
Answers == {Failure} \cup {Data(clip) : clip \in Clips}
ToClient ==
  {Ready, List} \cup Answers \cup {Announced(clip) : clip \in Clips}
    \cup {Verdict(next) : next \in Clips \cup {None}}

-----------------------------------------------------------------------------
(* connect(): three waits, and no look at the state after them but one. *)

Connect(n) ==
  /\ state = "idle"
  /\ link[n] = "none" /\ \A k \in Ids : k < n => link[k] # "none"
  /\ clean' = FALSE
  /\ state' = "connecting"
  /\ link' = [link EXCEPT ![n] = "asked"]
  /\ UNCHANGED <<sessionId, transport, loopsCancelled, lastCandidates,
                 scenarioChosen, pageVars, captureVars, up, down, server>>

(* POST /session/create in the app: a slot, a place in the queue, or 503. *)
Create(n) ==
  /\ link[n] = "asked"
  /\ \E answer \in {"created", "queued", "refused"} :
       /\ link' = [link EXCEPT ![n] = answer]
       /\ server' = [server EXCEPT ![n].state =
            CASE answer = "created" -> "CONNECTING" [] answer = "queued" -> "QUEUED"
              [] answer = "refused" -> "none"]
  /\ UNCHANGED <<clientVars, up, down>>

(* The answer of the fetch. *)
Created(n) ==
  /\ link[n] \in {"created", "queued", "refused"}
  /\ link' = [link EXCEPT ![n] = IF @ = "refused" THEN "closed" ELSE "opening"]
  /\ state' = CASE link[n] = "refused" -> "error"
                [] link[n] = "queued" -> "queued" [] link[n] = "created" -> state
  /\ sessionId' = IF link[n] = "refused" THEN sessionId ELSE n
  /\ UNCHANGED <<transport, clean, loopsCancelled, lastCandidates,
                 scenarioChosen, pageVars, captureVars, up, down, server>>

(* GET /ws/{id} in the app. *)
Accept(n) ==
  /\ link[n] = "opening"
  /\ \/ /\ server[n].state \in {"QUEUED", "CONNECTING"}
        /\ link' = [link EXCEPT ![n] = "accepted"]
        /\ server' = [server EXCEPT ![n].told = @ \/ server[n].state = "QUEUED"]
     \/ link' = [link EXCEPT ![n] = "failed"] /\ UNCHANGED server
  /\ UNCHANGED <<clientVars, up, down>>

(* WebSocketTransport.connect resolves or rejects. *)
Opened(n) ==
  /\ link[n] \in {"accepted", "failed"}
  /\ \/ /\ link[n] = "accepted"
        /\ link' = [link EXCEPT ![n] = "open"]
        /\ transport' = n
        /\ IF state = "connecting" THEN Ask(n, GetScenarios) ELSE UNCHANGED up
        /\ UNCHANGED state
     \/ /\ link[n] = "failed"
        /\ link' = [link EXCEPT ![n] = "closed"]
        /\ state' = "error"
        /\ UNCHANGED <<transport, up>>
  /\ UNCHANGED <<sessionId, clean, loopsCancelled, lastCandidates,
                 scenarioChosen, pageVars, captureVars, down, server>>

-----------------------------------------------------------------------------
(* The player. *)

(* CaptureSession.stop(), in Demo's effect on the states idle and completed:
   the channels are closed, which ends the loops that wait there, and the
   microphone that was started last is released. *)
CloseChannels == loops' = {}
StopCapture ==
  IF running THEN running' = FALSE /\ CloseChannels /\ feeds' = feeds - 1
             ELSE UNCHANGED <<running, loops, feeds>>

CanAsk == transport # NoId /\ sessionId # NoId /\ link[transport] = "open"
Room == Len(up[transport]) + Len(down[transport]) < MaxRequests

(* A scenario is chosen: Demo starts the camera, unless it runs, and goes on
   when it has started. *)
ChooseScenario ==
  /\ state = "selecting"
  /\ starting = 0 \/ ("double_click" \in Faults /\ starting = 1)
  /\ ~running
  /\ starting' = starting + 1
  /\ UNCHANGED <<handlerVars, pageVars, running, feeds, link, up, down, server>>

(* CaptureSession.start() returns, at once if the camera was on. *)
Started ==
  \/ /\ starting > 0
     /\ starting' = starting - 1
     /\ feeds' = feeds + 1
     /\ running' = TRUE
  \/ /\ starting = 0 /\ running /\ state = "selecting"
     /\ UNCHANGED captureVars

(* What follows it: selectScenario(). *)
SelectScenario ==
  /\ Started
  /\ \/ /\ state = "selecting" /\ CanAsk /\ Room
        /\ \E clip \in Entries : Ask(transport, Request(clip, TRUE))
        /\ scenarioChosen' = TRUE
     \/ /\ ~(state = "selecting" /\ CanAsk)
        /\ UNCHANGED <<up, scenarioChosen>>
  /\ UNCHANGED <<state, sessionId, transport, clean, loopsCancelled,
                 lastCandidates, pageVars, link, down, server>>

(* The camera is refused: handleSelectScenario throws. *)
CameraRefused ==
  /\ starting > 0
  /\ starting' = starting - 1
  /\ UNCHANGED <<handlerVars, pageVars, running, feeds, link, up, down, server>>

PreloadClip ==
  /\ CanAsk /\ Room
  /\ state \in {"active", "paused"} \/ "early_preload" \in Faults
  /\ \E clip \in Clips : Ask(transport, Request(clip, FALSE))
  /\ UNCHANGED <<clientVars, link, down, server>>

(* The video of the clip is over, or skipped because it failed. *)
VideoEnded ==
  /\ state = "active" /\ player = "watch"
  /\ player' = "respond"
  /\ UNCHANGED <<handlerVars, currentClip, history, loops, captureVars,
                 link, up, down, server>>

(* The button or the countdown calls sendClipEnded(). *)
Answering == state = "active" /\ player = "respond"

ClipEnded ==
  /\ Answering /\ CanAsk
  /\ server[sessionId].step = "idle" \/ "quick_clip" \in Faults
  /\ Len(history) < MaxTurns
  /\ loopsCancelled' = TRUE
  /\ state' = "paused"
  /\ Ask(transport, EndOf(currentClip))
  /\ UNCHANGED <<sessionId, transport, clean, lastCandidates, scenarioChosen,
                 pageVars, captureVars, link, down, server>>

(* disconnect(), and useSession's reset when the state becomes idle.  The
   candidates and the scenario stay.  While the camera starts no screen of
   the demo has a button for it.  POST /session/{id}/end and the close of the
   socket end the session in the app: the model leaves it here. *)
Disconnect ==
  /\ state # "idle" /\ starting = 0
  /\ (\A n \in Ids : ~Pending(n)) \/ "hasty_disconnect" \in Faults
  /\ clean' = TRUE /\ loopsCancelled' = TRUE
  /\ state' = "idle" /\ sessionId' = NoId /\ transport' = NoId
  /\ currentClip' = None /\ history' = <<>> /\ player' = "off"
  /\ StopCapture
  /\ link' = IF transport = NoId THEN link ELSE [link EXCEPT ![transport] = "closed"]
  /\ IF sessionId = NoId THEN UNCHANGED <<up, down, server>>
     ELSE /\ up' = [up EXCEPT ![sessionId] = <<>>]
          /\ down' = [down EXCEPT ![sessionId] = <<>>]
          /\ server' = [server EXCEPT ![sessionId] = NoSession]
  /\ UNCHANGED <<lastCandidates, scenarioChosen, starting>>

-----------------------------------------------------------------------------
(* Frames, and the chunks of two seconds that the microphone fills.  How many
   loops of a kind wait, and what each sends, is in Recording. *)
Loops == {"frames", "audio"}

StartClip == /\ loopsCancelled' = FALSE
             /\ state' = "active"
             /\ player' = "watch"
             /\ loops' = Loops

(* A frame or a chunk wakes the loops of its kind: each sends it, or ends.  A
   loop that no frame or chunk wakes between two clips goes on with the next. *)
Wake(kind) ==
  /\ kind \in loops /\ running
  /\ loopsCancelled \/ state # "active" \/ transport = NoId
  /\ loops' = loops \ {kind}
  /\ UNCHANGED <<handlerVars, currentClip, history, player, captureVars,
                 link, up, down, server>>

-----------------------------------------------------------------------------
(* _handleServerMessage, after useSession's onMessage. *)

Arrives(n, type) ==
  /\ link[n] = "open"
  /\ down[n] # <<>> /\ Head(down[n]).type = type
  /\ down' = [down EXCEPT ![n] = Tail(@)]

BadGreet(n) == UNCHANGED up
Greet(n) == Ask(n, GetScenarios)

OnSessionReady(n) ==
  /\ Arrives(n, "session_ready")
  /\ state' = "connecting"
  /\ Greet(n)
  /\ UNCHANGED <<sessionId, transport, clean, loopsCancelled, lastCandidates,
                 scenarioChosen, pageVars, captureVars, link, server>>

OnScenariosList(n) ==
  /\ Arrives(n, "scenarios_list")
  /\ state' = "selecting"
  /\ UNCHANGED <<sessionId, transport, clean, loopsCancelled, lastCandidates,
                 scenarioChosen, pageVars, captureVars, link, up, server>>

(* Only an activating clip_data is meant to arrive in these states. *)
BadActivating == TRUE
Activating == state \in {"selecting", "connecting"}

OnClipData(n) ==
  /\ Arrives(n, "clip_data")
  /\ \/ /\ Activating
        /\ currentClip' = Head(down[n]).clip
        /\ StartClip
     \/ /\ ~Activating
        /\ UNCHANGED <<currentClip, state, loopsCancelled, player, loops>>
  /\ UNCHANGED <<sessionId, transport, clean, lastCandidates, scenarioChosen,
                 history, captureVars, link, up, server>>

OnClipCandidates(n) ==
  /\ Arrives(n, "clip_candidates")
  /\ lastCandidates' = Head(down[n]).clips
  /\ UNCHANGED <<state, sessionId, transport, clean, loopsCancelled,
                 scenarioChosen, pageVars, captureVars, link, up, server>>

(* onMessage takes the clip that ended before the handler replaces it. *)
BadEntry(next) == [clip |-> next, next |-> next]
Entry(next) == [clip |-> currentClip, next |-> next]

OnClipSelected(n) ==
  LET next == Head(down[n]).clip
      found == next \in lastCandidates /\ scenarioChosen IN
    /\ Arrives(n, "clip_selected")
    /\ history' = Append(history, Entry(next))
    /\ lastCandidates' = {}
    /\ up' = IF next = None \/ found \/ ~scenarioChosen THEN up
             ELSE [up EXCEPT ![n] = Append(@, Request(next, TRUE))]
    /\ currentClip' = IF found THEN next ELSE currentClip
    /\ IF found THEN StartClip /\ UNCHANGED <<running, feeds>>
       ELSE IF next = None
       THEN /\ state' = "completed" /\ player' = "off"
            /\ StopCapture
            /\ UNCHANGED loopsCancelled
       ELSE UNCHANGED <<state, loopsCancelled, player, loops, running, feeds>>
    /\ UNCHANGED <<sessionId, transport, clean, scenarioChosen, starting, link, server>>

OnError(n) ==
  /\ Arrives(n, "error")
  /\ UNCHANGED <<clientVars, link, up, server>>

(* The connection is lost with what it carried; the client hears of it. *)
LoseSocket(n) ==
  /\ link[n] = "open"
  /\ link' = [link EXCEPT ![n] = "lost"]
  /\ up' = [up EXCEPT ![n] = <<>>] /\ down' = [down EXCEPT ![n] = <<>>]
  /\ UNCHANGED <<clientVars, server>>

(* _handleClose: not after disconnect(), nor in a state that is final. *)
OnClose(n) ==
  /\ link[n] = "lost"
  /\ link' = [link EXCEPT ![n] = "closed"]
  /\ \/ /\ ~clean /\ state \notin {"completed", "idle", "error"}
        /\ loopsCancelled' = TRUE
        /\ state' = "dropped"
     \/ /\ clean \/ state \in {"completed", "idle", "error"}
        /\ UNCHANGED <<loopsCancelled, state>>
  /\ UNCHANGED <<sessionId, transport, clean, lastCandidates, scenarioChosen,
                 pageVars, captureVars, up, down, server>>

-----------------------------------------------------------------------------
(* The app container. *)

Reads(n, type) == Attached(n) /\ up[n] # <<>> /\ Head(up[n]).type = type

(* promoteNext: the socket that waits is told. *)
Promote(n) ==
  /\ server[n].state = "QUEUED"
  /\ server[n].told \/ "early_promotion" \in Faults
  /\ link[n] # "closed"
  /\ server' = [server EXCEPT ![n].state = "CONNECTING"]
  /\ IF server[n].told /\ Attached(n)
       THEN Reply(n, Ready) ELSE UNCHANGED down
  /\ UNCHANGED <<clientVars, link, up>>

ListScenarios(n) ==
  /\ Reads(n, "get_scenarios")
  /\ Served(n)
  /\ Reply(n, List)
  /\ UNCHANGED <<clientVars, link, server>>

(* request_clip: a session that is neither CONNECTING nor running gets the
   clip, as if it had not been asked to activate it. *)
Activated(n, m) == m.activate /\ server[n].state = "CONNECTING" /\ m.clip \in Entries
Permitted(n, m) ==
  m.activate => \/ server[n].state \notin {"ACTIVE", "PAUSED", "CONNECTING"}
                \/ Activated(n, m)

HandleRequestClip(n) ==
  LET m == Head(up[n]) IN
    /\ Reads(n, "request_clip")
    /\ Served(n)
    /\ Reply(n, IF Permitted(n, m) THEN Data(m.clip) ELSE Failure)
    /\ server' = IF ~Activated(n, m) THEN server
                 ELSE [server EXCEPT ![n].state = "ACTIVE", ![n].clip = m.clip]
    /\ UNCHANGED <<clientVars, link>>

(* The connection timer: usually a client that is there has chosen by then. *)
ConnectTimeout(n) ==
  /\ server[n].state = "CONNECTING"
  /\ link[n] \in {"lost", "closed"} \/ "slow_choice" \in Faults
  /\ server' = [server EXCEPT ![n].state = "DROPPED"]
  /\ UNCHANGED <<clientVars, link, up, down>>

(* handleClipEnded up to the flush; a clip that is not running is ignored. *)
HandleClipEnded(n) ==
  LET clip == Head(up[n]).clip IN
    /\ Reads(n, "clip_ended")
    /\ Served(n)
    /\ IF server[n].state # "ACTIVE" THEN UNCHANGED <<server, down>>
       ELSE /\ server' = [server EXCEPT ![n].state = "PAUSED",
                            ![n].step = "flushing", ![n].clip = clip]
            /\ Reply(n, Announced(clip))
    /\ UNCHANGED <<clientVars, link>>

(* The clip is judged, and the turn recorded; any branch may be the one. *)
Select(n) ==
  /\ Attached(n) /\ server[n].step = "flushing"
  /\ \E next \in Leads[server[n].clip] :
       /\ server' = [server EXCEPT ![n].step = "resetting", ![n].next = next,
                       ![n].turns = Append(@, [clip |-> server[n].clip, next |-> next])]
       /\ Reply(n, Verdict(next))
  /\ UNCHANGED <<clientVars, link, up>>

(* complete() or advance(). *)
Proceed(n) ==
  /\ Attached(n) /\ server[n].step = "resetting"
  /\ server' = [server EXCEPT ![n].step = "idle", ![n].next = None,
       ![n].state = IF server[n].next = None THEN "COMPLETED" ELSE "ACTIVE",
       ![n].clip = IF server[n].next = None THEN @ ELSE server[n].next]
  /\ UNCHANGED <<clientVars, link, up, down>>

-----------------------------------------------------------------------------
Handle(n) ==
  \/ OnSessionReady(n) \/ OnScenariosList(n) \/ OnClipData(n)
  \/ OnClipCandidates(n) \/ OnClipSelected(n) \/ OnError(n)

Serve(n) == ListScenarios(n) \/ HandleRequestClip(n) \/ HandleClipEnded(n)

Next ==
  \/ ChooseScenario \/ SelectScenario \/ CameraRefused \/ PreloadClip
  \/ VideoEnded \/ ClipEnded \/ Disconnect
  \/ \E kind \in Loops : Wake(kind)
  \/ \E n \in Ids :
       \/ Connect(n) \/ Create(n) \/ Created(n) \/ Accept(n) \/ Opened(n)
       \/ Handle(n) \/ LoseSocket(n) \/ OnClose(n)
       \/ Promote(n) \/ Serve(n) \/ ConnectTimeout(n) \/ Select(n) \/ Proceed(n)

Spec == Init /\ [][Next]_vars

(* Messages on an open connection arrive and are handled, and the app's
   transitions come to an end: its flush, its call of the evaluation and its
   resets have timeouts.  The countdown ends an answer.  Nothing else is asked
   of the player, of the camera, nor that a lost connection is noticed. *)
FairSpec ==
  /\ Spec
  /\ WF_vars(ClipEnded)
  /\ \A n \in Ids : /\ WF_vars(Handle(n)) /\ WF_vars(Serve(n))
                    /\ WF_vars(Select(n)) /\ WF_vars(Proceed(n))

-----------------------------------------------------------------------------
(* Properties. *)

States == {"idle", "connecting", "queued", "selecting", "active", "paused",
           "completed", "dropped", "error"}
Turns == [clip : Clips, next : Clips \cup {None}]
SessionStates == {"none", "QUEUED", "CONNECTING", "ACTIVE", "PAUSED", "COMPLETED", "DROPPED"}
SessionRecords ==
  [state : SessionStates,
   clip : Clips \cup {None}, turns : Seq(Turns),
   step : {"idle", "flushing", "resetting"}, next : Clips \cup {None}, told : BOOLEAN]

(* Types: what is known of a session at both ends, and only messages that the
   receiver knows in its channels. *)
TypeOK ==
  /\ state \in States
  /\ sessionId \in {NoId} \cup Ids /\ transport \in {NoId} \cup Ids
  /\ history \in Seq(Turns)
  /\ link \in [Ids -> Waits \cup Over \cup {"open", "lost"}]
  /\ up \in [Ids -> Seq(ToServer)] /\ down \in [Ids -> Seq(ToClient)]
  /\ server \in [Ids -> SessionRecords]

(* Nothing is under way between the client and its session. *)
Quiet ==
  /\ sessionId # NoId /\ link[sessionId] = "open"
  /\ up[sessionId] = <<>> /\ down[sessionId] = <<>>
  /\ server[sessionId].step = "idle"

(* When nothing is under way the two ends agree on where the session is, and
   on the clip that runs: no message was missed, ignored or taken for
   another, on either side. *)
StatesAgree ==
  Quiet =>
    LET there == server[sessionId] IN
      \/ state = "queued" /\ there.state = "QUEUED"
      \/ state = "selecting" /\ there.state = "CONNECTING"
      \/ state = "active" /\ there.state = "ACTIVE" /\ there.clip = currentClip
      \/ state = "completed" /\ there.state = "COMPLETED"

(* The history on the screen is that of the server: each entry names the
   clip that was judged and the clip it led to. *)
HistoryAgrees ==
  sessionId # NoId => IsPrefix(history, server[sessionId].turns)

(* Nobody is recorded outside a scenario, whatever the camera, the messages
   and lost connections do in between: loops wait only for a camera that runs
   and from the first clip on, camera and microphone are on from the choice of
   a scenario until the debrief or the player's leaving, and one microphone
   fills the buffer (Demo's effect, start, stop and _startClip). *)
MediaInPlay ==
  /\ loops # {} => running /\ state \in {"active", "paused", "dropped"}
  /\ running \/ feeds > 0 => state \in {"selecting", "active", "paused", "dropped"}
  /\ feeds <= 1

(* Whoever answers a clip is shown the next one or the debrief, as long as
   the connection lasts: the answer ends, is judged, and the verdict names
   something the client can show. *)
AnswersLeadOn ==
  player = "respond" /\ Len(history) < MaxTurns
    ~> player # "respond" \/ link[sessionId] # "open"

=============================================================================
