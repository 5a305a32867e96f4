---------------------------- MODULE Transcription ----------------------------
(***************************************************************************)
(* The transcription container for one session: the WebSocket handler and  *)
(* the routes of transcription/src/main.py, SessionStore, and              *)
(* TranscriptionService around a WhisperPool; and, on the other side of    *)
(* the connection, the ClipSessions of the app container, one per clip,    *)
(* each with a WebSocket of its own (clip-session.ts).                     *)
(*                                                                         *)
(* Audio comes in chunks of one unit of time; a chunk holds a word, a      *)
(* noise or silence, and Whisper hears exactly the words.  A chunk knows   *)
(* the clip and the time it was spoken at, the container does not.         *)
(*                                                                         *)
(* Sessions share nothing but the pool; of the others their calls to it    *)
(* are there.  window_seq, confidence and the language reach no decision   *)
(* and are left out.                                                       *)
(***************************************************************************)
EXTENDS WhisperPool, FiniteSetsExt

CONSTANTS
  MaxClip,        (* bound: clips of the session                           *)
  MaxChunks,      (* bound: chunks spoken in a clip                        *)
  Kinds,          (* what a chunk may hold                                 *)
  Window,         (* min_buffer_bytes, in chunks                           *)
  OverlapWords,   (* _OVERLAP_WORDS                                        *)
  MaxBuffer,      (* _MAX_PCM_BUFFER_BYTES, in chunks                      *)
  Others,         (* bound: calls of other sessions that may overlap       *)
  Faults          (* what may disturb a session: see FaultKinds            *)

(* failed       inference raises,
   overtaken    finalise arrives before all audio was transcribed,
   impatient    the app stops waiting for the final transcript,
   late_close   a lost connection is noticed when its successor is open,
   returned     the client drops and comes back: a new ClipSession, no reset,
   late_reset   a reset meets audio of the next clip,
   stray        audio goes on after the end of its clip,
   silent_line  the container hears nothing for 30 s and closes. *)
FaultKinds == {"failed", "overtaken", "impatient", "late_close", "returned",
               "late_reset", "stray", "silent_line"}

ASSUME TranscriptionAssumption ==
  /\ Faults \subseteq FaultKinds
  /\ Kinds \subseteq {"word", "noise", "silence"}
  /\ MaxClip \in Nat /\ MaxBuffer \in Nat
  /\ Window \in 1..MaxBuffer
  /\ OverlapWords \in Nat \ {0}
  /\ Others \in Nat

VARIABLES
  clips,          (* the ClipSessions                                      *)
  handlers,       (* the WebSocket handlers, one per connection            *)
  session,        (* SessionStore: whose entry the session has, 0 if none  *)
  entries,        (* the SessionEntry objects, one per connection          *)
  finalises,      (* POST /transcription/finalise, one per clip            *)
  resets,         (* POST /transcription/reset requests under way          *)
  calm            (* no fault has happened: read by properties only        *)

Clips == 1..MaxClip
OtherJobs == {"other"} \X (1..Others)
Jobs == ({"window", "final"} \X Clips) \cup OtherJobs

ASSUME CallsAssumption == Calls = Jobs

vars == <<clips, handlers, session, entries, finalises, resets, calm, poolVars>>

(* A step that is a fault under the given condition. *)
Noting(kind, condition) ==
  /\ condition => kind \in Faults
  /\ calm' = (calm /\ ~condition)

-----------------------------------------------------------------------------
(* SessionEntry and the overlap of windows.  Definitions named Bad... are
   slips the code could contain; no action uses one. *)

FreshEntry == [pcm |-> <<>>, overlap |-> <<>>, start |-> 0, until |-> 0]

Silent(pcm) == \A i \in 1..Len(pcm) : pcm[i].kind = "silence"

(* append_pcm: what does not fit is dropped. *)
AppendPcm(e, chunk) ==
  [e EXCEPT !.pcm = IF Len(@) < MaxBuffer THEN Append(@, chunk) ELSE @]

BadFull(e) == Len(e.pcm) > Window
Full(e) == Len(e.pcm) >= Window

(* The words Whisper hears in a buffer that is taken to begin at time start. *)
Heard(buffer, start) ==
  {[clip |-> buffer[i].clip, at |-> buffer[i].at, begin |-> start + i - 1,
    end |-> start + i] : i \in {j \in 1..Len(buffer) : buffer[j].kind = "word"}}

(* Words of the overlap have been emitted before. *)
BadNewWords(e, heard) == heard
NewWords(e, heard) == {w \in heard : w.end > e.until}

(* The audio to repeat begins with the last OverlapWords words heard. *)
OverlapBegin(heard) ==
  Min({w.begin : w \in {u \in heard :
         Cardinality({v \in heard : v.begin > u.begin}) < OverlapWords}})

(* The entry after inference on a combined buffer.  The times are those of
   the entry when the answer comes, not when the buffer was taken. *)
Transcribed(e, combined, heard) ==
  IF heard = {} THEN e
  ELSE LET new == NewWords(e, heard) IN
       [e EXCEPT
          !.until   = IF new = {} THEN @ ELSE Max({w.end : w \in new}),
          !.overlap = SubSeq(combined, OverlapBegin(heard) - e.start + 1,
                             Len(combined)),
          !.start   = OverlapBegin(heard)]

(* After the final dispatch. *)
ClearOverlap(es, k) == [es EXCEPT ![k].overlap = <<>>, ![k].start = 0]

-----------------------------------------------------------------------------
(* ClipSession. *)

(* words holds what each transcript brought, as a set of words: their order is
   that of their times.  said is the times at which a word was spoken; nothing
   reads it but properties. *)
NewClip == [conn |-> "none", spoken |-> 0, said |-> {}, inbox |-> <<>>,
            words |-> <<>>, flushed |-> FALSE, final |-> FALSE]

Latest(c) == clips[c].conn # "none" /\ (c < MaxClip => clips[c + 1].conn = "none")
Resolved(c) == clips[c].flushed /\ clips[c].final

(* A transcript that reaches a ClipSession; on a closed connection it is
   lost. *)
Send(k, words, isFinal) ==
  clips' = IF clips[k].conn = "open"
           THEN [clips EXCEPT ![k].words = IF words = {} THEN @ ELSE Append(@, words),
                              ![k].final = @ \/ isFinal]
           ELSE clips

(* onAudio: forwarded, or queued until the connection is open. *)
Speak(c) ==
  /\ Latest(c)
  /\ clips[c].conn \in {"connecting", "open"}
  /\ clips[c].spoken < MaxChunks
  /\ \E kind \in Kinds :
       LET now == clips[c].spoken + 1 IN
       clips' = [clips EXCEPT
         ![c].spoken = now,
         ![c].said = IF kind = "word" THEN @ \cup {now} ELSE @,
         ![c].inbox = Append(@, [clip |-> c, at |-> now, kind |-> kind])]
  /\ Noting("stray", clips[c].flushed)
  /\ UNCHANGED <<handlers, session, entries, finalises, resets, poolVars>>

(* flush(): the request goes its own way, past what is on the WebSocket. *)
Flush(c) ==
  /\ Latest(c)
  /\ ~clips[c].flushed
  /\ clips' = [clips EXCEPT ![c].flushed = TRUE]
  /\ finalises' = [finalises EXCEPT ![c].phase = "sent"]
  /\ UNCHANGED <<handlers, session, entries, resets, calm, poolVars>>

(* A new ClipSession takes over: close() of the old one, of which nothing but
   what is on its WebSocket matters any more, and the constructor. *)
Replace(c) ==
  clips' = [clips EXCEPT
    ![c] = [NewClip EXCEPT !.conn = "closed", !.inbox = clips[c].inbox],
    ![c + 1].conn = "connecting"]

(* Coordinator.resetSession, when flushSession has its window or gives up. *)
NextClip(c) ==
  /\ Latest(c)
  /\ c < MaxClip
  /\ clips[c].flushed
  /\ Replace(c)
  /\ resets' = resets + 1
  /\ Noting("impatient", ~Resolved(c))
  /\ UNCHANGED <<handlers, session, entries, finalises, poolVars>>

(* deregisterSession and, later, registerSession. *)
Return(c) ==
  /\ Latest(c)
  /\ c < MaxClip
  /\ Replace(c)
  /\ Noting("returned", TRUE)
  /\ UNCHANGED <<handlers, session, entries, finalises, resets, poolVars>>

-----------------------------------------------------------------------------
(* The WebSocket handler. *)

Idle == [phase |-> "none", entry |-> 0, combined |-> <<>>]
Gone == [Idle EXCEPT !.phase = "gone"]
Receiving == [Idle EXCEPT !.phase = "receiving"]

(* The handshake, and open_session: an entry that is there is replaced. *)
Accept(c) ==
  /\ ~stuck
  /\ handlers[c] = Idle
  /\ clips[c].conn = "connecting"
  /\ clips' = [clips EXCEPT ![c].conn = "open"]
  /\ handlers' = [handlers EXCEPT ![c] = Receiving]
  /\ session' = c
  /\ entries' = [entries EXCEPT ![c] = FreshEntry]
  /\ Noting("late_close", \E d \in Clips \ {c} : handlers[d] \notin {Idle, Gone})
  /\ UNCHANGED <<finalises, resets, poolVars>>

(* on_audio_chunk, up to the wait for the pool if a window is full.  The
   chunk goes to the session's entry, whichever connection it came by. *)
Receive(c) ==
  LET chunk == Head(clips[c].inbox)
      e     == AppendPcm(entries[session], chunk)
  IN
    /\ ~stuck
    /\ handlers[c] = Receiving
    /\ clips[c].inbox # <<>>
    /\ clips' = [clips EXCEPT ![c].inbox = Tail(@)]
    /\ \/ /\ session = 0
          /\ UNCHANGED <<handlers, entries, poolVars>>
       \/ /\ session # 0
          /\ ~Full(e)
          /\ entries' = [entries EXCEPT ![session] = e]
          /\ UNCHANGED <<handlers, poolVars>>
       \/ /\ session # 0
          /\ Full(e)
          /\ entries' = [entries EXCEPT ![session].pcm = <<>>]
          /\ \/ /\ Silent(e.pcm)
                /\ UNCHANGED <<handlers, poolVars>>
             \/ /\ ~Silent(e.pcm)
                /\ handlers' = [handlers EXCEPT ![c] =
                     [phase |-> "window", entry |-> session,
                      combined |-> e.overlap \o e.pcm]]
                /\ Transcribe(<<"window", c>>)
    /\ UNCHANGED <<session, finalises, resets, calm>>

(* Inference on a window is over; a failure counts as no words. *)
WindowAnswered(c) ==
  LET h     == handlers[c]
      heard == Heard(h.combined, entries[h.entry].start)
  IN
    /\ h.phase = "window"
    /\ \E ok \in BOOLEAN :
         /\ Finish(<<"window", c>>, ok)
         /\ Noting("failed", ~ok)
         /\ \/ /\ ok
               /\ entries' = [entries EXCEPT ![h.entry] =
                                Transcribed(@, h.combined, heard)]
               /\ Send(h.entry, NewWords(entries[h.entry], heard), FALSE)
            \/ /\ ~ok
               /\ UNCHANGED <<entries, clips>>
    /\ handlers' = [handlers EXCEPT ![c] = Receiving]
    /\ UNCHANGED <<session, finalises, resets>>

BadCloseSession == session
(* close_session forgets the session's entry, whosever it is by now. *)
CloseSession == 0

(* The handler leaves its loop when it finds the connection closed, or has
   waited too long; what was still to be read is lost. *)
Disconnect(c) ==
  /\ ~stuck
  /\ handlers[c] = Receiving
  /\ clips' = [clips EXCEPT ![c].conn = "closed", ![c].inbox = <<>>]
  /\ Noting("silent_line", clips[c].conn # "closed")
  /\ handlers' = [handlers EXCEPT ![c] = Gone]
  /\ session' = CloseSession
  /\ UNCHANGED <<entries, finalises, resets, poolVars>>

-----------------------------------------------------------------------------
(* The routes. *)

(* The end of finalise: whatever entry the session has now, the final
   transcript goes there. *)
Conclude(c, es, words) ==
  /\ finalises' = [finalises EXCEPT ![c] = [Idle EXCEPT !.phase = "done"]]
  /\ \/ /\ session = 0
        /\ entries' = es
        /\ UNCHANGED clips
     \/ /\ session # 0
        /\ entries' = ClearOverlap(es, session)
        /\ Send(session, words, TRUE)

(* POST /transcription/finalise, up to the wait for the pool, if any. *)
FinaliseArrives(c) ==
  LET e        == entries[session]
      combined == e.overlap \o e.pcm
      taken    == [entries EXCEPT ![session].pcm = <<>>]
  IN
    /\ ~stuck
    /\ finalises[c].phase = "sent"
    /\ Noting("overtaken", handlers[c] # Receiving \/ clips[c].inbox # <<>>)
    /\ \/ /\ session = 0
          /\ finalises' = [finalises EXCEPT ![c].phase = "done"]
          /\ UNCHANGED <<clips, entries, poolVars>>
       \/ /\ session # 0
          /\ e.pcm = <<>> \/ Silent(combined)
          /\ Conclude(c, taken, {})
          /\ UNCHANGED poolVars
       \/ /\ session # 0
          /\ e.pcm # <<>> /\ ~Silent(combined)
          /\ entries' = taken
          /\ finalises' = [finalises EXCEPT ![c] =
               [phase |-> "pool", entry |-> session, combined |-> combined]]
          /\ Transcribe(<<"final", c>>)
          /\ UNCHANGED clips
    /\ UNCHANGED <<handlers, session, resets>>

FinaliseAnswered(c) ==
  LET f     == finalises[c]
      heard == Heard(f.combined, entries[f.entry].start)
  IN
    /\ f.phase = "pool"
    /\ \E ok \in BOOLEAN :
         /\ Finish(<<"final", c>>, ok)
         /\ Noting("failed", ~ok)
         /\ IF ok
            THEN Conclude(c, [entries EXCEPT ![f.entry] =
                                Transcribed(@, f.combined, heard)],
                          NewWords(entries[f.entry], heard))
            ELSE Conclude(c, entries, {})
    /\ UNCHANGED <<handlers, session, resets>>

(* POST /transcription/reset *)
ResetArrives ==
  /\ ~stuck
  /\ resets > 0
  /\ resets' = resets - 1
  /\ \/ /\ session = 0
        /\ UNCHANGED <<entries, calm>>
     \/ /\ session # 0
        /\ entries' = [entries EXCEPT ![session] = FreshEntry]
        /\ Noting("late_reset", /\ clips[session].conn = "open"
                                /\ \/ handlers[session].phase = "window"
                                   \/ entries[session] # FreshEntry)
  /\ UNCHANGED <<clips, handlers, session, finalises, poolVars>>

(* The event loop goes on with a call that was handed a permit. *)
Resume(job) ==
  /\ PoolResume(job)
  /\ UNCHANGED <<clips, handlers, session, entries, finalises, resets, calm>>

(* What other sessions do to the pool.  That their inference fails is no fault
   of this session. *)
OtherAsks(job) ==
  /\ Transcribe(job)
  /\ UNCHANGED <<clips, handlers, session, entries, finalises, resets, calm>>

OtherAnswered(job) ==
  /\ \E ok \in BOOLEAN :
       /\ ~ok => "failed" \in Faults
       /\ Finish(job, ok)
  /\ UNCHANGED <<clips, handlers, session, entries, finalises, resets, calm>>

-----------------------------------------------------------------------------

Init ==
  /\ clips = [c \in Clips |-> IF c = 1 THEN [NewClip EXCEPT !.conn = "connecting"]
                              ELSE NewClip]
  /\ handlers = [c \in Clips |-> Idle]
  /\ session = 0
  /\ entries = [c \in Clips |-> FreshEntry]
  /\ finalises = [c \in Clips |-> Idle]
  /\ resets = 0
  /\ calm = TRUE
  /\ PoolInit

Next ==
  \/ \E c \in Clips :
       \/ Speak(c) \/ Flush(c) \/ NextClip(c) \/ Return(c)
       \/ Accept(c) \/ Receive(c) \/ WindowAnswered(c) \/ Disconnect(c)
       \/ FinaliseArrives(c) \/ FinaliseAnswered(c)
  \/ ResetArrives
  \/ \E job \in Jobs : Resume(job)
  \/ \E job \in OtherJobs : OtherAsks(job) \/ OtherAnswered(job)

Spec == Init /\ [][Next]_vars

(* Requests arrive, inference comes to an end, and the event loop goes on with
   whoever was handed a permit.  Nothing is assumed of the app. *)
Fairness ==
  /\ \A c \in Clips : /\ WF_vars(FinaliseArrives(c))
                      /\ WF_vars(WindowAnswered(c))
                      /\ WF_vars(FinaliseAnswered(c))
  /\ \A job \in Jobs : WF_vars(Resume(job))
  /\ \A job \in OtherJobs : WF_vars(OtherAnswered(job))

FairSpec == Spec /\ Fairness

-----------------------------------------------------------------------------
(* Properties. *)

(* In a session that nothing disturbs a ClipSession gets the words of its clip
   in order, each of them once although windows overlap, with times that
   advance; and all of them by the time the final transcript is there. *)
TranscriptFaithful ==
  calm =>
    \A c \in Clips :
      LET words   == clips[c].words
          emitted == {w.at : w \in UNION {words[i] : i \in 1..Len(words)}}
      IN /\ \A i \in 1..Len(words) : \A w \in words[i] : w.clip = c
         /\ \A i, j \in 1..Len(words) : \A v \in words[i], w \in words[j] :
              /\ i < j => v.at < w.at
              /\ v.at < w.at <=> v.end < w.end
              /\ i = j /\ v.at = w.at => v = w
         /\ emitted \subseteq clips[c].said
         /\ \A t \in clips[c].said, u \in emitted : t < u => t \in emitted
         /\ clips[c].final => emitted = clips[c].said

(* Whatever happens, an entry in the store belongs to a connection whose
   handler is still there to remove it: no entry outlives its connection. *)
NoLeakedEntry ==
  session # 0 => handlers[session].phase \in {"receiving", "window"}

(* Whatever happens, less than a window of audio is kept between two steps:
   it is never the cap that bounds a buffer. *)
BufferStaysShort == \A c \in Clips : Len(entries[c].pcm) < Window

(* A finalise request is answered, whatever else happens, unless the pool
   blocks the event loop. *)
FinaliseAnswers ==
  \A c \in Clips :
    (finalises[c].phase \in {"sent", "pool"}) ~>
      (finalises[c].phase = "done" \/ stuck)

(* transcription/README.md: inference runs in a ThreadPoolExecutor "so the
   event loop is never blocked". *)
EventLoopNeverBlocked == ~stuck

=============================================================================
