------------------------------ MODULE Recording ------------------------------
(***************************************************************************)
(* What becomes of the sound of a clip in the browser: the worklet that    *)
(* collects it (client/src/worklets/pcm-processor.ts), CaptureSession,     *)
(* which makes chunks of two seconds of it (capture.ts), the channel they  *)
(* go through, and the audio loop that SessionHandler runs for each clip.  *)
(*                                                                         *)
(* Chunks are cut from when the capture starts, not from when a clip does: *)
(* one is sent with the clip that runs when it is complete.  Sound is      *)
(* counted in pieces, numbered as they are recorded; what is computed of   *)
(* them (resampling, MFCCs, base64) is left out.  A loop does not wait but *)
(* for the next chunk, so the queues of its channel stay empty.            *)
(***************************************************************************)
EXTENDS Integers, Sequences, Functions

CONSTANTS
  Length,         (* the pieces of a chunk                                 *)
  MaxPieces,      (* bound: pieces recorded                                *)
  MaxClips        (* bound: clips played                                   *)

(* What the constants are.  Nothing else is assumed of them. *)
RecordingAssumption ==
  Length \in Nat \ {0} /\ MaxPieces \in Nat /\ MaxClips \in Nat

VARIABLES
  running,        (* CaptureSession.running                                *)
  recorded,       (* the pieces recorded so far                            *)
  buffer,         (* PcmProcessor.buffer: its pieces                       *)
  port,           (* the chunk the worklet has posted, or none             *)
  active,         (* SessionHandler._state is "active"                     *)
  loopsCancelled,
  loops,          (* audio loops that wait for a chunk                     *)
  spans,          (* [clips -> the pieces recorded while it was active, and
                     whether the player has answered it]                   *)
  sent            (* [clips -> the chunks sent while it was]               *)

captureVars == <<running, recorded, buffer, port>>
handlerVars == <<active, loopsCancelled, loops, spans, sent>>
vars == <<captureVars, handlerVars>>

Clip == Len(sent)

Init ==
  /\ running = FALSE /\ recorded = 0 /\ buffer = <<>> /\ port = <<>>
  /\ active = FALSE /\ loopsCancelled = FALSE /\ loops = 0
  /\ spans = <<>> /\ sent = <<>>

-----------------------------------------------------------------------------
(* Capture. *)

Start ==
  /\ ~running /\ ~active
  /\ running' = TRUE
  /\ UNCHANGED <<recorded, buffer, port, handlerVars>>

(* process(): a full buffer is posted, and filled anew. *)
Record ==
  LET filled == Append(buffer, recorded + 1) IN
    /\ running /\ recorded < MaxPieces
    /\ port = <<>>
    /\ recorded' = recorded + 1
    /\ IF Len(filled) = Length THEN buffer' = <<>> /\ port' = filled
                               ELSE buffer' = filled /\ UNCHANGED port
    /\ spans' = IF active THEN [spans EXCEPT ![Clip].to = recorded + 1] ELSE spans
    /\ UNCHANGED <<running, active, loopsCancelled, loops, sent>>

(* AudioChunk: the sound of one, sent once by each loop that waits. *)
Copies(chunk) == [k \in 1..loops |-> chunk]

(* The worklet's message: a chunk goes to every loop, which ends or sends it
   and waits for the next one.  It arrives before more sound is recorded. *)
Receive ==
  /\ port # <<>>
  /\ port' = <<>>
  /\ IF loopsCancelled \/ ~active
     THEN loops' = 0 /\ UNCHANGED sent
     ELSE sent' = [sent EXCEPT ![Clip] = @ \o Copies(port)] /\ UNCHANGED loops
  /\ UNCHANGED <<running, recorded, buffer, active, loopsCancelled, spans>>

-----------------------------------------------------------------------------
(* The clips. *)

(* _startClip(): whatever loops still wait, one more. *)
StartClip ==
  /\ running /\ ~active
  /\ Clip < MaxClips
  /\ active' = TRUE /\ loopsCancelled' = FALSE
  /\ loops' = loops + 1
  /\ spans' = Append(spans, [from |-> recorded + 1, to |-> recorded, answered |-> FALSE])
  /\ sent' = Append(sent, <<>>)
  /\ UNCHANGED captureVars

(* sendClipEnded(). *)
EndClip ==
  /\ active
  /\ active' = FALSE /\ loopsCancelled' = TRUE
  /\ spans' = [spans EXCEPT ![Clip].answered = TRUE]
  /\ UNCHANGED <<captureVars, loops, sent>>

(* The scenario is over, or the player leaves it: CaptureSession.stop().  What
   the worklet has not posted is gone with it, and what it has posted finds a
   channel without readers. *)
Leave ==
  /\ running
  /\ running' = FALSE /\ buffer' = <<>> /\ port' = <<>>
  /\ active' = FALSE /\ loopsCancelled' = TRUE /\ loops' = 0
  /\ UNCHANGED <<recorded, spans, sent>>

Next == Start \/ Record \/ Receive \/ StartClip \/ EndClip \/ Leave

Spec == Init /\ [][Next]_vars

-----------------------------------------------------------------------------
(* Properties. *)

Carriers(c, piece) == {i \in DOMAIN sent[c] : piece \in Range(sent[c][i])}

(* What is recorded while a clip is active is sent with it, in its order, but
   for the end: less than a chunk, or the one that was just complete.  And
   what is sent with a clip was complete no earlier than it began: no sound of
   the clip before, or of the session before, but what shares a chunk with
   it.  How often it is sent is SentOnce. *)
SoundBelongs ==
  \A c \in 1..Clip :
    /\ \A piece \in spans[c].from..(spans[c].to - Length) : Carriers(c, piece) # {}
    /\ \A i, j \in DOMAIN sent[c] : i < j => sent[c][i][Length] <= sent[c][j][Length]
    /\ \A i \in DOMAIN sent[c] :
         sent[c][i][Length] \in (spans[c].from - 1)..spans[c].to

(* session-handler.ts:92 and 224-225: cancelling stops the loops that run.
   Then no chunk is sent by two of them.  It is not so: a loop learns of it
   with the next chunk, and a clip that starts before has taken it back. *)
SentOnce == \A c \in 1..Clip : \A i, j \in DOMAIN sent[c] : sent[c][i] = sent[c][j] => i = j

(* shared/types.ts:601: a window covers the complete response to its clip.
   Then all that was recorded during a clip that was answered has been sent
   with it when the next one begins. *)
ResponseComplete ==
  \A c \in 1..(Clip - 1) :
    spans[c].answered => \A piece \in spans[c].from..spans[c].to : Carriers(c, piece) # {}

=============================================================================
