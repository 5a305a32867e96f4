---------------------------- MODULE ClientProofs ----------------------------
(***************************************************************************)
(* Proofs about Client: the two ends of a connection agree, and so do      *)
(* their histories, as long as the messages are not disturbed, and the     *)
(* camera's frames are sent once.                                          *)
(*                                                                         *)
(* SessionInv says, for every connection, how far the session has come:    *)
(* what each side has as its state, what is under way between them, and    *)
(* how the two are explained by it (Arriving until the socket is open,     *)
(* Phase while it is).  A step of either side moves one connection from    *)
(* one phase to another (OpenStep) and leaves the others (Elsewhere).      *)
(* Channels are described by what they hold besides messages that change   *)
(* nothing: nothing (Only), one message (One), or two in order (Two); a    *)
(* clip that was preloaded may be answered anywhere between them.          *)
(*                                                                         *)
(* And about Recording (the last part): the sound of the microphone        *)
(* belongs to the clip it is sent with.  MicInv says that what is recorded *)
(* and not sent is in the worklet or on its way, in whole chunks that      *)
(* follow each other.                                                      *)
(***************************************************************************)
EXTENDS Client, TLAPS

(* Requests that choose a scenario. *)
Opening == [type : {"request_clip"}, clip : Entries, activate : {TRUE}]

(* A channel that holds messages of X, and besides them one or two others. *)
Only(q, X) == \A i \in 1..Len(q) : q[i] \in X
One(q, X, m) ==
  \E i \in 1..Len(q) : q[i] = m /\ \A k \in 1..Len(q) : k = i \/ q[k] \in X
Two(q, X, a, b) ==
  \E i, j \in 1..Len(q) : /\ i < j /\ q[i] = a /\ q[j] = b
                          /\ \A k \in 1..Len(q) : k \in {i, j} \/ q[k] \in X

(* One session at a time. *)
OneSession ==
  /\ state = "idle" => sessionId = NoId /\ \A n \in Ids : link[n] \in Over
  /\ sessionId = NoId => transport = NoId /\ history = <<>>
  /\ transport # NoId => transport = sessionId
  /\ \A m, n \in Ids : link[m] \in Over \/ link[n] \in Over \/ m = n
  /\ \A n \in Ids :
       /\ link[n] \in {"asked", "created", "queued", "refused"} => sessionId = NoId
       /\ link[n] \in {"opening", "accepted", "failed"} => sessionId = n /\ transport = NoId
       /\ link[n] \in {"open", "lost"} => transport = n

-----------------------------------------------------------------------------
(* Where a connection is. *)

(* On the way to the scenarios. *)
Fresh(n) ==
  /\ history = <<>>
  /\ server[n].turns = <<>> /\ server[n].step = "idle"

Direct(n) == state = "connecting" /\ server[n].state = "CONNECTING"
InQueue(n) == state = "queued" /\ server[n].state = "QUEUED"
Empty(n) == up[n] = <<>> /\ down[n] = <<>>

Called(n) ==
  /\ state = "queued" /\ server[n].state = "CONNECTING"
  /\ up[n] = <<>> /\ down[n] = <<Ready>>

Arriving(n) ==
  /\ Fresh(n)
  /\ link[n] # "accepted" => Empty(n)
  /\ link[n] = "asked" => state = "connecting" /\ server[n] = NoSession
  /\ link[n] = "created" => Direct(n)
  /\ link[n] = "queued" =>
       state = "connecting" /\ server[n].state = "QUEUED" /\ ~server[n].told
  /\ link[n] = "refused" => state = "connecting" /\ server[n].state = "none"
  /\ link[n] = "failed" => state \in {"connecting", "queued"}
  /\ link[n] = "opening" => Direct(n) \/ (InQueue(n) /\ ~server[n].told)
  /\ link[n] = "accepted" => \/ (Direct(n) \/ (InQueue(n) /\ server[n].told)) /\ Empty(n)
                             \/ Called(n)

Waiting(n) == Fresh(n) /\ Empty(n) /\ InQueue(n) /\ server[n].told

Greeting(n) ==
  /\ Fresh(n) /\ Direct(n)
  /\ \/ up[n] = <<GetScenarios>> /\ down[n] = <<>>
     \/ up[n] = <<>> /\ down[n] = <<List>>

Choosing(n) ==
  /\ Fresh(n)
  /\ state = "selecting" /\ server[n].state = "CONNECTING"
  /\ Only(up[n], Opening) /\ down[n] = <<>>
  /\ up[n] # <<>> => scenarioChosen

Entering(n) ==
  /\ Fresh(n)
  /\ state = "selecting" /\ server[n].state = "ACTIVE" /\ server[n].clip \in Clips
  /\ scenarioChosen
  /\ Only(up[n], Opening) /\ One(down[n], {Failure}, Data(server[n].clip))

(* The clips. *)
Reaches(n, clip) ==
  \/ /\ server[n].step = "idle"
     /\ IF clip = None THEN server[n].state = "COMPLETED"
                       ELSE server[n].state = "ACTIVE" /\ server[n].clip = clip
  \/ server[n].step = "resetting" /\ server[n].state = "PAUSED" /\ server[n].next = clip

InPlay == scenarioChosen /\ currentClip \in Clips

Watching(n) ==
  /\ state = "active" /\ InPlay
  /\ Only(up[n], Requests) /\ Only(down[n], Answers)
  /\ history = server[n].turns
  /\ Reaches(n, currentClip)

Answered(n) ==
  /\ state = "paused" /\ InPlay
  /\ One(up[n], Requests, EndOf(currentClip)) /\ Only(down[n], Answers)
  /\ history = server[n].turns
  /\ server[n].step = "idle" /\ server[n].state = "ACTIVE" /\ server[n].clip = currentClip

Judging(n) ==
  /\ state = "paused" /\ InPlay
  /\ Only(up[n], Requests)
  /\ \/ One(down[n], Answers, Announced(currentClip))
     \/ Only(down[n], Answers) /\ lastCandidates = Candidates(currentClip)
  /\ history = server[n].turns
  /\ server[n].step = "flushing" /\ server[n].state = "PAUSED" /\ server[n].clip = currentClip

Judged(n) ==
  /\ state = "paused" /\ InPlay
  /\ Only(up[n], Requests)
  /\ \E next \in Leads[currentClip] :
       /\ server[n].turns = Append(history, Entry(next))
       /\ Reaches(n, next)
       /\ \/ Two(down[n], Answers, Announced(currentClip), Verdict(next))
          \/ One(down[n], Answers, Verdict(next)) /\ lastCandidates = Candidates(currentClip)

Finished(n) ==
  /\ state = "completed"
  /\ Only(up[n], Requests) /\ Only(down[n], Answers)
  /\ history = server[n].turns
  /\ Reaches(n, None)

Phase(n) ==
  \/ Waiting(n) \/ (Fresh(n) /\ Called(n)) \/ Greeting(n) \/ Choosing(n) \/ Entering(n)
  \/ Watching(n) \/ Answered(n) \/ Judging(n) \/ Judged(n) \/ Finished(n)

Stage(n) ==
  /\ link[n] = "none" => server[n] = NoSession /\ Empty(n)
  /\ link[n] \in Waits => Arriving(n)
  /\ link[n] = "open" => Phase(n)

(* Faults that only the camera and the microphone feel. *)
Harmless == {"double_click"}

SessionInv ==
  /\ TypeOK
  /\ OneSession
  /\ HistoryAgrees
  /\ \A n \in Ids : Stage(n)

(* Camera and microphone: loops wait for a camera that is on, and that is
   while a scenario is chosen or runs. *)
Before == {"idle", "connecting", "queued", "selecting"}
Off == {"idle", "connecting", "queued", "completed", "error"}

Devices ==
  /\ running \in BOOLEAN
  /\ starting \in {0, 1} /\ (starting = 1 => ~running)
  /\ (running => feeds = 1) /\ (~running => feeds = 0)
  /\ loops \subseteq Loops /\ (loops # {} => running)
  /\ state \in Before => loops = {}
  /\ state \in Off => ~running /\ starting = 0

Filmed(n) ==
  link[n] = "open" =>
    /\ state \in {"active", "paused"} => running
    /\ Choosing(n) /\ up[n] # <<>> => running
    /\ Entering(n) => running

OneCamera == Devices /\ \A n \in Ids : Filmed(n)

-----------------------------------------------------------------------------
(* Channels. *)

(* A message put at the end. *)
LEMMA AppendAt ==
  ASSUME NEW S, NEW q \in Seq(S), NEW m \in S
  PROVE  /\ Append(q, m) \in Seq(S)
         /\ Len(Append(q, m)) = Len(q) + 1
         /\ Append(q, m)[Len(q) + 1] = m
         /\ \A i \in 1..Len(q) : Append(q, m)[i] = q[i]
  OBVIOUS

(* A message taken from the front. *)
LEMMA TailAt ==
  ASSUME NEW S, NEW q \in Seq(S), q # <<>>
  PROVE  /\ Head(q) = q[1] /\ Head(q) \in S
         /\ Tail(q) \in Seq(S)
         /\ Len(q) \in Nat \ {0} /\ Len(Tail(q)) = Len(q) - 1
         /\ \A i \in 1..Len(Tail(q)) : Tail(q)[i] = q[i + 1]
  OBVIOUS

(* What is put at the end is the one message, or one more of no account. *)
LEMMA OnlyAppend ==
  ASSUME NEW S, NEW q \in Seq(S), NEW m \in S, NEW X, Only(q, X)
  PROVE  /\ m \in X => Only(Append(q, m), X)
         /\ One(Append(q, m), X, m)
<1>1. \A i \in 1..Len(q) + 1 : i = Len(q) + 1 \/ i \in 1..Len(q)
  OBVIOUS
<1> QED
  BY <1>1, AppendAt DEF Only, One

(* What is left of such a channel. *)
LEMMA OnlyTail ==
  ASSUME NEW S, NEW q \in Seq(S), q # <<>>, NEW X, Only(q, X)
  PROVE  Head(q) \in X /\ Only(Tail(q), X)
BY TailAt DEF Only

(* The same for a channel that holds one message. *)
LEMMA OneAppend ==
  ASSUME NEW S, NEW q \in Seq(S), NEW m \in S, NEW X, NEW a, One(q, X, a)
  PROVE  /\ m \in X => One(Append(q, m), X, a)
         /\ Two(Append(q, m), X, a, m)
<1>1. PICK i \in 1..Len(q) : q[i] = a /\ \A k \in 1..Len(q) : k = i \/ q[k] \in X
  BY DEF One
<1>2. i \in 1..Len(q) + 1 /\ i < Len(q) + 1 /\ Len(q) + 1 \in 1..Len(q) + 1
  OBVIOUS
<1>3. \A k \in 1..Len(q) + 1 : k = Len(q) + 1 \/ k \in 1..Len(q)
  OBVIOUS
<1>4. /\ Append(q, m)[i] = a
      /\ \A k \in 1..Len(q) + 1 : k \in {i, Len(q) + 1} \/ Append(q, m)[k] \in X
  BY <1>1, <1>3, AppendAt
<1>5. ASSUME m \in X PROVE One(Append(q, m), X, a)
  BY <1>2, <1>4, <1>5, AppendAt DEF One
<1>6. Two(Append(q, m), X, a, m)
  BY <1>2, <1>4, AppendAt DEF Two
<1> QED
  BY <1>5, <1>6

(* Its front is the message, or one of no account. *)
LEMMA OneTail ==
  ASSUME NEW S, NEW q \in Seq(S), q # <<>>, NEW X, NEW a, One(q, X, a)
  PROVE  \/ Head(q) = a /\ Only(Tail(q), X)
         \/ Head(q) \in X /\ One(Tail(q), X, a)
<1>1. PICK i \in 1..Len(q) : q[i] = a /\ \A k \in 1..Len(q) : k = i \/ q[k] \in X
  BY DEF One
<1>2. CASE i = 1
  BY <1>1, <1>2, TailAt DEF Only
<1>3. CASE i # 1
  <2>1. i - 1 \in 1..Len(Tail(q)) /\ Tail(q)[i - 1] = a
    BY <1>1, <1>3, TailAt
  <2>2. \A k \in 1..Len(Tail(q)) : k = i - 1 \/ Tail(q)[k] \in X
    BY <1>1, TailAt
  <2> QED
    BY <1>1, <1>3, <2>1, <2>2, TailAt DEF One
<1> QED
  BY <1>2, <1>3

(* The same for two messages. *)
LEMMA TwoAppend ==
  ASSUME NEW S, NEW q \in Seq(S), NEW X, NEW m \in S, m \in X, NEW a, NEW b, Two(q, X, a, b)
  PROVE  Two(Append(q, m), X, a, b)
<1>1. PICK i, j \in 1..Len(q) :
        i < j /\ q[i] = a /\ q[j] = b /\ \A k \in 1..Len(q) : k \in {i, j} \/ q[k] \in X
  BY DEF Two
<1>2. \A k \in 1..Len(q) + 1 : k = Len(q) + 1 \/ k \in 1..Len(q)
  OBVIOUS
<1>3. i \in 1..Len(q) + 1 /\ j \in 1..Len(q) + 1
  OBVIOUS
<1> QED
  BY <1>1, <1>2, <1>3, AppendAt DEF Two

(* The first of them is taken first. *)
LEMMA TwoTail ==
  ASSUME NEW S, NEW q \in Seq(S), q # <<>>, NEW X, NEW a, NEW b, Two(q, X, a, b)
  PROVE  \/ Head(q) = a /\ One(Tail(q), X, b)
         \/ Head(q) \in X /\ Two(Tail(q), X, a, b)
<1>1. PICK i, j \in 1..Len(q) :
        i < j /\ q[i] = a /\ q[j] = b /\ \A k \in 1..Len(q) : k \in {i, j} \/ q[k] \in X
  BY DEF Two
<1>2. j - 1 \in 1..Len(Tail(q)) /\ Tail(q)[j - 1] = b
  BY <1>1, TailAt
<1>3. \A k \in 1..Len(Tail(q)) : k \in {i - 1, j - 1} \/ Tail(q)[k] \in X
  BY <1>1, TailAt
<1>4. CASE i = 1
  <2>1. \A k \in 1..Len(Tail(q)) : k = j - 1 \/ Tail(q)[k] \in X
    BY <1>3, <1>4
  <2> QED
    BY <1>1, <1>2, <1>4, <2>1, TailAt DEF One
<1>5. CASE i # 1
  <2>1. i - 1 \in 1..Len(Tail(q)) /\ Tail(q)[i - 1] = a /\ i - 1 < j - 1
    BY <1>1, <1>5, TailAt
  <2>2. Two(Tail(q), X, a, b)
    BY <1>2, <1>3, <2>1 DEF Two
  <2> QED
    BY <1>1, <1>5, <2>2, TailAt
<1> QED
  BY <1>4, <1>5

(* A channel of one message, and the empty one. *)
LEMMA FrontOfOne ==
  ASSUME NEW m
  PROVE  Head(<<m>>) = m /\ Tail(<<m>>) = <<>> /\ Append(<<>>, m) = <<m>>
<1>1. Len(Tail(<<m>>)) = 0 /\ Tail(<<m>>) \in Seq({m})
  OBVIOUS
<1> QED
  BY <1>1

(* The empty channel. *)
LEMMA OnlyEmpty == ASSUME NEW X PROVE Only(<<>>, X)
BY DEF Only

(* A message is under way. *)
LEMMA OneNotEmpty ==
  ASSUME NEW S, NEW q \in Seq(S), NEW X, NEW a, NEW b
  PROVE  (One(q, X, a) => q # <<>>) /\ (Two(q, X, a, b) => q # <<>>)
BY DEF One, Two

(* A history and itself. *)
LEMMA PrefixOfSelf == ASSUME NEW S, NEW s \in Seq(S) PROVE IsPrefix(s, s)
BY DEF IsPrefix

(* A history and its next turn. *)
LEMMA PrefixOfAppend ==
  ASSUME NEW S, NEW s \in Seq(S), NEW e \in S
  PROVE  IsPrefix(s, Append(s, e))
<1>1. Len(Append(s, e)) = Len(s) + 1
  OBVIOUS
<1>2. SubSeq(s, 1, Len(s)) = SubSeq(Append(s, e), 1, Len(s))
  OBVIOUS
<1> QED
  BY <1>1, <1>2 DEF IsPrefix

-----------------------------------------------------------------------------
(* What may be under way, by its type: what the client sends. *)
LEMMA Sent ==
  /\ GetScenarios \in ToServer /\ GetScenarios.type = "get_scenarios"
  /\ Opening \subseteq Requests /\ Requests \subseteq ToServer
  /\ \A m \in Requests : m.type = "request_clip"
  /\ \A clip \in Clips : EndOf(clip) \in ToServer /\ EndOf(clip).type = "clip_ended"
  /\ \A clip \in Clips, activate \in BOOLEAN : Request(clip, activate) \in Requests
  /\ \A clip \in Entries : Request(clip, TRUE) \in Opening
BY LeadsAssumption
   DEF GetScenarios, ToServer, Opening, Requests, EndOf, Request, Clips

(* What the app sends. *)
LEMMA Replied ==
  /\ Ready \in ToClient /\ Ready.type = "session_ready"
  /\ List \in ToClient /\ List.type = "scenarios_list"
  /\ Failure \in Answers /\ Failure.type = "error"
  /\ Answers \subseteq ToClient
  /\ \A m \in Answers : m.type \in {"error", "clip_data"}
  /\ \A clip \in Clips : Data(clip) \in Answers /\ Data(clip).type = "clip_data"
                         /\ Data(clip).clip = clip
  /\ \A clip \in Clips : /\ Announced(clip) \in ToClient
                         /\ Announced(clip).type = "clip_candidates"
                         /\ Announced(clip).clips = Candidates(clip)
  /\ \A next \in Clips \cup {None} : /\ Verdict(next) \in ToClient
                                     /\ Verdict(next).type = "clip_selected"
                                     /\ Verdict(next).clip = next
<1>1. \A clip \in Clips : /\ Announced(clip) \in ToClient
                         /\ Announced(clip).type = "clip_candidates"
                         /\ Announced(clip).clips = Candidates(clip)
  BY DEF ToClient, Announced
<1>2. \A next \in Clips \cup {None} : /\ Verdict(next) \in ToClient
                                     /\ Verdict(next).type = "clip_selected"
                                     /\ Verdict(next).clip = next
  BY DEF ToClient, Verdict
<1>3. /\ Ready \in ToClient /\ Ready.type = "session_ready"
      /\ List \in ToClient /\ List.type = "scenarios_list"
      /\ Answers \subseteq ToClient
  BY DEF Ready, List, ToClient
<1>4. /\ Failure \in Answers /\ Failure.type = "error"
      /\ \A clip \in Clips : Data(clip) \in Answers
  BY DEF Failure, Answers
<1>5. \A clip \in Clips : Data(clip).type = "clip_data" /\ Data(clip).clip = clip
  BY DEF Data
<1>6. \A m \in Answers : m.type \in {"error", "clip_data"}
  BY <1>4, <1>5 DEF Answers
<1> QED
  BY <1>1, <1>2, <1>3, <1>4, <1>5, <1>6

(* What the client finds at the front of an open connection, and what is left
   behind it. *)
LEMMA Arrival ==
  ASSUME SessionInv, NEW n \in Ids, link[n] = "open", down[n] # <<>>
  PROVE  LET m == Head(down[n])
             rest == Tail(down[n])
         IN  \/ Fresh(n) /\ Called(n) /\ m = Ready /\ rest = <<>>
             \/ Greeting(n) /\ m = List /\ rest = <<>> /\ up[n] = <<>>
             \/ /\ Entering(n)
                /\ \/ m = Failure /\ One(rest, {Failure}, Data(server[n].clip))
                   \/ m = Data(server[n].clip) /\ Only(rest, {Failure})
             \/ (Watching(n) \/ Answered(n) \/ Finished(n)) /\ m \in Answers /\ Only(rest, Answers)
             \/ /\ Judging(n)
                /\ \/ /\ m \in Answers
                      /\ \/ One(rest, Answers, Announced(currentClip))
                         \/ Only(rest, Answers) /\ lastCandidates = Candidates(currentClip)
                   \/ m = Announced(currentClip) /\ Only(rest, Answers)
             \/ /\ Judged(n)
                /\ \E next \in Leads[currentClip] :
                     /\ server[n].turns = Append(history, Entry(next))
                     /\ Reaches(n, next)
                     /\ \/ m \in Answers /\ Two(rest, Answers, Announced(currentClip), Verdict(next))
                        \/ m = Announced(currentClip) /\ One(rest, Answers, Verdict(next))
                        \/ /\ lastCandidates = Candidates(currentClip)
                           /\ \/ m \in Answers /\ One(rest, Answers, Verdict(next))
                              \/ m = Verdict(next) /\ Only(rest, Answers)
<1> DEFINE q == down[n]
<1>1. q \in Seq(ToClient) /\ q # <<>>
  BY DEF SessionInv, TypeOK
<1>2. Phase(n)
  BY DEF SessionInv, Stage
<1>3. CASE Waiting(n) \/ Choosing(n)
  BY <1>3 DEF Waiting, Choosing, Empty
<1>4. CASE Fresh(n) /\ Called(n)
  <2>1. q = <<Ready>>
    BY <1>4 DEF Called
  <2>2. Head(q) = Ready /\ Tail(q) = <<>>
    BY <2>1, FrontOfOne, Zenon
  <2> QED
    BY <1>4, <2>2
<1>5. CASE Greeting(n)
  <2>1. up[n] = <<>> /\ q = <<List>>
    BY <1>5 DEF Greeting
  <2>2. Head(q) = List /\ Tail(q) = <<>>
    BY <2>1, FrontOfOne, Zenon
  <2> QED
    BY <1>5, <2>1, <2>2
<1>6. CASE Entering(n)
  BY <1>1, <1>6, OneTail DEF Entering
<1>7. CASE Watching(n) \/ Answered(n) \/ Finished(n)
  BY <1>1, <1>7, OnlyTail DEF Watching, Answered, Finished
<1>8. CASE Judging(n)
  BY <1>1, <1>8, OneTail, OnlyTail DEF Judging
<1>9. CASE Judged(n)
  <2>1. PICK next \in Leads[currentClip] :
          /\ server[n].turns = Append(history, Entry(next))
          /\ Reaches(n, next)
          /\ \/ Two(q, Answers, Announced(currentClip), Verdict(next))
             \/ One(q, Answers, Verdict(next)) /\ lastCandidates = Candidates(currentClip)
    BY <1>9 DEF Judged
  <2>2. CASE Two(q, Answers, Announced(currentClip), Verdict(next))
    BY <1>1, <1>9, <2>1, <2>2, TwoTail
  <2>3. CASE One(q, Answers, Verdict(next)) /\ lastCandidates = Candidates(currentClip)
    BY <1>1, <1>9, <2>1, <2>3, OneTail
  <2> QED
    BY <2>1, <2>2, <2>3
<1> QED
  BY <1>2, <1>3, <1>4, <1>5, <1>6, <1>7, <1>8, <1>9 DEF Phase

(* What the server finds at the front of a connection. *)
LEMMA Reading ==
  ASSUME SessionInv, NEW n \in Ids, Attached(n), up[n] # <<>>
  PROVE  LET m == Head(up[n])
             rest == Tail(up[n])
         IN  /\ link[n] = "open"
             /\ \/ Greeting(n) /\ m = GetScenarios /\ rest = <<>> /\ down[n] = <<>>
                \/ (Choosing(n) \/ Entering(n)) /\ m \in Opening /\ Only(rest, Opening)
                \/ /\ Watching(n) \/ Judging(n) \/ Judged(n) \/ Finished(n)
                   /\ m \in Requests /\ Only(rest, Requests)
                \/ /\ Answered(n)
                   /\ \/ m \in Requests /\ One(rest, Requests, EndOf(currentClip))
                      \/ m = EndOf(currentClip) /\ Only(rest, Requests)
<1> DEFINE q == up[n]
<1>1. q \in Seq(ToServer) /\ q # <<>>
  BY DEF SessionInv, TypeOK
<1>2. link[n] = "open" /\ Phase(n)
  BY DEF SessionInv, Stage, Attached, Arriving, Empty, Called, Waits
<1>3. ~Waiting(n) /\ ~Called(n)
  BY DEF Waiting, Called, Empty
<1>4. CASE Greeting(n)
  <2>1. down[n] = <<>> /\ q = <<GetScenarios>>
    BY <1>4 DEF Greeting
  <2>2. Head(q) = GetScenarios /\ Tail(q) = <<>>
    BY <2>1, FrontOfOne, Zenon
  <2> QED
    BY <1>2, <1>4, <2>1, <2>2
<1>5. CASE Choosing(n) \/ Entering(n)
  BY <1>1, <1>2, <1>5, OnlyTail DEF Choosing, Entering
<1>6. CASE Watching(n) \/ Judging(n) \/ Judged(n) \/ Finished(n)
  BY <1>1, <1>2, <1>6, OnlyTail DEF Watching, Judging, Judged, Finished
<1>7. CASE Answered(n)
  BY <1>1, <1>2, <1>7, OneTail DEF Answered
<1> QED
  BY <1>2, <1>3, <1>4, <1>5, <1>6, <1>7 DEF Phase

-----------------------------------------------------------------------------
(* The first state, and steps in general. *)

(* Nothing has been asked for. *)
LEMMA FirstState == Init => SessionInv
<1> SUFFICES ASSUME Init PROVE SessionInv
  OBVIOUS
<1>1. NoSession \in SessionRecords
  BY DEF NoSession, SessionRecords, SessionStates
<1>2. TypeOK
  BY <1>1 DEF Init, TypeOK, States, NoId, Over
<1>3. OneSession
  BY DEF Init, OneSession, Over
<1>4. HistoryAgrees
  BY DEF Init, HistoryAgrees
<1>5. \A n \in Ids : Stage(n)
  BY DEF Init, Stage, Empty, Waits
<1> QED
  BY <1>2, <1>3, <1>4, <1>5 DEF SessionInv

(* What SessionInv speaks of. *)
clientSide == <<state, sessionId, transport, currentClip, history, lastCandidates, scenarioChosen>>
sessionVars == <<clientSide, link, up, down, server>>

(* A connection stays where it is as long as nothing of it changes. *)
LEMMA StageUndisturbed ==
  ASSUME SessionInv, NEW n \in Ids, UNCHANGED clientSide,
         link'[n] = link[n], up'[n] = up[n], down'[n] = down[n], server'[n] = server[n]
  PROVE  Stage(n)'
<1> USE DEF clientSide
<1>1. Arriving(n)' <=> Arriving(n)
  BY DEF Arriving, Fresh, Direct, InQueue, Called, Empty
<1>2. /\ Waiting(n)' <=> Waiting(n)
      /\ (Fresh(n) /\ Called(n))' <=> Fresh(n) /\ Called(n)
      /\ Greeting(n)' <=> Greeting(n)
      /\ Choosing(n)' <=> Choosing(n)
      /\ Entering(n)' <=> Entering(n)
  BY DEF Fresh, Direct, InQueue, Called, Empty, Waiting, Greeting, Choosing, Entering
<1>3. /\ Watching(n)' <=> Watching(n)
      /\ Answered(n)' <=> Answered(n)
      /\ Judging(n)' <=> Judging(n)
      /\ Finished(n)' <=> Finished(n)
  BY DEF Watching, Answered, Judging, Finished, InPlay, Reaches
<1>4. Judged(n)' <=> Judged(n)
  BY DEF Judged, InPlay, Reaches, Entry
<1>5. Phase(n)' <=> Phase(n)
  BY <1>2, <1>3, <1>4 DEF Phase
<1> QED
  BY <1>1, <1>5 DEF SessionInv, Stage, Empty

(* Steps that SessionInv does not speak of. *)
LEMMA SessionUndisturbed == SessionInv /\ UNCHANGED sessionVars => SessionInv'
<1> SUFFICES ASSUME SessionInv, UNCHANGED sessionVars PROVE SessionInv'
  OBVIOUS
<1> USE DEF sessionVars
<1>1. TypeOK' /\ OneSession' /\ HistoryAgrees'
  BY DEF clientSide, SessionInv, TypeOK, OneSession, HistoryAgrees
<1>2. ASSUME NEW n \in Ids PROVE Stage(n)'
  BY StageUndisturbed
<1> QED
  BY <1>1, <1>2 DEF SessionInv

(* The history is that of the server, or lacks its last turn. *)
LEMMA HistoryIsPrefix ==
  ASSUME NEW h \in Seq(Turns), NEW t,
         t = h \/ \E e \in Turns : t = Append(h, e)
  PROVE  IsPrefix(h, t)
BY PrefixOfSelf, PrefixOfAppend

(* A step that moves one connection leaves the others where they were. *)
LEMMA Elsewhere ==
  ASSUME SessionInv, NEW n \in Ids, link[n] \notin Over,
         NEW k \in Ids \ {n}, link'[k] = link[k],
         up'[k] = up[k], down'[k] = down[k], server'[k] = server[k]
  PROVE  Stage(k)'
<1>1. link[k] \in Over
  BY DEF SessionInv, OneSession
<1> QED
  BY <1>1 DEF SessionInv, Stage, Over, Waits, Empty

(* A step of an open connection. *)
LEMMA OpenStep ==
  ASSUME SessionInv, NEW n \in Ids, link[n] = "open",
         UNCHANGED <<link, sessionId, transport>>, state' # "idle", TypeOK',
         \A k \in Ids \ {n} : up'[k] = up[k] /\ down'[k] = down[k] /\ server'[k] = server[k],
         Phase(n)'
  PROVE  SessionInv'
<1> USE DEF SessionInv
<1>1. sessionId = n /\ transport = n /\ n # NoId
  BY DEF OneSession, TypeOK, Ids, NoId
<1>2. OneSession'
  BY <1>1 DEF OneSession, Over
<1>3. server'[n].turns = history' \/ \E e \in Turns : server'[n].turns = Append(history', e)
  <2>1. CASE Judged(n)'
    <3>1. PICK next \in Leads[currentClip'] :
            server'[n].turns = Append(history', [clip |-> currentClip', next |-> next])
      BY <2>1 DEF Judged, Entry
    <3>2. [clip |-> currentClip', next |-> next] \in Turns
      BY <2>1, LeadsAssumption DEF Judged, InPlay, Turns, Clips
    <3> QED
      BY <3>1, <3>2
  <2>2. CASE ~Judged(n)'
    BY <2>2 DEF Phase, Waiting, Greeting, Choosing, Entering, Watching, Answered, Judging,
                Finished, Fresh
  <2> QED
    BY <2>1, <2>2
<1>4. HistoryAgrees'
  <2>1. history' \in Seq(Turns)
    BY DEF TypeOK
  <2> QED
    BY <1>1, <1>3, <2>1, HistoryIsPrefix DEF HistoryAgrees
<1>5. Stage(n)'
  BY DEF Stage, Waits
<1>6. \A k \in Ids \ {n} : Stage(k)'
  BY Elsewhere DEF Over
<1> QED
  BY <1>2, <1>4, <1>5, <1>6

(* The record of a session with another state, and the like. *)
LEMMA RecordWith ==
  ASSUME NEW r \in SessionRecords
  PROVE  /\ \A v \in SessionStates : [r EXCEPT !.state = v] \in SessionRecords
         /\ \A v \in Clips \cup {None} : /\ [r EXCEPT !.clip = v] \in SessionRecords
                                        /\ [r EXCEPT !.next = v] \in SessionRecords
         /\ \A v \in Seq(Turns) : [r EXCEPT !.turns = v] \in SessionRecords
         /\ \A v \in {"idle", "flushing", "resetting"} : [r EXCEPT !.step = v] \in SessionRecords
         /\ \A v \in BOOLEAN : [r EXCEPT !.told = v] \in SessionRecords
<1> USE DEF SessionRecords
<1>1. \A v \in SessionStates : [r EXCEPT !.state = v] \in SessionRecords
  OBVIOUS
<1>2. \A v \in Clips \cup {None} : /\ [r EXCEPT !.clip = v] \in SessionRecords
                                 /\ [r EXCEPT !.next = v] \in SessionRecords
  OBVIOUS
<1>3. \A v \in Seq(Turns) : [r EXCEPT !.turns = v] \in SessionRecords
  OBVIOUS
<1>4. \A v \in {"idle", "flushing", "resetting"} : [r EXCEPT !.step = v] \in SessionRecords
  OBVIOUS
<1>5. \A v \in BOOLEAN : [r EXCEPT !.told = v] \in SessionRecords
  OBVIOUS
<1> QED
  BY <1>1, <1>2, <1>3, <1>4, <1>5, Zenon

-----------------------------------------------------------------------------
(* Connecting. *)

(* connect() finds no connection that lasts, so it may start one. *)
LEMMA ConnectKeeps == ASSUME SessionInv, NEW n \in Ids, Connect(n) PROVE SessionInv'
<1> USE DEF SessionInv, Connect, pageVars, captureVars
<1>1. TypeOK'
  BY DEF TypeOK, States, Waits
<1>2. history = <<>> /\ sessionId = NoId /\ \A k \in Ids : link[k] \in Over
  BY DEF OneSession
<1>3. link' = [link EXCEPT ![n] = "asked"] /\ link'[n] = "asked"
      /\ \A k \in Ids \ {n} : link'[k] = link[k]
  BY DEF TypeOK
<1>4. OneSession' /\ HistoryAgrees'
  BY <1>2, <1>3 DEF OneSession, HistoryAgrees, Over
<1>5. server[n] = NoSession /\ Empty(n)
  BY DEF Stage
<1>6. Stage(n)'
  BY <1>2, <1>3, <1>5 DEF Stage, Arriving, Fresh, Empty, NoSession, Waits
<1>7. ASSUME NEW k \in Ids \ {n} PROVE Stage(k)'
  BY <1>2, <1>3 DEF Stage, Over, Waits, Empty
<1> QED
  BY <1>1, <1>4, <1>6, <1>7

(* The three answers to POST /session/create. *)
LEMMA CreateKeeps == ASSUME SessionInv, NEW n \in Ids, Create(n) PROVE SessionInv'
<1> USE DEF SessionInv
<1>1. PICK answer \in {"created", "queued", "refused"} :
        /\ link[n] = "asked" /\ link' = [link EXCEPT ![n] = answer]
        /\ server' = [server EXCEPT ![n].state =
             CASE answer = "created" -> "CONNECTING" [] answer = "queued" -> "QUEUED"
               [] answer = "refused" -> "none"]
        /\ UNCHANGED <<clientVars, up, down>>
  BY DEF Create
<1>2. PICK st \in {"none", "QUEUED", "CONNECTING"} :
        /\ server' = [server EXCEPT ![n].state = st]
        /\ answer = "created" => st = "CONNECTING"
        /\ answer = "queued" => st = "QUEUED"
        /\ answer = "refused" => st = "none"
  BY <1>1
<1> USE DEF clientVars, handlerVars, pageVars
<1>3. TypeOK'
  <2>1. server[n] \in SessionRecords /\ st \in SessionStates
    BY DEF TypeOK, SessionStates
  <2>2. [server[n] EXCEPT !.state = st] \in SessionRecords
    BY <2>1, RecordWith
  <2> QED
    BY <1>1, <1>2, <2>2 DEF TypeOK, Waits
<1>4. /\ link'[n] = answer /\ \A k \in Ids \ {n} : link'[k] = link[k]
      /\ server'[n] = [server[n] EXCEPT !.state = st]
      /\ \A k \in Ids \ {n} : server'[k] = server[k]
      /\ link[n] \notin Over
  BY <1>1, <1>2 DEF TypeOK, Over
<1>5. sessionId = NoId
  BY <1>1 DEF OneSession
<1>6. OneSession' /\ HistoryAgrees'
  BY <1>1, <1>4, <1>5 DEF OneSession, HistoryAgrees, Over
<1>7. Arriving(n)
  BY <1>1 DEF Stage, Waits
<1>8. Stage(n)'
  BY <1>1, <1>2, <1>4, <1>7
     DEF Stage, Arriving, Fresh, Empty, Direct, NoSession, Waits, TypeOK, SessionRecords
<1>9. ASSUME NEW k \in Ids \ {n} PROVE Stage(k)'
  BY <1>1, <1>4, Elsewhere
<1> QED
  BY <1>3, <1>6, <1>8, <1>9

(* The fetch answers the attempt that is under way, and no other. *)
LEMMA CreatedKeeps == ASSUME SessionInv, NEW n \in Ids, Created(n) PROVE SessionInv'
<1> USE DEF SessionInv, Created, pageVars
<1>1. link[n] \in {"created", "queued", "refused"} /\ link[n] \notin Over /\ link[n] \in Waits
  BY DEF Over, Waits
<1>2. Arriving(n)
  BY <1>1 DEF Stage
<1>3. /\ link'[n] = IF link[n] = "refused" THEN "closed" ELSE "opening"
      /\ \A k \in Ids \ {n} : link'[k] = link[k]
  BY DEF TypeOK
<1>4. /\ link[n] = "refused" => state' = "error" /\ sessionId' = sessionId
      /\ link[n] = "queued" => state' = "queued" /\ sessionId' = n
      /\ link[n] = "created" => state' = "connecting" /\ sessionId' = n
  BY <1>1, <1>2 DEF Arriving, Direct
<1>5. TypeOK'
  BY <1>1, <1>4 DEF TypeOK, States, Waits, Over
<1>6. sessionId = NoId /\ transport = NoId /\ history = <<>> /\ n # NoId
  BY <1>1 DEF OneSession, Ids, NoId
<1>7. OneSession'
  BY <1>1, <1>3, <1>4, <1>6 DEF OneSession, Over
<1>8. HistoryAgrees'
  BY <1>1, <1>2, <1>4, <1>6, HistoryIsPrefix
     DEF HistoryAgrees, Arriving, Fresh, TypeOK, SessionRecords
<1>9. Stage(n)'
  BY <1>1, <1>2, <1>3, <1>4 DEF Stage, Arriving, Fresh, Empty, Direct, InQueue, Waits
<1>10. ASSUME NEW k \in Ids \ {n} PROVE Stage(k)'
  BY <1>1, <1>3, Elsewhere
<1> QED
  BY <1>5, <1>7, <1>8, <1>9, <1>10

(* GET /ws/{id}: a queued session is told of its promotion from here on. *)
LEMMA AcceptKeeps == ASSUME SessionInv, NEW n \in Ids, Accept(n) PROVE SessionInv'
<1> USE DEF SessionInv, Accept, clientVars, handlerVars, pageVars
<1>1. link[n] = "opening" /\ link[n] \notin Over /\ link[n] \in Waits
  BY DEF Over, Waits
<1>2. Arriving(n) /\ sessionId = n /\ transport = NoId
  BY <1>1 DEF Stage, OneSession
<1>3. PICK l \in {"accepted", "failed"}, tell \in BOOLEAN :
        /\ link' = [link EXCEPT ![n] = l]
        /\ server' = [server EXCEPT ![n].told = tell]
        /\ l = "accepted" => tell = (server[n].told \/ server[n].state = "QUEUED")
  <2>1. CASE link' = [link EXCEPT ![n] = "failed"] /\ UNCHANGED server
    <3>1. server[n].told \in BOOLEAN /\ server' = [server EXCEPT ![n].told = server[n].told]
      BY <2>1 DEF TypeOK, SessionRecords
    <3> QED
      BY <2>1, <3>1
  <2>2. CASE /\ link' = [link EXCEPT ![n] = "accepted"]
             /\ server' = [server EXCEPT ![n].told = @ \/ server[n].state = "QUEUED"]
    BY <2>2 DEF TypeOK, SessionRecords
  <2> QED
    BY <2>1, <2>2
<1>4. TypeOK'
  <2>1. server[n] \in SessionRecords
    BY DEF TypeOK
  <2>2. [server[n] EXCEPT !.told = tell] \in SessionRecords
    BY <2>1, RecordWith
  <2> QED
    BY <1>3, <2>2 DEF TypeOK, Waits
<1>5. /\ link'[n] = l /\ \A k \in Ids \ {n} : link'[k] = link[k]
      /\ server'[n] = [server[n] EXCEPT !.told = tell]
      /\ \A k \in Ids \ {n} : server'[k] = server[k]
  BY <1>3 DEF TypeOK
<1>6. server[n] \in SessionRecords
  BY DEF TypeOK
<1>7. OneSession'
  BY <1>1, <1>5 DEF OneSession, Over
<1>8. HistoryAgrees'
  BY <1>2, <1>5, <1>6 DEF HistoryAgrees, SessionRecords
<1>9. Stage(n)'
  BY <1>1, <1>2, <1>3, <1>5, <1>6
     DEF Stage, Arriving, Fresh, Empty, Direct, InQueue, Waits, SessionRecords
<1>10. ASSUME NEW k \in Ids \ {n} PROVE Stage(k)'
  BY <1>1, <1>5, Elsewhere
<1> QED
  BY <1>4, <1>7, <1>8, <1>9, <1>10

(* The scenarios are asked for, unless the session still waits. *)
LEMMA OpenedKeeps == ASSUME SessionInv, NEW n \in Ids, Opened(n) PROVE SessionInv'
<1> USE DEF SessionInv, Opened, pageVars
<1>1. link[n] \in {"accepted", "failed"} /\ link[n] \notin Over /\ link[n] \in Waits
  BY DEF Over, Waits
<1>2. Arriving(n) /\ sessionId = n /\ transport = NoId /\ n # NoId
  BY <1>1 DEF Stage, OneSession, Ids, NoId
<1>3. CASE link[n] = "failed"
  <2>1. /\ link' = [link EXCEPT ![n] = "closed"] /\ state' = "error"
        /\ UNCHANGED <<transport, up, sessionId, down, server, currentClip, history>>
    BY <1>3
  <2>2. TypeOK'
    BY <2>1 DEF TypeOK, States, Over
  <2>3. link'[n] = "closed" /\ \A k \in Ids \ {n} : link'[k] = link[k]
    BY <2>1 DEF TypeOK
  <2>4. OneSession' /\ HistoryAgrees'
    BY <1>1, <1>2, <2>1, <2>3 DEF OneSession, HistoryAgrees, Over
  <2>5. Stage(n)'
    BY <2>3 DEF Stage, Waits
  <2>6. ASSUME NEW k \in Ids \ {n} PROVE Stage(k)'
    BY <1>1, <2>1, <2>3, Elsewhere
  <2> QED
    BY <2>2, <2>4, <2>5, <2>6
<1>4. CASE link[n] = "accepted"
  <2>1. /\ link' = [link EXCEPT ![n] = "open"] /\ transport' = n
        /\ IF state = "connecting" THEN up' = [up EXCEPT ![n] = Append(@, GetScenarios)]
                                   ELSE UNCHANGED up
        /\ UNCHANGED <<state, sessionId, down, server, currentClip, history>>
    BY <1>4 DEF Ask
  <2>2. link'[n] = "open" /\ \A k \in Ids \ {n} : link'[k] = link[k]
    BY <2>1 DEF TypeOK
  <2>3. /\ Append(up[n], GetScenarios) \in Seq(ToServer)
        /\ up[n] = <<>> => Append(up[n], GetScenarios) = <<GetScenarios>>
    <3>1. up[n] \in Seq(ToServer) /\ GetScenarios \in ToServer
      BY Sent DEF TypeOK
    <3>2. Append(up[n], GetScenarios) \in Seq(ToServer)
      BY <3>1
    <3>3. up[n] = <<>> => Append(up[n], GetScenarios) = <<GetScenarios>>
      BY FrontOfOne, Zenon
    <3> QED
      BY <3>2, <3>3
  <2>4. TypeOK'
    BY <2>1, <2>3 DEF TypeOK
  <2>5. OneSession' /\ HistoryAgrees'
    BY <1>1, <1>2, <2>1, <2>2 DEF OneSession, HistoryAgrees, Over
  <2>6. up[n] = <<>>
    BY <1>2, <1>4 DEF Arriving, Empty, Called
  <2>7. /\ \A k \in Ids \ {n} : up'[k] = up[k]
        /\ state = "connecting" => up'[n] = <<GetScenarios>>
        /\ state # "connecting" => up'[n] = <<>>
    BY <2>1, <2>3, <2>6 DEF TypeOK
  <2>8. (Fresh(n) /\ Called(n))' \/ Waiting(n)' \/ Greeting(n)'
    BY <1>2, <1>4, <2>1, <2>7
       DEF Arriving, Fresh, Empty, Direct, InQueue, Called, Waiting, Greeting
  <2>9. Stage(n)'
    BY <2>2, <2>8 DEF Stage, Waits, Phase
  <2>10. ASSUME NEW k \in Ids \ {n} PROVE Stage(k)'
    BY <1>1, <2>1, <2>2, <2>7, Elsewhere
  <2> QED
    BY <2>4, <2>5, <2>9, <2>10
<1> QED
  BY <1>1, <1>3, <1>4

-----------------------------------------------------------------------------
(* The player. *)

(* An open connection is that of the session. *)
LEMMA OpenFacts ==
  ASSUME SessionInv, NEW n \in Ids, link[n] = "open"
  PROVE  /\ sessionId = n /\ transport = n /\ Phase(n)
         /\ up[n] \in Seq(ToServer) /\ down[n] \in Seq(ToClient)
         /\ server[n] \in SessionRecords /\ history \in Seq(Turns)
BY DEF SessionInv, OneSession, TypeOK, Ids, NoId, Stage

(* A scenario may be chosen twice: the second request finds the session
   active. *)
LEMMA SelectScenarioKeeps == ASSUME SessionInv, SelectScenario PROVE SessionInv'
<1>1. CASE ~(state = "selecting" /\ CanAsk)
  BY <1>1, SessionUndisturbed DEF SelectScenario, sessionVars, clientSide, pageVars
<1>2. CASE state = "selecting" /\ CanAsk
  <2>1. PICK n \in Ids : n = transport /\ link[n] = "open"
    BY <1>2 DEF CanAsk, SessionInv, TypeOK, NoId
  <2> DEFINE u(clip) == Append(up[n], Request(clip, TRUE))
  <2>2. PICK clip \in Entries : up' = [up EXCEPT ![n] = u(clip)]
    BY <1>2, <2>1 DEF SelectScenario, Ask
  <2>3. /\ scenarioChosen' = TRUE
        /\ UNCHANGED <<state, sessionId, transport, lastCandidates, currentClip, history,
                       link, down, server>>
    BY <1>2 DEF SelectScenario, pageVars
  <2>4. Request(clip, TRUE) \in Opening /\ Request(clip, TRUE) \in ToServer
    BY Sent
  <2>5. Choosing(n) \/ Entering(n)
    BY <1>2, <2>1, OpenFacts
       DEF Phase, Waiting, InQueue, Called, Greeting, Direct, Watching, Answered, Judging,
           Judged, Finished
  <2>6. Only(u(clip), Opening) /\ u(clip) \in Seq(ToServer)
    BY <2>1, <2>4, <2>5, OpenFacts, OnlyAppend, AppendAt DEF Choosing, Entering
  <2>7. up'[n] = u(clip)
    BY <2>1, <2>2 DEF SessionInv, TypeOK
  <2>8. (Choosing(n) \/ Entering(n))'
    BY <2>3, <2>5, <2>6, <2>7 DEF Choosing, Entering, Fresh
  <2>9. Phase(n)'
    BY <2>3, <2>8 DEF Phase
  <2>10. TypeOK'
    BY <2>1, <2>2, <2>3, <2>6 DEF SessionInv, TypeOK
  <2>11. \A k \in Ids \ {n} : up'[k] = up[k]
    BY <2>1, <2>2 DEF SessionInv, TypeOK
  <2> QED
    BY <1>2, <2>1, <2>3, <2>9, <2>10, <2>11, OpenStep
<1> QED
  BY <1>1, <1>2

(* A clip that is preloaded changes neither side. *)
LEMMA PreloadClipKeeps ==
  ASSUME Faults \subseteq Harmless, SessionInv, PreloadClip
  PROVE  SessionInv'
<1>1. PICK n \in Ids : n = transport /\ link[n] = "open"
  BY DEF PreloadClip, CanAsk, SessionInv, TypeOK, NoId
<1> DEFINE u(clip) == Append(up[n], Request(clip, FALSE))
<1>2. PICK clip \in Clips : up' = [up EXCEPT ![n] = u(clip)]
  BY <1>1 DEF PreloadClip, Ask
<1>3. /\ state \in {"active", "paused"}
      /\ UNCHANGED <<state, sessionId, transport, lastCandidates, scenarioChosen, currentClip,
                     history, link, down, server>>
  BY DEF PreloadClip, Harmless, clientVars, handlerVars, pageVars
<1>4. Request(clip, FALSE) \in Requests /\ Request(clip, FALSE) \in ToServer
  BY Sent
<1>5. Watching(n) \/ Answered(n) \/ Judging(n) \/ Judged(n)
  BY <1>1, <1>3, OpenFacts
     DEF Phase, Waiting, InQueue, Called, Greeting, Direct, Choosing, Entering, Finished
<1>6. up'[n] = u(clip) /\ \A k \in Ids \ {n} : up'[k] = up[k]
  BY <1>2 DEF SessionInv, TypeOK
<1>7. up[n] \in Seq(ToServer) /\ u(clip) \in Seq(ToServer)
  BY <1>1, <1>4, OpenFacts, AppendAt
<1>8. ASSUME Answered(n) PROVE Answered(n)'
  <2>1. One(u(clip), Requests, EndOf(currentClip))
    BY <1>4, <1>7, <1>8, OneAppend DEF Answered
  <2> QED
    BY <1>3, <1>6, <1>8, <2>1 DEF Answered, InPlay
<1>9. ASSUME Watching(n) \/ Judging(n) \/ Judged(n)
      PROVE  (Watching(n) \/ Judging(n) \/ Judged(n))'
  <2>1. Only(u(clip), Requests)
    BY <1>4, <1>7, <1>9, OnlyAppend DEF Watching, Judging, Judged
  <2> HIDE DEF u
  <2> QED
    BY <1>3, <1>6, <1>9, <2>1 DEF Watching, Judging, Judged, InPlay, Reaches, Entry
<1>10. Phase(n)'
  BY <1>5, <1>8, <1>9 DEF Phase
<1>11. TypeOK'
  BY <1>1, <1>2, <1>3, <1>7 DEF SessionInv, TypeOK
<1> QED
  BY <1>1, <1>3, <1>6, <1>10, <1>11, OpenStep

(* The answer ends in a session that has been reset since the last one. *)
LEMMA ClipEndedKeeps ==
  ASSUME Faults \subseteq Harmless, SessionInv, ClipEnded
  PROVE  SessionInv'
<1>1. PICK n \in Ids : n = transport /\ link[n] = "open"
  BY DEF ClipEnded, CanAsk, SessionInv, TypeOK, NoId
<1> DEFINE u == Append(up[n], EndOf(currentClip))
<1>2. /\ state = "active" /\ state' = "paused" /\ up' = [up EXCEPT ![n] = u]
      /\ UNCHANGED <<sessionId, transport, lastCandidates, scenarioChosen, currentClip,
                     history, link, down, server>>
  BY <1>1 DEF ClipEnded, Answering, Ask, EndOf, pageVars
<1>3. Watching(n)
  BY <1>1, <1>2, OpenFacts
     DEF Phase, Waiting, InQueue, Called, Greeting, Direct, Choosing, Entering, Answered,
         Judging, Judged, Finished
<1>4. server[n].step = "idle"
  BY <1>1, OpenFacts DEF ClipEnded, Harmless
<1>5. /\ currentClip \in Clips /\ server[n].state = "ACTIVE" /\ server[n].clip = currentClip
  BY <1>3, <1>4, LeadsAssumption DEF Watching, InPlay, Reaches, Clips
<1>6. EndOf(currentClip) \in ToServer
  BY <1>5, Sent
<1>7. up[n] \in Seq(ToServer) /\ u \in Seq(ToServer) /\ One(u, Requests, EndOf(currentClip))
  BY <1>1, <1>3, <1>6, OpenFacts, AppendAt, OnlyAppend DEF Watching
<1>8. up'[n] = u /\ \A k \in Ids \ {n} : up'[k] = up[k]
  BY <1>2 DEF SessionInv, TypeOK
<1>9. Answered(n)'
  BY <1>2, <1>3, <1>4, <1>5, <1>7, <1>8 DEF Answered, Watching, InPlay
<1>10. TypeOK'
  BY <1>1, <1>2, <1>7 DEF SessionInv, TypeOK, States
<1> QED
  BY <1>1, <1>2, <1>8, <1>9, <1>10, OpenStep DEF Phase

(* disconnect() leaves no attempt to connect behind. *)
LEMMA DisconnectKeeps ==
  ASSUME Faults \subseteq Harmless, SessionInv, Disconnect
  PROVE  SessionInv'
<1> USE DEF SessionInv
<1>1. /\ \A n \in Ids : ~Pending(n)
      /\ state' = "idle" /\ sessionId' = NoId /\ transport' = NoId /\ history' = <<>>
      /\ link' = IF transport = NoId THEN link ELSE [link EXCEPT ![transport] = "closed"]
      /\ IF sessionId = NoId THEN UNCHANGED <<up, down, server>>
         ELSE /\ up' = [up EXCEPT ![sessionId] = <<>>]
              /\ down' = [down EXCEPT ![sessionId] = <<>>]
              /\ server' = [server EXCEPT ![sessionId] = NoSession]
  BY DEF Disconnect, Harmless
<1>2. NoSession \in SessionRecords
  BY DEF NoSession, SessionRecords, SessionStates
<1>3. <<>> \in Seq(ToServer) /\ <<>> \in Seq(ToClient) /\ <<>> \in Seq(Turns)
  OBVIOUS
<1>4. TypeOK'
  BY <1>1, <1>2, <1>3 DEF TypeOK, States, Over
<1>5. ASSUME NEW n \in Ids PROVE link'[n] \in Over
  BY <1>1 DEF TypeOK, OneSession, Pending, Waits, Over, Ids, NoId
<1>6. OneSession' /\ HistoryAgrees'
  BY <1>1, <1>5 DEF OneSession, HistoryAgrees, NoId, Over
<1>7. ASSUME NEW n \in Ids PROVE Stage(n)'
  <2>1. link'[n] \notin Waits /\ link'[n] # "open"
    BY <1>5 DEF Over, Waits
  <2>2. CASE link'[n] = "none"
    <3>1. link[n] = "none"
      BY <1>1, <2>2 DEF TypeOK
    <3>2. server[n] = NoSession /\ Empty(n)
      BY <3>1 DEF Stage
    <3>3. server'[n] = NoSession /\ Empty(n)'
      BY <1>1, <3>2 DEF TypeOK, Empty
    <3> QED
      BY <2>1, <3>3 DEF Stage
  <2> QED
    BY <2>1, <2>2 DEF Stage
<1> QED
  BY <1>4, <1>6, <1>7

(* Nothing is said of a connection that is lost. *)
LEMMA LoseSocketKeeps ==
  ASSUME SessionInv, NEW n \in Ids, LoseSocket(n)
  PROVE  SessionInv'
<1> USE DEF SessionInv, LoseSocket, clientVars, handlerVars, pageVars
<1>1. <<>> \in Seq(ToServer) /\ <<>> \in Seq(ToClient)
  OBVIOUS
<1>2. TypeOK'
  BY <1>1 DEF TypeOK
<1>3. /\ link'[n] = "lost"
      /\ \A k \in Ids \ {n} : link'[k] = link[k] /\ up'[k] = up[k] /\ down'[k] = down[k]
  BY DEF TypeOK
<1>4. OneSession' /\ HistoryAgrees'
  BY <1>3 DEF OneSession, HistoryAgrees, Over
<1>5. Stage(n)'
  BY <1>3 DEF Stage, Waits
<1>6. ASSUME NEW k \in Ids \ {n} PROVE Stage(k)'
  BY <1>3, Elsewhere DEF Over
<1> QED
  BY <1>2, <1>4, <1>5, <1>6

(* Nor of one that is closed. *)
LEMMA OnCloseKeeps ==
  ASSUME SessionInv, NEW n \in Ids, OnClose(n)
  PROVE  SessionInv'
<1> USE DEF SessionInv, OnClose, pageVars
<1>1. TypeOK'
  BY DEF TypeOK, States, Over
<1>2. link'[n] = "closed" /\ \A k \in Ids \ {n} : link'[k] = link[k]
  BY DEF TypeOK
<1>3. OneSession' /\ HistoryAgrees'
  BY <1>2 DEF OneSession, HistoryAgrees, Over
<1>4. Stage(n)'
  BY <1>2 DEF Stage, Waits
<1>5. ASSUME NEW k \in Ids \ {n} PROVE Stage(k)'
  BY <1>2, Elsewhere DEF Over
<1> QED
  BY <1>1, <1>3, <1>4, <1>5

-----------------------------------------------------------------------------
(* What arrives at the client. *)

(* A clip is in play, and only d is left on the way to the client. *)
InPlayWith(n, d) ==
  \/ (Watching(n) \/ Answered(n) \/ Finished(n)) /\ Only(d, Answers)
  \/ /\ Judging(n)
     /\ \/ One(d, Answers, Announced(currentClip))
        \/ Only(d, Answers) /\ lastCandidates = Candidates(currentClip)
  \/ /\ Judged(n)
     /\ \E next \in Leads[currentClip] :
          /\ server[n].turns = Append(history, Entry(next))
          /\ Reaches(n, next)
          /\ \/ Two(d, Answers, Announced(currentClip), Verdict(next))
             \/ One(d, Answers, Verdict(next)) /\ lastCandidates = Candidates(currentClip)

(* Arrival, by the type of the message. *)
LEMMA ArrivalByType ==
  ASSUME SessionInv, NEW n \in Ids, NEW type, Arrives(n, type)
  PROVE  LET m == Head(down[n])
             rest == Tail(down[n])
         IN  /\ type = "session_ready" => Fresh(n) /\ Called(n) /\ rest = <<>>
             /\ type = "scenarios_list" => Greeting(n) /\ rest = <<>> /\ up[n] = <<>>
             /\ type = "clip_data" =>
                  \/ Entering(n) /\ m = Data(server[n].clip) /\ Only(rest, {Failure})
                  \/ InPlayWith(n, rest)
             /\ type = "error" =>
                  \/ Entering(n) /\ One(rest, {Failure}, Data(server[n].clip))
                  \/ InPlayWith(n, rest)
             /\ type = "clip_candidates" =>
                  \/ Judging(n) /\ m = Announced(currentClip) /\ Only(rest, Answers)
                  \/ /\ Judged(n)
                     /\ \E next \in Leads[currentClip] :
                          /\ server[n].turns = Append(history, Entry(next))
                          /\ Reaches(n, next)
                          /\ m = Announced(currentClip) /\ One(rest, Answers, Verdict(next))
             /\ type = "clip_selected" =>
                  /\ Judged(n)
                  /\ \E next \in Leads[currentClip] :
                       /\ server[n].turns = Append(history, Entry(next))
                       /\ Reaches(n, next)
                       /\ lastCandidates = Candidates(currentClip)
                       /\ m = Verdict(next) /\ Only(rest, Answers)
<1> DEFINE m == Head(down[n])
           rest == Tail(down[n])
<1>1. link[n] = "open" /\ down[n] # <<>> /\ m.type = type
  BY DEF Arrives
<1>2. \/ Fresh(n) /\ Called(n) /\ m = Ready /\ rest = <<>>
      \/ Greeting(n) /\ m = List /\ rest = <<>> /\ up[n] = <<>>
      \/ /\ Entering(n)
         /\ \/ m = Failure /\ One(rest, {Failure}, Data(server[n].clip))
            \/ m = Data(server[n].clip) /\ Only(rest, {Failure})
      \/ InPlayWith(n, rest) /\ m \in Answers
      \/ Judging(n) /\ m = Announced(currentClip) /\ Only(rest, Answers)
      \/ /\ Judged(n)
         /\ \E next \in Leads[currentClip] :
              /\ server[n].turns = Append(history, Entry(next))
              /\ Reaches(n, next)
              /\ \/ m = Announced(currentClip) /\ One(rest, Answers, Verdict(next))
                 \/ /\ lastCandidates = Candidates(currentClip)
                    /\ m = Verdict(next) /\ Only(rest, Answers)
  BY <1>1, Arrival DEF InPlayWith
<1>3. /\ m = Ready => type = "session_ready"
      /\ m = List => type = "scenarios_list"
      /\ m = Failure => type = "error"
      /\ m \in Answers => type \in {"error", "clip_data"}
  BY <1>1, Replied
<1>4. Entering(n) /\ m = Data(server[n].clip) => type = "clip_data"
  BY <1>1, Replied DEF Entering
<1>5. Judging(n) \/ Judged(n) => currentClip \in Clips /\ Leads[currentClip] \subseteq Clips \cup {None}
  BY LeadsAssumption DEF Judging, Judged, InPlay, Clips
<1>6. (Judging(n) \/ Judged(n)) /\ m = Announced(currentClip) => type = "clip_candidates"
  BY <1>1, <1>5, Replied
<1>7. Judged(n) => \A next \in Leads[currentClip] : m = Verdict(next) => type = "clip_selected"
  BY <1>1, <1>5, Replied
<1> HIDE DEF m, rest
<1>8. /\ type = "session_ready" => Fresh(n) /\ Called(n) /\ rest = <<>>
      /\ type = "scenarios_list" => Greeting(n) /\ rest = <<>> /\ up[n] = <<>>
      /\ type = "clip_data" =>
           \/ Entering(n) /\ m = Data(server[n].clip) /\ Only(rest, {Failure})
           \/ InPlayWith(n, rest)
      /\ type = "error" =>
           \/ Entering(n) /\ One(rest, {Failure}, Data(server[n].clip))
           \/ InPlayWith(n, rest)
  BY <1>2, <1>3, <1>4, <1>6, <1>7
<1>9. type = "clip_candidates" =>
        \/ Judging(n) /\ m = Announced(currentClip) /\ Only(rest, Answers)
        \/ /\ Judged(n)
           /\ \E next \in Leads[currentClip] :
                /\ server[n].turns = Append(history, Entry(next))
                /\ Reaches(n, next)
                /\ m = Announced(currentClip) /\ One(rest, Answers, Verdict(next))
  BY <1>2, <1>3, <1>4, <1>7
<1>10. type = "clip_selected" =>
         /\ Judged(n)
         /\ \E next \in Leads[currentClip] :
              /\ server[n].turns = Append(history, Entry(next))
              /\ Reaches(n, next)
              /\ lastCandidates = Candidates(currentClip)
              /\ m = Verdict(next) /\ Only(rest, Answers)
  BY <1>2, <1>3, <1>4, <1>6
<1> QED
  BY <1>8, <1>9, <1>10 DEF m, rest

(* What every handler does to the channel it reads. *)
LEMMA Taken ==
  ASSUME SessionInv, NEW n \in Ids, NEW type, Arrives(n, type)
  PROVE  /\ link[n] = "open"
         /\ down'[n] = Tail(down[n]) /\ \A k \in Ids \ {n} : down'[k] = down[k]
         /\ down' \in [Ids -> Seq(ToClient)]
<1>1. down[n] \in Seq(ToClient) /\ down[n] # <<>> /\ link[n] = "open"
      /\ down \in [Ids -> Seq(ToClient)] /\ down' = [down EXCEPT ![n] = Tail(@)]
  BY DEF Arrives, SessionInv, TypeOK
<1>2. Tail(down[n]) \in Seq(ToClient)
  BY <1>1, TailAt
<1> QED
  BY <1>1, <1>2

(* An answer that changes nothing. *)
LEMMA AnswerTaken ==
  ASSUME SessionInv, NEW n \in Ids, NEW type, Arrives(n, type), InPlayWith(n, Tail(down[n])),
         UNCHANGED <<state, sessionId, transport, currentClip, history, lastCandidates,
                     scenarioChosen, link, up, server>>
  PROVE  SessionInv'
<1> DEFINE d == down'[n]
<1>1. d = Tail(down[n]) /\ link[n] = "open" /\ InPlayWith(n, d)
  BY Taken
<1>2. TypeOK'
  BY Taken DEF SessionInv, TypeOK
<1>3. state # "idle"
  BY <1>1 DEF SessionInv, OneSession, Over
<1> HIDE DEF d
<1>4. (Watching(n) \/ Answered(n) \/ Finished(n) \/ Judging(n) \/ Judged(n))'
  <2>1. CASE (Watching(n) \/ Answered(n) \/ Finished(n)) /\ Only(d, Answers)
    BY <2>1 DEF Watching, Answered, Finished, InPlay, Reaches, d
  <2>2. CASE /\ Judging(n)
             /\ \/ One(d, Answers, Announced(currentClip))
                \/ Only(d, Answers) /\ lastCandidates = Candidates(currentClip)
    BY <2>2 DEF Judging, InPlay, d
  <2>3. CASE /\ Judged(n)
             /\ \E next \in Leads[currentClip] :
                  /\ server[n].turns = Append(history, Entry(next))
                  /\ Reaches(n, next)
                  /\ \/ Two(d, Answers, Announced(currentClip), Verdict(next))
                     \/ One(d, Answers, Verdict(next)) /\ lastCandidates = Candidates(currentClip)
    BY <2>3 DEF Judged, InPlay, Reaches, Entry, d
  <2> QED
    BY <1>1, <2>1, <2>2, <2>3 DEF InPlayWith
<1> QED
  BY <1>1, <1>2, <1>3, <1>4, Taken, OpenStep DEF Phase

(* The promotion is answered by asking for the scenarios. *)
LEMMA OnSessionReadyKeeps ==
  ASSUME SessionInv, NEW n \in Ids, OnSessionReady(n)
  PROVE  SessionInv'
<1>1. Arrives(n, "session_ready")
  BY DEF OnSessionReady
<1>2. /\ state' = "connecting" /\ up' = [up EXCEPT ![n] = Append(@, GetScenarios)]
      /\ UNCHANGED <<sessionId, transport, history, link, server>>
  BY DEF OnSessionReady, Greet, Ask, pageVars
<1>3. Fresh(n) /\ Called(n) /\ Tail(down[n]) = <<>>
  BY <1>1, ArrivalByType
<1>4. up[n] = <<>> /\ server[n].state = "CONNECTING"
  BY <1>3 DEF Called
<1>5. Append(up[n], GetScenarios) = <<GetScenarios>>
  BY <1>4, FrontOfOne, Zenon
<1>6. <<GetScenarios>> \in Seq(ToServer)
  BY Sent
<1>7. up'[n] = <<GetScenarios>> /\ \A k \in Ids \ {n} : up'[k] = up[k]
  BY <1>2, <1>5 DEF SessionInv, TypeOK
<1>8. TypeOK'
  BY <1>1, <1>2, <1>5, <1>6, Taken DEF SessionInv, TypeOK, States
<1>9. Greeting(n)'
  BY <1>1, <1>2, <1>3, <1>4, <1>7, Taken DEF Greeting, Fresh, Direct
<1> QED
  BY <1>1, <1>2, <1>7, <1>8, <1>9, Taken, OpenStep DEF Phase

(* Only a session that is connecting is sent the list. *)
LEMMA OnScenariosListKeeps ==
  ASSUME SessionInv, NEW n \in Ids, OnScenariosList(n)
  PROVE  SessionInv'
<1>1. Arrives(n, "scenarios_list")
  BY DEF OnScenariosList
<1>2. /\ state' = "selecting"
      /\ UNCHANGED <<sessionId, transport, history, scenarioChosen, link, up, server>>
  BY DEF OnScenariosList, pageVars
<1>3. Greeting(n) /\ Tail(down[n]) = <<>> /\ up[n] = <<>>
  BY <1>1, ArrivalByType
<1>4. TypeOK'
  BY <1>1, <1>2, Taken DEF SessionInv, TypeOK, States
<1>5. Choosing(n)'
  BY <1>1, <1>2, <1>3, Taken, OnlyEmpty DEF Choosing, Greeting, Fresh, Direct
<1> QED
  BY <1>1, <1>2, <1>4, <1>5, Taken, OpenStep DEF Phase

(* A clip is activated only where the app has activated it. *)
LEMMA OnClipDataKeeps ==
  ASSUME SessionInv, NEW n \in Ids, OnClipData(n)
  PROVE  SessionInv'
<1>1. Arrives(n, "clip_data")
  BY DEF OnClipData
<1>2. UNCHANGED <<sessionId, transport, history, lastCandidates, scenarioChosen, link, up, server>>
  BY DEF OnClipData
<1>3. CASE Entering(n) /\ Head(down[n]) = Data(server[n].clip) /\ Only(Tail(down[n]), {Failure})
  <2>1. state' = "active" /\ currentClip' = server[n].clip
    BY <1>3, Replied DEF OnClipData, Entering, Activating, StartClip
  <2>2. Only(Tail(down[n]), Answers)
    BY <1>3, Replied DEF Only
  <2>3. Only(up[n], Requests)
    BY <1>3, Sent DEF Only, Entering
  <2>4. Watching(n)'
    BY <1>1, <1>2, <1>3, <2>1, <2>2, <2>3, Taken, LeadsAssumption
       DEF Watching, Entering, Fresh, InPlay, Reaches, Clips
  <2>5. TypeOK'
    BY <1>1, <1>2, <2>1, Taken DEF SessionInv, TypeOK, States
  <2> QED
    BY <1>1, <1>2, <2>1, <2>4, <2>5, Taken, OpenStep DEF Phase
<1>4. CASE InPlayWith(n, Tail(down[n]))
  <2>1. ~Activating
    BY <1>4 DEF InPlayWith, Watching, Answered, Finished, Judging, Judged, Activating
  <2>2. UNCHANGED <<currentClip, state>>
    BY <2>1 DEF OnClipData
  <2> QED
    BY <1>1, <1>2, <1>4, <2>2, AnswerTaken
<1> QED
  BY <1>1, <1>3, <1>4, ArrivalByType

(* An error is read and forgotten. *)
LEMMA OnErrorKeeps ==
  ASSUME SessionInv, NEW n \in Ids, OnError(n)
  PROVE  SessionInv'
<1>1. Arrives(n, "error")
  BY DEF OnError
<1>2. UNCHANGED <<state, sessionId, transport, currentClip, history, lastCandidates,
                  scenarioChosen, link, up, server>>
  BY DEF OnError, clientVars, handlerVars, pageVars
<1>3. CASE Entering(n) /\ One(Tail(down[n]), {Failure}, Data(server[n].clip))
  <2>1. Entering(n)'
    BY <1>1, <1>2, <1>3, Taken DEF Entering, Fresh
  <2>2. TypeOK'
    BY <1>1, <1>2, Taken DEF SessionInv, TypeOK
  <2>3. state' # "idle"
    BY <1>2, <1>3 DEF Entering
  <2> QED
    BY <1>1, <1>2, <2>1, <2>2, <2>3, Taken, OpenStep DEF Phase
<1>4. CASE InPlayWith(n, Tail(down[n]))
  BY <1>1, <1>2, <1>4, AnswerTaken
<1> QED
  BY <1>1, <1>3, <1>4, ArrivalByType

(* The candidates come before the verdict on the same clip. *)
LEMMA OnClipCandidatesKeeps ==
  ASSUME SessionInv, NEW n \in Ids, OnClipCandidates(n)
  PROVE  SessionInv'
<1>1. Arrives(n, "clip_candidates")
  BY DEF OnClipCandidates
<1>2. /\ lastCandidates' = Head(down[n]).clips
      /\ UNCHANGED <<state, sessionId, transport, currentClip, history, scenarioChosen,
                     link, up, server>>
  BY DEF OnClipCandidates, pageVars
<1>3. TypeOK'
  BY <1>1, <1>2, Taken DEF SessionInv, TypeOK
<1>4. CASE Judging(n) /\ Head(down[n]) = Announced(currentClip) /\ Only(Tail(down[n]), Answers)
  <2>1. lastCandidates' = Candidates(currentClip)
    BY <1>2, <1>4 DEF Announced
  <2>2. Judging(n)'
    BY <1>1, <1>2, <1>4, <2>1, Taken DEF Judging, InPlay
  <2>3. state' # "idle"
    BY <1>2, <1>4 DEF Judging
  <2> QED
    BY <1>1, <1>2, <1>3, <2>2, <2>3, Taken, OpenStep DEF Phase
<1>5. CASE /\ Judged(n)
           /\ \E next \in Leads[currentClip] :
                /\ server[n].turns = Append(history, Entry(next))
                /\ Reaches(n, next)
                /\ Head(down[n]) = Announced(currentClip)
                /\ One(Tail(down[n]), Answers, Verdict(next))
  <2>1. lastCandidates' = Candidates(currentClip)
    BY <1>2, <1>5 DEF Announced
  <2>2. Judged(n)'
    BY <1>1, <1>2, <1>5, <2>1, Taken DEF Judged, InPlay, Reaches, Entry
  <2>3. state' # "idle"
    BY <1>2, <1>5 DEF Judged
  <2> QED
    BY <1>1, <1>2, <1>3, <2>2, <2>3, Taken, OpenStep DEF Phase
<1> QED
  BY <1>1, <1>4, <1>5, ArrivalByType

(* The verdict finds the candidates of its clip, and so the next one starts
   or the session is complete. *)
LEMMA OnClipSelectedKeeps ==
  ASSUME SessionInv, NEW n \in Ids, OnClipSelected(n)
  PROVE  SessionInv'
<1>1. Arrives(n, "clip_selected")
  BY DEF OnClipSelected
<1>2. PICK next \in Leads[currentClip] :
        /\ server[n].turns = Append(history, Entry(next))
        /\ Reaches(n, next)
        /\ lastCandidates = Candidates(currentClip)
        /\ Head(down[n]) = Verdict(next) /\ Only(Tail(down[n]), Answers)
  BY <1>1, ArrivalByType
<1>3. Judged(n)
  BY <1>1, ArrivalByType
<1>4. /\ currentClip \in Clips /\ next \in Clips \cup {None} /\ None \notin Clips
      /\ scenarioChosen
      /\ next # None => next \in lastCandidates
      /\ Head(down[n]).clip = next
  BY <1>2, <1>3, LeadsAssumption DEF Judged, InPlay, Clips, Candidates, Verdict
<1>5. /\ history' = Append(history, Entry(next))
      /\ UNCHANGED <<sessionId, transport, scenarioChosen, link, server>>
      /\ up' = up
      /\ next # None => currentClip' = next /\ state' = "active"
      /\ next = None => state' = "completed"
  BY <1>2, <1>4 DEF OnClipSelected, StartClip, Candidates
<1>6. Entry(next) \in Turns
  BY <1>4 DEF Entry, Turns
<1>7. history' \in Seq(Turns)
  BY <1>5, <1>6 DEF SessionInv, TypeOK
<1>8. TypeOK'
  BY <1>1, <1>4, <1>5, <1>7, Taken DEF SessionInv, TypeOK, States
<1>9. Only(up[n], Requests)
  BY <1>3 DEF Judged
<1>10. Reaches(n, next)'
  BY <1>2, <1>5 DEF Reaches
<1>11. (Watching(n) \/ Finished(n))'
  BY <1>1, <1>2, <1>4, <1>5, <1>9, <1>10, Taken DEF Watching, Finished, InPlay
<1> QED
  BY <1>1, <1>5, <1>8, <1>11, Taken, OpenStep DEF Phase

-----------------------------------------------------------------------------
(* What the app container does. *)

(* promoteNext tells the socket that waits; none is missed. *)
LEMMA PromoteKeeps ==
  ASSUME Faults \subseteq Harmless, SessionInv, NEW n \in Ids, Promote(n)
  PROVE  SessionInv'
<1> USE DEF SessionInv
<1>1. /\ server[n].state = "QUEUED" /\ server[n].told /\ link[n] # "closed"
      /\ server' = [server EXCEPT ![n].state = "CONNECTING"]
      /\ IF Attached(n) THEN down' = [down EXCEPT ![n] = Append(@, Ready)] ELSE UNCHANGED down
      /\ UNCHANGED <<state, sessionId, transport, currentClip, history, lastCandidates,
                     scenarioChosen, link, up>>
  BY DEF Promote, Harmless, Reply, Ready, clientVars, handlerVars, pageVars
<1>2. /\ server[n] \in SessionRecords /\ server'[n] = [server[n] EXCEPT !.state = "CONNECTING"]
      /\ \A k \in Ids \ {n} : server'[k] = server[k]
  BY <1>1 DEF TypeOK
<1>3. server'[n].state = "CONNECTING" /\ server'[n].turns = server[n].turns
      /\ server'[n].step = server[n].step /\ server'[n].told = server[n].told
  BY <1>2 DEF SessionRecords
<1>4. [server[n] EXCEPT !.state = "CONNECTING"] \in SessionRecords
  BY <1>2, RecordWith DEF SessionStates
<1>5. Append(down[n], Ready) \in Seq(ToClient)
  BY Replied, AppendAt DEF TypeOK
<1>6. TypeOK'
  BY <1>1, <1>4, <1>5 DEF TypeOK
<1>7. \A k \in Ids \ {n} : down'[k] = down[k]
  BY <1>1 DEF TypeOK
<1>8. OneSession' /\ HistoryAgrees'
  BY <1>1, <1>2, <1>3 DEF OneSession, HistoryAgrees, TypeOK
<1>9. link[n] \notin Over
  BY <1>1 DEF Stage, NoSession, Over
<1>10. link[n] \in Waits => link[n] \in {"accepted", "failed"}
  BY <1>1 DEF Stage, Arriving, Direct, InQueue, NoSession, Waits
<1>11. CASE link[n] \in {"lost", "failed"}
  <2>1. UNCHANGED down
    BY <1>1, <1>11 DEF Attached
  <2>2. Stage(n)'
    BY <1>1, <1>3, <1>11, <2>1 DEF Stage, Arriving, Fresh, Empty, Waits
  <2> QED
    BY <1>1, <1>2, <1>6, <1>8, <1>9, <2>1, <2>2, Elsewhere
<1>12. CASE link[n] \in {"accepted", "open"}
  <2>1. Fresh(n) /\ InQueue(n) /\ Empty(n)
    BY <1>1, <1>12
       DEF Stage, Arriving, Called, Direct, Waits, Phase, Waiting, Greeting, Choosing, Entering,
           Watching, Answered, Judging, Judged, Finished, Reaches
  <2>2. down'[n] = Append(<<>>, Ready)
    BY <1>1, <1>12, <2>1 DEF Attached, Empty, TypeOK
  <2>3. down'[n] = <<Ready>>
    BY <2>2, FrontOfOne, Zenon
  <2>4. (Fresh(n) /\ Called(n))'
    BY <1>1, <1>3, <2>1, <2>3 DEF Fresh, Called, InQueue, Empty
  <2>5. Stage(n)'
    BY <1>1, <1>12, <2>4 DEF Stage, Arriving, Waits, Phase
  <2> QED
    BY <1>1, <1>2, <1>6, <1>7, <1>8, <1>9, <2>5, Elsewhere
<1> QED
  BY <1>9, <1>10, <1>11, <1>12 DEF TypeOK, Over

(* The timer ends a session whose client has gone. *)
LEMMA ConnectTimeoutKeeps ==
  ASSUME Faults \subseteq Harmless, SessionInv, NEW n \in Ids, ConnectTimeout(n)
  PROVE  SessionInv'
<1> USE DEF SessionInv
<1>1. /\ link[n] \in {"lost", "closed"}
      /\ server' = [server EXCEPT ![n].state = "DROPPED"]
      /\ UNCHANGED <<state, sessionId, transport, currentClip, history, lastCandidates,
                     scenarioChosen, link, up, down>>
  BY DEF ConnectTimeout, Harmless, clientVars, handlerVars, pageVars
<1>2. /\ server[n] \in SessionRecords /\ server'[n] = [server[n] EXCEPT !.state = "DROPPED"]
      /\ \A k \in Ids \ {n} : server'[k] = server[k]
  BY <1>1 DEF TypeOK
<1>3. server'[n].turns = server[n].turns
  BY <1>2 DEF SessionRecords
<1>4. [server[n] EXCEPT !.state = "DROPPED"] \in SessionRecords
  BY <1>2, RecordWith DEF SessionStates
<1>5. TypeOK'
  BY <1>1, <1>4 DEF TypeOK
<1>6. OneSession' /\ HistoryAgrees'
  BY <1>1, <1>2, <1>3 DEF OneSession, HistoryAgrees, TypeOK
<1>7. Stage(n)'
  BY <1>1 DEF Stage, Waits
<1>8. ASSUME NEW k \in Ids \ {n} PROVE Stage(k)'
  BY <1>1, <1>2, StageUndisturbed DEF clientSide
<1> QED
  BY <1>5, <1>6, <1>7, <1>8

(* What every handler of the server does to the two channels. *)
LEMMA ServedAt ==
  ASSUME SessionInv, NEW n \in Ids, Attached(n), up[n] # <<>>, Served(n)
  PROVE  /\ up'[n] = Tail(up[n]) /\ \A k \in Ids \ {n} : up'[k] = up[k]
         /\ up' \in [Ids -> Seq(ToServer)]
<1>1. up[n] \in Seq(ToServer) /\ up \in [Ids -> Seq(ToServer)]
  BY DEF SessionInv, TypeOK
<1>2. Tail(up[n]) \in Seq(ToServer)
  BY <1>1, TailAt
<1> QED
  BY <1>1, <1>2 DEF Served

(* What a reply does. *)
LEMMA RepliedAt ==
  ASSUME SessionInv, NEW n \in Ids, NEW m \in ToClient, Reply(n, m)
  PROVE  /\ down'[n] = Append(down[n], m) /\ \A k \in Ids \ {n} : down'[k] = down[k]
         /\ down' \in [Ids -> Seq(ToClient)]
<1>1. down[n] \in Seq(ToClient) /\ down \in [Ids -> Seq(ToClient)]
  BY DEF SessionInv, TypeOK
<1>2. Append(down[n], m) \in Seq(ToClient)
  BY <1>1, AppendAt
<1> QED
  BY <1>1, <1>2 DEF Reply

(* The scenarios go to a client that waits for them. *)
LEMMA ListScenariosKeeps ==
  ASSUME SessionInv, NEW n \in Ids, ListScenarios(n)
  PROVE  SessionInv'
<1>1. /\ Attached(n) /\ up[n] # <<>> /\ Head(up[n]).type = "get_scenarios"
      /\ Served(n) /\ Reply(n, List)
      /\ UNCHANGED <<state, sessionId, transport, history, link, server>>
  BY DEF ListScenarios, Reads, List, clientVars, handlerVars, pageVars
<1>2. link[n] = "open" /\ Greeting(n) /\ Tail(up[n]) = <<>> /\ down[n] = <<>>
  <2>1. Head(up[n]) \notin Requests /\ Head(up[n]) \notin Opening
    BY <1>1, Sent
  <2>2. Answered(n) => Head(up[n]) # EndOf(currentClip)
    BY <1>1, Sent DEF Answered, InPlay
  <2> QED
    BY <1>1, <2>1, <2>2, Reading
<1>3. List \in ToClient
  BY Replied
<1>4. Append(down[n], List) = <<List>>
  BY <1>2, FrontOfOne, Zenon
<1>5. Greeting(n)'
  BY <1>1, <1>2, <1>3, <1>4, ServedAt, RepliedAt DEF Greeting, Fresh, Direct
<1>6. TypeOK'
  BY <1>1, <1>3, ServedAt, RepliedAt DEF SessionInv, TypeOK
<1>7. state' # "idle"
  BY <1>1, <1>2 DEF Greeting, Direct
<1> QED
  BY <1>1, <1>2, <1>3, <1>5, <1>6, <1>7, ServedAt, RepliedAt, OpenStep DEF Phase

(* The first request of a chosen scenario activates the session, what follows
   it is answered and changes nothing. *)
LEMMA HandleRequestClipKeeps ==
  ASSUME SessionInv, NEW n \in Ids, HandleRequestClip(n)
  PROVE  SessionInv'
<1> DEFINE m == Head(up[n])
           answer == IF Permitted(n, m) THEN Data(m.clip) ELSE Failure
<1>1. /\ Attached(n) /\ up[n] # <<>> /\ m.type = "request_clip"
      /\ Served(n) /\ Reply(n, answer)
      /\ server' = IF ~Activated(n, m) THEN server
                   ELSE [server EXCEPT ![n].state = "ACTIVE", ![n].clip = m.clip]
      /\ UNCHANGED <<state, sessionId, transport, currentClip, history, lastCandidates,
                     scenarioChosen, link>>
  BY DEF HandleRequestClip, Reads, Data, Failure, clientVars, handlerVars, pageVars
<1>2. /\ link[n] = "open" /\ m \in Requests
      /\ \/ (Choosing(n) \/ Entering(n)) /\ m \in Opening /\ Only(Tail(up[n]), Opening)
         \/ /\ Watching(n) \/ Judging(n) \/ Judged(n) \/ Finished(n)
            /\ Only(Tail(up[n]), Requests)
         \/ Answered(n) /\ One(Tail(up[n]), Requests, EndOf(currentClip))
  <2>1. m # GetScenarios
    BY <1>1, Sent
  <2>2. Answered(n) => m # EndOf(currentClip)
    BY <1>1, Sent DEF Answered, InPlay
  <2> QED
    BY <1>1, <2>1, <2>2, Reading, Sent
<1>3. m.clip \in Clips /\ answer \in Answers /\ answer \in ToClient
  BY <1>2, Replied DEF Requests
<1>4. /\ down[n] \in Seq(ToClient) /\ server[n] \in SessionRecords
      /\ down'[n] = Append(down[n], answer)
      /\ up'[n] = Tail(up[n])
  BY <1>1, <1>2, <1>3, OpenFacts, ServedAt, RepliedAt
<1>5. CASE Choosing(n)
  <2>1. m \in Opening /\ Only(Tail(up[n]), Opening)
    BY <1>2, <1>5 DEF Choosing, Watching, Answered, Judging, Judged, Finished
  <2>2. m.activate /\ m.clip \in Entries
    BY <2>1 DEF Opening
  <2>3. Activated(n, m) /\ answer = Data(m.clip)
    BY <1>5, <2>2 DEF Choosing, Activated, Permitted
  <2> HIDE DEF m, answer
  <2>4. server'[n] = [server[n] EXCEPT !.state = "ACTIVE", !.clip = m.clip]
        /\ \A k \in Ids \ {n} : server'[k] = server[k]
    BY <1>1, <2>3 DEF SessionInv, TypeOK
  <2>5. /\ server'[n].state = "ACTIVE" /\ server'[n].clip = m.clip
        /\ server'[n].turns = server[n].turns /\ server'[n].step = server[n].step
    BY <1>4, <2>4 DEF SessionRecords
  <2>6. server'[n] \in SessionRecords
    BY <1>3, <1>4, <2>4 DEF SessionRecords, SessionStates
  <2>7. TypeOK'
    BY <1>1, <1>3, <2>3, <2>6, ServedAt, RepliedAt DEF SessionInv, TypeOK
  <2>8. down[n] = <<>> /\ Only(down[n], {Failure})
    BY <1>5, OnlyEmpty DEF Choosing
  <2>9. One(down'[n], {Failure}, Data(m.clip))
    BY <1>3, <1>4, <2>3, <2>8, OnlyAppend
  <2>10. Entering(n)'
    BY <1>1, <1>3, <1>4, <1>5, <2>1, <2>5, <2>9 DEF Entering, Choosing, Fresh
  <2>11. state' # "idle"
    BY <1>1, <1>5 DEF Choosing
  <2>12. Phase(n)'
    BY <2>10 DEF Phase
  <2>13. \A k \in Ids \ {n} : up'[k] = up[k] /\ down'[k] = down[k] /\ server'[k] = server[k]
    BY <1>1, <1>3, <2>4, ServedAt, RepliedAt
  <2> QED
    BY <1>1, <1>2, <2>7, <2>11, <2>12, <2>13, OpenStep
<1>6. CASE Entering(n)
  <2>1. m \in Opening /\ Only(Tail(up[n]), Opening)
    BY <1>2, <1>6 DEF Entering, Watching, Answered, Judging, Judged, Finished
  <2>2. m.activate
    BY <2>1 DEF Opening
  <2>3. ~Activated(n, m) /\ answer = Failure
    BY <1>6, <2>2 DEF Entering, Activated, Permitted
  <2> HIDE DEF m, answer
  <2>4. One(down'[n], {Failure}, Data(server[n].clip))
    BY <1>3, <1>4, <1>6, <2>3, OneAppend DEF Entering
  <2>5. Entering(n)'
    BY <1>1, <1>4, <1>6, <2>1, <2>3, <2>4 DEF Entering, Fresh
  <2>6. TypeOK'
    BY <1>1, <1>3, <2>3, ServedAt, RepliedAt DEF SessionInv, TypeOK
  <2>7. state' # "idle"
    BY <1>1, <1>6 DEF Entering
  <2>8. \A k \in Ids \ {n} : up'[k] = up[k] /\ down'[k] = down[k] /\ server'[k] = server[k]
    BY <1>1, <1>3, <2>3, ServedAt, RepliedAt
  <2>9. Phase(n)'
    BY <2>5 DEF Phase
  <2> QED
    BY <1>1, <1>2, <2>6, <2>7, <2>8, <2>9, OpenStep
<1>7. CASE Watching(n) \/ Answered(n) \/ Judging(n) \/ Judged(n) \/ Finished(n)
  <2>1. server[n].state # "CONNECTING" /\ state # "idle" /\ state # "selecting"
    BY <1>7 DEF Watching, Answered, Judging, Judged, Finished, Reaches
  <2>2. ~Activated(n, m)
    BY <2>1 DEF Activated
  <2>3. /\ Answered(n) => One(Tail(up[n]), Requests, EndOf(currentClip))
        /\ Watching(n) \/ Judging(n) \/ Judged(n) \/ Finished(n) => Only(Tail(up[n]), Requests)
    BY <1>2, <2>1 DEF Choosing, Entering, Watching, Answered, Judging, Judged, Finished, Reaches
  <2> HIDE DEF m, answer
  <2>4. ASSUME Only(down[n], Answers) PROVE Only(down'[n], Answers)
    BY <1>3, <1>4, <2>4, OnlyAppend
  <2>5. ASSUME NEW a, One(down[n], Answers, a) PROVE One(down'[n], Answers, a)
    BY <1>3, <1>4, <2>5, OneAppend
  <2>6. ASSUME NEW a, NEW b, Two(down[n], Answers, a, b) PROVE Two(down'[n], Answers, a, b)
    BY <1>3, <1>4, <2>6, TwoAppend
  <2>7. /\ Watching(n) => Watching(n)'
        /\ Answered(n) => Answered(n)'
        /\ Finished(n) => Finished(n)'
    BY <1>1, <1>4, <2>2, <2>3, <2>4 DEF Watching, Answered, Finished, InPlay, Reaches
  <2>8. Judging(n) => Judging(n)'
    BY <1>1, <1>4, <2>2, <2>3, <2>4, <2>5 DEF Judging, InPlay
  <2>9. Judged(n) => Judged(n)'
    BY <1>1, <1>4, <2>2, <2>3, <2>5, <2>6 DEF Judged, InPlay, Reaches, Entry
  <2>10. TypeOK'
    BY <1>1, <1>3, <2>2, ServedAt, RepliedAt DEF SessionInv, TypeOK
  <2>11. Phase(n)'
    BY <1>7, <2>7, <2>8, <2>9 DEF Phase
  <2> QED
    BY <1>1, <1>2, <1>3, <2>1, <2>2, <2>10, <2>11, ServedAt, RepliedAt, OpenStep
<1> QED
  BY <1>2, <1>5, <1>6, <1>7

(* The clip that ended is the one the session has. *)
LEMMA HandleClipEndedKeeps ==
  ASSUME SessionInv, NEW n \in Ids, HandleClipEnded(n)
  PROVE  SessionInv'
<1> DEFINE clip == Head(up[n]).clip
<1>1. /\ Attached(n) /\ up[n] # <<>> /\ Head(up[n]).type = "clip_ended" /\ Served(n)
      /\ IF server[n].state # "ACTIVE" THEN UNCHANGED <<server, down>>
         ELSE /\ server' = [server EXCEPT ![n].state = "PAUSED",
                              ![n].step = "flushing", ![n].clip = clip]
              /\ Reply(n, Announced(clip))
      /\ UNCHANGED <<state, sessionId, transport, currentClip, history, lastCandidates,
                     scenarioChosen, link>>
  BY DEF HandleClipEnded, Reads, Announced, clientVars, handlerVars, pageVars
<1>2. link[n] = "open" /\ Answered(n) /\ Head(up[n]) = EndOf(currentClip)
      /\ Only(Tail(up[n]), Requests)
  BY <1>1, Reading, Sent
<1>3. /\ clip = currentClip /\ currentClip \in Clips /\ server[n].state = "ACTIVE"
      /\ Only(down[n], Answers) /\ state = "paused"
  BY <1>2 DEF Answered, InPlay, EndOf
<1> HIDE DEF clip
<1>4. server'[n] = [server[n] EXCEPT !.state = "PAUSED", !.step = "flushing", !.clip = currentClip]
      /\ \A k \in Ids \ {n} : server'[k] = server[k]
  BY <1>1, <1>3 DEF SessionInv, TypeOK
<1>5. server[n] \in SessionRecords /\ down[n] \in Seq(ToClient)
  BY <1>2, OpenFacts
<1>6. /\ server'[n].state = "PAUSED" /\ server'[n].step = "flushing"
      /\ server'[n].clip = currentClip /\ server'[n].turns = server[n].turns
      /\ server'[n] \in SessionRecords
  BY <1>3, <1>4, <1>5 DEF SessionRecords, SessionStates
<1>7. Announced(currentClip) \in ToClient /\ Reply(n, Announced(currentClip))
  BY <1>1, <1>3, Replied
<1>8. TypeOK'
  BY <1>1, <1>3, <1>4, <1>6, <1>7, ServedAt, RepliedAt DEF SessionInv, TypeOK, States
<1>9. One(down'[n], Answers, Announced(currentClip))
  <2>1. down'[n] = Append(down[n], Announced(currentClip))
    BY <1>7, RepliedAt
  <2> QED
    BY <1>3, <1>5, <1>7, <2>1, OnlyAppend
<1>10. Judging(n)'
  BY <1>1, <1>2, <1>3, <1>6, <1>9, ServedAt DEF Judging, Answered, InPlay
<1>11. state' # "idle"
  BY <1>1, <1>3
<1> QED
  BY <1>1, <1>2, <1>4, <1>7, <1>8, <1>10, <1>11, ServedAt, RepliedAt, OpenStep DEF Phase

(* The verdict is recorded and sent in one step: the two histories differ by
   it until it arrives. *)
LEMMA SelectKeeps ==
  ASSUME SessionInv, NEW n \in Ids, Select(n)
  PROVE  SessionInv'
<1>1. PICK next \in Leads[server[n].clip] :
        /\ server' = [server EXCEPT ![n].step = "resetting", ![n].next = next,
                        ![n].turns = Append(@, [clip |-> server[n].clip, next |-> next])]
        /\ Reply(n, Verdict(next))
  BY DEF Select, Verdict
<1>2. /\ Attached(n) /\ server[n].step = "flushing"
      /\ UNCHANGED <<state, sessionId, transport, currentClip, history, lastCandidates,
                     scenarioChosen, link, up>>
  BY DEF Select, clientVars, handlerVars, pageVars
<1>3. link[n] = "open"
  BY <1>2 DEF SessionInv, Stage, Attached, Arriving, Fresh, Waits
<1>4. Judging(n)
  BY <1>2, <1>3, OpenFacts
     DEF Phase, Waiting, Greeting, Choosing, Entering, Fresh, Watching, Answered, Judged,
         Finished, Reaches
<1>5. /\ server[n].clip = currentClip /\ server[n].turns = history /\ state = "paused"
      /\ server[n].state = "PAUSED"
      /\ currentClip \in Clips /\ next \in Leads[currentClip] /\ next \in Clips \cup {None}
  BY <1>1, <1>4, LeadsAssumption DEF Judging, InPlay, Clips
<1>6. Entry(next) \in Turns /\ Verdict(next) \in ToClient
  BY <1>5, Replied DEF Entry, Turns
<1>7. Append(history, Entry(next)) \in Seq(Turns)
  BY <1>3, <1>6, OpenFacts
<1>8. /\ server'[n] = [server[n] EXCEPT !.step = "resetting", !.next = next,
                        !.turns = Append(history, Entry(next))]
      /\ \A k \in Ids \ {n} : server'[k] = server[k]
  BY <1>1, <1>5 DEF SessionInv, TypeOK, Entry
<1>9. server[n] \in SessionRecords /\ down[n] \in Seq(ToClient)
  BY <1>3, OpenFacts
<1>10. /\ server'[n].step = "resetting" /\ server'[n].next = next
       /\ server'[n].turns = Append(history, Entry(next)) /\ server'[n].state = "PAUSED"
       /\ server'[n] \in SessionRecords
  BY <1>5, <1>7, <1>8, <1>9 DEF SessionRecords
<1>11. TypeOK'
  BY <1>1, <1>2, <1>6, <1>10, RepliedAt DEF SessionInv, TypeOK
<1>12. down'[n] = Append(down[n], Verdict(next))
  BY <1>1, <1>6, RepliedAt
<1>13. \/ Two(down'[n], Answers, Announced(currentClip), Verdict(next))
       \/ One(down'[n], Answers, Verdict(next)) /\ lastCandidates = Candidates(currentClip)
  <2>1. CASE One(down[n], Answers, Announced(currentClip))
    BY <1>6, <1>9, <1>12, <2>1, OneAppend
  <2>2. CASE Only(down[n], Answers) /\ lastCandidates = Candidates(currentClip)
    BY <1>6, <1>9, <1>12, <2>2, OnlyAppend
  <2> QED
    BY <1>4, <2>1, <2>2 DEF Judging
<1>14. Judged(n)'
  <2>1. Reaches(n, next)'
    BY <1>10 DEF Reaches
  <2>2. Only(up[n], Requests) /\ InPlay
    BY <1>4 DEF Judging
  <2>3. InPlay' /\ Only(up[n], Requests)' /\ state' = "paused" /\ Leads[currentClip]' = Leads[currentClip]
        /\ (Append(history, Entry(next)))' = Append(history, Entry(next))
    BY <1>2, <1>5, <2>2 DEF InPlay, Entry
  <2>4. server'[n].turns = (Append(history, Entry(next)))'
    BY <1>10, <2>3
  <2> QED
    BY <1>2, <1>5, <1>13, <2>1, <2>3, <2>4 DEF Judged, Entry
<1> QED
  BY <1>1, <1>2, <1>3, <1>5, <1>6, <1>8, <1>11, <1>14, RepliedAt, OpenStep DEF Phase

(* The transition ends, whatever the client has read of it. *)
LEMMA ProceedKeeps ==
  ASSUME SessionInv, NEW n \in Ids, Proceed(n)
  PROVE  SessionInv'
<1>1. /\ Attached(n) /\ server[n].step = "resetting"
      /\ server' = [server EXCEPT ![n].step = "idle", ![n].next = None,
           ![n].state = IF server[n].next = None THEN "COMPLETED" ELSE "ACTIVE",
           ![n].clip = IF server[n].next = None THEN @ ELSE server[n].next]
      /\ UNCHANGED <<state, sessionId, transport, currentClip, history, lastCandidates,
                     scenarioChosen, link, up, down>>
  BY DEF Proceed, clientVars, handlerVars, pageVars
<1>2. link[n] = "open"
  BY <1>1 DEF SessionInv, Stage, Attached, Arriving, Fresh, Waits
<1>3. Watching(n) \/ Judged(n) \/ Finished(n)
  BY <1>1, <1>2, OpenFacts
     DEF Phase, Waiting, Greeting, Choosing, Entering, Fresh, Answered, Judging
<1>4. server[n] \in SessionRecords
  BY <1>2, OpenFacts
<1>5. /\ server'[n] = [server[n] EXCEPT !.step = "idle", !.next = None,
           !.state = IF server[n].next = None THEN "COMPLETED" ELSE "ACTIVE",
           !.clip = IF server[n].next = None THEN server[n].clip ELSE server[n].next]
      /\ \A k \in Ids \ {n} : server'[k] = server[k]
  BY <1>1 DEF SessionInv, TypeOK
<1>6. /\ server'[n].turns = server[n].turns /\ server'[n].step = "idle"
      /\ server'[n].state = IF server[n].next = None THEN "COMPLETED" ELSE "ACTIVE"
      /\ server'[n].clip = IF server[n].next = None THEN server[n].clip ELSE server[n].next
  BY <1>4, <1>5 DEF SessionRecords
<1>7. server'[n] \in SessionRecords
  BY <1>4, <1>5 DEF SessionRecords, SessionStates
<1>8. TypeOK'
  BY <1>1, <1>7 DEF SessionInv, TypeOK
<1>9. ASSUME NEW clip, Reaches(n, clip)
      PROVE  IF clip = None THEN server'[n].state = "COMPLETED"
             ELSE server'[n].state = "ACTIVE" /\ server'[n].clip = clip
  BY <1>1, <1>6, <1>9 DEF Reaches
<1>10. \A clip : Reaches(n, clip) =>
         server'[n].step = "idle" /\
         IF clip = None THEN server'[n].state = "COMPLETED"
         ELSE server'[n].state = "ACTIVE" /\ server'[n].clip = clip
  BY <1>6, <1>9
<1>11. /\ Watching(n) => Watching(n)'
       /\ Finished(n) => Finished(n)'
  BY <1>1, <1>6, <1>10 DEF Watching, Finished, InPlay, Reaches
<1>12. Judged(n) => Judged(n)'
  BY <1>1, <1>6, <1>10 DEF Judged, InPlay, Reaches, Entry
<1>13. state' # "idle"
  BY <1>1, <1>3 DEF Watching, Judged, Finished
<1> QED
  BY <1>1, <1>2, <1>3, <1>5, <1>8, <1>11, <1>12, <1>13, OpenStep DEF Phase

-----------------------------------------------------------------------------
(* The two sides agree. *)

(* Every step. *)
LEMMA SessionStep ==
  Faults \subseteq Harmless /\ SessionInv /\ [Next]_vars => SessionInv'
<1> SUFFICES ASSUME Faults \subseteq Harmless, SessionInv, [Next]_vars
             PROVE  SessionInv'
  OBVIOUS
<1>1. ASSUME ChooseScenario \/ CameraRefused \/ VideoEnded \/ (\E kind \in Loops : Wake(kind)) \/ UNCHANGED vars
      PROVE  SessionInv'
  BY <1>1, SessionUndisturbed
     DEF ChooseScenario, CameraRefused, VideoEnded, Wake, vars, sessionVars, clientSide,
         clientVars, handlerVars, pageVars
<1>2. ASSUME SelectScenario \/ PreloadClip \/ ClipEnded \/ Disconnect PROVE SessionInv'
  BY <1>2, SelectScenarioKeeps, PreloadClipKeeps, ClipEndedKeeps, DisconnectKeeps
<1>3. ASSUME NEW n \in Ids,
             Connect(n) \/ Create(n) \/ Created(n) \/ Accept(n) \/ Opened(n)
      PROVE  SessionInv'
  BY <1>3, ConnectKeeps, CreateKeeps, CreatedKeeps, AcceptKeeps, OpenedKeeps
<1>4. ASSUME NEW n \in Ids, Handle(n) PROVE SessionInv'
  BY <1>4, OnSessionReadyKeeps, OnScenariosListKeeps, OnClipDataKeeps, OnClipCandidatesKeeps,
     OnClipSelectedKeeps, OnErrorKeeps DEF Handle
<1>5. ASSUME NEW n \in Ids, LoseSocket(n) \/ OnClose(n) PROVE SessionInv'
  BY <1>5, LoseSocketKeeps, OnCloseKeeps
<1>6. ASSUME NEW n \in Ids, Promote(n) \/ Serve(n) \/ ConnectTimeout(n) PROVE SessionInv'
  BY <1>6, PromoteKeeps, ListScenariosKeeps, HandleRequestClipKeeps, HandleClipEndedKeeps,
     ConnectTimeoutKeeps DEF Serve
<1>7. ASSUME NEW n \in Ids, Select(n) \/ Proceed(n) PROVE SessionInv'
  BY <1>7, SelectKeeps, ProceedKeeps
<1> QED
  BY <1>1, <1>2, <1>3, <1>4, <1>5, <1>6, <1>7 DEF Next

(* As long as none of the faults that disturb the messages happens, the two
   ends are where SessionInv has them: what the states of either say is
   explained by the messages under way. *)
THEOREM SessionAlways ==
  ASSUME Faults \subseteq Harmless
  PROVE  Spec => []SessionInv
<1>1. Init => SessionInv
  BY FirstState
<1>2. SessionInv /\ [Next]_vars => SessionInv'
  BY SessionStep
<1> QED
  BY <1>1, <1>2, PTL DEF Spec

(* The history on the screen is that of the server (useSession appends what
   the app has put into its turns), for any number of connections, clips and
   answers. *)
THEOREM HistoryAgreesAlways ==
  ASSUME Faults \subseteq Harmless
  PROVE  Spec => []HistoryAgrees
<1>1. SessionInv => HistoryAgrees
  BY DEF SessionInv
<1> QED
  BY <1>1, SessionAlways, PTL

(* With both channels empty, four phases are left. *)
LEMMA QuietAgrees == SessionInv => StatesAgree
<1> SUFFICES ASSUME SessionInv, Quiet
             PROVE  LET there == server[sessionId] IN
                      \/ state = "queued" /\ there.state = "QUEUED"
                      \/ state = "selecting" /\ there.state = "CONNECTING"
                      \/ state = "active" /\ there.state = "ACTIVE" /\ there.clip = currentClip
                      \/ state = "completed" /\ there.state = "COMPLETED"
  BY DEF StatesAgree
<1>1. PICK n \in Ids : n = sessionId
  BY DEF Quiet, SessionInv, TypeOK
<1>2. link[n] = "open" /\ up[n] = <<>> /\ down[n] = <<>> /\ server[n].step = "idle"
  BY <1>1 DEF Quiet
<1>3. Phase(n) /\ up[n] \in Seq(ToServer) /\ down[n] \in Seq(ToClient)
  BY <1>2, OpenFacts
<1>4. ~Entering(n) /\ ~Answered(n) /\ ~Judging(n) /\ ~Judged(n)
  BY <1>2, <1>3, OneNotEmpty DEF Entering, Answered, Judging, Judged
<1>5. ~Called(n) /\ ~Greeting(n)
  <2>1. ASSUME NEW m PROVE <<m>> # <<>>
    OBVIOUS
  <2> QED
    BY <1>2, <2>1 DEF Called, Greeting
<1>6. Waiting(n) \/ Choosing(n) \/ Watching(n) \/ Finished(n)
  BY <1>3, <1>4, <1>5 DEF Phase
<1>7. CASE Waiting(n) \/ Choosing(n)
  BY <1>1, <1>7 DEF Waiting, InQueue, Choosing
<1>8. CASE Watching(n)
  BY <1>1, <1>2, <1>8, LeadsAssumption DEF Watching, InPlay, Reaches, Clips
<1>9. CASE Finished(n)
  BY <1>1, <1>2, <1>9 DEF Finished, Reaches
<1> QED
  BY <1>6, <1>7, <1>8, <1>9

(* When nothing is under way, the state of the handler and that of the session
   in the app are the same, and so is the clip. *)
THEOREM StatesAgreeAlways ==
  ASSUME Faults \subseteq Harmless
  PROVE  Spec => []StatesAgree
BY QuietAgrees, SessionAlways, PTL

-----------------------------------------------------------------------------
(* Camera and microphone. *)

(* The camera is left alone, and so is the loop. *)
LEMMA DevicesUnmoved ==
  ASSUME Devices, UNCHANGED <<captureVars, loops>>, state' \in Before => state \in Before,
         state' \in Off => state \in Off
  PROVE  Devices'
BY DEF Devices, captureVars

(* stop() leaves nothing on: no loop runs on a camera that is off. *)
LEMMA CameraStopped ==
  ASSUME Devices, StopCapture
  PROVE  running' \in BOOLEAN /\ ~running' /\ loops' = {} /\ feeds' = 0
<1>1. CASE running
  <2>1. running' = FALSE /\ CloseChannels /\ feeds' = feeds - 1
    BY <1>1, Zenon DEF StopCapture
  <2>2. running' \in BOOLEAN /\ ~running'
    BY <2>1, Zenon
  <2>3. feeds = 1
    BY <1>1 DEF Devices
  <2>4. loops' = {} /\ feeds' = 0
    BY <2>1, <2>3 DEF CloseChannels
  <2> QED
    BY <2>2, <2>4
<1>2. CASE ~running
  <2>1. running' = running /\ loops' = loops /\ feeds' = feeds
    BY <1>2, Zenon DEF StopCapture
  <2>2. running \in BOOLEAN /\ loops = {} /\ feeds = 0
    BY <1>2 DEF Devices
  <2> QED
    BY <1>2, <2>1, <2>2
<1> QED
  BY <1>1, <1>2

(* A connection that does not move needs no camera it did not need before. *)
LEMMA FilmedUnmoved ==
  ASSUME NEW n \in Ids, Filmed(n), UNCHANGED <<state, running>>, link'[n] = link[n],
         \/ state # "selecting" \/ running
         \/ /\ up'[n] = up[n] /\ down'[n] = down[n] /\ server'[n] = server[n]
            /\ UNCHANGED <<scenarioChosen, history>>
  PROVE  Filmed(n)'
<1>1. CASE state # "selecting" \/ running
  BY <1>1 DEF Filmed, Choosing, Entering
<1>2. CASE /\ up'[n] = up[n] /\ down'[n] = down[n] /\ server'[n] = server[n]
           /\ UNCHANGED <<scenarioChosen, history>>
  BY <1>2 DEF Filmed, Choosing, Entering, Fresh
<1> QED
  BY <1>1, <1>2

(* At most one connection is open, and none while another is made. *)
LEMMA OneOpen ==
  ASSUME SessionInv, NEW n \in Ids, link[n] \notin Over, NEW k \in Ids \ {n}
  PROVE  link[k] # "open"
BY DEF SessionInv, OneSession, Over

(* Steps in the course of which no connection is open. *)
LEMMA NoneOpenKeeps ==
  ASSUME SessionInv, OneCamera, NEW n \in Ids,
         Connect(n) \/ Create(n) \/ Created(n) \/ Accept(n) \/ LoseSocket(n) \/ OnClose(n)
  PROVE  OneCamera'
<1>1. \A k \in Ids : link'[k] # "open"
  <2>1. CASE Connect(n)
    BY <2>1 DEF Connect, SessionInv, OneSession, TypeOK, Over
  <2>2. CASE Create(n) \/ Created(n) \/ Accept(n) \/ LoseSocket(n) \/ OnClose(n)
    <3>1. link[n] \notin Over
      BY <2>2 DEF Create, Created, Accept, LoseSocket, OnClose, Over
    <3>2. /\ link'[n] # "open" /\ \A k \in Ids \ {n} : link'[k] = link[k]
      BY <2>2 DEF Create, Created, Accept, LoseSocket, OnClose, SessionInv, TypeOK
    <3> QED
      BY <3>1, <3>2, OneOpen
  <2> QED
    BY <2>1, <2>2
<1>2. state' \in Before => state \in Before
  <2>1. CASE Created(n)
    <3>1. Arriving(n) /\ link[n] \in {"created", "queued", "refused"}
      BY <2>1 DEF Created, SessionInv, Stage, Waits
    <3> QED
      BY <2>1, <3>1 DEF Created, Arriving, Direct, Before
  <2>2. CASE Connect(n) \/ Create(n) \/ Accept(n) \/ LoseSocket(n) \/ OnClose(n)
    BY <2>2 DEF Connect, Create, Accept, LoseSocket, OnClose, Before, clientVars, handlerVars
  <2> QED
    BY <2>1, <2>2
<1>3. UNCHANGED <<captureVars, loops>>
  BY DEF Connect, Create, Created, Accept, LoseSocket, OnClose, clientVars, pageVars
<1>4. state' \in Off => state \in Off
  <2>1. CASE Connect(n) \/ Created(n)
    <3>1. Connect(n) => state = "idle"
      BY DEF Connect
    <3>2. Created(n) => Arriving(n) /\ link[n] \in {"created", "queued", "refused"}
      BY DEF Created, SessionInv, Stage, Waits
    <3>3. Created(n) => state = "connecting"
      BY <3>2 DEF Arriving, Direct
    <3> QED
      BY <2>1, <3>1, <3>3 DEF Off
  <2>2. CASE Create(n) \/ Accept(n) \/ LoseSocket(n) \/ OnClose(n)
    BY <2>2 DEF Create, Accept, LoseSocket, OnClose, Off, clientVars, handlerVars
  <2> QED
    BY <2>1, <2>2
<1>5. Devices'
  BY <1>2, <1>3, <1>4, DevicesUnmoved DEF OneCamera
<1> QED
  BY <1>1, <1>5 DEF OneCamera, Filmed

(* The socket opens on a client that has chosen nothing. *)
LEMMA OpenedFilms ==
  ASSUME SessionInv, OneCamera, NEW n \in Ids, Opened(n)
  PROVE  OneCamera'
<1>1. link[n] \in {"accepted", "failed"} /\ Arriving(n)
  BY DEF Opened, SessionInv, Stage, Waits
<1>2. link'[n] \in {"open", "closed"} /\ \A k \in Ids \ {n} : link'[k] = link[k]
  BY DEF Opened, SessionInv, TypeOK
<1>3. link'[n] = "open" => state' = state /\ state \in {"connecting", "queued"}
  BY <1>1 DEF Opened, Arriving, Direct, InQueue, Called, SessionInv, TypeOK
<1>4. state' \in Before => state \in Before
  BY DEF Opened, Before
<1>5. UNCHANGED <<captureVars, loops>>
  BY DEF Opened, pageVars
<1>6. Devices'
  <2>1. state \in Off
    BY <1>1 DEF Arriving, Direct, InQueue, Called, SessionInv, TypeOK, Off
  <2> QED
    BY <1>4, <1>5, <2>1, DevicesUnmoved DEF OneCamera
<1>7. Filmed(n)'
  BY <1>3 DEF Filmed, Choosing, Entering
<1>8. ASSUME NEW k \in Ids \ {n} PROVE Filmed(k)'
  BY <1>1, <1>2, OneOpen DEF Filmed, Over
<1> QED
  BY <1>6, <1>7, <1>8 DEF OneCamera

(* With no fault, a camera that starts is the only one. *)
LEMMA PlayerFilms ==
  ASSUME Faults = {}, SessionInv, OneCamera,
         ChooseScenario \/ SelectScenario \/ CameraRefused \/ PreloadClip \/ VideoEnded
           \/ ClipEnded \/ \E kind \in Loops : Wake(kind)
  PROVE  OneCamera'
<1> USE DEF OneCamera
<1>1. CASE ChooseScenario \/ CameraRefused
  <2>1. Devices'
    BY <1>1 DEF ChooseScenario, CameraRefused, Devices, Off, handlerVars, pageVars
  <2>2. \A n \in Ids : Filmed(n)'
    BY <1>1, FilmedUnmoved DEF ChooseScenario, CameraRefused, handlerVars, pageVars
  <2> QED
    BY <2>1, <2>2
<1>2. CASE SelectScenario
  <2>1. UNCHANGED <<state, loops, link>> /\ Started
    BY <1>2 DEF SelectScenario, pageVars
  <2>2. /\ running' /\ running' \in BOOLEAN /\ feeds' = 1 /\ starting' = 0
        /\ state \notin Off
    <3>1. CASE starting > 0 /\ starting' = starting - 1 /\ feeds' = feeds + 1 /\ running' = TRUE
      <4>1. starting = 1 /\ feeds = 0 /\ state \notin Off
        BY <3>1 DEF Devices
      <4>2. running' /\ running' \in BOOLEAN
        BY <3>1, Zenon
      <4> QED
        BY <3>1, <4>1, <4>2
    <3>2. CASE starting = 0 /\ running /\ UNCHANGED captureVars
      BY <3>2 DEF Devices, captureVars
    <3> QED
      BY <2>1, <3>1, <3>2, Zenon DEF Started
  <2>3. Devices'
    BY <2>1, <2>2 DEF Devices
  <2> QED
    BY <2>2, <2>3 DEF Filmed
<1>3. CASE PreloadClip \/ VideoEnded \/ \E kind \in Loops : Wake(kind)
  <2>1. UNCHANGED <<state, captureVars>> /\ loops' \subseteq loops
    BY <1>3 DEF PreloadClip, VideoEnded, Wake, clientVars, handlerVars, pageVars
  <2>2. /\ UNCHANGED <<state, running, link, scenarioChosen, history, down, server>>
        /\ state = "selecting" => UNCHANGED up
    BY <1>3 DEF PreloadClip, VideoEnded, Wake, clientVars, handlerVars, pageVars, captureVars
  <2>3. \A n \in Ids : Filmed(n)'
    BY <2>2, FilmedUnmoved
  <2>4. Devices'
    BY <2>1 DEF Devices, captureVars
  <2> QED
    BY <2>3, <2>4
<1>4. CASE ClipEnded
  <2>1. /\ state = "active" /\ state' = "paused" /\ UNCHANGED <<captureVars, loops, link>>
    BY <1>4 DEF ClipEnded, Answering, pageVars
  <2>2. Devices'
    BY <2>1, DevicesUnmoved DEF Before, Off
  <2>3. \A n \in Ids : Filmed(n)'
    BY <2>1 DEF Filmed, Choosing, Entering, captureVars
  <2> QED
    BY <2>2, <2>3
<1> QED
  BY <1>1, <1>2, <1>3, <1>4

(* disconnect() stops the camera. *)
LEMMA DisconnectFilms ==
  ASSUME Faults = {}, SessionInv, SessionInv', OneCamera, Disconnect
  PROVE  OneCamera'
<1>1. state' = "idle" /\ starting = 0 /\ starting' = starting /\ StopCapture
  BY DEF Disconnect
<1>2. \A n \in Ids : link'[n] # "open"
  BY <1>1 DEF SessionInv, OneSession, Over
<1>3. running' \in BOOLEAN /\ ~running' /\ loops' = {} /\ feeds' = 0
  BY <1>1, CameraStopped DEF OneCamera
<1>4. Devices'
  BY <1>1, <1>3 DEF Devices
<1> QED
  BY <1>2, <1>4 DEF OneCamera, Filmed

(* What arrives starts loops only in front of a camera that is on. *)
LEMMA HandleFilms ==
  ASSUME Faults = {}, SessionInv, OneCamera, NEW n \in Ids, Handle(n)
  PROVE  OneCamera'
<1> USE DEF OneCamera
<1>1. link[n] = "open" /\ UNCHANGED <<link, starting>>
  BY DEF Handle, OnSessionReady, OnScenariosList, OnClipData, OnClipCandidates, OnClipSelected,
         OnError, Arrives, clientVars, captureVars
<1>2. \A k \in Ids \ {n} : Filmed(k)'
  BY <1>1, OneOpen DEF Filmed, Over
<1>3. ASSUME OnSessionReady(n) PROVE Devices' /\ Filmed(n)'
  <2>1. state = "queued"
    BY <1>3, ArrivalByType DEF OnSessionReady, Called
  <2>2. state' = "connecting" /\ UNCHANGED <<captureVars, loops>>
    BY <1>3 DEF OnSessionReady, pageVars
  <2> QED
    BY <2>1, <2>2, DevicesUnmoved DEF Before, Off, Filmed, Choosing, Entering
<1>4. ASSUME OnScenariosList(n) PROVE Devices' /\ Filmed(n)'
  <2>1. state = "connecting" /\ server[n].state = "CONNECTING" /\ up[n] = <<>>
    BY <1>4, ArrivalByType DEF OnScenariosList, Greeting, Direct
  <2>2. state' = "selecting" /\ UNCHANGED <<captureVars, loops, up, server>>
    BY <1>4 DEF OnScenariosList, pageVars
  <2> QED
    BY <2>1, <2>2, DevicesUnmoved DEF Before, Off, Filmed, Choosing, Entering
<1>5. ASSUME OnClipData(n) PROVE Devices' /\ Filmed(n)'
  <2>1. CASE Activating
    <3>1. Entering(n)
      BY <1>5, <2>1, ArrivalByType
         DEF OnClipData, Activating, InPlayWith, Watching, Answered, Judging, Judged, Finished
    <3>2. running
      BY <1>1, <3>1 DEF Filmed
    <3>3. state' = "active" /\ loops' = Loops /\ UNCHANGED captureVars
      BY <1>5, <2>1, <3>2 DEF OnClipData, StartClip
    <3> QED
      BY <3>2, <3>3 DEF Devices, Filmed, Choosing, Entering, Before, Off, captureVars
  <2>2. CASE ~Activating
    <3>1. state # "selecting" /\ UNCHANGED <<state, captureVars, loops>>
      BY <1>5, <2>2 DEF OnClipData, Activating
    <3> QED
      BY <1>1, <3>1, DevicesUnmoved, FilmedUnmoved DEF captureVars
  <2> QED
    BY <2>1, <2>2
<1>6. ASSUME OnClipCandidates(n) PROVE Devices' /\ Filmed(n)'
  <2>1. state = "paused"
    BY <1>6, ArrivalByType DEF OnClipCandidates, Judging, Judged
  <2>2. UNCHANGED <<state, captureVars, loops>>
    BY <1>6 DEF OnClipCandidates, pageVars
  <2> QED
    BY <1>1, <2>1, <2>2, DevicesUnmoved, FilmedUnmoved DEF captureVars
<1>7. ASSUME OnClipSelected(n) PROVE Devices' /\ Filmed(n)'
  <2>1. state = "paused"
    BY <1>7, ArrivalByType DEF OnClipSelected, Judged
  <2>2. running
    BY <1>1, <2>1 DEF Filmed
  <2>3. CASE StartClip /\ UNCHANGED <<running, feeds>>
    BY <1>1, <2>2, <2>3 DEF StartClip, Devices, Before, Off, Filmed, Choosing, Entering
  <2>4. CASE state' = "completed" /\ StopCapture
    <3>1. running' \in BOOLEAN /\ ~running' /\ loops' = {} /\ feeds' = 0
      BY <2>4, CameraStopped
    <3> QED
      BY <1>1, <2>2, <2>4, <3>1 DEF Devices, Before, Off, Filmed, Choosing, Entering
  <2>5. CASE UNCHANGED <<state, loops, running, feeds>>
    BY <1>1, <2>1, <2>2, <2>5 DEF Devices, Filmed, Choosing, Entering
  <2> QED
    BY <1>7, <2>3, <2>4, <2>5, Zenon DEF OnClipSelected
<1>8. ASSUME OnError(n) PROVE Devices' /\ Filmed(n)'
  <2>1. UNCHANGED <<state, captureVars, loops>>
    BY <1>8 DEF OnError, clientVars, handlerVars, pageVars
  <2>2. Entering(n) \/ state # "selecting"
    BY <1>8, ArrivalByType
       DEF OnError, InPlayWith, Watching, Answered, Judging, Judged, Finished
  <2>3. running \/ state # "selecting"
    BY <1>1, <2>2 DEF Filmed
  <2> QED
    BY <1>1, <2>1, <2>3, DevicesUnmoved, FilmedUnmoved DEF captureVars
<1> QED
  BY <1>2, <1>3, <1>4, <1>5, <1>6, <1>7, <1>8 DEF Handle

(* A scenario that is asked for has been chosen in front of the camera. *)
LEMMA ServerFilms ==
  ASSUME Faults = {}, SessionInv, OneCamera, NEW n \in Ids,
         Promote(n) \/ Serve(n) \/ ConnectTimeout(n) \/ Select(n) \/ Proceed(n)
  PROVE  OneCamera'
<1> USE DEF OneCamera
<1>1. UNCHANGED <<state, captureVars, loops, link, scenarioChosen, history>>
  BY DEF Promote, Serve, ListScenarios, HandleRequestClip, HandleClipEnded, ConnectTimeout,
         Select, Proceed, clientVars, handlerVars, pageVars
<1>2. Devices'
  BY <1>1, DevicesUnmoved
<1>3. \A k \in Ids \ {n} : up'[k] = up[k] /\ down'[k] = down[k] /\ server'[k] = server[k]
  BY DEF Promote, Serve, ListScenarios, HandleRequestClip, HandleClipEnded, ConnectTimeout,
         Select, Proceed, Served, Reply, SessionInv, TypeOK
<1>4. \A k \in Ids \ {n} : Filmed(k)'
  BY <1>1, <1>3, FilmedUnmoved DEF captureVars
<1>5. ASSUME link[n] = "open" PROVE state # "selecting" \/ running
  <2>1. CASE Serve(n)
    <3>1. Attached(n) /\ up[n] # <<>>
      BY <2>1 DEF Serve, ListScenarios, HandleRequestClip, HandleClipEnded, Reads
    <3>2. Choosing(n) \/ Entering(n) \/ state # "selecting"
      BY <3>1, Reading DEF Greeting, Direct, Watching, Answered, Judging, Judged, Finished
    <3> QED
      BY <1>5, <3>1, <3>2 DEF Filmed
  <2>2. CASE Promote(n) \/ ConnectTimeout(n)
    <3>1. server[n].state = "QUEUED"
      BY <1>5, <2>2 DEF Promote, ConnectTimeout
    <3> QED
      BY <1>5, <3>1, OpenFacts
         DEF Phase, Waiting, InQueue, Called, Greeting, Direct, Choosing, Entering, Watching,
             Answered, Judging, Judged, Finished, Reaches
  <2>3. CASE Select(n) \/ Proceed(n)
    <3>1. server[n].step # "idle"
      BY <2>3 DEF Select, Proceed
    <3> QED
      BY <1>5, <3>1, OpenFacts
         DEF Phase, Waiting, Called, Greeting, Choosing, Entering, Fresh, Watching, Answered,
             Judging, Judged, Finished
  <2> QED
    BY <2>1, <2>2, <2>3
<1>6. Filmed(n)'
  <2>1. CASE link[n] = "open"
    BY <1>1, <1>5, <2>1, FilmedUnmoved DEF captureVars
  <2>2. CASE link[n] # "open"
    BY <1>1, <2>2 DEF Filmed
  <2> QED
    BY <2>1, <2>2
<1> QED
  BY <1>2, <1>4, <1>6

(* Every step. *)
LEMMA CameraStep ==
  Faults = {} /\ SessionInv /\ SessionInv' /\ OneCamera /\ [Next]_vars => OneCamera'
<1> SUFFICES ASSUME Faults = {}, SessionInv, SessionInv', OneCamera, [Next]_vars
             PROVE  OneCamera'
  OBVIOUS
<1>1. CASE UNCHANGED vars
  <2>1. UNCHANGED <<captureVars, loops, state, link, up, down, server, scenarioChosen, history>>
    BY <1>1 DEF vars, clientVars, handlerVars, pageVars
  <2> QED
    BY <2>1, DevicesUnmoved, FilmedUnmoved DEF OneCamera, captureVars
<1>2. CASE Next
  BY <1>2, NoneOpenKeeps, OpenedFilms, PlayerFilms, DisconnectFilms, HandleFilms, ServerFilms
     DEF Next
<1> QED
  BY <1>1, <1>2

(* With none of the faults nobody is recorded outside a scenario, across any
   number of clips and sessions: the camera is started once for each scenario
   that is chosen, loops start only where the messages say that a scenario runs
   (SessionInv), and that scenario's camera is on. *)
THEOREM MediaInPlayAlways ==
  ASSUME Faults = {}
  PROVE  Spec => []MediaInPlay
<1>1. Init => OneCamera
  <2> SUFFICES ASSUME Init PROVE OneCamera
    OBVIOUS
  <2>1. running \in BOOLEAN /\ ~running
    BY Zenon DEF Init
  <2> QED
    BY <2>1 DEF Init, OneCamera, Devices, Filmed
<1>2. SessionInv /\ SessionInv' /\ OneCamera /\ [Next]_vars => OneCamera'
  BY CameraStep
<1>3. SessionInv /\ OneCamera => MediaInPlay
  BY DEF SessionInv, TypeOK, States, OneCamera, Devices, Before, Off, MediaInPlay
<1>4. Faults \subseteq Harmless
  OBVIOUS
<1>5. Spec => []SessionInv
  BY <1>4, SessionAlways
<1> QED
  BY <1>1, <1>2, <1>3, <1>5, PTL DEF Spec

-----------------------------------------------------------------------------
(* The sound of the clips: Recording, whose channel and loops are not the ones
   above. *)

CONSTANTS Length, MaxPieces, MaxClips

VARIABLES
  recorded, buffer, port, active, spans, sent, micOn, micCancelled, micLoops

Mic == INSTANCE Recording WITH
         running <- micOn, loopsCancelled <- micCancelled, loops <- micLoops

(* The clip that was started last. *)
Clip == Len(sent)

(* A chunk: pieces in order, without a gap, up to `end`. *)
ChunkTo(chunk, end) ==
  /\ chunk \in Seq(Int) /\ Len(chunk) = Length
  /\ \A k \in 1..Length : chunk[k] = end - Length + k

(* The last piece that no buffer holds any more. *)
Handled == recorded - Len(buffer) - Len(port)

(* What is noted of a clip. *)
Spans == [from : Int, to : Int, answered : BOOLEAN]

(* The types. *)
MicTypeOK ==
  /\ Length \in Nat \ {0}
  /\ recorded \in Nat /\ micLoops \in Nat
  /\ spans \in Seq(Spans)
  /\ sent \in Seq(Seq(Seq(Int)))
  /\ Len(spans) = Len(sent)

(* What was recorded and not sent yet is in the worklet or on its way, whole. *)
Kept ==
  /\ buffer \in Seq(Int) /\ Len(buffer) < Length
  /\ \A k \in 1..Len(buffer) : buffer[k] = recorded - Len(buffer) + k
  /\ port # <<>> => buffer = <<>> /\ ChunkTo(port, recorded)

(* Chunks in the order of recording, each complete at one of the pieces of `ends`,
   and among them every piece of `whole`. *)
Chunks(q, ends, whole) ==
  /\ \A i \in DOMAIN q : ChunkTo(q[i], q[i][Length]) /\ q[i][Length] \in ends
  /\ \A i, j \in DOMAIN q : i < j => q[i][Length] <= q[j][Length]
  /\ \A piece \in whole : \E i \in DOMAIN q : piece \in Range(q[i])

(* Where the chunks of a clip may be complete, and the pieces that are among
   them for certain. *)
Ends(c) == (spans[c].from - 1)..spans[c].to
Whole(c) == spans[c].from..(spans[c].to - Length)

(* What SoundBelongs says of a clip. *)
Recorded(c) == Chunks(sent[c], Ends(c), Whole(c))

(* The clip that runs: a loop at least, and everything handled since it began
   is sent. *)
RunningClip ==
  active =>
    /\ micOn /\ ~micCancelled /\ micLoops > 0
    /\ Clip > 0 /\ spans[Clip].to = recorded /\ spans[Clip].from <= recorded + 1
    /\ Chunks(sent[Clip], (spans[Clip].from - 1)..Handled, spans[Clip].from..Handled)

(* The inductive invariant of Recording. *)
MicInv ==
  /\ MicTypeOK /\ Kept /\ RunningClip
  /\ \A c \in 1..Clip : Recorded(c)

USE DEF Mic!Clip, Clip

(* Nothing is recorded at first. *)
LEMMA MicInit == Mic!RecordingAssumption /\ Mic!Init => MicInv
<1> SUFFICES ASSUME Mic!RecordingAssumption, Mic!Init PROVE MicInv
  OBVIOUS
<1>1. /\ ~active /\ recorded = 0 /\ buffer = <<>> /\ port = <<>> /\ micLoops = 0
      /\ spans = <<>> /\ sent = <<>>
  BY DEF Mic!Init
<1>2. MicTypeOK
  BY <1>1 DEF MicTypeOK, Mic!RecordingAssumption
<1>3. Kept
  BY <1>1 DEF Kept, Mic!RecordingAssumption
<1>4. RunningClip /\ \A c \in 1..Clip : Recorded(c)
  BY <1>1 DEF RunningClip
<1> QED BY <1>2, <1>3, <1>4 DEF MicInv

-----------------------------------------------------------------------------
(* What the types say of the clips. *)
LEMMA ClipFacts ==
  ASSUME MicTypeOK
  PROVE  /\ Clip \in Nat /\ DOMAIN spans = 1..Clip /\ DOMAIN sent = 1..Clip
         /\ \A c \in 1..Clip : /\ sent[c] \in Seq(Seq(Int)) /\ spans[c] \in Spans
                               /\ spans[c].from \in Int /\ spans[c].to \in Int
<1>1. Clip \in Nat /\ DOMAIN spans = 1..Clip /\ DOMAIN sent = 1..Clip
  BY DEF MicTypeOK
<1>2. ASSUME NEW c \in 1..Clip PROVE sent[c] \in Seq(Seq(Int)) /\ spans[c] \in Spans
  BY <1>1 DEF MicTypeOK
<1>3. \A span \in Spans : span.from \in Int /\ span.to \in Int
  BY DEF Spans
<1> QED BY <1>1, <1>2, <1>3

(* The pieces of a chunk. *)
LEMMA PiecesOf ==
  ASSUME Length \in Nat \ {0}, NEW end \in Int, NEW chunk, ChunkTo(chunk, end)
  PROVE  /\ chunk[Length] = end
         /\ \A piece : piece \in Range(chunk) <=> piece \in (end - Length + 1)..end
<1>1. /\ chunk \in Seq(Int) /\ DOMAIN chunk = 1..Length
      /\ \A k \in 1..Length : chunk[k] = end - Length + k
  BY DEF ChunkTo
<1>2. ASSUME NEW piece \in Range(chunk) PROVE piece \in (end - Length + 1)..end
  <2>1. PICK k \in 1..Length : piece = chunk[k]
    BY <1>1, <1>2 DEF Range
  <2> QED BY <1>1, <2>1
<1>3. ASSUME NEW piece \in (end - Length + 1)..end PROVE piece \in Range(chunk)
  <2>1. piece - end + Length \in 1..Length
    OBVIOUS
  <2>2. chunk[piece - end + Length] = piece
    BY <1>1, <2>1
  <2> QED BY <1>1, <2>1, <2>2 DEF Range
<1> QED BY <1>1, <1>2, <1>3

(* Two sequences in a row. *)
LEMMA Joined ==
  ASSUME NEW S, NEW q \in Seq(S), NEW more \in Seq(S)
  PROVE  /\ q \o more \in Seq(S) /\ Len(q \o more) = Len(q) + Len(more)
         /\ \A i \in 1..Len(q) : (q \o more)[i] = q[i]
         /\ \A i \in (Len(q) + 1)..(Len(q) + Len(more)) : (q \o more)[i] = more[i - Len(q)]
OBVIOUS

(* One chunk more, once for each of n loops. *)
LEMMA OneChunkMore ==
  ASSUME Length \in Nat \ {0}, NEW q \in Seq(Seq(Int)),
         NEW low \in Int, NEW from \in Int, NEW done \in Int, NEW chunk \in Seq(Int),
         NEW n \in Nat \ {0},
         Chunks(q, low..done, from..done), ChunkTo(chunk, done + Length), low <= done + Length
  PROVE  Chunks(q \o [k \in 1..n |-> chunk], low..(done + Length), from..(done + Length))
<1> DEFINE more == [k \in 1..n |-> chunk]
           p == q \o more
           end == done + Length
           last == Len(q) + n
<1>0. end \in Int /\ last \in Nat /\ Len(q) \in Nat /\ Len(q) < last
  OBVIOUS
<1>1. /\ DOMAIN p = 1..last /\ \A i \in 1..Len(q) : p[i] = q[i]
      /\ \A i \in (Len(q) + 1)..last : p[i] = chunk
  <2>1. more \in Seq(Seq(Int)) /\ Len(more) = n /\ \A k \in 1..n : more[k] = chunk
    OBVIOUS
  <2> HIDE DEF more
  <2>2. /\ p \in Seq(Seq(Int)) /\ Len(p) = Len(q) + Len(more)
        /\ \A i \in 1..Len(q) : p[i] = q[i]
        /\ \A i \in (Len(q) + 1)..(Len(q) + Len(more)) : p[i] = more[i - Len(q)]
    BY <2>1, Joined
  <2> HIDE DEF p
  <2>3. DOMAIN p = 1..last
    BY <2>1, <2>2
  <2>4. ASSUME NEW i \in (Len(q) + 1)..last PROVE p[i] = chunk
    <3>1. i - Len(q) \in 1..n /\ p[i] = more[i - Len(q)]
      BY <1>0, <2>1, <2>2, <2>4
    <3> QED BY <2>1, <3>1
  <2> QED BY <2>2, <2>3, <2>4
<1> HIDE DEF p, more
<1>b. last \in DOMAIN p /\ p[last] = chunk
  <2> DEFINE l == Len(q)
  <2>1. l \in Nat /\ last \in Nat /\ l < last
    BY <1>0
  <2>2. DOMAIN p = 1..last /\ \A i \in (l + 1)..last : p[i] = chunk
    BY <1>1
  <2> HIDE DEF l, last
  <2>3. last \in 1..last /\ last \in (l + 1)..last
    BY <2>1
  <2> QED BY <2>2, <2>3
<1>2. DOMAIN q = 1..Len(q)
  OBVIOUS
<1>a. ASSUME NEW i \in 1..last PROVE i \in (Len(q) + 1)..last \/ i \in 1..Len(q)
  <2> DEFINE l == Len(q)
  <2>1. l \in Nat /\ i \in 1..last /\ last \in Nat
    BY <1>0
  <2> HIDE DEF l, last
  <2>2. i \in (l + 1)..last \/ i \in 1..l
    BY <2>1
  <2> QED BY <2>2 DEF l
<1>3. chunk[Length] = end /\ \A piece \in (done + 1)..end : piece \in Range(chunk)
  <2>1. end - Length = done
    OBVIOUS
  <2> HIDE DEF end
  <2>2. /\ chunk[Length] = end
        /\ \A piece : piece \in Range(chunk) <=> piece \in (end - Length + 1)..end
    BY <1>0, PiecesOf DEF end
  <2> QED BY <2>1, <2>2
<1>4. ASSUME NEW i \in DOMAIN p PROVE ChunkTo(p[i], p[i][Length]) /\ p[i][Length] \in low..end
  <2>1. CASE i \in (Len(q) + 1)..last
    BY <1>0, <1>1, <1>3, <2>1
  <2>2. CASE i \in 1..Len(q)
    <3>1. ChunkTo(q[i], q[i][Length]) /\ q[i][Length] \in low..done
      BY <1>2, <2>2 DEF Chunks
    <3> QED BY <1>1, <1>2, <2>2, <3>1
  <2> QED BY <1>1, <1>a, <2>1, <2>2
<1>5. ASSUME NEW i \in DOMAIN p, NEW j \in DOMAIN p, i < j
      PROVE  p[i][Length] <= p[j][Length]
  <2>1. p[i][Length] \in low..end
    BY <1>4
  <2>2. CASE j \in (Len(q) + 1)..last
    BY <1>0, <1>1, <1>3, <2>1, <2>2
  <2>3. CASE j \in 1..Len(q)
    <3>1. i \in 1..Len(q)
      BY <1>0, <1>1, <1>5, <2>3
    <3> QED BY <1>1, <1>2, <1>5, <2>3, <3>1 DEF Chunks
  <2> QED BY <1>1, <1>a, <2>2, <2>3
<1>6. ASSUME NEW piece \in from..end PROVE \E i \in DOMAIN p : piece \in Range(p[i])
  <2>1. CASE piece \in from..done
    <3>1. PICK i \in DOMAIN q : piece \in Range(q[i])
      BY <2>1 DEF Chunks
    <3>2. i \in DOMAIN p /\ p[i] = q[i]
      BY <1>0, <1>1, <1>2
    <3> QED BY <3>1, <3>2
  <2>2. CASE piece \notin from..done
    <3>1. piece \in (done + 1)..end
      BY <2>2
    <3> QED BY <1>3, <1>b, <3>1
  <2> QED BY <2>1, <2>2
<1> QED
  BY <1>4, <1>5, <1>6 DEF Chunks, p, more

(* The invariant says that the sound belongs to its clip. *)
LEMMA MicInvGives == MicInv => Mic!SoundBelongs
<1> SUFFICES ASSUME MicInv, NEW c \in 1..Clip
             PROVE  /\ \A piece \in Whole(c) : Mic!Carriers(c, piece) # {}
                    /\ \A i, j \in DOMAIN sent[c] :
                         i < j => sent[c][i][Length] <= sent[c][j][Length]
                    /\ \A i \in DOMAIN sent[c] : sent[c][i][Length] \in Ends(c)
  BY DEF Mic!SoundBelongs, Whole, Ends
<1>1. Chunks(sent[c], Ends(c), Whole(c))
  BY DEF MicInv, Recorded
<1>2. \A piece : Mic!Carriers(c, piece) = {k \in DOMAIN sent[c] : piece \in Range(sent[c][k])}
  BY DEF Mic!Carriers, Mic!Range, Range
<1> QED BY <1>1, <1>2 DEF Chunks

(* A piece more: the span of the clip that runs grows with it, and a chunk
   that is complete goes to the port whole. *)
LEMMA RecordStep ==
  ASSUME MicInv, Mic!Record
  PROVE  MicInv'
<1> DEFINE filled == Append(buffer, recorded + 1)
<1>0. MicTypeOK /\ Kept /\ RunningClip /\ \A c \in 1..Clip : Recorded(c)
  BY DEF MicInv
<1>a. Length \in Nat \ {0}
  BY <1>0 DEF MicTypeOK
<1> USE <1>a
<1>1. /\ micOn /\ port = <<>> /\ recorded' = recorded + 1
      /\ UNCHANGED <<micOn, active, micCancelled, micLoops, sent>>
  BY DEF Mic!Record
<1>2. /\ filled \in Seq(Int) /\ Len(filled) = Len(buffer) + 1
      /\ \A k \in 1..Len(filled) : filled[k] = recorded' - Len(filled) + k
  BY <1>0, <1>1 DEF Kept, MicTypeOK
<1>3. Kept' /\ Handled' = Handled
  <2>1. CASE Len(filled) = Length
    <3>1. buffer' = <<>> /\ port' = filled
      BY <2>1 DEF Mic!Record
    <3>2. ChunkTo(port', recorded')
      BY <1>2, <2>1, <3>1 DEF ChunkTo
    <3> QED
      BY <1>0, <1>1, <1>2, <2>1, <3>1, <3>2 DEF Kept, Handled, MicTypeOK
  <2>2. CASE Len(filled) # Length
    <3>1. buffer' = filled /\ port' = <<>>
      BY <1>1, <2>2 DEF Mic!Record
    <3>2. Len(buffer) \in Nat /\ Len(buffer) + 1 < Length /\ recorded \in Nat
      BY <1>0, <1>2, <2>2 DEF Kept, MicTypeOK
    <3>3. Kept'
      BY <1>2, <3>1, <3>2 DEF Kept
    <3> QED
      BY <1>1, <1>2, <3>1, <3>2, <3>3 DEF Handled
  <2> QED BY <2>1, <2>2
<1>4. CASE ~active
  <2>1. spans' = spans
    BY <1>4 DEF Mic!Record
  <2>2. MicTypeOK' /\ RunningClip'
    BY <1>0, <1>1, <1>4, <2>1 DEF MicTypeOK, RunningClip
  <2>3. \A c \in 1..Clip : Recorded(c)'
    BY <1>0, <1>1, <2>1 DEF Recorded, Ends, Whole
  <2> QED
    BY <1>1, <1>3, <2>2, <2>3 DEF MicInv
<1>5. CASE active
  <2>1. spans' = [spans EXCEPT ![Clip].to = recorded + 1]
    BY <1>5 DEF Mic!Record
  <2>2. Clip \in 1..Clip /\ spans[Clip] \in Spans /\ recorded + 1 \in Nat
    BY <1>0, <1>5, ClipFacts DEF RunningClip, MicTypeOK
  <2>3. /\ spans'[Clip].to = recorded' /\ spans'[Clip].from = spans[Clip].from
        /\ \A c \in 1..Clip : c # Clip => spans'[c] = spans[c]
    BY <1>0, <1>1, <2>1, <2>2, ClipFacts DEF Spans
  <2>4. MicTypeOK'
    <3>1. [spans[Clip] EXCEPT !.to = recorded + 1] \in Spans
      BY <2>2 DEF Spans
    <3>2. spans' \in Seq(Spans) /\ Len(spans') = Len(spans)
      BY <1>0, <2>1, <2>2, <3>1 DEF MicTypeOK
    <3> QED
      BY <1>0, <1>1, <2>2, <3>2 DEF MicTypeOK
  <2>7. RunningClip'
    <3>1. /\ micOn /\ ~micCancelled /\ micLoops > 0 /\ Clip > 0 /\ spans[Clip].from <= recorded + 1
          /\ Chunks(sent[Clip], (spans[Clip].from - 1)..Handled, spans[Clip].from..Handled)
      BY <1>0, <1>5 DEF RunningClip
    <3>2. spans'[Clip].from <= recorded' + 1
      BY <1>1, <2>2, <2>3, <3>1 DEF Spans
    <3> QED
      BY <1>1, <1>3, <2>3, <3>1, <3>2 DEF RunningClip
  <2>5. ASSUME NEW c \in 1..Clip, c = Clip PROVE Recorded(c)'
    <3>1. /\ Handled \in Int /\ recorded + 1 - Length <= Handled /\ Handled <= recorded
          /\ recorded \in Int /\ spans[c].from \in Int
      <4>1. port = <<>> /\ Len(buffer) \in Nat /\ Len(buffer) < Length /\ recorded \in Nat
        BY <1>0, <1>1 DEF Kept, MicTypeOK
      <4>2. Len(port) = 0 /\ spans[c].from \in Int
        BY <2>2, <2>5, <4>1 DEF Spans
      <4> QED
        BY <4>1, <4>2 DEF Handled
    <3>2. spans'[c].from = spans[c].from /\ spans'[c].to = recorded + 1
      BY <1>1, <2>3, <2>5
    <3> HIDE DEF Clip
    <3>3. /\ Whole(c)' \subseteq spans[c].from..Handled
          /\ (spans[c].from - 1)..Handled \subseteq Ends(c)'
      BY <3>1, <3>2 DEF Whole, Ends
    <3>4. Chunks(sent'[c], (spans[c].from - 1)..Handled, spans[c].from..Handled)
      BY <1>0, <1>1, <1>5, <2>5 DEF RunningClip
    <3> QED
      BY <3>3, <3>4 DEF Recorded, Chunks
  <2>6. \A c \in 1..Clip : c # Clip => Recorded(c)'
    BY <1>0, <1>1, <2>3 DEF Recorded, Ends, Whole
  <2> QED
    BY <1>1, <1>3, <2>4, <2>5, <2>6, <2>7 DEF MicInv
<1> QED BY <1>4, <1>5

(* A chunk arrives: it follows the last one of the clip that runs, or no clip
   runs and it is dropped. *)
LEMMA ReceiveStep ==
  ASSUME MicInv, Mic!Receive
  PROVE  MicInv'
<1>0. MicTypeOK /\ Kept /\ RunningClip /\ \A c \in 1..Clip : Recorded(c)
  BY DEF MicInv
<1>a. Length \in Nat \ {0}
  BY <1>0 DEF MicTypeOK
<1> USE <1>a
<1>1. /\ port # <<>> /\ port' = <<>>
      /\ UNCHANGED <<micOn, recorded, buffer, active, micCancelled, spans>>
  BY DEF Mic!Receive
<1>2. buffer = <<>> /\ ChunkTo(port, recorded) /\ Handled = recorded - Length /\ Handled' = recorded
  <2>1. buffer = <<>> /\ ChunkTo(port, recorded)
    BY <1>0, <1>1 DEF Kept
  <2>2. Len(buffer) = 0 /\ Len(port) = Length /\ Len(port') = 0 /\ recorded \in Nat
    BY <1>0, <1>1, <2>1 DEF ChunkTo, MicTypeOK
  <2> QED BY <1>1, <2>1, <2>2 DEF Handled
<1>3. Kept'
  BY <1>0, <1>1, <1>2 DEF Kept
<1>4. CASE ~active
  <2>1. micLoops' = 0 /\ sent' = sent
    BY <1>4 DEF Mic!Receive
  <2> QED
    BY <1>0, <1>1, <1>3, <1>4, <2>1 DEF MicInv, MicTypeOK, RunningClip, Recorded, Ends, Whole
<1>5. CASE active
  <2>1. /\ micLoops \in Nat \ {0} /\ micLoops' = micLoops /\ Clip \in 1..Clip
        /\ sent' = [sent EXCEPT ![Clip] = @ \o Mic!Copies(port)]
    BY <1>0, <1>5 DEF Mic!Receive, RunningClip, MicTypeOK
  <2> DEFINE q == sent[Clip]
             p == sent'[Clip]
             copies == [k \in 1..micLoops |-> port]
  <2>2. q \in Seq(Seq(Int)) /\ Mic!Copies(port) = copies /\ port \in Seq(Int)
    BY <1>0, <1>2, <2>1 DEF MicTypeOK, Mic!Copies, ChunkTo
  <2>a. copies \in Seq(Seq(Int))
    BY <2>1, <2>2
  <2> HIDE DEF copies
  <2>3. /\ p = q \o copies /\ Clip' = Clip
        /\ \A c \in 1..Clip : c # Clip => sent'[c] = sent[c]
    BY <1>0, <2>1, <2>2, <2>a DEF MicTypeOK
  <2>4. MicTypeOK'
    BY <1>0, <1>1, <2>1, <2>2, <2>a, <2>3 DEF MicTypeOK
  <2>5. /\ spans[Clip].from \in Int /\ spans[Clip].from <= recorded + 1
        /\ Handled \in Int /\ Handled + Length = recorded
        /\ Chunks(q, (spans[Clip].from - 1)..Handled, spans[Clip].from..Handled)
    BY <1>0, <1>2, <1>5, <2>1, ClipFacts DEF MicTypeOK, RunningClip
  <2>6. spans[Clip].from - 1 \in Int /\ spans[Clip].from - 1 <= Handled + Length
    BY <2>5
  <2>7. Chunks(p, (spans[Clip].from - 1)..recorded, spans[Clip].from..recorded)
    <3> DEFINE low == spans[Clip].from - 1
               from == spans[Clip].from
               done == Handled
               n == micLoops
    <3>1. /\ low \in Int /\ from \in Int /\ done \in Int /\ n \in Nat \ {0}
          /\ Chunks(q, low..done, from..done) /\ ChunkTo(port, done + Length)
          /\ low <= done + Length
      BY <1>2, <2>1, <2>5, <2>6
    <3>2. p = q \o [k \in 1..n |-> port] /\ done + Length = recorded
      BY <2>3, <2>5 DEF copies
    <3> HIDE DEF low, from, done, n, p, q
    <3>3. Chunks(q \o [k \in 1..n |-> port], low..(done + Length), from..(done + Length))
      BY <2>2, <3>1, OneChunkMore DEF q
    <3> QED BY <3>2, <3>3 DEF low, from
  <2>8. RunningClip'
    BY <1>0, <1>1, <1>2, <1>5, <2>1, <2>3, <2>7 DEF RunningClip
  <2>9. Recorded(Clip)'
    <3>1. /\ Whole(Clip)' \subseteq spans[Clip].from..recorded
          /\ Ends(Clip)' = (spans[Clip].from - 1)..recorded
      BY <1>0, <1>1, <1>5, <2>1, <2>3 DEF RunningClip, Whole, Ends, MicTypeOK
    <3> QED
      BY <2>3, <2>7, <3>1 DEF Recorded, Chunks
  <2>10. \A c \in 1..Clip : c # Clip => Recorded(c)'
    BY <1>0, <1>1, <2>3 DEF Recorded, Ends, Whole
  <2> QED
    BY <1>3, <2>3, <2>4, <2>8, <2>9, <2>10 DEF MicInv
<1> QED BY <1>4, <1>5

(* A clip starts: nothing of it is recorded, and its loop waits, among others
   perhaps. *)
LEMMA StartStep ==
  ASSUME MicInv, Mic!StartClip
  PROVE  MicInv'
<1> DEFINE span == [from |-> recorded + 1, to |-> recorded, answered |-> FALSE]
<1>0. MicTypeOK /\ Kept /\ RunningClip /\ \A c \in 1..Clip : Recorded(c)
  BY DEF MicInv
<1>a. Length \in Nat \ {0}
  BY <1>0 DEF MicTypeOK
<1> USE <1>a
<1>1. /\ micOn /\ active' = TRUE /\ micCancelled' = FALSE /\ micLoops' = micLoops + 1
      /\ micLoops' \in Nat /\ micLoops' > 0
      /\ spans' = Append(spans, span) /\ sent' = Append(sent, <<>>)
      /\ UNCHANGED <<micOn, recorded, buffer, port>>
  BY <1>0 DEF Mic!StartClip, Mic!captureVars, MicTypeOK
<1>2. MicTypeOK' /\ Kept' /\ Clip' = Clip + 1
  <2>1. span \in Spans /\ <<>> \in Seq(Seq(Int))
    BY <1>0 DEF Spans, MicTypeOK
  <2>2. /\ spans' \in Seq(Spans) /\ Len(spans') = Len(spans) + 1
        /\ sent' \in Seq(Seq(Seq(Int))) /\ Len(sent') = Len(sent) + 1
    BY <1>0, <1>1, <2>1 DEF MicTypeOK
  <2> QED BY <1>0, <1>1, <2>2 DEF MicTypeOK, Kept
<1>3. /\ sent'[Clip'] = <<>> /\ spans'[Clip'] = span
      /\ \A c \in 1..Clip : sent'[c] = sent[c] /\ spans'[c] = spans[c]
  BY <1>0, <1>1 DEF MicTypeOK
<1>4. Handled' \in Int /\ Handled' <= recorded
  BY <1>0, <1>1 DEF Handled, Kept, MicTypeOK, ChunkTo
<1>5. /\ Clip' > 0 /\ recorded' = recorded /\ spans'[Clip'].from = recorded + 1
      /\ spans'[Clip'].from..Handled' = {}
      /\ spans'[Clip'].from..(spans'[Clip'].to - Length) = {}
  <2>1. Clip' > 0 /\ recorded \in Nat /\ recorded' = recorded
    BY <1>0, <1>1, <1>2, ClipFacts DEF MicTypeOK
  <2>2. spans'[Clip'].from = recorded + 1 /\ spans'[Clip'].to = recorded
    BY <1>3
  <2> QED BY <1>4, <2>1, <2>2
<1>6. \A ends : Chunks(<<>>, ends, {})
  BY DEF Chunks
<1>7. RunningClip'
  <2>1. Chunks(sent'[Clip'], (spans'[Clip'].from - 1)..Handled', spans'[Clip'].from..Handled')
    BY <1>3, <1>5, <1>6
  <2>2. spans'[Clip'].to = recorded' /\ spans'[Clip'].from <= recorded' + 1 /\ micOn'
    BY <1>0, <1>1, <1>3, <1>5 DEF MicTypeOK
  <2> HIDE DEF Clip
  <2> QED
    BY <1>1, <1>5, <2>1, <2>2 DEF RunningClip
<1>8. ASSUME NEW c \in 1..Clip' PROVE Recorded(c)'
  <2>1. CASE c = Clip'
    BY <1>3, <1>5, <1>6, <2>1 DEF Recorded, Whole
  <2>2. CASE c # Clip'
    <3>1. c \in 1..Clip
      BY <1>0, <1>2, <2>2, ClipFacts
    <3> QED
      BY <1>0, <1>3, <3>1 DEF Recorded, Ends, Whole
  <2> QED BY <2>1, <2>2
<1> QED BY <1>2, <1>7, <1>8 DEF MicInv

(* The other steps leave what was recorded and sent of the clips. *)
LEMMA EndStep ==
  ASSUME MicInv, Mic!EndClip \/ Mic!Leave \/ Mic!Start \/ UNCHANGED Mic!vars
  PROVE  MicInv'
<1>0. MicTypeOK /\ Kept /\ RunningClip /\ \A c \in 1..Clip : Recorded(c)
  BY DEF MicInv
<1>a. Length \in Nat \ {0}
  BY <1>0 DEF MicTypeOK
<1> USE <1>a
<1>1. CASE Mic!EndClip
  <2>1. /\ active' = FALSE /\ micCancelled' = TRUE /\ Clip \in DOMAIN spans
        /\ spans' = [spans EXCEPT ![Clip].answered = TRUE]
        /\ UNCHANGED <<micOn, recorded, buffer, port, micLoops, sent>>
    BY <1>0, <1>1 DEF Mic!EndClip, Mic!captureVars, RunningClip, MicTypeOK
  <2>2. MicTypeOK' /\ Kept' /\ RunningClip'
    <3>0. \A span \in Spans : [span EXCEPT !.answered = TRUE] \in Spans
      BY DEF Spans
    <3>1. spans[Clip] \in Spans /\ [spans[Clip] EXCEPT !.answered = TRUE] \in Spans
      BY <1>0, <2>1, <3>0 DEF MicTypeOK
    <3>2. spans' \in Seq(Spans) /\ Len(spans') = Len(spans)
      BY <1>0, <2>1, <3>1 DEF MicTypeOK
    <3> QED BY <1>0, <2>1, <3>2 DEF MicTypeOK, Kept, RunningClip
  <2>3. \A c \in 1..Clip : spans'[c].from = spans[c].from /\ spans'[c].to = spans[c].to
    BY <1>0, <2>1 DEF MicTypeOK
  <2> QED
    BY <1>0, <2>1, <2>2, <2>3 DEF MicInv, Recorded, Ends, Whole
<1>2. CASE Mic!Leave
  <2>1. /\ ~active' /\ micLoops' = 0 /\ buffer' = <<>> /\ port' = <<>>
        /\ UNCHANGED <<recorded, spans, sent>>
    BY <1>2 DEF Mic!Leave
  <2>2. MicTypeOK' /\ Kept' /\ RunningClip'
    BY <1>0, <2>1 DEF MicTypeOK, Kept, RunningClip
  <2> QED
    BY <1>0, <2>1, <2>2 DEF MicInv, Recorded, Ends, Whole
<1>3. CASE Mic!Start
  BY <1>0, <1>3 DEF Mic!Start, Mic!handlerVars, MicInv, MicTypeOK, Kept, RunningClip,
                    Recorded, Ends, Whole
<1>4. CASE UNCHANGED Mic!vars
  BY <1>0, <1>4 DEF Mic!vars, Mic!captureVars, Mic!handlerVars, MicInv, MicTypeOK, Kept,
                    RunningClip, Handled, Recorded, Ends, Whole
<1> QED BY <1>1, <1>2, <1>3, <1>4

(* The sound of the microphone belongs to its clip, for any length of chunk and
   any number of clips and of pieces: session-handler.ts and capture.ts send
   what was recorded while a clip was active with that clip, but for the end,
   in its order, and nothing older than the chunk that was being filled,
   however quick the verdicts and however many loops send it. *)
THEOREM SoundBelongsAlways ==
  ASSUME Mic!RecordingAssumption
  PROVE  Mic!Spec => []Mic!SoundBelongs
<1>1. MicInv /\ [Mic!Next]_(Mic!vars) => MicInv'
  BY RecordStep, ReceiveStep, StartStep, EndStep DEF Mic!Next
<1> QED
  BY <1>1, MicInit, MicInvGives, PTL DEF Mic!Spec
=============================================================================
