------------------------- MODULE TranscriptionProofs -------------------------
(***************************************************************************)
(* Proofs about the Whisper pool under any callers, for every number of    *)
(* workers, and about the service that uses it, for any number of clips    *)
(* and faults.                                                             *)
(*                                                                         *)
(* The pool.  One that has lost no model never blocks the event loop, and  *)
(* no model is lost or shared.  The argument counts.  Every permit is      *)
(* free, on its way to a call, or with a call that holds a model; every    *)
(* model that was not discarded is free or held.  A call that finds the    *)
(* queue empty holds a permit itself, so fewer than Workers calls hold a   *)
(* model, and these are all the models there are.                          *)
(*                                                                         *)
(* The service.  A session uses the pool as the pool expects, whatever     *)
(* happens to it: what is proved of the pool holds in the service.  And no *)
(* entry of the store is left behind and no buffer grows.                  *)
(*                                                                         *)
(* The transcript.  In a session that nothing disturbs every chunk spoken  *)
(* is heard, in the pool, in the buffer or in the inbox, in order and      *)
(* without a gap; the words behind the overlap are the new ones.           *)
(***************************************************************************)
EXTENDS Transcription, Functions, FiniteSetTheorems, SequenceTheorems,
        WellFoundedInduction, TLAPS

(* The calls in the pool are finitely many, and none is in two places. *)
CallsApart ==
  /\ IsFiniteSet(granted)
  /\ IsFiniteSet(running)
  /\ \A i \in 1..Len(waiting) : waiting[i] \notin granted
  /\ \A i, j \in 1..Len(waiting) : waiting[i] = waiting[j] => i = j

(* Every permit is free, on its way, or held (by the call that blocked, too). *)
PermitsAccountedFor ==
  permits + Cardinality(granted) + Cardinality(running)
    + (IF stuck THEN 1 ELSE 0) = Workers

PoolInv ==
  /\ PoolTypeOK
  /\ CallsApart
  /\ PermitsAccountedFor
  /\ ModelsAccountedFor
  /\ ModelsExclusive
  /\ IntactPoolNeverBlocks

-----------------------------------------------------------------------------

(* What the tail of a queue is. *)
LEMMA TailOfQueue ==
  ASSUME NEW S, NEW q \in Seq(S), q # <<>>
  PROVE  /\ Head(q) \in S
         /\ Head(q) = q[1]
         /\ 1 \in 1..Len(q)
         /\ Tail(q) \in Seq(S)
         /\ Len(q) \in Nat
         /\ Len(Tail(q)) = Len(q) - 1
         /\ \A i \in 1..Len(Tail(q)) :
              Tail(q)[i] = q[i + 1] /\ i \in Int /\ i + 1 \in 1..Len(q) /\ i + 1 # 1
<1>1. Len(q) \in Nat /\ Len(q) > 0 /\ Len(Tail(q)) = Len(q) - 1
  OBVIOUS
<1>2. \A i \in 1..Len(Tail(q)) :
        Tail(q)[i] = q[i + 1] /\ i \in Int /\ i + 1 \in 1..Len(q) /\ i + 1 # 1
  BY <1>1
<1>3. Head(q) \in S /\ Head(q) = q[1] /\ Tail(q) \in Seq(S)
  OBVIOUS
<1> QED
  BY <1>1, <1>2, <1>3

(* A call with a permit in hand takes a model, or blocks a pool that has
   already lost one: permits and granted calls are one fewer for it. *)
LEMMA GetModelKeepsInv ==
  ASSUME PoolTypeOK, CallsApart, ModelsAccountedFor, ModelsExclusive, ~stuck,
         NEW c \in Calls, GetModel(c),
         NEW p \in Int,
         p + Cardinality(running) = Workers, p > 0
  PROVE  /\ models' \in Seq(1..Workers)
         /\ running' \subseteq [call : Calls, model : 1..Workers]
         /\ workerCount' = workerCount
         /\ available' \in Int
         /\ stuck' \in BOOLEAN
         /\ IsFiniteSet(running')
         /\ Cardinality(running') \in Nat
         /\ p - 1 + Cardinality(running') + (IF stuck' THEN 1 ELSE 0) = Workers
         /\ ModelsAccountedFor'
         /\ ModelsExclusive'
         /\ IntactPoolNeverBlocks'
<1>0. /\ Workers \in Nat
      /\ Cardinality(running) \in Nat
      /\ workerCount' = workerCount
      /\ available' \in Int
  BY WorkersAssumption, FS_CardinalityType DEF CallsApart, GetModel, PoolTypeOK
<1>1. CASE models # <<>>
  <2> DEFINE r == [call |-> c, model |-> Head(models)]
  <2>1. /\ models' = Tail(models)
        /\ running' = running \cup {r}
        /\ stuck' = FALSE
    BY <1>1 DEF GetModel
  <2>2. /\ Head(models) \in 1..Workers
        /\ Head(models) = models[1]
        /\ 1 \in 1..Len(models)
        /\ models' \in Seq(1..Workers)
        /\ Len(models') = Len(models) - 1
        /\ \A i \in 1..Len(models') :
             models'[i] = models[i + 1] /\ i \in Int /\ i + 1 \in 1..Len(models)
    <3>1. models \in Seq(1..Workers) /\ models # <<>>
      BY <1>1 DEF PoolTypeOK
    <3> QED
      BY <2>1, <3>1, TailOfQueue
  <2>3. r \notin running
    BY <2>2 DEF ModelsExclusive
  <2>4. /\ IsFiniteSet(running')
        /\ Cardinality(running') = Cardinality(running) + 1
    BY <2>1, <2>3, FS_AddElement DEF CallsApart
  <2>5. ModelsAccountedFor'
    BY <1>0, <2>1, <2>2, <2>4 DEF ModelsAccountedFor
  <2>6. ModelsExclusive'
    <3>1. \A q \in running : q.model # r.model
      BY <2>2 DEF ModelsExclusive
    <3>2. \A i \in 1..Len(models') : models'[i] # r.model
      BY <2>2 DEF ModelsExclusive
    <3>3. ASSUME NEW i \in 1..Len(models'), NEW j \in 1..Len(models'),
                 models'[i] = models'[j]
          PROVE  i = j
      <4>1. models[i + 1] = models[j + 1] => i + 1 = j + 1
        BY <2>2 DEF ModelsExclusive
      <4> QED
        BY <2>2, <3>3, <4>1
    <3>4. \A q \in running, i \in 1..Len(models') : models'[i] # q.model
      BY <2>2 DEF ModelsExclusive
    <3> QED
      BY <2>1, <3>1, <3>2, <3>3, <3>4 DEF ModelsExclusive
  <2>7. running' \subseteq [call : Calls, model : 1..Workers]
    BY <2>1, <2>2 DEF PoolTypeOK
  <2>8. /\ Cardinality(running') \in Nat
        /\ p - 1 + Cardinality(running') + (IF stuck' THEN 1 ELSE 0) = Workers
    BY <1>0, <2>1, <2>4
  <2>9. stuck' \in BOOLEAN /\ IntactPoolNeverBlocks'
    BY <2>1 DEF IntactPoolNeverBlocks
  <2> QED
    BY <1>0, <2>2, <2>4, <2>5, <2>6, <2>7, <2>8, <2>9
<1>2. CASE models = <<>>
  <2>1. models' = models /\ running' = running /\ stuck' = TRUE
    BY <1>2 DEF GetModel
  <2>2. Len(models) = 0
    BY <1>2
  <2>3. workerCount < Workers
    BY <1>0, <2>2 DEF ModelsAccountedFor
  <2> QED
    BY <1>0, <2>1, <2>3
    DEF PoolTypeOK, CallsApart, ModelsAccountedFor, ModelsExclusive,
        IntactPoolNeverBlocks
<1> QED
  BY <1>1, <1>2

(* A permit that is given back is free or on its way to the call that waited
   longest. *)
LEMMA ReleaseKeepsPermits ==
  ASSUME PoolTypeOK, CallsApart, Release
  PROVE  /\ waiting' \in Seq(Calls)
         /\ granted' \subseteq Calls
         /\ IsFiniteSet(granted')
         /\ permits' \in Nat
         /\ Cardinality(granted) \in Nat /\ Cardinality(granted') \in Nat
         /\ permits' + Cardinality(granted') = permits + Cardinality(granted) + 1
         /\ \A i \in 1..Len(waiting') : waiting'[i] \notin granted'
         /\ \A i, j \in 1..Len(waiting') : waiting'[i] = waiting'[j] => i = j
<1>0. Cardinality(granted) \in Nat
  BY FS_CardinalityType DEF CallsApart
<1>1. CASE waiting = <<>>
  <2>1. waiting' = waiting /\ granted' = granted /\ permits' = permits + 1
    BY <1>1 DEF Release
  <2> QED
    BY <1>0, <2>1 DEF PoolTypeOK, CallsApart
<1>2. CASE waiting # <<>>
  <2>1. /\ waiting' = Tail(waiting)
        /\ granted' = granted \cup {Head(waiting)}
        /\ permits' = permits
    BY <1>2 DEF Release
  <2>2. /\ Head(waiting) \in Calls
        /\ Head(waiting) = waiting[1]
        /\ 1 \in 1..Len(waiting)
        /\ waiting' \in Seq(Calls)
        /\ \A i \in 1..Len(waiting') :
             /\ waiting'[i] = waiting[i + 1]
             /\ i \in Int /\ i + 1 \in 1..Len(waiting) /\ i + 1 # 1
    BY <1>2, <2>1, TailOfQueue DEF PoolTypeOK
  <2>3. Head(waiting) \notin granted
    BY <2>2 DEF CallsApart
  <2>4. IsFiniteSet(granted') /\ Cardinality(granted') = Cardinality(granted) + 1
    BY <2>1, <2>3, FS_AddElement DEF CallsApart
  <2>5. \A i \in 1..Len(waiting') : waiting'[i] \notin granted'
    BY <2>1, <2>2 DEF CallsApart
  <2>6. ASSUME NEW i \in 1..Len(waiting'), NEW j \in 1..Len(waiting'),
               waiting'[i] = waiting'[j]
        PROVE  i = j
    <3>1. waiting[i + 1] = waiting[j + 1] => i + 1 = j + 1
      BY <2>2 DEF CallsApart
    <3> QED
      BY <2>2, <2>6, <3>1
  <2> QED
    BY <1>0, <2>1, <2>2, <2>4, <2>5, <2>6 DEF PoolTypeOK
<1> QED
  BY <1>1, <1>2

(* Every step of a caller keeps the invariant. *)
LEMMA TranscribeKeepsInv ==
  ASSUME PoolInv, NEW c \in Calls, Transcribe(c)
  PROVE  PoolInv'
<1>0. /\ PoolTypeOK /\ CallsApart /\ ModelsAccountedFor /\ ModelsExclusive
      /\ ~stuck /\ ~UnderWay(c)
      /\ Cardinality(granted) \in Nat /\ Cardinality(running) \in Nat
      /\ permits \in Nat /\ Workers \in Nat
  BY WorkersAssumption, FS_CardinalityType
  DEF PoolInv, Transcribe, CallsApart, PoolTypeOK
<1>1. CASE permits > 0 /\ permits' = permits - 1 /\ GetModel(c)
           /\ UNCHANGED <<waiting, granted>>
  <2> DEFINE p == permits + Cardinality(granted)
  <2>1. p \in Int /\ p > 0 /\ p + Cardinality(running) = Workers
    BY <1>0, <1>1 DEF PoolInv, PermitsAccountedFor
  <2> HIDE DEF p
  <2>3. /\ models' \in Seq(1..Workers)
        /\ running' \subseteq [call : Calls, model : 1..Workers]
        /\ workerCount' = workerCount
        /\ available' \in Int
        /\ stuck' \in BOOLEAN
        /\ IsFiniteSet(running')
        /\ Cardinality(running') \in Nat
        /\ p - 1 + Cardinality(running') + (IF stuck' THEN 1 ELSE 0) = Workers
        /\ ModelsAccountedFor'
        /\ ModelsExclusive'
        /\ IntactPoolNeverBlocks'
    BY <1>0, <1>1, <2>1, GetModelKeepsInv
  <2>4. permits' \in 0..Workers /\ PermitsAccountedFor'
    <3>1. permits' \in 0..Workers
      BY <1>0, <1>1, <2>1 DEF p
    <3>2. permits' + Cardinality(granted') = p - 1
      BY <1>0, <1>1 DEF p
    <3> QED BY <2>3, <3>1, <3>2 DEF PermitsAccountedFor
  <2>5. PoolTypeOK'
    BY <1>0, <1>1, <2>3, <2>4 DEF PoolTypeOK
  <2>6. CallsApart'
    BY <1>0, <1>1, <2>3 DEF CallsApart
  <2> QED
    BY <2>3, <2>4, <2>5, <2>6 DEF PoolInv
<1>2. CASE /\ waiting' = Append(waiting, c)
           /\ UNCHANGED <<models, permits, granted, running, workerCount,
                          available, stuck>>
  <2>1. waiting \in Seq(Calls)
    BY <1>0 DEF PoolTypeOK
  <2>2. /\ waiting' \in Seq(Calls)
        /\ Len(waiting) \in Nat
        /\ Len(waiting') = Len(waiting) + 1
        /\ waiting'[Len(waiting) + 1] = c
        /\ \A i \in 1..Len(waiting) : waiting'[i] = waiting[i]
    BY <1>2, <2>1
  <2>3. CallsApart'
    BY <1>0, <1>2, <2>2 DEF CallsApart, UnderWay
  <2> QED
    BY <1>0, <1>2, <2>2, <2>3
    DEF PoolInv, PoolTypeOK, PermitsAccountedFor, ModelsAccountedFor,
        ModelsExclusive, IntactPoolNeverBlocks
<1> QED
  BY <1>1, <1>2 DEF Transcribe

(* A call that was woken takes its permit along. *)
LEMMA ResumeKeepsInv ==
  ASSUME PoolInv, NEW c \in Calls, PoolResume(c)
  PROVE  PoolInv'
<1>0. /\ PoolTypeOK /\ CallsApart /\ ModelsAccountedFor /\ ModelsExclusive
      /\ ~stuck /\ c \in granted /\ granted' = granted \ {c} /\ GetModel(c)
      /\ permits' = permits /\ waiting' = waiting
      /\ Cardinality(granted) \in Nat /\ Cardinality(running) \in Nat
      /\ permits \in Nat /\ Workers \in Nat
  BY WorkersAssumption, FS_CardinalityType DEF PoolInv, PoolResume, CallsApart, PoolTypeOK
<1>1. /\ IsFiniteSet(granted')
      /\ Cardinality(granted') = Cardinality(granted) - 1
      /\ Cardinality(granted') \in Nat
  BY <1>0, FS_RemoveElement, FS_CardinalityType DEF CallsApart
<1> DEFINE p == permits + Cardinality(granted)
<1>2. p \in Int /\ p > 0 /\ p + Cardinality(running) = Workers
  BY <1>0, <1>1 DEF PoolInv, PermitsAccountedFor
<1> HIDE DEF p
<1>3. /\ models' \in Seq(1..Workers)
      /\ running' \subseteq [call : Calls, model : 1..Workers]
      /\ workerCount' = workerCount
      /\ available' \in Int
      /\ stuck' \in BOOLEAN
      /\ IsFiniteSet(running')
      /\ Cardinality(running') \in Nat
      /\ p - 1 + Cardinality(running') + (IF stuck' THEN 1 ELSE 0) = Workers
      /\ ModelsAccountedFor'
      /\ ModelsExclusive'
      /\ IntactPoolNeverBlocks'
  BY <1>0, <1>2, GetModelKeepsInv
<1>4. PermitsAccountedFor'
  BY <1>0, <1>1, <1>3 DEF p, PermitsAccountedFor
<1>5. PoolTypeOK' /\ CallsApart'
  BY <1>0, <1>1, <1>3 DEF PoolTypeOK, CallsApart
<1> QED
  BY <1>3, <1>4, <1>5 DEF PoolInv

(* Inference ends: a model and a permit come back, or only the permit. *)
LEMMA FinishKeepsInv ==
  ASSUME PoolInv, NEW c \in Calls, NEW ok \in BOOLEAN, Finish(c, ok)
  PROVE  PoolInv'
<1>0. /\ PoolTypeOK /\ CallsApart /\ ModelsAccountedFor /\ ModelsExclusive
      /\ ~stuck /\ stuck' = stuck /\ Release
      /\ Cardinality(granted) \in Nat /\ Cardinality(running) \in Nat
      /\ permits \in Nat /\ Workers \in Nat
      /\ workerCount \in Nat /\ workerCount <= Workers
      /\ workerCount' = IF ok THEN workerCount ELSE workerCount - 1
      /\ available' \in Int
  BY WorkersAssumption, FS_CardinalityType DEF PoolInv, Finish, CallsApart, PoolTypeOK
<1>1. PICK r \in running : /\ running' = running \ {r}
                           /\ models' = PutBack(r.model, ok)
  BY DEF Finish
<1>2. /\ IsFiniteSet(running')
      /\ Cardinality(running') = Cardinality(running) - 1
      /\ Cardinality(running') \in Nat
      /\ r.model \in 1..Workers
      /\ running' \subseteq [call : Calls, model : 1..Workers]
  BY <1>0, <1>1, FS_RemoveElement, FS_CardinalityType DEF CallsApart, PoolTypeOK
<1>3. /\ models \in Seq(1..Workers)
      /\ Len(models) \in Nat
  BY <1>0 DEF PoolTypeOK
<1>4. /\ waiting' \in Seq(Calls)
      /\ granted' \subseteq Calls
      /\ IsFiniteSet(granted')
      /\ permits' \in Nat
      /\ Cardinality(granted') \in Nat
      /\ permits' + Cardinality(granted') = permits + Cardinality(granted) + 1
      /\ \A i \in 1..Len(waiting') : waiting'[i] \notin granted'
      /\ \A i, j \in 1..Len(waiting') : waiting'[i] = waiting'[j] => i = j
  BY <1>0, ReleaseKeepsPermits
<1>5. CallsApart'
  BY <1>2, <1>4 DEF CallsApart
<1>6. PermitsAccountedFor' /\ permits' \in 0..Workers
  <2>1. permits + Cardinality(granted) + Cardinality(running) = Workers
    BY <1>0 DEF PoolInv, PermitsAccountedFor
  <2>0. /\ Cardinality(running) \in Nat /\ Cardinality(running') = Cardinality(running) - 1
        /\ permits \in Nat /\ Cardinality(granted) \in Nat
        /\ permits' + Cardinality(granted') = permits + Cardinality(granted) + 1
    BY <1>0, <1>2, <1>4
  <2>2. permits' + Cardinality(granted') + Cardinality(running') = Workers
    BY <2>0, <2>1
  <2>3. permits' \in 0..Workers
    <3>1. /\ permits' \in Nat /\ Cardinality(granted') \in Nat
          /\ Cardinality(running') \in Nat /\ Workers \in Nat
      BY <1>0, <1>2, <1>4
    <3> QED BY <2>2, <3>1
  <2> QED BY <1>0, <1>2, <1>4, <2>2, <2>3 DEF PermitsAccountedFor
<1>7. IntactPoolNeverBlocks'
  BY <1>0 DEF IntactPoolNeverBlocks
<1>8. CASE ok
  <2>1. /\ models' \in Seq(1..Workers)
        /\ Len(models') = Len(models) + 1
        /\ models'[Len(models) + 1] = r.model
        /\ \A i \in 1..Len(models) : models'[i] = models[i]
    BY <1>1, <1>2, <1>3, <1>8 DEF PutBack
  <2>2. ModelsAccountedFor'
    BY <1>0, <1>2, <1>3, <1>8, <2>1 DEF ModelsAccountedFor
  <2>3. ModelsExclusive'
    <3>1. \A q1, q2 \in running' : q1.model = q2.model => q1 = q2
      BY <1>0, <1>1 DEF ModelsExclusive
    <3>2. \A q \in running' : q.model # r.model
      BY <1>0, <1>1 DEF ModelsExclusive
    <3> DEFINE n == Len(models)
    <3>a. \A i \in 1..Len(models') : i \in 1..n \/ i = n + 1
      BY <1>3, <2>1
    <3>b. models'[n + 1] = r.model /\ \A i \in 1..n : models'[i] = models[i]
      BY <2>1
    <3> HIDE DEF n
    <3>c. /\ \A i \in 1..n : models[i] # r.model
          /\ \A q \in running, i \in 1..n : models[i] # q.model
          /\ \A i, j \in 1..n : models[i] = models[j] => i = j
      BY <1>0 DEF ModelsExclusive, n
    <3>3. \A q \in running', i \in 1..Len(models') : models'[i] # q.model
      BY <1>1, <3>2, <3>a, <3>b, <3>c
    <3>5. \A i, j \in 1..Len(models') : models'[i] = models'[j] => i = j
      BY <3>a, <3>b, <3>c
    <3> QED
      BY <3>1, <3>3, <3>5 DEF ModelsExclusive
  <2>4. PoolTypeOK'
    BY <1>0, <1>2, <1>4, <1>6, <1>8, <2>1 DEF PoolTypeOK
  <2> QED
    BY <1>5, <1>6, <1>7, <2>2, <2>3, <2>4 DEF PoolInv
<1>9. CASE ~ok
  <2>1. models' = models
    BY <1>1, <1>9 DEF PutBack
  <2>2. ModelsAccountedFor'
    BY <1>0, <1>2, <1>3, <1>9, <2>1 DEF ModelsAccountedFor
  <2>3. ModelsExclusive'
    BY <1>0, <1>1, <2>1 DEF ModelsExclusive
  <2>4. workerCount' \in 0..Workers
    BY <1>0, <1>2, <1>3, <1>9, <2>1, <2>2 DEF ModelsAccountedFor
  <2>5. PoolTypeOK'
    BY <1>0, <1>2, <1>3, <1>4, <1>6, <2>1, <2>4 DEF PoolTypeOK
  <2> QED
    BY <1>5, <1>6, <1>7, <2>2, <2>3, <2>5 DEF PoolInv
<1> QED
  BY <1>8, <1>9

(* A pool that has loaded its models satisfies the invariant. *)
LEMMA InitEstablishesInv == PoolInit => PoolInv
<1> SUFFICES ASSUME PoolInit PROVE PoolInv
  OBVIOUS
<1>0. Workers \in Nat
  BY WorkersAssumption
<1>1. /\ models \in Seq(1..Workers)
      /\ Len(models) = Workers
      /\ \A i \in 1..Workers : models[i] = i
  BY <1>0 DEF PoolInit
<1>2. /\ IsFiniteSet({})
      /\ Cardinality({}) = 0
  BY FS_EmptySet
<1>3. /\ waiting \in Seq(Calls)
      /\ 1..Len(waiting) = {}
  BY DEF PoolInit
<1>6. PoolTypeOK
  <2>1. /\ permits \in 0..Workers
        /\ workerCount \in 0..Workers
        /\ available \in Int
    BY <1>0 DEF PoolInit
  <2>2. /\ granted \subseteq Calls
        /\ running \subseteq [call : Calls, model : 1..Workers]
        /\ stuck \in BOOLEAN
    BY Zenon DEF PoolInit
  <2> QED
    BY <1>1, <1>3, <2>1, <2>2 DEF PoolTypeOK
<1>7. CallsApart
  BY <1>2, <1>3 DEF PoolInit, CallsApart
<1>4. PermitsAccountedFor /\ ModelsAccountedFor
  BY <1>0, <1>1, <1>2 DEF PoolInit, PermitsAccountedFor, ModelsAccountedFor
<1>5. ModelsExclusive /\ IntactPoolNeverBlocks
  BY <1>1 DEF PoolInit, ModelsExclusive, IntactPoolNeverBlocks
<1> QED
  BY <1>4, <1>5, <1>6, <1>7 DEF PoolInv

(* Every step of the pool keeps the invariant. *)
LEMMA StepKeepsInv == PoolInv /\ [PoolNext]_poolVars => PoolInv'
<1> SUFFICES ASSUME PoolInv, [PoolNext]_poolVars PROVE PoolInv'
  OBVIOUS
<1>1. CASE PoolNext
  BY <1>1, TranscribeKeepsInv, ResumeKeepsInv, FinishKeepsInv DEF PoolNext
<1>2. CASE UNCHANGED poolVars
  BY <1>2 DEF poolVars, PoolInv, PoolTypeOK, CallsApart, PermitsAccountedFor,
              ModelsAccountedFor, ModelsExclusive, IntactPoolNeverBlocks
<1> QED
  BY <1>1, <1>2

(* The inductive invariant holds whoever calls. *)
THEOREM PoolInvariance == PoolSpec => []PoolInv
  BY InitEstablishesInv, StepKeepsInv, PTL DEF PoolSpec

(* As long as no inference has failed, the event loop never blocks in get(),
   however many calls overlap. *)
THEOREM IntactPoolRuns == PoolSpec => []IntactPoolNeverBlocks
<1>1. PoolInv => IntactPoolNeverBlocks
  BY DEF PoolInv
<1> QED
  BY <1>1, PoolInvariance, PTL

(* Every model is free, in the hands of exactly one call, or discarded. *)
THEOREM NoModelLostOrShared == PoolSpec => [](ModelsAccountedFor /\ ModelsExclusive)
<1>1. PoolInv => ModelsAccountedFor /\ ModelsExclusive
  BY DEF PoolInv
<1> QED
  BY <1>1, PoolInvariance, PTL

-----------------------------------------------------------------------------
(* The service. *)

(* A sequence, of whatever elements. *)
IsSequence(q) == q \in Seq(Range(q))

(* Less than a window of audio waits in the entry. *)
Short(e) ==
  /\ "pcm" \in DOMAIN e
  /\ IsSequence(e.pcm)
  /\ Len(e.pcm) < Window

AllShort(es) == DOMAIN es = Clips /\ \A c \in Clips : Short(es[c])

StoreInv ==
  /\ DOMAIN handlers = Clips
  /\ session \in {0} \cup Clips
  /\ AllShort(entries)
  /\ NoLeakedEntry

-----------------------------------------------------------------------------
(* The pool. *)

(* Every step is one of the pool, or none of its business. *)
LEMMA PoolStep == [Next]_vars => [PoolNext]_poolVars
<1> SUFFICES ASSUME [Next]_vars PROVE [PoolNext]_poolVars
  OBVIOUS
<1>1. ASSUME NEW c \in Clips
      PROVE  <<"window", c>> \in Calls /\ <<"final", c>> \in Calls
  BY CallsAssumption DEF Jobs
<1>2. ASSUME NEW c \in Clips,
             Speak(c) \/ Flush(c) \/ NextClip(c) \/ Return(c) \/ Accept(c) \/ Disconnect(c)
      PROVE  UNCHANGED poolVars
  BY <1>2 DEF Speak, Flush, NextClip, Return, Accept, Disconnect
<1>3. ASSUME NEW c \in Clips, Receive(c)
      PROVE  UNCHANGED poolVars \/ Transcribe(<<"window", c>>)
  BY <1>3 DEF Receive
<1>4. ASSUME NEW c \in Clips, WindowAnswered(c)
      PROVE  \E ok \in BOOLEAN : Finish(<<"window", c>>, ok)
  BY <1>4 DEF WindowAnswered
<1>5. ASSUME NEW c \in Clips, FinaliseArrives(c)
      PROVE  UNCHANGED poolVars \/ Transcribe(<<"final", c>>)
  BY <1>5 DEF FinaliseArrives
<1>6. ASSUME NEW c \in Clips, FinaliseAnswered(c)
      PROVE  \E ok \in BOOLEAN : Finish(<<"final", c>>, ok)
  BY <1>6 DEF FinaliseAnswered
<1>7. CASE ResetArrives \/ UNCHANGED vars
  BY <1>7 DEF ResetArrives, vars
<1>8. ASSUME NEW job \in Jobs, Resume(job) PROVE PoolNext
  BY <1>8, CallsAssumption DEF Resume, PoolNext
<1>9. ASSUME NEW job \in OtherJobs, OtherAsks(job) \/ OtherAnswered(job) PROVE PoolNext
  <2>1. job \in Calls
    BY CallsAssumption DEF Jobs
  <2> QED BY <1>9, <2>1 DEF OtherAsks, OtherAnswered, PoolNext
<1>10. ASSUME NEW c \in Clips,
              \/ Speak(c) \/ Flush(c) \/ NextClip(c) \/ Return(c)
              \/ Accept(c) \/ Receive(c) \/ WindowAnswered(c) \/ Disconnect(c)
              \/ FinaliseArrives(c) \/ FinaliseAnswered(c)
       PROVE  [PoolNext]_poolVars
  BY <1>1, <1>2, <1>3, <1>4, <1>5, <1>6, <1>10 DEF PoolNext
<1> QED BY <1>7, <1>8, <1>9, <1>10 DEF Next

(* The service implements the pool with any callers. *)
THEOREM PoolImplemented == Spec => PoolSpec
<1>1. Init => PoolInit
  BY DEF Init
<1> QED BY <1>1, PoolStep, PTL DEF Spec, PoolSpec

(* In the service, too, no model is lost or used twice, and the event loop
   does not block as long as no model was discarded. *)
THEOREM ServiceSharesPool == Spec => [](ModelsExclusive /\ IntactPoolNeverBlocks)
BY PoolImplemented, IntactPoolRuns, NoModelLostOrShared, PTL

-----------------------------------------------------------------------------
(* The store. *)

(* Sequences of whatever elements. *)
LEMMA Sequences ==
  /\ IsSequence(<<>>) /\ Len(<<>>) = 0
  /\ \A q, x : IsSequence(q) =>
       /\ Len(q) \in Nat /\ Len(Append(q, x)) = Len(q) + 1
       /\ IsSequence(Append(q, x))
<1>1. IsSequence(<<>>) /\ Len(<<>>) = 0
  BY DEF IsSequence
<1>2. ASSUME NEW q, NEW x, IsSequence(q)
      PROVE  /\ Len(q) \in Nat /\ Len(Append(q, x)) = Len(q) + 1
             /\ IsSequence(Append(q, x))
  <2> DEFINE S == Range(q) \cup {x}
  <2>1. q \in Seq(S) /\ x \in S /\ Len(q) \in Nat
    BY <1>2 DEF IsSequence
  <2> HIDE DEF S
  <2>2. /\ Append(q, x) \in Seq(S) /\ Len(Append(q, x)) = Len(q) + 1
    BY <2>1
  <2>3. IsSequence(Append(q, x))
    <3> DEFINE r == Append(q, x)
    <3>1. r \in Seq(S)
      BY <2>2
    <3> HIDE DEF r
    <3>2. r \in Seq(Range(r))
      BY <3>1 DEF Range
    <3> QED BY <3>2 DEF IsSequence, r
  <2> QED BY <2>1, <2>2, <2>3
<1> QED BY <1>1, <1>2

(* One entry is replaced by a short one. *)
LEMMA Replaced ==
  ASSUME NEW es, AllShort(es), NEW k, NEW e, k \in Clips => Short(e)
  PROVE  AllShort([es EXCEPT ![k] = e])
BY DEF AllShort

(* What the operations on an entry do to its buffer. *)
LEMMA EntryOperations ==
  ASSUME NEW e, Short(e)
  PROVE  /\ Short(FreshEntry)
         /\ Short([e EXCEPT !.pcm = <<>>])
         /\ \A combined, heard : Short(Transcribed(e, combined, heard))
         /\ Short([e EXCEPT !.overlap = <<>>, !.start = 0])
         /\ \A chunk : ~Full(AppendPcm(e, chunk)) => Short(AppendPcm(e, chunk))
<1>1. Window \in Nat /\ 0 < Window
  BY TranscriptionAssumption
<1>2. Short(FreshEntry) /\ Short([e EXCEPT !.pcm = <<>>])
  BY <1>1, Sequences DEF Short, FreshEntry
<1>3. \A combined, heard : Short(Transcribed(e, combined, heard))
  BY DEF Short, Transcribed
<1>4. Short([e EXCEPT !.overlap = <<>>, !.start = 0])
  BY DEF Short
<1>5. ASSUME NEW chunk, ~Full(AppendPcm(e, chunk)) PROVE Short(AppendPcm(e, chunk))
  <2>1. AppendPcm(e, chunk).pcm \in {e.pcm, Append(e.pcm, chunk)}
        /\ "pcm" \in DOMAIN AppendPcm(e, chunk)
    BY DEF AppendPcm, Short
  <2>2. /\ IsSequence(AppendPcm(e, chunk).pcm)
        /\ Len(AppendPcm(e, chunk).pcm) \in Nat
    BY <2>1, Sequences DEF Short
  <2> QED BY <1>1, <1>5, <2>1, <2>2 DEF Full, Short
<1> QED BY <1>2, <1>3, <1>4, <1>5

(* The end of finalise leaves short buffers short. *)
LEMMA ConcludeKeepsShort ==
  ASSUME NEW c, NEW es, NEW words, AllShort(es), session \in {0} \cup Clips,
         Conclude(c, es, words)
  PROVE  AllShort(entries')
<1>1. CASE entries' = es
  BY <1>1
<1>2. CASE session # 0 /\ entries' = ClearOverlap(es, session)
  <2>1. session \in Clips /\ Short(es[session])
    BY <1>2 DEF AllShort
  <2>2. Short([es[session] EXCEPT !.overlap = <<>>, !.start = 0])
    BY <2>1, EntryOperations
  <2>3. entries' = [es EXCEPT ![session] = [es[session] EXCEPT !.overlap = <<>>, !.start = 0]]
    BY <1>2, <2>1 DEF ClearOverlap, AllShort
  <2> QED BY <2>2, <2>3, Replaced
<1> QED BY <1>1, <1>2 DEF Conclude

(* Audio comes: it is kept, or taken out once there is a window. *)
LEMMA ReceiveKeepsInv ==
  ASSUME StoreInv, NEW c \in Clips, Receive(c) PROVE StoreInv'
<1> DEFINE e == AppendPcm(entries[session], Head(clips[c].inbox))
<1>1. session' = session /\ handlers[c] = Receiving
  BY DEF Receive
<1>2. /\ DOMAIN handlers' = Clips
      /\ \A d \in Clips : \/ handlers'[d] = handlers[d]
                          \/ d = c /\ handlers'[d].phase = "window"
  <2>1. \/ handlers' = handlers
        \/ \E h : h.phase = "window" /\ handlers' = [handlers EXCEPT ![c] = h]
    BY DEF Receive
  <2> QED BY <2>1 DEF StoreInv
<1>3. NoLeakedEntry'
  BY <1>1, <1>2 DEF StoreInv, NoLeakedEntry
<1>4. AllShort(entries')
  <2>1. \/ entries' = entries
        \/ /\ session # 0 /\ ~Full(e)
           /\ entries' = [entries EXCEPT ![session] = e]
        \/ session # 0 /\ entries' = [entries EXCEPT ![session].pcm = <<>>]
    BY DEF Receive
  <2>2. session # 0 => session \in Clips /\ Short(entries[session])
    BY DEF StoreInv, AllShort
  <2>3. AllShort(entries)
    BY DEF StoreInv
  <2>4. CASE session # 0 /\ ~Full(e) /\ entries' = [entries EXCEPT ![session] = e]
    <3>1. Short(e)
      BY <2>2, <2>4, EntryOperations
    <3> QED BY <2>3, <2>4, <3>1, Replaced
  <2>5. CASE session # 0 /\ entries' = [entries EXCEPT ![session].pcm = <<>>]
    <3>1. Short([entries[session] EXCEPT !.pcm = <<>>])
      BY <2>2, <2>5, EntryOperations
    <3>2. entries' = [entries EXCEPT ![session] = [entries[session] EXCEPT !.pcm = <<>>]]
      BY <2>5
    <3> QED BY <2>3, <3>1, <3>2, Replaced
  <2> QED BY <2>1, <2>3, <2>4, <2>5
<1> QED BY <1>1, <1>2, <1>3, <1>4 DEF StoreInv

(* The rest of the handler. *)
LEMMA HandlerKeepsInv ==
  ASSUME StoreInv, NEW c \in Clips, Accept(c) \/ WindowAnswered(c) \/ Disconnect(c)
  PROVE  StoreInv'
<1>1. AllShort(entries)
  BY DEF StoreInv
<1>2. CASE Accept(c)
  <2>1. /\ handlers' = [handlers EXCEPT ![c] = Receiving] /\ session' = c
        /\ entries' = [entries EXCEPT ![c] = FreshEntry]
    BY <1>2 DEF Accept
  <2>2. Short(FreshEntry)
    BY <1>1, EntryOperations DEF AllShort
  <2>3. AllShort(entries')
    BY <1>1, <2>1, <2>2, Replaced
  <2>4. NoLeakedEntry'
    BY <2>1 DEF NoLeakedEntry, Receiving, Idle, StoreInv
  <2> QED BY <2>1, <2>3, <2>4 DEF StoreInv
<1>3. CASE WindowAnswered(c)
  <2>1. /\ handlers' = [handlers EXCEPT ![c] = Receiving] /\ session' = session
        /\ \/ entries' = entries
           \/ \E k, combined, heard :
                entries' = [entries EXCEPT ![k] = Transcribed(@, combined, heard)]
    BY <1>3 DEF WindowAnswered
  <2>2. AllShort(entries')
    <3>1. ASSUME NEW k, NEW combined, NEW heard,
                 entries' = [entries EXCEPT ![k] = Transcribed(@, combined, heard)]
          PROVE  AllShort(entries')
      <4>1. k \in Clips => Short(Transcribed(entries[k], combined, heard))
        BY <1>1, EntryOperations DEF AllShort
      <4>2. entries' = [entries EXCEPT ![k] = Transcribed(entries[k], combined, heard)]
        BY <3>1
      <4> QED BY <1>1, <4>1, <4>2, Replaced
    <3> QED BY <1>1, <2>1, <3>1
  <2>3. NoLeakedEntry'
    BY <2>1 DEF NoLeakedEntry, Receiving, Idle, StoreInv
  <2> QED BY <2>1, <2>2, <2>3 DEF StoreInv
<1>4. CASE Disconnect(c)
  BY <1>4 DEF Disconnect, CloseSession, StoreInv, NoLeakedEntry
<1> QED BY <1>2, <1>3, <1>4

(* The routes. *)
LEMMA RoutesKeepInv ==
  ASSUME StoreInv,
         ResetArrives \/ \E c \in Clips : FinaliseArrives(c) \/ FinaliseAnswered(c)
  PROVE  StoreInv'
<1>0. AllShort(entries) /\ session \in {0} \cup Clips
  BY DEF StoreInv
<1>1. UNCHANGED <<handlers, session>>
  BY DEF ResetArrives, FinaliseArrives, FinaliseAnswered
<1>2. session # 0 => session \in Clips /\ Short(entries[session])
  BY <1>0 DEF AllShort
<1>3. CASE ResetArrives
  <2>1. \/ entries' = entries
        \/ session # 0 /\ entries' = [entries EXCEPT ![session] = FreshEntry]
    BY <1>3 DEF ResetArrives
  <2>2. session # 0 => Short(FreshEntry)
    BY <1>2, EntryOperations
  <2>3. AllShort(entries')
    BY <1>0, <2>1, <2>2, Replaced
  <2> QED BY <1>1, <2>3 DEF StoreInv, NoLeakedEntry
<1>4. ASSUME NEW c \in Clips, FinaliseArrives(c) PROVE StoreInv'
  <2> DEFINE taken == [entries EXCEPT ![session].pcm = <<>>]
  <2>1. session # 0 => AllShort(taken)
    <3>1. taken = [entries EXCEPT ![session] = [entries[session] EXCEPT !.pcm = <<>>]]
      OBVIOUS
    <3>2. session # 0 => Short([entries[session] EXCEPT !.pcm = <<>>])
      BY <1>2, EntryOperations
    <3> QED BY <1>0, <3>1, <3>2, Replaced
  <2>2. \/ entries' = entries
        \/ session # 0 /\ (entries' = taken \/ Conclude(c, taken, {}))
    BY <1>4 DEF FinaliseArrives
  <2> HIDE DEF taken
  <2>3. AllShort(entries')
    BY <1>0, <2>1, <2>2, ConcludeKeepsShort
  <2> QED BY <1>1, <2>3 DEF StoreInv, NoLeakedEntry
<1>5. ASSUME NEW c \in Clips, FinaliseAnswered(c) PROVE StoreInv'
  <2>1. \/ \E words : Conclude(c, entries, words)
        \/ \E k, combined, heard, words :
             Conclude(c, [entries EXCEPT ![k] = Transcribed(@, combined, heard)], words)
    BY <1>5 DEF FinaliseAnswered
  <2>2. ASSUME NEW k, NEW combined, NEW heard
        PROVE  AllShort([entries EXCEPT ![k] = Transcribed(@, combined, heard)])
    <3>1. k \in Clips => Short(Transcribed(entries[k], combined, heard))
      BY <1>0, EntryOperations DEF AllShort
    <3> QED BY <1>0, <3>1, Replaced
  <2>3. AllShort(entries')
    BY <1>0, <2>1, <2>2, ConcludeKeepsShort
  <2> QED BY <1>1, <2>3 DEF StoreInv, NoLeakedEntry
<1> QED BY <1>3, <1>4, <1>5

(* The store starts without entries in use. *)
LEMMA StoreInit == Init => StoreInv
<1> SUFFICES ASSUME Init PROVE StoreInv
  OBVIOUS
<1>1. Window \in Nat /\ 0 < Window
  BY TranscriptionAssumption
<1>2. Short(FreshEntry)
  BY <1>1, Sequences DEF Short, FreshEntry
<1> QED BY <1>2 DEF Init, StoreInv, AllShort, NoLeakedEntry

(* Every step keeps the store in order. *)
LEMMA StoreStep == StoreInv /\ [Next]_vars => StoreInv'
<1> SUFFICES ASSUME StoreInv, [Next]_vars PROVE StoreInv'
  OBVIOUS
<1>1. CASE UNCHANGED <<handlers, session, entries>>
  BY <1>1 DEF StoreInv, NoLeakedEntry
<1>2. ASSUME NEW c \in Clips, Speak(c) \/ Flush(c) \/ NextClip(c) \/ Return(c)
      PROVE  UNCHANGED <<handlers, session, entries>>
  BY <1>2 DEF Speak, Flush, NextClip, Return
<1>3. ASSUME NEW c \in Clips,
             \/ Accept(c) \/ Receive(c) \/ WindowAnswered(c) \/ Disconnect(c)
             \/ FinaliseArrives(c) \/ FinaliseAnswered(c)
      PROVE  StoreInv'
  BY <1>3, ReceiveKeepsInv, HandlerKeepsInv, RoutesKeepInv
<1>4. CASE ResetArrives
  BY <1>4, RoutesKeepInv
<1>5. ASSUME NEW job, Resume(job) \/ OtherAsks(job) \/ OtherAnswered(job)
      PROVE  UNCHANGED <<handlers, session, entries>>
  BY <1>5 DEF Resume, OtherAsks, OtherAnswered
<1>6. CASE UNCHANGED vars
  BY <1>1, <1>6 DEF vars
<1> QED BY <1>1, <1>2, <1>3, <1>4, <1>5, <1>6 DEF Next

(* The store is always in order. *)
LEMMA StoreInvariant == Spec => []StoreInv
BY StoreInit, StoreStep, PTL DEF Spec

(* No entry of the store outlives the handler that removes it. *)
THEOREM EntriesAreRemoved == Spec => []NoLeakedEntry
<1>1. StoreInv => NoLeakedEntry
  BY DEF StoreInv
<1> QED BY <1>1, StoreInvariant, PTL

(* No buffer holds a window between two steps. *)
THEOREM BuffersStayShort == Spec => []BufferStaysShort
<1>1. StoreInv => BufferStaysShort
  BY DEF StoreInv, AllShort, Short, BufferStaysShort
<1> QED BY <1>1, StoreInvariant, PTL

-----------------------------------------------------------------------------
(* The transcript of an undisturbed session.  A clip that was spoken to is    *)
(* over, and its finalise request done, when its successor begins, so that    *)
(* only the latest clip has audio on the way; its chunks are, in order, heard *)
(* already, under way in the pool, in the buffer of the entry and in the      *)
(* inbox of the handler, none missing.  The overlap holds no word that ends   *)
(* after until, and reaches until: the new words of a window are those of its *)
(* fresh chunks.                                                              *)

Chunk == [clip : Clips, at : Nat, kind : Kinds]
TimedWord == [clip : Clips, at : Nat, begin : Int, end : Int]
Entry == [pcm : Seq(Chunk), overlap : Seq(Chunk), start : Int, until : Int]

Clip == [conn : {"none", "connecting", "open", "closed"}, spoken : Nat,
         said : SUBSET Nat, inbox : Seq(Chunk), words : Seq(SUBSET TimedWord),
         flushed : BOOLEAN, final : BOOLEAN]

(* Behind its first n chunks q holds what clip c spoke last up to time upto. *)
Spoken(c, said, q, n, upto) ==
  \A i \in 1..Len(q) : n < i =>
    /\ q[i].clip = c
    /\ q[i].at = upto - Len(q) + i
    /\ q[i].kind = "word" <=> q[i].at \in said

(* The transcripts hold what was said up to time upto, in order. *)
Received(c, words, said, until, upto) ==
  /\ \A i \in 1..Len(words) : \A w \in words[i] :
       w.clip = c /\ w.at \in said /\ w.at <= upto /\ w.end <= until
  /\ \A i, j \in 1..Len(words) : \A v \in words[i], w \in words[j] :
       /\ i < j => v.at < w.at
       /\ v.at < w.at <=> v.end < w.end
       /\ i = j /\ v.at = w.at => v = w
  /\ \A t \in said : t <= upto =>
       \E i \in 1..Len(words) : \E w \in words[i] : w.at = t

(* The words of the overlap are old. *)
Aligned(e) ==
  /\ \A i \in 1..Len(e.overlap) : e.overlap[i].kind = "word" => e.start + i <= e.until
  /\ e.until <= e.start + Len(e.overlap)

(* q holds, behind n chunks, all that was taken from the inbox and not heard. *)
Heeded(c, k, e, q, n) ==
  /\ n <= Len(q)
  /\ Aligned(e)
  /\ Spoken(c, k.said, q, n, k.spoken - Len(k.inbox))
  /\ Received(c, k.words, k.said, e.until, k.spoken - Len(k.inbox) - (Len(q) - n))

(* The pool has the overlap and what was in the buffer. *)
Taken(c, k, e, q) ==
  /\ q \in Seq(Chunk)
  /\ e.pcm = <<>>
  /\ \A i \in 1..Len(e.overlap) : q[i] = e.overlap[i]
  /\ Heeded(c, k, e, q, Len(e.overlap))

Requested(k) == IF k.flushed THEN [Idle EXCEPT !.phase = "sent"] ELSE Idle
Done == [Idle EXCEPT !.phase = "done"]

(* The clip k, its handler h and its finalise request f. *)
Ongoing(c, k) ==
  /\ k.said \subseteq 1..k.spoken
  /\ Len(k.inbox) <= k.spoken
  /\ Spoken(c, k.said, k.inbox, 0, k.spoken)

Unused(k, h, f) == k = NewClip /\ h = Idle /\ f = Idle

Connecting(c, k, h, f) ==
  /\ k.conn = "connecting" /\ h = Idle /\ f = Requested(k)
  /\ Ongoing(c, k) /\ Len(k.inbox) = k.spoken /\ k.words = <<>> /\ ~k.final

Listening(c, k, e, h, f) ==
  /\ k.conn = "open" /\ h = Receiving /\ f = Requested(k)
  /\ Ongoing(c, k) /\ ~k.final
  /\ Heeded(c, k, e, e.pcm, 0)

Hearing(c, k, e, h, f) ==
  /\ k.conn = "open" /\ h.phase = "window" /\ h.entry = c /\ f = Requested(k)
  /\ Ongoing(c, k) /\ ~k.final
  /\ Taken(c, k, e, h.combined)

Concluding(c, k, e, h, f) ==
  /\ k.conn = "open" /\ h = Receiving /\ f.phase = "pool" /\ f.entry = c
  /\ Ongoing(c, k) /\ ~k.final /\ k.flushed /\ k.inbox = <<>>
  /\ Taken(c, k, e, f.combined)

Concluded(c, k, e, h, f) ==
  /\ k.conn = "open" /\ h = Receiving /\ f = Done
  /\ Ongoing(c, k) /\ k.final /\ k.flushed /\ k.inbox = <<>> /\ e.pcm = <<>>
  /\ Received(c, k.words, k.said, e.until, k.spoken)

Over(k, h, f) ==
  k = [NewClip EXCEPT !.conn = "closed"] /\ h \in {Receiving, Gone} /\ f = Done

Orderly(c, k, e, h, f) ==
  \/ Unused(k, h, f) \/ Connecting(c, k, h, f)
  \/ Listening(c, k, e, h, f) \/ Hearing(c, k, e, h, f)
  \/ Concluding(c, k, e, h, f) \/ Concluded(c, k, e, h, f)
  \/ Over(k, h, f)

Undisturbed ==
  /\ clips \in [Clips -> Clip]
  /\ entries \in [Clips -> Entry]
  /\ handlers = [c \in Clips |-> handlers[c]]
  /\ finalises = [c \in Clips |-> finalises[c]]
  /\ \A c \in Clips : Orderly(c, clips[c], entries[c], handlers[c], finalises[c])
  /\ \A c \in Clips : handlers[c].phase \in {"receiving", "window"} <=> session = c
  /\ \A c, d \in Clips :
       c < d /\ clips[d].conn # "none" => clips[c].conn = "closed"
  /\ \A c \in Clips :
       clips[c].conn = "closed" => c < MaxClip /\ clips[c + 1].conn # "none"

TranscriptInv == calm => Undisturbed

-----------------------------------------------------------------------------
(* Numbers.                                                                  *)

(* A set of natural numbers has a least element. *)
LEMMA NatLeast ==
  ASSUME NEW S \in SUBSET Nat, S # {}
  PROVE  \E m \in S : \A n \in S : m <= n
<1> DEFINE R == OpToRel(<, Nat)
<1>1. IsWellFoundedOn(R, Nat)
  BY NatLessThanWellFounded
<1> HIDE DEF R
<1>2. PICK m \in S : \A n \in S : ~(<<n, m>> \in R)
  BY <1>1, WFMin
<1>3. ASSUME NEW n \in S PROVE m <= n
  <2> SUFFICES ASSUME n < m PROVE FALSE
    OBVIOUS
  <2>1. <<n, m>> \in R
    BY DEF R, OpToRel
  <2> QED
    BY <1>2, <2>1, Zenon
<1> QED
  BY <1>3

(* So has a set of integers that is bounded below. *)
LEMMA IntLeast ==
  ASSUME NEW S \in SUBSET Int, S # {}, NEW low \in Int, \A x \in S : low <= x
  PROVE  \E m \in S : \A n \in S : m <= n
<1> DEFINE U == {x - low : x \in S}
<1>1. U \in SUBSET Nat
  OBVIOUS
<1>2. U # {}
  OBVIOUS
<1>3. PICK u \in U : \A v \in U : u <= v
  BY <1>1, <1>2, NatLeast
<1>4. PICK m \in S : u = m - low
  OBVIOUS
<1>5. ASSUME NEW n \in S PROVE m <= n
  <2>1. u <= n - low
    BY <1>3
  <2> QED
    BY <2>1, <1>4
<1> QED
  BY <1>5

(* One that is bounded above has a greatest. *)
LEMMA IntGreatest ==
  ASSUME NEW S \in SUBSET Int, S # {}, NEW high \in Int, \A x \in S : x <= high
  PROVE  \E m \in S : \A n \in S : n <= m
<1> DEFINE U == {high - x : x \in S}
<1>1. U \in SUBSET Nat
  OBVIOUS
<1>2. U # {}
  OBVIOUS
<1>3. PICK u \in U : \A v \in U : u <= v
  BY <1>1, <1>2, NatLeast
<1>4. PICK m \in S : u = high - m
  OBVIOUS
<1>5. ASSUME NEW n \in S PROVE n <= m
  <2>1. u <= high - n
    BY <1>3
  <2> QED
    BY <2>1, <1>4
<1> QED
  BY <1>5

(* The least and the greatest element of a bounded set of integers. *)
LEMMA MinOf ==
  ASSUME NEW S \in SUBSET Int, S # {}, NEW low \in Int, \A x \in S : low <= x
  PROVE  Min(S) \in S /\ \A x \in S : Min(S) <= x
<1>1. \E m \in S : \A x \in S : m <= x
  BY IntLeast
<1> QED BY <1>1 DEF Min

LEMMA MaxOf ==
  ASSUME NEW S \in SUBSET Int, S # {}, NEW high \in Int, \A x \in S : x <= high
  PROVE  Max(S) \in S /\ \A x \in S : x <= Max(S)
<1>1. \E m \in S : \A x \in S : x <= m
  BY IntGreatest
<1>2. \E m \in S : \A x \in S : m >= x
  BY <1>1
<1>3. Max(S) \in S /\ \A x \in S : Max(S) >= x
  BY <1>2, Zenon DEF Max
<1> QED BY <1>3

(* The word that is heard at place i. *)
WordAt(q, start, i) ==
  [clip |-> q[i].clip, at |-> q[i].at, begin |-> start + i - 1, end |-> start + i]

LEMMA HeardWords ==
  ASSUME NEW q \in Seq(Chunk), NEW start \in Int
  PROVE  /\ Heard(q, start) \in SUBSET TimedWord
         /\ \A w \in Heard(q, start) : \E i \in 1..Len(q) :
              q[i].kind = "word" /\ w = WordAt(q, start, i)
         /\ \A i \in 1..Len(q) :
              q[i].kind = "word" => WordAt(q, start, i) \in Heard(q, start)
<1>1. \A i \in 1..Len(q) : WordAt(q, start, i) \in TimedWord
  <2>1. ASSUME NEW i \in 1..Len(q) PROVE WordAt(q, start, i) \in TimedWord
    <3>1. q[i] \in Chunk
      OBVIOUS
    <3>2. q[i].clip \in Clips /\ q[i].at \in Nat /\ start + i - 1 \in Int /\ start + i \in Int
      BY <3>1 DEF Chunk
    <3> QED BY <3>2 DEF WordAt, TimedWord
  <2> QED BY <2>1
<1>2. Heard(q, start) = {WordAt(q, start, i) : i \in {j \in 1..Len(q) : q[j].kind = "word"}}
  BY DEF Heard, WordAt
<1> QED BY <1>1, <1>2

(* new holds what was said from time upto to time now. *)
Brings(c, new, said, until, upto, last, now) ==
  /\ \A w \in new : /\ w.clip = c /\ w.at \in said
                    /\ upto < w.at /\ w.at <= now /\ until < w.end /\ w.end <= last
  /\ \A v, w \in new : /\ v.at < w.at <=> v.end < w.end
                       /\ v.at = w.at => v = w
  /\ \A t \in said : upto < t /\ t <= now => \E w \in new : w.at = t

(* The transcripts with one more. *)
Extended(words, new) == IF new = {} THEN words ELSE Append(words, new)

(* What lies on two sides of m is apart. *)
LEMMA Apart ==
  ASSUME NEW a \in Int, NEW b \in Int, NEW m \in Int, a <= m, m < b
  PROVE  a < b /\ ~(b < a) /\ a # b
OBVIOUS

(* A transcript of what was said since continues the transcripts before. *)
LEMMA ReceivedMore ==
  ASSUME NEW c, NEW words \in Seq(SUBSET TimedWord), NEW said \in SUBSET Nat,
         NEW until \in Int, NEW upto \in Int, Received(c, words, said, until, upto),
         NEW last \in Int, NEW now \in Int, until <= last, upto <= now,
         NEW new \in SUBSET TimedWord,
         Brings(c, new, said, until, upto, last, now)
  PROVE  /\ Extended(words, new) \in Seq(SUBSET TimedWord)
         /\ Received(c, Extended(words, new), said, last, now)
<1> SUFFICES ASSUME NEW more, more = IF new = {} THEN words ELSE Append(words, new)
             PROVE  more \in Seq(SUBSET TimedWord) /\ Received(c, more, said, last, now)
  BY DEF Extended
<1>0. /\ Len(words) \in Nat
      /\ \A i \in 1..Len(words) : words[i] \in SUBSET TimedWord
      /\ \A w \in TimedWord : w.at \in Int /\ w.end \in Int
      /\ \A t \in said : t \in Int
  BY DEF TimedWord
<1>a. /\ \A w \in new : /\ w.clip = c /\ w.at \in said
                        /\ upto < w.at /\ w.at <= now /\ until < w.end /\ w.end <= last
      /\ \A v, w \in new : /\ v.at < w.at <=> v.end < w.end
                           /\ v.at = w.at => v = w
      /\ \A t \in said : upto < t /\ t <= now => \E w \in new : w.at = t
  BY DEF Brings
<1>1. \A i \in 1..Len(words) : \A w \in words[i] :
        w.clip = c /\ w.at \in said /\ w.at <= upto /\ w.end <= until
  BY DEF Received
<1>2. \A i, j \in 1..Len(words) : \A v \in words[i], w \in words[j] :
       /\ i < j => v.at < w.at
       /\ v.at < w.at <=> v.end < w.end
       /\ i = j /\ v.at = w.at => v = w
  BY DEF Received
<1>3. \A t \in said : t <= upto =>
       \E i \in 1..Len(words) : \E w \in words[i] : w.at = t
  BY DEF Received
<1>4. CASE new = {}
  <2>1. more = words
    BY <1>4
  <2>2. \A t \in said : t <= now => t <= upto
    BY <1>0, <1>4, <1>a
  <2>3. \A i \in 1..Len(words) : \A w \in words[i] :
          w.clip = c /\ w.at \in said /\ w.at <= now /\ w.end <= last
    BY <1>0, <1>1
  <2> QED BY <1>2, <1>3, <2>1, <2>2, <2>3 DEF Received
<1>5. CASE new # {}
  <2> DEFINE n == Len(words)
  <2>1. /\ more \in Seq(SUBSET TimedWord)
        /\ Len(more) = n + 1 /\ more[n + 1] = new
        /\ \A i \in 1..n : more[i] = words[i]
    BY <1>5
  <2>2. \A i \in 1..Len(more) : i \in 1..n \/ i = n + 1
    BY <1>0, <2>1
  <2>3. n + 1 \in 1..Len(more) /\ \A i \in 1..n : i \in 1..Len(more)
    BY <1>0, <2>1
  <2>4. ASSUME NEW i \in 1..Len(more), NEW w \in more[i]
        PROVE  w.clip = c /\ w.at \in said /\ w.at <= now /\ w.end <= last
    <3>1. CASE i \in 1..n
      <4>1. w \in words[i] /\ w.clip = c /\ w.at \in said /\ w.at <= upto /\ w.end <= until
        BY <1>1, <2>1, <3>1
      <4>2. w.at \in Int /\ w.end \in Int
        BY <1>0, <3>1, <4>1
      <4> QED BY <4>1, <4>2
    <3>2. CASE i = n + 1
      BY <1>a, <2>1, <3>2
    <3> QED BY <2>2, <3>1, <3>2
  <2>5. ASSUME NEW i \in 1..Len(more), NEW j \in 1..Len(more),
               NEW v \in more[i], NEW w \in more[j]
        PROVE  /\ i < j => v.at < w.at
               /\ v.at < w.at <=> v.end < w.end
               /\ i = j /\ v.at = w.at => v = w
    <3>0. i \in Int /\ j \in Int /\ n \in Int
      BY <1>0
    <3>1. CASE i \in 1..n /\ j \in 1..n
      BY <1>2, <2>1, <3>1
    <3>2. CASE i = n + 1 /\ j = n + 1
      BY <1>a, <2>1, <3>2
    <3>3. CASE i \in 1..n /\ j = n + 1
      <4>1. v \in words[i] /\ w \in new
        BY <2>1, <3>3
      <4>2. v.at <= upto /\ upto < w.at /\ v.end <= until /\ until < w.end
        BY <1>1, <1>a, <3>3, <4>1
      <4>3. v.at \in Int /\ w.at \in Int /\ v.end \in Int /\ w.end \in Int
        BY <1>0, <3>3, <4>1
      <4>4. v.at < w.at /\ v.at # w.at /\ v.end < w.end
        BY <4>2, <4>3, Apart
      <4>5. i # j
        BY <3>0, <3>3
      <4> QED BY <4>4, <4>5
    <3>4. CASE i = n + 1 /\ j \in 1..n
      <4>1. w \in words[j] /\ v \in new
        BY <2>1, <3>4
      <4>2. w.at <= upto /\ upto < v.at /\ w.end <= until /\ until < v.end
        BY <1>1, <1>a, <3>4, <4>1
      <4>3. v.at \in Int /\ w.at \in Int /\ v.end \in Int /\ w.end \in Int
        BY <1>0, <3>4, <4>1
      <4>4. ~(v.at < w.at) /\ ~(v.end < w.end)
        BY <4>2, <4>3, Apart
      <4>5. ~(i < j) /\ i # j
        BY <3>0, <3>4
      <4> QED BY <4>4, <4>5
    <3> QED BY <2>2, <3>1, <3>2, <3>3, <3>4
  <2>6. ASSUME NEW t \in said, t <= now
        PROVE  \E i \in 1..Len(more) : \E w \in more[i] : w.at = t
    <3>1. CASE t <= upto
      <4>1. PICK i \in 1..n : \E w \in words[i] : w.at = t
        BY <1>3, <3>1
      <4> QED BY <2>1, <2>3, <4>1
    <3>2. CASE upto < t
      <4>1. PICK w \in new : w.at = t
        BY <1>a, <2>6, <3>2
      <4> QED BY <2>1, <2>3, <4>1
    <3>3. t <= upto \/ upto < t
      BY <1>0
    <3> QED BY <3>1, <3>2, <3>3
  <2> QED BY <2>1, <2>4, <2>5, <2>6 DEF Received
<1> QED BY <1>4, <1>5

-----------------------------------------------------------------------------
(* What inference makes of an entry. *)

(* The overlap begins with a word of the buffer. *)
LEMMA OverlapBegins ==
  ASSUME NEW q \in Seq(Chunk), NEW start \in Int, Heard(q, start) # {}
  PROVE  \E i \in 1..Len(q) : OverlapBegin(Heard(q, start)) = start + i - 1
<1> DEFINE heard  == Heard(q, start)
           begins == {w.begin : w \in heard}
           After(u) == {v \in heard : v.begin > u.begin}
           lastOnes == {u \in heard : Cardinality(After(u)) < OverlapWords}
           choices == {w.begin : w \in lastOnes}
<1>1. /\ heard \in SUBSET TimedWord /\ heard # {}
      /\ \A w \in heard : \E i \in 1..Len(q) : w = WordAt(q, start, i)
  BY HeardWords
<1>2. \A w \in heard : w.begin \in Int /\ \E i \in 1..Len(q) : w.begin = start + i - 1
  <2>1. ASSUME NEW w \in heard
        PROVE  w.begin \in Int /\ \E i \in 1..Len(q) : w.begin = start + i - 1
    <3>1. w \in TimedWord /\ \E i \in 1..Len(q) : w = WordAt(q, start, i)
      BY <1>1
    <3> HIDE DEF heard
    <3>2. w.begin \in Int
      BY <3>1 DEF TimedWord
    <3>3. \E i \in 1..Len(q) : w.begin = start + i - 1
      BY <3>1 DEF WordAt
    <3> QED BY <3>2, <3>3
  <2> QED BY <2>1
<1> HIDE DEF heard
<1>3. Len(q) \in Nat
  OBVIOUS
<1>4. /\ begins \in SUBSET Int /\ begins # {}
      /\ \A x \in begins : x <= start + Len(q)
  BY <1>1, <1>2, <1>3
<1>5. start + Len(q) \in Int
  BY <1>3
<1>6. Max(begins) \in begins /\ \A x \in begins : x <= Max(begins)
  <2> HIDE DEF begins
  <2> QED BY <1>4, <1>5, MaxOf
<1>7. PICK u \in heard : u.begin = Max(begins)
  BY <1>6
<1>8. \A v \in heard : v.begin <= u.begin
  BY <1>6, <1>7
<1>9. After(u) = {}
  BY <1>2, <1>8
<1>10. u \in lastOnes
  <2>1. Cardinality(After(u)) = 0
    BY <1>9, FS_EmptySet
  <2> QED BY <2>1, TranscriptionAssumption
<1>11. /\ choices \in SUBSET Int /\ choices # {}
       /\ \A x \in choices : start <= x
       /\ \A x \in choices : \E i \in 1..Len(q) : x = start + i - 1
  <2>1. lastOnes \subseteq heard /\ lastOnes # {}
    BY <1>10
  <2> HIDE DEF lastOnes
  <2>2. choices \in SUBSET Int /\ choices # {}
    BY <1>2, <2>1
  <2>3. \A x \in choices : \E i \in 1..Len(q) : x = start + i - 1
    BY <1>2, <2>1
  <2>4. \A x \in choices : start <= x
    <3> HIDE DEF choices
    <3> QED BY <1>3, <2>3
  <2> QED BY <2>2, <2>3, <2>4
<1>12. OverlapBegin(heard) = Min(choices)
  BY DEF OverlapBegin
<1>13. Min(choices) \in choices
  <2> HIDE DEF choices
  <2> QED BY <1>11, MinOf
<1> QED BY <1>11, <1>12, <1>13 DEF heard

(* What follows a place of a sequence. *)
LEMMA Rest ==
  ASSUME NEW S, NEW q \in Seq(S), NEW a \in 1..Len(q)
  PROVE  /\ SubSeq(q, a, Len(q)) \in Seq(S)
         /\ Len(SubSeq(q, a, Len(q))) = Len(q) - a + 1
         /\ \A i \in 1..Len(SubSeq(q, a, Len(q))) :
              /\ SubSeq(q, a, Len(q))[i] = q[a + i - 1]
              /\ i \in Int /\ a + i - 1 \in 1..Len(q)
<1>1. Len(q) \in Nat /\ a \in Int /\ 1 <= a /\ a <= Len(q)
  OBVIOUS
<1>2. Len(SubSeq(q, a, Len(q))) = Len(q) - a + 1
  BY <1>1
<1>3. \A i \in 1..(Len(q) - a + 1) : i \in Int /\ a + i - 1 \in 1..Len(q)
  BY <1>1
<1>4. SubSeq(q, a, Len(q)) \in Seq(S)
  BY <1>1
<1>5. \A i \in 1..(Len(q) - a + 1) : SubSeq(q, a, Len(q))[i] = q[a + i - 1]
  BY <1>1
<1> QED BY <1>2, <1>3, <1>4, <1>5

(* Words are new behind the overlap. *)
LEMMA NewBehindOverlap ==
  ASSUME NEW e \in Entry, Aligned(e), NEW q \in Seq(Chunk), Len(e.overlap) <= Len(q),
         \A i \in 1..Len(e.overlap) : q[i] = e.overlap[i],
         NEW i \in 1..Len(q), q[i].kind = "word"
  PROVE  /\ i \in Int /\ e.start \in Int /\ e.until \in Int /\ Len(e.overlap) \in Nat
         /\ e.start + i > e.until <=> i > Len(e.overlap)
         /\ Len(q) \in Nat
<1>1. /\ i \in Int /\ 1 <= i /\ Len(q) \in Nat
      /\ e.start \in Int /\ e.until \in Int /\ e.overlap \in Seq(Chunk)
  BY DEF Entry
<1>2. Len(e.overlap) \in Nat
  BY <1>1
<1>3. CASE i <= Len(e.overlap)
  <2>1. i \in 1..Len(e.overlap)
    BY <1>1, <1>2, <1>3
  <2>2. e.overlap[i].kind = "word"
    BY <2>1
  <2>3. e.start + i <= e.until
    BY <2>1, <2>2 DEF Aligned
  <2> QED BY <1>1, <1>2, <1>3, <2>3
<1>4. CASE i > Len(e.overlap)
  <2>1. e.until <= e.start + Len(e.overlap)
    BY DEF Aligned
  <2> QED BY <1>1, <1>2, <1>4, <2>1
<1> QED BY <1>1, <1>2, <1>3, <1>4

(* The entry after inference is in order again. *)
LEMMA TranscribedAligned ==
  ASSUME NEW e \in Entry, Aligned(e), NEW q \in Seq(Chunk), Len(e.overlap) <= Len(q),
         \A i \in 1..Len(e.overlap) : q[i] = e.overlap[i],
         NEW heard, heard = Heard(q, e.start),
         NEW after, after = Transcribed(e, q, heard)
  PROVE  /\ after \in Entry /\ Aligned(after) /\ after.pcm = e.pcm
         /\ e.until <= after.until
         /\ \A w \in NewWords(e, heard) : w.end <= after.until
<1> DEFINE new == NewWords(e, heard)
<1>0. /\ e.start \in Int /\ e.until \in Int /\ e.overlap \in Seq(Chunk)
      /\ e.pcm \in Seq(Chunk) /\ Len(q) \in Nat
  BY DEF Entry
<1>1. Len(e.overlap) \in Nat
  BY <1>0
<1>2. CASE heard = {}
  BY <1>0, <1>2 DEF Transcribed, NewWords
<1>3. CASE heard # {}
  <2> DEFINE b == OverlapBegin(heard)
             a == b - e.start + 1
             s == SubSeq(q, a, Len(q))
             m == IF new = {} THEN e.until ELSE Max({w.end : w \in new})
  <2>1. /\ heard \in SUBSET TimedWord
        /\ \A w \in heard : \E i \in 1..Len(q) :
             q[i].kind = "word" /\ w = WordAt(q, e.start, i)
        /\ \A i \in 1..Len(q) :
             q[i].kind = "word" => WordAt(q, e.start, i) \in heard
    BY <1>0, HeardWords
  <2>2. after = [e EXCEPT !.until = m, !.overlap = s, !.start = b]
    BY <1>3 DEF Transcribed
  <2>3. PICK g \in 1..Len(q) : b = e.start + g - 1
    BY <1>0, <1>3, OverlapBegins
  <2>4. b \in Int /\ a = g /\ g \in Int /\ e.start + g = b + 1
    BY <1>0, <2>3
  <2>5. /\ s \in Seq(Chunk)
        /\ Len(s) = Len(q) - g + 1
        /\ \A i \in 1..Len(s) : s[i] = q[g + i - 1] /\ i \in Int /\ g + i - 1 \in 1..Len(q)
    <3>1. s = SubSeq(q, g, Len(q))
      BY <2>4
    <3> HIDE DEF s
    <3> QED BY <2>3, <3>1, Rest
  <2>6. /\ m \in Int /\ e.until <= m /\ m <= e.start + Len(q)
        /\ \A w \in new : w.end <= m
    <3>1. \A w \in heard : w.end \in Int /\ w.end <= e.start + Len(q)
      <4>1. ASSUME NEW w \in heard PROVE w.end \in Int /\ w.end <= e.start + Len(q)
        <5>1. PICK i \in 1..Len(q) : w = WordAt(q, e.start, i)
          BY <2>1
        <5> QED BY <1>0, <5>1 DEF WordAt
      <4> QED BY <4>1
    <3>2. \A w \in new : w \in heard /\ w.end > e.until
      BY DEF NewWords
    <3>3. e.until <= e.start + Len(q)
      BY <1>0, <1>1 DEF Aligned
    <3>4. CASE new = {}
      BY <1>0, <3>3, <3>4
    <3>5. CASE new # {}
      <4> DEFINE ends == {w.end : w \in new}
      <4>1. /\ ends \in SUBSET Int /\ ends # {}
            /\ \A x \in ends : x <= e.start + Len(q) /\ x > e.until
        BY <3>1, <3>2, <3>5
      <4>2. e.start + Len(q) \in Int
        BY <1>0
      <4>3. m = Max(ends)
        BY <3>5
      <4>4. \A w \in new : w.end \in ends
        OBVIOUS
      <4> HIDE DEF ends, m, new
      <4>5. m \in ends /\ \A x \in ends : x <= m
        BY <4>1, <4>2, <4>3, MaxOf
      <4>6. m \in Int /\ e.until < m /\ m <= e.start + Len(q)
        BY <1>0, <4>1, <4>5
      <4>7. \A w \in new : w.end <= m
        BY <4>4, <4>5
      <4> QED BY <1>0, <4>6, <4>7
    <3> QED BY <3>4, <3>5
  <2> HIDE DEF m, s, b, new
  <2>7. /\ after.pcm = e.pcm /\ after.overlap = s /\ after.start = b /\ after.until = m
        /\ after \in Entry
    BY <2>2, <2>4, <2>5, <2>6 DEF Entry
  <2>8. after.until <= after.start + Len(after.overlap)
    <3> DEFINE l == Len(q)
               ls == Len(s)
    <3>1. l \in Int /\ ls = l - g + 1
      BY <1>0, <2>5
    <3>2. m <= e.start + l
      BY <2>6
    <3>3. after.until = m /\ after.start = b /\ Len(after.overlap) = ls
      BY <2>7
    <3> HIDE DEF l, ls
    <3>4. m <= b + ls
      BY <1>0, <2>4, <2>6, <3>1, <3>2
    <3> QED BY <3>3, <3>4
  <2>9. ASSUME NEW i \in 1..Len(s), s[i].kind = "word" PROVE b + i <= m
    <3> DEFINE j == g + i - 1
    <3>1. j \in 1..Len(q) /\ q[j].kind = "word" /\ i \in Int
      BY <2>5, <2>9
    <3>2. e.start + j = b + i
      <4>1. e.start \in Int /\ g \in Int /\ i \in Int /\ b \in Int /\ e.start + g = b + 1
        BY <1>0, <2>4, <3>1
      <4> QED BY <4>1
    <3> HIDE DEF j
    <3>3. WordAt(q, e.start, j) \in heard /\ WordAt(q, e.start, j).end = e.start + j
      BY <2>1, <3>1 DEF WordAt
    <3>4. CASE e.start + j > e.until
      <4>1. WordAt(q, e.start, j) \in new
        BY <3>3, <3>4 DEF new, NewWords
      <4> QED BY <2>6, <3>2, <3>3, <4>1
    <3>5. CASE ~(e.start + j > e.until)
      <4>1. e.start + j \in Int
        BY <1>0, <3>1
      <4> QED BY <1>0, <2>6, <3>2, <3>5, <4>1
    <3> QED BY <3>4, <3>5
  <2>10. Aligned(after)
    BY <2>7, <2>8, <2>9 DEF Aligned
  <2> QED BY <2>6, <2>7, <2>10 DEF new
<1> QED BY <1>2, <1>3

-----------------------------------------------------------------------------
(* What becomes of the audio of a clip. *)

(* Fields of a clip and of an entry. *)
LEMMA Fields ==
  ASSUME NEW k \in Clip, NEW e \in Entry
  PROVE  /\ k.spoken \in Nat /\ k.said \in SUBSET Nat /\ k.inbox \in Seq(Chunk)
         /\ k.words \in Seq(SUBSET TimedWord) /\ Len(k.inbox) \in Nat
         /\ e.pcm \in Seq(Chunk) /\ e.overlap \in Seq(Chunk)
         /\ e.start \in Int /\ e.until \in Int
         /\ Len(e.pcm) \in Nat /\ Len(e.overlap) \in Nat
<1>1. k.inbox \in Seq(Chunk) /\ k.spoken \in Nat /\ k.said \in SUBSET Nat
      /\ k.words \in Seq(SUBSET TimedWord)
  BY DEF Clip
<1>2. e.pcm \in Seq(Chunk) /\ e.overlap \in Seq(Chunk) /\ e.start \in Int /\ e.until \in Int
  BY DEF Entry
<1>3. Len(k.inbox) \in Nat /\ Len(e.pcm) \in Nat /\ Len(e.overlap) \in Nat
  BY <1>1, <1>2
<1> QED BY <1>1, <1>2, <1>3

(* Inference on what was taken brings the words behind the overlap. *)
LEMMA Answered ==
  ASSUME NEW c \in Clips, NEW k \in Clip, NEW e \in Entry, NEW q, Taken(c, k, e, q)
  PROVE  LET after == Transcribed(e, q, Heard(q, e.start))
             more  == Extended(k.words, NewWords(e, Heard(q, e.start)))
         IN /\ after \in Entry /\ Aligned(after) /\ after.pcm = <<>>
            /\ more \in Seq(SUBSET TimedWord)
            /\ Received(c, more, k.said, after.until, k.spoken - Len(k.inbox))
<1> SUFFICES ASSUME NEW heard, heard = Heard(q, e.start),
                    NEW after, after = Transcribed(e, q, heard),
                    NEW new, new = NewWords(e, heard),
                    NEW more, more = IF new = {} THEN k.words ELSE Append(k.words, new)
             PROVE  /\ after \in Entry /\ Aligned(after) /\ after.pcm = <<>>
                    /\ more \in Seq(SUBSET TimedWord)
                    /\ Received(c, more, k.said, after.until, k.spoken - Len(k.inbox))
  BY Zenon DEF Extended
<1> DEFINE n == Len(e.overlap)
           now == k.spoken - Len(k.inbox)
           upto == now - (Len(q) - n)
<1>1. /\ q \in Seq(Chunk) /\ e.pcm = <<>>
      /\ \A i \in 1..n : q[i] = e.overlap[i]
      /\ n <= Len(q) /\ Aligned(e)
      /\ Spoken(c, k.said, q, n, now)
      /\ Received(c, k.words, k.said, e.until, upto)
  BY DEF Taken, Heeded
<1>2. /\ k.spoken \in Nat /\ k.said \in SUBSET Nat /\ Len(k.inbox) \in Nat
      /\ k.words \in Seq(SUBSET TimedWord) /\ n \in Nat
      /\ e.start \in Int /\ e.until \in Int
  BY Fields
<1>3. Len(q) \in Nat
  BY <1>1
<1>4. now \in Int /\ upto \in Int /\ upto <= now /\ upto + (Len(q) - n) = now
  <2>1. now \in Int
    BY <1>2
  <2>2. n <= Len(q) /\ n \in Nat
    BY <1>1, <1>2
  <2> HIDE DEF now, n
  <2> QED BY <1>3, <2>1, <2>2
<1>5. /\ after \in Entry /\ Aligned(after) /\ after.pcm = e.pcm
      /\ e.until <= after.until
      /\ \A w \in NewWords(e, heard) : w.end <= after.until
  BY <1>1, TranscribedAligned
<1>6. after.until \in Int
  BY <1>5 DEF Entry
<1>7. /\ heard \in SUBSET TimedWord
      /\ \A w \in heard : \E i \in 1..Len(q) :
           q[i].kind = "word" /\ w = WordAt(q, e.start, i)
      /\ \A i \in 1..Len(q) :
           q[i].kind = "word" => WordAt(q, e.start, i) \in heard
  BY <1>1, <1>2, HeardWords
<1> HIDE DEF n, now, upto
<1>8. ASSUME NEW i \in 1..Len(q), q[i].kind = "word", e.start + i > e.until
      PROVE  /\ i \in Int /\ n < i
             /\ WordAt(q, e.start, i) \in new
             /\ q[i].clip = c /\ q[i].at = now - Len(q) + i /\ q[i].at \in k.said
  <2>1. i \in Int /\ n < i
    <3>1. i \in Int /\ (e.start + i > e.until <=> i > Len(e.overlap)) /\ Len(e.overlap) \in Nat
      BY <1>1, <1>8, NewBehindOverlap DEF n
    <3> QED BY <1>8, <3>1 DEF n
  <2>2. WordAt(q, e.start, i) \in new
    BY <1>7, <1>8 DEF NewWords, WordAt
  <2>3. q[i].clip = c /\ q[i].at = now - Len(q) + i /\ (q[i].kind = "word" <=> q[i].at \in k.said)
    BY <1>1, <2>1 DEF Spoken
  <2> QED BY <1>8, <2>1, <2>2, <2>3
<1>9. ASSUME NEW w \in new
      PROVE  \E i \in 1..Len(q) :
               /\ w = WordAt(q, e.start, i) /\ i \in Int /\ n < i
               /\ w.clip = c /\ w.at = now - Len(q) + i /\ w.at \in k.said
               /\ w.end = e.start + i /\ e.until < w.end /\ w.end <= after.until
  <2>1. w \in heard /\ w.end > e.until
    BY DEF NewWords
  <2>2. PICK i \in 1..Len(q) : q[i].kind = "word" /\ w = WordAt(q, e.start, i)
    BY <1>7, <2>1
  <2>3. w.clip = q[i].clip /\ w.at = q[i].at /\ w.end = e.start + i
    BY <2>2 DEF WordAt
  <2>4. i \in Int /\ n < i /\ q[i].clip = c /\ q[i].at = now - Len(q) + i /\ q[i].at \in k.said
    BY <1>8, <2>1, <2>2, <2>3
  <2>5. w.end \in Int
    BY <1>2, <2>3, <2>4
  <2>6. e.until < w.end /\ w.end <= after.until
    BY <1>2, <1>5, <2>1, <2>5
  <2> QED BY <2>2, <2>3, <2>4, <2>6
<1>10. new \in SUBSET TimedWord
  BY <1>7 DEF NewWords
<1>11. ASSUME NEW w \in new
       PROVE  /\ w.clip = c /\ w.at \in k.said
              /\ upto < w.at /\ w.at <= now /\ e.until < w.end /\ w.end <= after.until
  <2>1. PICK i \in 1..Len(q) :
               /\ w = WordAt(q, e.start, i) /\ i \in Int /\ n < i
               /\ w.clip = c /\ w.at = now - Len(q) + i /\ w.at \in k.said
               /\ w.end = e.start + i /\ e.until < w.end /\ w.end <= after.until
    BY <1>9
  <2>2. i <= Len(q)
    OBVIOUS
  <2>3. upto < w.at /\ w.at <= now
    BY <1>2, <1>3, <1>4, <2>1, <2>2 DEF n
  <2> QED BY <2>1, <2>3
<1>12. ASSUME NEW v \in new, NEW w \in new
       PROVE  /\ v.at < w.at <=> v.end < w.end
              /\ v.at = w.at => v = w
  <2>1. PICK i \in 1..Len(q) : /\ v = WordAt(q, e.start, i) /\ i \in Int
                               /\ v.at = now - Len(q) + i /\ v.end = e.start + i
    BY <1>9
  <2>2. PICK j \in 1..Len(q) : /\ w = WordAt(q, e.start, j) /\ j \in Int
                               /\ w.at = now - Len(q) + j /\ w.end = e.start + j
    BY <1>9
  <2>3. v.at < w.at <=> i < j
    BY <1>3, <1>4, <2>1, <2>2
  <2>4. v.end < w.end <=> i < j
    BY <1>2, <2>1, <2>2
  <2>5. v.at = w.at => i = j
    BY <1>3, <1>4, <2>1, <2>2
  <2> QED BY <2>1, <2>2, <2>3, <2>4, <2>5
<1>13. ASSUME NEW t \in k.said, upto < t, t <= now
       PROVE  \E w \in new : w.at = t
  <2> DEFINE i == t - now + Len(q)
  <2>1. t \in Int /\ n \in Int
    BY <1>2 DEF n
  <2>2. i \in Int /\ n < i /\ i <= Len(q) /\ now - Len(q) + i = t
    BY <1>3, <1>4, <1>13, <2>1
  <2>3. i \in 1..Len(q) /\ i > Len(e.overlap)
    BY <1>2, <1>3, <2>2 DEF n
  <2> HIDE DEF i
  <2>4. q[i].at = t /\ q[i].kind = "word"
    BY <1>1, <2>2, <2>3 DEF Spoken
  <2>5. e.start + i > e.until
    BY <1>1, <2>3, <2>4, NewBehindOverlap DEF n
  <2>6. WordAt(q, e.start, i) \in new
    BY <1>8, <2>3, <2>4, <2>5
  <2>7. WordAt(q, e.start, i).at = t
    BY <2>4 DEF WordAt
  <2> QED BY <2>6, <2>7
<1>14. /\ more \in Seq(SUBSET TimedWord)
       /\ Received(c, more, k.said, after.until, now)
  <2> DEFINE said == k.said
             words == k.words
             until == e.until
             last == after.until
  <2>1. /\ words \in Seq(SUBSET TimedWord) /\ said \in SUBSET Nat
        /\ until \in Int /\ last \in Int
        /\ Received(c, words, said, until, upto)
        /\ until <= last
        /\ more = Extended(words, new)
    BY <1>1, <1>2, <1>5, <1>6 DEF upto, n, now, Extended
  <2>2. Brings(c, new, said, until, upto, last, now)
    BY <1>11, <1>12, <1>13 DEF Brings
  <2> HIDE DEF said, words, until, last
  <2>3. more \in Seq(SUBSET TimedWord) /\ Received(c, more, said, last, now)
    <3>1. upto \in Int /\ now \in Int /\ upto <= now
      BY <1>4
    <3>2. /\ Extended(words, new) \in Seq(SUBSET TimedWord)
          /\ Received(c, Extended(words, new), said, last, now)
      BY <1>10, <2>1, <2>2, <3>1, ReceivedMore
    <3> QED BY <2>1, <3>2
  <2> QED BY <2>3 DEF said, words, until, last
<1> QED BY <1>1, <1>5, <1>14 DEF now

(* Silence adds nothing. *)
LEMMA Quiet ==
  ASSUME NEW c, NEW words \in Seq(SUBSET TimedWord), NEW said \in SUBSET Nat,
         NEW until \in Int, NEW now \in Int, NEW q \in Seq(Chunk),
         Spoken(c, said, q, 0, now), Silent(q),
         Received(c, words, said, until, now - Len(q))
  PROVE  Received(c, words, said, until, now)
<1> DEFINE upto == now - Len(q)
<1>1. Len(q) \in Nat /\ upto \in Int /\ upto <= now
  OBVIOUS
<1>2. ASSUME NEW t \in said, upto < t, t <= now PROVE FALSE
  <2> DEFINE i == t - upto
  <2>1. t \in Int
    OBVIOUS
  <2>2. i \in 1..Len(q) /\ i \in Int /\ 0 < i /\ now - Len(q) + i = t
    BY <1>1, <1>2, <2>1
  <2> HIDE DEF i
  <2>3. q[i].at = t /\ q[i].kind = "word"
    BY <2>2 DEF Spoken
  <2>4. q[i].kind = "silence"
    BY <2>2 DEF Silent
  <2> QED BY <2>3, <2>4
<1>3. Brings(c, {}, said, until, upto, until, now)
  BY <1>2 DEF Brings
<1>4. until <= until
  OBVIOUS
<1>5. {} \in SUBSET TimedWord
  OBVIOUS
<1> HIDE DEF upto
<1>6. Extended(words, {}) = words
  BY DEF Extended
<1>7. Received(c, words, said, until, upto)
  BY DEF upto
<1> QED BY <1>1, <1>3, <1>4, <1>5, <1>6, <1>7, ReceivedMore

(* A clip whose next chunk was read, an entry with another buffer, and a clip
   that was spoken to. *)
ReadFrom(k) == [k EXCEPT !.inbox = Tail(@)]
WithPcm(e, pcm) == [e EXCEPT !.pcm = pcm]
SpeakTo(c, k, kind) ==
  [k EXCEPT !.spoken = k.spoken + 1,
            !.said = IF kind = "word" THEN @ \cup {k.spoken + 1} ELSE @,
            !.inbox = Append(@, [clip |-> c, at |-> k.spoken + 1, kind |-> kind])]

(* The next chunk of the inbox. *)
LEMMA TakenIn ==
  ASSUME NEW c \in Clips, NEW k \in Clip, Ongoing(c, k), k.inbox # <<>>,
         NEW e \in Entry, NEW pcm \in Seq(Chunk), Heeded(c, k, e, pcm, 0)
  PROVE  /\ ReadFrom(k) \in Clip /\ Ongoing(c, ReadFrom(k))
         /\ Append(pcm, Head(k.inbox)) \in Seq(Chunk)
         /\ Heeded(c, ReadFrom(k), e, Append(pcm, Head(k.inbox)), 0)
<1> SUFFICES ASSUME NEW k1, k1 = [k EXCEPT !.inbox = Tail(@)],
                    NEW pcm1, pcm1 = Append(pcm, Head(k.inbox))
             PROVE  /\ k1 \in Clip /\ Ongoing(c, k1)
                    /\ pcm1 \in Seq(Chunk) /\ Heeded(c, k1, e, pcm1, 0)
  BY DEF ReadFrom
<1> DEFINE in   == k.inbox
           rest == Tail(k.inbox)
           m    == Len(k.inbox)
           now  == k.spoken - m
<1>1. k.spoken \in Nat /\ in \in Seq(Chunk) /\ m \in Nat /\ k.said \in SUBSET Nat
  BY Fields
<1>2. /\ rest \in Seq(Chunk) /\ Len(rest) = m - 1 /\ Head(in) = in[1] /\ Head(in) \in Chunk
      /\ 1 \in 1..m
      /\ \A i \in 1..Len(rest) : rest[i] = in[i + 1] /\ i \in Int /\ i + 1 \in 1..m
  BY <1>1, TailOfQueue
<1>3. k1.spoken = k.spoken /\ k1.said = k.said /\ k1.inbox = rest /\ k1.words = k.words
      /\ k1 \in Clip
  BY <1>2 DEF Clip
<1>4. \A i \in 1..m : /\ in[i].clip = c /\ in[i].at = k.spoken - m + i
                      /\ in[i].kind = "word" <=> in[i].at \in k.said
  BY <1>1 DEF Ongoing, Spoken
<1>5. Len(pcm) \in Nat /\ \A i \in 1..Len(pcm) : i \in Int /\ 0 < i
  OBVIOUS
<1>6. /\ pcm1 \in Seq(Chunk) /\ Len(pcm1) = Len(pcm) + 1
      /\ pcm1[Len(pcm) + 1] = in[1]
      /\ \A i \in 1..Len(pcm) : pcm1[i] = pcm[i]
  BY <1>2
<1>7. \A i \in 1..Len(pcm) : /\ pcm[i].clip = c /\ pcm[i].at = now - Len(pcm) + i
                             /\ pcm[i].kind = "word" <=> pcm[i].at \in k.said
  BY <1>5 DEF Heeded, Spoken
<1>8. k1.spoken - Len(k1.inbox) = now + 1
  BY <1>1, <1>2, <1>3
<1>a. now \in Int /\ now = k.spoken - m
  BY <1>1
<1> HIDE DEF now, rest, in, m
<1>9. Ongoing(c, k1)
  <2>1. ASSUME NEW i \in 1..Len(rest)
        PROVE  /\ rest[i].clip = c /\ rest[i].at = k.spoken - Len(rest) + i
               /\ rest[i].kind = "word" <=> rest[i].at \in k.said
    <3>1. i \in Int /\ i + 1 \in 1..m /\ rest[i] = in[i + 1]
      BY <1>2
    <3>2. k.spoken - m + (i + 1) = k.spoken - Len(rest) + i
      <4>1. k.spoken \in Int /\ m \in Int /\ i \in Int /\ Len(rest) = m - 1
        BY <1>1, <1>2, <3>1
      <4>2. Len(rest) \in Int
        BY <1>1, <1>2
      <4> DEFINE r == Len(rest)
                 s == k.spoken
      <4>3. r \in Int /\ s \in Int /\ m \in Int /\ i \in Int /\ r = m - 1
        BY <4>1, <4>2
      <4> HIDE DEF r, s
      <4>4. s - m + (i + 1) = s - r + i
        BY <4>3
      <4> QED BY <4>4 DEF r, s
    <3> QED BY <1>4, <3>1, <3>2
  <2>2. Len(rest) <= k.spoken /\ k.said \subseteq 1..k.spoken
    BY <1>1, <1>2 DEF Ongoing, m
  <2> QED BY <1>3, <2>1, <2>2 DEF Ongoing, Spoken
<1>10. ASSUME NEW i \in 1..Len(pcm1)
       PROVE  /\ pcm1[i].clip = c /\ pcm1[i].at = (now + 1) - Len(pcm1) + i
              /\ pcm1[i].kind = "word" <=> pcm1[i].at \in k.said
  <2>1. i \in Int /\ (i \in 1..Len(pcm) \/ i = Len(pcm) + 1)
    BY <1>5, <1>6
  <2>2. (now + 1) - Len(pcm1) + i = now - Len(pcm) + i
    BY <1>5, <1>6, <1>a, <2>1
  <2>3. CASE i \in 1..Len(pcm)
    BY <1>6, <1>7, <2>2, <2>3
  <2>4. CASE i = Len(pcm) + 1
    <3>1. now - Len(pcm) + i = k.spoken - m + 1
      BY <1>1, <1>5, <1>a, <2>4
    <3> QED BY <1>2, <1>4, <1>6, <2>2, <2>4, <3>1
  <2> QED BY <2>1, <2>3, <2>4
<1>11. Heeded(c, k1, e, pcm1, 0)
  <2>1. Spoken(c, k1.said, pcm1, 0, k1.spoken - Len(k1.inbox))
    <3> DEFINE u == k1.spoken - Len(k1.inbox)
    <3>1. u = now + 1
      BY <1>8
    <3> HIDE DEF u
    <3>2. Spoken(c, k.said, pcm1, 0, u)
      BY <1>10, <3>1 DEF Spoken
    <3> QED BY <1>3, <3>2 DEF u
  <2>2. 0 <= Len(pcm1) /\ Aligned(e)
    BY <1>5, <1>6 DEF Heeded
  <2>3. k1.spoken - Len(k1.inbox) - (Len(pcm1) - 0) = now - (Len(pcm) - 0)
    <3> DEFINE u == k1.spoken - Len(k1.inbox)
    <3>1. u = now + 1
      BY <1>8
    <3> HIDE DEF u
    <3>2. u - (Len(pcm1) - 0) = now - (Len(pcm) - 0)
      <4> DEFINE l == Len(pcm)
                 l1 == Len(pcm1)
      <4>1. now \in Int /\ l \in Int /\ l1 = l + 1
        BY <1>5, <1>6, <1>a
      <4> HIDE DEF l, l1
      <4>2. u - (l1 - 0) = now - (l - 0)
        BY <3>1, <4>1
      <4> QED BY <4>2 DEF l, l1
    <3> QED BY <3>2 DEF u
  <2>4. Received(c, k.words, k.said, e.until, now - (Len(pcm) - 0))
    BY DEF Heeded, now, m
  <2> QED BY <1>3, <2>1, <2>2, <2>3, <2>4 DEF Heeded
<1> QED BY <1>3, <1>6, <1>9, <1>11

(* The buffer is taken out: into the pool, or, silent, nowhere. *)
LEMMA TakenOut ==
  ASSUME NEW c \in Clips, NEW k \in Clip, NEW e \in Entry,
         NEW pcm \in Seq(Chunk), Heeded(c, k, e, pcm, 0)
  PROVE  /\ WithPcm(e, <<>>) \in Entry /\ WithPcm(e, <<>>).pcm = <<>>
         /\ Taken(c, k, WithPcm(e, <<>>), e.overlap \o pcm)
         /\ Silent(pcm) => Heeded(c, k, WithPcm(e, <<>>), <<>>, 0)
<1> SUFFICES ASSUME NEW e1, e1 = [e EXCEPT !.pcm = <<>>]
             PROVE  /\ e1 \in Entry /\ e1.pcm = <<>>
                    /\ Taken(c, k, e1, e.overlap \o pcm)
                    /\ Silent(pcm) => Heeded(c, k, e1, <<>>, 0)
  BY DEF WithPcm
<1> DEFINE q   == e.overlap \o pcm
           n   == Len(e.overlap)
           now == k.spoken - Len(k.inbox)
<1>1. /\ k.spoken \in Nat /\ Len(k.inbox) \in Nat /\ k.said \in SUBSET Nat
      /\ k.words \in Seq(SUBSET TimedWord)
      /\ e.overlap \in Seq(Chunk) /\ n \in Nat /\ e.until \in Int /\ e.start \in Int
  BY Fields
<1>2. e1 \in Entry /\ e1.pcm = <<>> /\ e1.overlap = e.overlap /\ e1.until = e.until
      /\ e1.start = e.start
  <2>1. <<>> \in Seq(Chunk)
    OBVIOUS
  <2> QED BY <2>1 DEF Entry
<1>3. /\ Aligned(e)
      /\ Spoken(c, k.said, pcm, 0, now)
      /\ Received(c, k.words, k.said, e.until, now - (Len(pcm) - 0))
  BY DEF Heeded
<1>4. Aligned(e1)
  BY <1>2, <1>3 DEF Aligned
<1>5. Len(pcm) \in Nat /\ Len(pcm) - 0 = Len(pcm) /\ now \in Int
  BY <1>1
<1>6. /\ q \in Seq(Chunk) /\ Len(q) = n + Len(pcm)
      /\ \A i \in 1..n : q[i] = e.overlap[i]
      /\ \A i \in 1..Len(pcm) : q[n + i] = pcm[i]
  <2>1. /\ q \in Seq(Chunk) /\ Len(q) = n + Len(pcm)
        /\ \A i \in 1..n + Len(pcm) :
             q[i] = IF i <= n THEN e.overlap[i] ELSE pcm[i - n]
    BY <1>1, ConcatProperties
  <2>2. n \in Nat
    BY <1>1
  <2> HIDE DEF q, n
  <2>3. \A i \in 1..n : i \in 1..n + Len(pcm) /\ i <= n
    BY <1>5, <2>2
  <2>4. \A i \in 1..Len(pcm) : n + i \in 1..n + Len(pcm) /\ ~(n + i <= n) /\ (n + i) - n = i
    BY <1>5, <2>2
  <2> QED BY <2>1, <2>3, <2>4
<1> HIDE DEF q, n, now
<1>7. Taken(c, k, e1, q)
  <2>1. ASSUME NEW i \in 1..Len(q), n < i
        PROVE  /\ q[i].clip = c /\ q[i].at = now - Len(q) + i
               /\ q[i].kind = "word" <=> q[i].at \in k.said
    <3> DEFINE j == i - n
    <3>1. i \in Int /\ i <= Len(q)
      BY <1>1, <1>5, <1>6
    <3>2. j \in 1..Len(pcm) /\ 0 < j /\ n + j = i /\ now - Len(pcm) + j = now - Len(q) + i
      <4>1. /\ i \in Int /\ n \in Int /\ now \in Int /\ Len(pcm) \in Int
            /\ Len(q) = n + Len(pcm) /\ n < i /\ i <= Len(q)
        BY <1>1, <1>5, <1>6, <2>1, <3>1
      <4> DEFINE l == Len(q)
      <4> HIDE DEF l
      <4>2. l = n + Len(pcm) /\ i <= l
        BY <4>1 DEF l
      <4>3. j \in 1..Len(pcm) /\ 0 < j /\ n + j = i /\ now - Len(pcm) + j = now - l + i
        BY <4>1, <4>2
      <4> QED BY <4>3 DEF l
    <3> HIDE DEF j
    <3>3. q[i] = pcm[j]
      BY <1>6, <3>2
    <3>4. /\ pcm[j].clip = c /\ pcm[j].at = now - Len(pcm) + j
          /\ pcm[j].kind = "word" <=> pcm[j].at \in k.said
      BY <1>3, <3>2 DEF Spoken
    <3> QED BY <3>2, <3>3, <3>4
  <2>2. Len(q) - n = Len(pcm) - 0 /\ n <= Len(q)
    BY <1>1, <1>5, <1>6
  <2>3. Spoken(c, k.said, q, n, now)
    BY <2>1 DEF Spoken
  <2>4. Heeded(c, k, e1, q, n)
    BY <1>2, <1>3, <1>4, <2>2, <2>3 DEF Heeded, now
  <2>5. n = Len(e1.overlap)
    BY <1>2 DEF n
  <2> QED BY <1>2, <1>6, <2>4, <2>5 DEF Taken
<1>8. ASSUME Silent(pcm) PROVE Heeded(c, k, e1, <<>>, 0)
  <2>1. Received(c, k.words, k.said, e.until, now)
    BY <1>1, <1>3, <1>5, <1>8, Quiet
  <2>2. Len(<<>>) = 0 /\ now - (Len(<<>>) - 0) = now
    BY <1>5
  <2>3. Spoken(c, k.said, <<>>, 0, now)
    BY DEF Spoken
  <2>4. 0 <= Len(<<>>)
    BY <2>2
  <2>5. Received(c, k.words, k.said, e1.until, now - (Len(<<>>) - 0))
    BY <1>2, <2>1, <2>2
  <2> QED BY <1>4, <2>3, <2>4, <2>5 DEF Heeded, now
<1> QED BY <1>2, <1>7, <1>8 DEF q

(* The client speaks: the new chunk waits behind all others. *)
LEMMA SpokenTo ==
  ASSUME NEW c \in Clips, NEW k \in Clip, Ongoing(c, k), NEW kind \in Kinds
  PROVE  /\ SpeakTo(c, k, kind) \in Clip /\ Ongoing(c, SpeakTo(c, k, kind))
         /\ Len(SpeakTo(c, k, kind).inbox) = Len(k.inbox) + 1
         /\ SpeakTo(c, k, kind).spoken = k.spoken + 1
         /\ \A e \in Entry, q \in Seq(Chunk), n \in Nat :
              Heeded(c, k, e, q, n) => Heeded(c, SpeakTo(c, k, kind), e, q, n)
<1> SUFFICES ASSUME NEW now, now = k.spoken + 1,
                    NEW k1,
                    k1 = [k EXCEPT !.spoken = now,
                                   !.said = IF kind = "word" THEN @ \cup {now} ELSE @,
                                   !.inbox = Append(@, [clip |-> c, at |-> now, kind |-> kind])]
             PROVE  /\ k1 \in Clip /\ Ongoing(c, k1)
                    /\ Len(k1.inbox) = Len(k.inbox) + 1 /\ k1.spoken = k.spoken + 1
                    /\ \A e \in Entry, q \in Seq(Chunk), n \in Nat :
                         Heeded(c, k, e, q, n) => Heeded(c, k1, e, q, n)
  BY DEF SpeakTo
<1> DEFINE chunk == [clip |-> c, at |-> now, kind |-> kind]
           in == k.inbox
           in1 == Append(in, chunk)
           said1 == IF kind = "word" THEN k.said \cup {now} ELSE k.said
<1>1. /\ k.spoken \in Nat /\ in \in Seq(Chunk) /\ k.said \in SUBSET Nat
      /\ Len(in) \in Nat /\ now \in Nat /\ k.words \in Seq(SUBSET TimedWord)
  <2>1. /\ k.spoken \in Nat /\ in \in Seq(Chunk) /\ k.said \in SUBSET Nat
        /\ k.words \in Seq(SUBSET TimedWord)
    BY DEF Clip
  <2>2. Len(in) \in Nat
    BY <2>1
  <2> QED BY <2>1, <2>2
<1>2. chunk \in Chunk /\ chunk.clip = c /\ chunk.at = now /\ chunk.kind = kind
  BY <1>1 DEF Chunk
<1> HIDE DEF chunk
<1>3. /\ in1 \in Seq(Chunk) /\ Len(in1) = Len(in) + 1
      /\ in1[Len(in) + 1] = chunk
      /\ \A i \in 1..Len(in) : in1[i] = in[i]
  BY <1>1, <1>2
<1>4. k1.spoken = now /\ k1.said = said1 /\ k1.inbox = in1 /\ k1.words = k.words
  BY DEF Clip, chunk
<1>5. said1 \in SUBSET Nat
  BY <1>1
<1>6. k1 \in Clip
  <2>1. k1 = [k EXCEPT !.spoken = now, !.said = said1, !.inbox = in1]
    BY DEF chunk
  <2> HIDE DEF in1, said1
  <2> QED BY <1>1, <1>3, <1>5, <2>1 DEF Clip
<1>7. /\ k.said \subseteq 1..k.spoken /\ Len(in) <= k.spoken
      /\ \A i \in 1..Len(in) : /\ in[i].clip = c /\ in[i].at = k.spoken - Len(in) + i
                               /\ in[i].kind = "word" <=> in[i].at \in k.said
  <2>1. \A i \in 1..Len(in) : 0 < i
    BY <1>1
  <2> QED BY <2>1 DEF Ongoing, Spoken
<1>8. /\ now \notin k.said
      /\ now \in said1 <=> kind = "word"
      /\ \A t \in Int : t < now => (t \in said1 <=> t \in k.said)
      /\ said1 \subseteq 1..now
  <2>1. \A t \in 1..k.spoken : t \in 1..now /\ t # now
    BY <1>1
  <2>2. now \in 1..now
    BY <1>1
  <2> QED BY <1>1, <1>7, <2>1, <2>2
<1> HIDE DEF in1, said1
<1>9. k1.spoken - Len(k1.inbox) = k.spoken - Len(k.inbox)
  <2>1. now - Len(in1) = k.spoken - Len(in)
    BY <1>1, <1>3
  <2> QED BY <1>4, <2>1
<1>10. Ongoing(c, k1)
  <2>1. ASSUME NEW i \in 1..Len(in1)
        PROVE  /\ in1[i].clip = c /\ in1[i].at = now - Len(in1) + i
               /\ in1[i].kind = "word" <=> in1[i].at \in said1
    <3> DEFINE m == Len(in)
               m1 == Len(in1)
               sp == k.spoken
    <3>1. /\ m \in Nat /\ m1 = m + 1 /\ sp \in Nat /\ now = sp + 1
          /\ i \in 1..m1
      BY <1>1, <1>3
    <3> HIDE DEF m, m1, sp
    <3>2. /\ i \in Int /\ now - m1 + i = sp - m + i
          /\ i \in 1..m \/ i = m + 1
      <4>1. i \in Int /\ m \in Int /\ 1 <= i /\ i <= m + 1
        BY <3>1
      <4>2. i \in 1..m \/ i = m + 1
        BY <4>1
      <4>3. now - m1 = sp - m
        BY <3>1
      <4> QED BY <4>1, <4>2, <4>3
    <3>3. CASE i \in 1..m
      <4>1. sp - m + i \in Int /\ sp - m + i < now
        BY <3>1, <3>2, <3>3
      <4>2. /\ in1[i] = in[i] /\ in[i].clip = c /\ in[i].at = sp - m + i
            /\ in[i].kind = "word" <=> in[i].at \in k.said
        BY <1>3, <1>7, <3>3 DEF m, sp
      <4>3. sp - m + i \in k.said <=> sp - m + i \in said1
        BY <1>8, <4>1
      <4> QED BY <3>2, <4>2, <4>3 DEF m1
    <3>4. CASE i = m + 1
      <4>1. now - m1 + i = now
        BY <3>1, <3>4
      <4>2. in1[i] = chunk
        BY <1>3, <3>4 DEF m
      <4> QED BY <1>2, <1>8, <4>1, <4>2 DEF m1
    <3> QED BY <3>2, <3>3, <3>4
  <2>2. Len(in1) <= now
    BY <1>1, <1>3, <1>7
  <2>3. Spoken(c, said1, in1, 0, now)
    BY <2>1 DEF Spoken
  <2> QED BY <1>4, <1>8, <2>2, <2>3 DEF Ongoing
<1>11. ASSUME NEW e \in Entry, NEW q \in Seq(Chunk), NEW n \in Nat, Heeded(c, k, e, q, n)
       PROVE  Heeded(c, k1, e, q, n)
  <2> DEFINE u == k.spoken - Len(k.inbox)
             p == u - (Len(q) - n)
  <2>1. /\ n <= Len(q) /\ Aligned(e)
        /\ Spoken(c, k.said, q, n, u)
        /\ Received(c, k.words, k.said, e.until, p)
    BY <1>11 DEF Heeded
  <2>2. Len(q) \in Nat /\ u \in Int /\ p \in Int /\ u < now /\ p < now
    <3>1. Len(q) \in Nat
      OBVIOUS
    <3>2. u \in Int /\ u < now
      BY <1>1
    <3> HIDE DEF u
    <3>3. p \in Int /\ p <= u
      BY <2>1, <3>1, <3>2
    <3>4. now \in Int
      BY <1>1
    <3> HIDE DEF p
    <3> QED BY <3>1, <3>2, <3>3, <3>4
  <2> HIDE DEF u, p
  <2>3. Spoken(c, said1, q, n, u)
    <3>1. ASSUME NEW i \in 1..Len(q), n < i
          PROVE  /\ q[i].clip = c /\ q[i].at = u - Len(q) + i
                 /\ q[i].kind = "word" <=> q[i].at \in said1
      <4>1. /\ q[i].clip = c /\ q[i].at = u - Len(q) + i
            /\ q[i].kind = "word" <=> q[i].at \in k.said
        BY <2>1, <3>1 DEF Spoken
      <4>2. u - Len(q) + i \in Int /\ u - Len(q) + i < now
        BY <1>1, <2>2
      <4> QED BY <1>8, <4>1, <4>2
    <3> QED BY <3>1 DEF Spoken
  <2>4. Received(c, k.words, said1, e.until, p)
    <3>1. k.said \subseteq said1
      BY DEF said1
    <3>2. \A t \in said1 : t <= p => t \in k.said
      <4>1. \A t \in said1 : t \in Int
        BY <1>5
      <4>2. \A t \in said1 : t <= p => t < now
        BY <1>1, <2>2, <4>1
      <4> QED BY <1>8, <4>1, <4>2
    <3>3. /\ \A i \in 1..Len(k.words) : \A w \in k.words[i] :
               w.clip = c /\ w.at \in said1 /\ w.at <= p /\ w.end <= e.until
      BY <2>1, <3>1 DEF Received
    <3> QED BY <2>1, <3>2, <3>3 DEF Received
  <2> QED BY <1>4, <1>9, <2>1, <2>3, <2>4 DEF Heeded, u, p
<1>12. Len(k1.inbox) = Len(k.inbox) + 1 /\ k1.spoken = k.spoken + 1
  BY <1>3, <1>4
<1> QED BY <1>6, <1>10, <1>11, <1>12

(* What is said of a clip depends on its audio and its transcripts only. *)
LEMMA SameAudio ==
  ASSUME NEW c, NEW k, NEW k1, NEW e,
         k1.spoken = k.spoken, k1.said = k.said, k1.inbox = k.inbox, k1.words = k.words
  PROVE  /\ Ongoing(c, k) => Ongoing(c, k1)
         /\ \A q, n : Heeded(c, k, e, q, n) => Heeded(c, k1, e, q, n)
         /\ \A q : Taken(c, k, e, q) => Taken(c, k1, e, q)
<1>1. Ongoing(c, k) => Ongoing(c, k1)
  BY DEF Ongoing
<1>2. \A q, n : Heeded(c, k, e, q, n) => Heeded(c, k1, e, q, n)
  BY DEF Heeded
<1> QED BY <1>1, <1>2 DEF Taken

-----------------------------------------------------------------------------
(* The steps of an undisturbed session. *)

(* A step of one clip. *)
LEMMA ClipStep ==
  ASSUME Undisturbed, NEW c \in Clips, NEW k \in Clip, NEW e \in Entry, NEW h, NEW f,
         clips' = [clips EXCEPT ![c] = k],
         entries' = [entries EXCEPT ![c] = e],
         handlers' = [handlers EXCEPT ![c] = h],
         finalises' = [finalises EXCEPT ![c] = f],
         \A d \in Clips : handlers'[d].phase \in {"receiving", "window"} <=> session' = d,
         k.conn = "none" <=> clips[c].conn = "none",
         k.conn = "closed" <=> clips[c].conn = "closed",
         Orderly(c, k, e, h, f)
  PROVE  Undisturbed'
<1>1. /\ clips' \in [Clips -> Clip] /\ entries' \in [Clips -> Entry]
      /\ handlers' = [d \in Clips |-> handlers'[d]]
      /\ finalises' = [d \in Clips |-> finalises'[d]]
  BY DEF Undisturbed
<1>2. \A d \in Clips :
        /\ d # c => /\ clips'[d] = clips[d] /\ entries'[d] = entries[d]
                    /\ handlers'[d] = handlers[d] /\ finalises'[d] = finalises[d]
        /\ clips'[d].conn = "none" <=> clips[d].conn = "none"
        /\ clips'[d].conn = "closed" <=> clips[d].conn = "closed"
  BY DEF Undisturbed
<1>3. clips'[c] = k /\ entries'[c] = e /\ handlers'[c] = h /\ finalises'[c] = f
  BY DEF Undisturbed
<1>4. \A d \in Clips : Orderly(d, clips[d], entries[d], handlers[d], finalises[d])
  BY DEF Undisturbed
<1>5. \A d \in Clips : Orderly(d, clips'[d], entries'[d], handlers'[d], finalises'[d])
  BY <1>2, <1>3, <1>4
<1>6. \A d, g \in Clips :
       d < g /\ clips'[g].conn # "none" => clips'[d].conn = "closed"
  BY <1>2 DEF Undisturbed
<1>7. \A d \in Clips :
       clips'[d].conn = "closed" => d < MaxClip /\ clips'[d + 1].conn # "none"
  <2>1. \A d \in Clips : d < MaxClip => d + 1 \in Clips
    BY TranscriptionAssumption DEF Clips
  <2> QED BY <1>2, <2>1 DEF Undisturbed
<1> QED BY <1>1, <1>5, <1>6, <1>7 DEF Undisturbed

(* One that neither opens nor closes a connection. *)
LEMMA OneClip ==
  ASSUME Undisturbed, NEW c \in Clips, NEW k \in Clip, NEW e \in Entry, NEW h, NEW f,
         clips' = [clips EXCEPT ![c] = k],
         entries' = [entries EXCEPT ![c] = e],
         handlers' = [handlers EXCEPT ![c] = h],
         finalises' = [finalises EXCEPT ![c] = f],
         session' = session,
         k.conn = clips[c].conn,
         h.phase \in {"receiving", "window"} <=> handlers[c].phase \in {"receiving", "window"},
         Orderly(c, k, e, h, f)
  PROVE  Undisturbed'
<1>1. \A d \in Clips : handlers'[d].phase \in {"receiving", "window"} <=> session' = d
  BY DEF Undisturbed
<1> QED BY <1>1, ClipStep

(* What a clip is about can be told from its connection, its handler and its
   request. *)
LEMMA WhichPhase ==
  ASSUME NEW c, NEW k, NEW e, NEW h, NEW f, Orderly(c, k, e, h, f)
  PROVE  /\ k.conn = "none" => Unused(k, h, f)
         /\ k.conn = "connecting" => Connecting(c, k, h, f)
         /\ k.conn = "closed" => Over(k, h, f)
         /\ h.phase = "window" => Hearing(c, k, e, h, f)
         /\ f.phase = "pool" => Concluding(c, k, e, h, f)
         /\ h.phase \in {"receiving", "window"} /\ k.conn # "closed" =>
              \/ Listening(c, k, e, h, f) \/ Hearing(c, k, e, h, f)
              \/ Concluding(c, k, e, h, f) \/ Concluded(c, k, e, h, f)
         /\ h = Receiving /\ k.inbox # <<>> => Listening(c, k, e, h, f)
         /\ h = Receiving /\ f.phase = "sent" => Listening(c, k, e, h, f) /\ k.flushed
         /\ k.conn = "open" /\ k.final => Concluded(c, k, e, h, f)
         /\ k.conn \in {"connecting", "open"} /\ ~k.flushed =>
              \/ Connecting(c, k, h, f) \/ Listening(c, k, e, h, f)
              \/ Hearing(c, k, e, h, f)
         /\ k.conn \in {"none", "connecting", "open", "closed"}
<1> DEFINE un == Unused(k, h, f)
           cn == Connecting(c, k, h, f)
           ls == Listening(c, k, e, h, f)
           he == Hearing(c, k, e, h, f)
           cg == Concluding(c, k, e, h, f)
           cd == Concluded(c, k, e, h, f)
           ov == Over(k, h, f)
<1>1. un => /\ k.conn = "none" /\ h.phase = "none" /\ f.phase = "none"
            /\ k.inbox = <<>>
  BY DEF Unused, NewClip, Idle
<1>2. cn => /\ k.conn = "connecting" /\ h.phase = "none" /\ f.phase \in {"none", "sent"}
            /\ h # Receiving
  BY DEF Connecting, Requested, Idle, Receiving
<1>3. ls => /\ k.conn = "open" /\ h.phase = "receiving" /\ f.phase \in {"none", "sent"}
            /\ (f.phase = "sent" <=> k.flushed) /\ ~k.final
  BY DEF Listening, Requested, Idle, Receiving
<1>4. he => /\ k.conn = "open" /\ h.phase = "window" /\ f.phase \in {"none", "sent"}
            /\ h # Receiving /\ ~k.final
  BY DEF Hearing, Requested, Idle, Receiving
<1>5. cg => /\ k.conn = "open" /\ h.phase = "receiving" /\ f.phase = "pool"
            /\ k.inbox = <<>> /\ k.flushed /\ ~k.final
  BY DEF Concluding, Idle, Receiving
<1>6. cd => /\ k.conn = "open" /\ h.phase = "receiving" /\ f.phase = "done"
            /\ k.inbox = <<>> /\ k.flushed /\ k.final
  BY DEF Concluded, Done, Idle, Receiving
<1>7. ov => /\ k.conn = "closed" /\ h.phase \in {"receiving", "gone"} /\ f.phase = "done"
            /\ k.inbox = <<>>
  BY DEF Over, NewClip, Done, Idle, Receiving, Gone
<1>8. un \/ cn \/ ls \/ he \/ cg \/ cd \/ ov
  BY DEF Orderly
<1>9. Receiving.phase = "receiving"
  BY DEF Receiving, Idle
<1> HIDE DEF un, cn, ls, he, cg, cd, ov
<1>10. /\ k.conn = "none" => un
       /\ k.conn = "connecting" => cn
       /\ k.conn = "closed" => ov
       /\ h.phase = "window" => he
       /\ f.phase = "pool" => cg
       /\ h.phase \in {"receiving", "window"} /\ k.conn # "closed" => ls \/ he \/ cg \/ cd
       /\ h = Receiving /\ k.inbox # <<>> => ls
       /\ h = Receiving /\ f.phase = "sent" => ls /\ k.flushed
       /\ k.conn = "open" /\ k.final => cd
       /\ k.conn \in {"connecting", "open"} /\ ~k.flushed => cn \/ ls \/ he
       /\ k.conn \in {"none", "connecting", "open", "closed"}
  BY <1>1, <1>2, <1>3, <1>4, <1>5, <1>6, <1>7, <1>8, <1>9
<1> QED BY <1>10 DEF un, cn, ls, he, cg, cd, ov

(* The state of a clip. *)
LEMMA ClipState ==
  ASSUME Undisturbed, NEW c \in Clips
  PROVE  /\ clips[c] \in Clip /\ entries[c] \in Entry
         /\ Orderly(c, clips[c], entries[c], handlers[c], finalises[c])
         /\ clips = [clips EXCEPT ![c] = clips[c]]
         /\ entries = [entries EXCEPT ![c] = entries[c]]
         /\ handlers = [handlers EXCEPT ![c] = handlers[c]]
         /\ finalises = [finalises EXCEPT ![c] = finalises[c]]
<1>1. /\ handlers = [handlers EXCEPT ![c] = handlers[c]]
      /\ finalises = [finalises EXCEPT ![c] = finalises[c]]
  BY DEF Undisturbed
<1>2. /\ clips = [clips EXCEPT ![c] = clips[c]]
      /\ entries = [entries EXCEPT ![c] = entries[c]]
  BY DEF Undisturbed
<1> QED BY <1>1, <1>2 DEF Undisturbed

(* The client speaks. *)
LEMMA SpeakKeepsUndisturbed ==
  ASSUME Undisturbed, NEW c \in Clips, Speak(c), calm' PROVE Undisturbed'
<1> DEFINE k == clips[c]
           e == entries[c]
           h == handlers[c]
           f == finalises[c]
           now == k.spoken + 1
<1>1. /\ k \in Clip /\ e \in Entry /\ Orderly(c, k, e, h, f)
      /\ entries = [entries EXCEPT ![c] = e]
      /\ handlers = [handlers EXCEPT ![c] = h]
      /\ finalises = [finalises EXCEPT ![c] = f]
  BY ClipState
<1>2. /\ k.conn \in {"connecting", "open"} /\ ~k.flushed
      /\ UNCHANGED <<handlers, session, entries, finalises>>
  BY DEF Speak, Noting
<1>3. PICK kind \in Kinds :
        clips' = [clips EXCEPT
          ![c].spoken = now,
          ![c].said = IF kind = "word" THEN @ \cup {now} ELSE @,
          ![c].inbox = Append(@, [clip |-> c, at |-> now, kind |-> kind])]
  BY DEF Speak
<1> DEFINE k1 == [k EXCEPT !.spoken = now,
                           !.said = IF kind = "word" THEN @ \cup {now} ELSE @,
                           !.inbox = Append(@, [clip |-> c, at |-> now, kind |-> kind])]
<1>4. clips' = [clips EXCEPT ![c] = k1]
  BY <1>3, Zenon
<1>5. /\ k1.conn = k.conn /\ k1.words = k.words /\ k1.flushed = k.flushed
      /\ k1.final = k.final
  BY <1>1 DEF Clip
<1>6. Requested(k1) = Requested(k)
  BY <1>5 DEF Requested
<1>7. Connecting(c, k, h, f) \/ Listening(c, k, e, h, f) \/ Hearing(c, k, e, h, f)
  BY <1>1, <1>2, WhichPhase
<1>8. Ongoing(c, k)
  BY <1>7 DEF Connecting, Listening, Hearing
<1>a. k1 = SpeakTo(c, k, kind)
  BY DEF SpeakTo
<1> HIDE DEF k1, k, e, h, f, now
<1>9. /\ k1 \in Clip /\ Ongoing(c, k1)
      /\ Len(k1.inbox) = Len(k.inbox) + 1 /\ k1.spoken = k.spoken + 1
      /\ \A q \in Seq(Chunk), n \in Nat : Heeded(c, k, e, q, n) => Heeded(c, k1, e, q, n)
  BY <1>1, <1>8, <1>a, SpokenTo
<1>10. e.pcm \in Seq(Chunk) /\ Len(e.overlap) \in Nat
  BY <1>1, Fields
<1>11. Orderly(c, k1, e, h, f)
  <2>1. CASE Connecting(c, k, h, f)
    <3>1. Connecting(c, k1, h, f)
      BY <1>5, <1>6, <1>9, <2>1 DEF Connecting
    <3> QED BY <3>1 DEF Orderly
  <2>2. CASE Listening(c, k, e, h, f)
    <3>1. Heeded(c, k1, e, e.pcm, 0)
      BY <1>9, <1>10, <2>2 DEF Listening
    <3>2. Listening(c, k1, e, h, f)
      BY <1>5, <1>6, <1>9, <2>2, <3>1 DEF Listening
    <3> QED BY <3>2 DEF Orderly
  <2>3. CASE Hearing(c, k, e, h, f)
    <3>1. Taken(c, k1, e, h.combined)
      BY <1>9, <1>10, <2>3 DEF Hearing, Taken
    <3>2. Hearing(c, k1, e, h, f)
      BY <1>5, <1>6, <1>9, <2>3, <3>1 DEF Hearing
    <3> QED BY <3>2 DEF Orderly
  <2> QED BY <1>7, <2>1, <2>2, <2>3
<1>12. /\ entries' = [entries EXCEPT ![c] = e]
       /\ handlers' = [handlers EXCEPT ![c] = h]
       /\ finalises' = [finalises EXCEPT ![c] = f]
       /\ session' = session /\ k1.conn = clips[c].conn
  BY <1>1, <1>2, <1>5 DEF k
<1> QED BY <1>1, <1>4, <1>9, <1>11, <1>12, OneClip DEF h

(* The clip ends. *)
LEMMA FlushKeepsUndisturbed ==
  ASSUME Undisturbed, NEW c \in Clips, Flush(c) PROVE Undisturbed'
<1> DEFINE k == clips[c]
           e == entries[c]
           h == handlers[c]
           f == finalises[c]
           k1 == [k EXCEPT !.flushed = TRUE]
           f1 == [f EXCEPT !.phase = "sent"]
<1>1. /\ k \in Clip /\ e \in Entry /\ Orderly(c, k, e, h, f)
      /\ entries = [entries EXCEPT ![c] = e]
      /\ handlers = [handlers EXCEPT ![c] = h]
  BY ClipState
<1>2. /\ k.conn # "none" /\ (c < MaxClip => clips[c + 1].conn = "none") /\ ~k.flushed
      /\ UNCHANGED <<handlers, session, entries>>
      /\ clips' = [clips EXCEPT ![c].flushed = TRUE]
      /\ finalises' = [finalises EXCEPT ![c].phase = "sent"]
  BY DEF Flush, Latest
<1>3. clips' = [clips EXCEPT ![c] = k1] /\ finalises' = [finalises EXCEPT ![c] = f1]
  BY <1>2
<1>4. k.conn \in {"connecting", "open"}
  <2>1. k.conn # "closed"
    BY <1>2 DEF Undisturbed
  <2> QED BY <1>1, <1>2, <2>1 DEF Clip
<1>5. Connecting(c, k, h, f) \/ Listening(c, k, e, h, f) \/ Hearing(c, k, e, h, f)
  BY <1>1, <1>2, <1>4, WhichPhase
<1>6. f = Idle
  BY <1>2, <1>5 DEF Connecting, Listening, Hearing, Requested
<1>7. /\ k1 \in Clip /\ k1.conn = k.conn /\ k1.spoken = k.spoken /\ k1.said = k.said
      /\ k1.inbox = k.inbox /\ k1.words = k.words /\ k1.flushed /\ k1.final = k.final
  BY <1>1 DEF Clip
<1>8. f1 = Requested(k1)
  BY <1>6, <1>7 DEF Requested
<1> HIDE DEF k, k1, e, h, f, f1
<1>9. /\ Ongoing(c, k) => Ongoing(c, k1)
      /\ \A q, n : Heeded(c, k, e, q, n) => Heeded(c, k1, e, q, n)
      /\ \A q : Taken(c, k, e, q) => Taken(c, k1, e, q)
  BY <1>7, SameAudio
<1>10. Orderly(c, k1, e, h, f1)
  <2>1. CASE Connecting(c, k, h, f)
    <3>1. Connecting(c, k1, h, f1)
      BY <1>7, <1>8, <1>9, <2>1 DEF Connecting
    <3> QED BY <3>1 DEF Orderly
  <2>2. CASE Listening(c, k, e, h, f)
    <3>1. Listening(c, k1, e, h, f1)
      BY <1>7, <1>8, <1>9, <2>2 DEF Listening
    <3> QED BY <3>1 DEF Orderly
  <2>3. CASE Hearing(c, k, e, h, f)
    <3>1. Hearing(c, k1, e, h, f1)
      BY <1>7, <1>8, <1>9, <2>3 DEF Hearing
    <3> QED BY <3>1 DEF Orderly
  <2> QED BY <1>5, <2>1, <2>2, <2>3
<1>11. /\ entries' = [entries EXCEPT ![c] = e]
       /\ handlers' = [handlers EXCEPT ![c] = h]
       /\ session' = session /\ k1.conn = clips[c].conn
  BY <1>1, <1>2, <1>7 DEF k
<1> QED BY <1>1, <1>3, <1>7, <1>10, <1>11, OneClip DEF h

(* Audio is read: it is kept, taken to the pool, or silent. *)
LEMMA ReceiveKeepsUndisturbed ==
  ASSUME Undisturbed, StoreInv, NEW c \in Clips, Receive(c) PROVE Undisturbed'
<1> DEFINE k == clips[c]
           e == entries[c]
           h == handlers[c]
           f == finalises[c]
           chunk == Head(k.inbox)
           k1 == [k EXCEPT !.inbox = Tail(@)]
           pcm1 == Append(e.pcm, chunk)
           e1 == [e EXCEPT !.pcm = pcm1]
           e2 == [e EXCEPT !.pcm = <<>>]
           h2 == [phase |-> "window", entry |-> c, combined |-> e.overlap \o pcm1]
<1>1. /\ k \in Clip /\ e \in Entry /\ Orderly(c, k, e, h, f)
      /\ entries = [entries EXCEPT ![c] = e]
      /\ handlers = [handlers EXCEPT ![c] = h]
      /\ finalises = [finalises EXCEPT ![c] = f]
  BY ClipState
<1>2. /\ h = Receiving /\ k.inbox # <<>>
      /\ UNCHANGED <<session, finalises>>
      /\ clips' = [clips EXCEPT ![c].inbox = Tail(@)]
  BY DEF Receive
<1>3. session = c
  BY <1>2 DEF Undisturbed, Receiving, Idle
<1>4. Listening(c, k, e, h, f)
  BY <1>1, <1>2, WhichPhase
<1>5. AppendPcm(e, chunk) = e1 /\ e1.pcm = pcm1 /\ e1 \in Entry /\ pcm1 \in Seq(Chunk)
      /\ e1.until = e.until /\ e1.overlap = e.overlap /\ e1.start = e.start
  <2>1. e.pcm \in Seq(Chunk) /\ Len(e.pcm) \in Nat /\ k.inbox \in Seq(Chunk)
    BY <1>1, Fields
  <2>2. chunk \in Chunk
    BY <1>2, <2>1
  <2> HIDE DEF chunk
  <2>3. pcm1 \in Seq(Chunk)
    BY <2>1, <2>2
  <2>4. Len(e.pcm) < MaxBuffer
    <3>1. Len(e.pcm) < Window
      BY DEF StoreInv, AllShort, Short
    <3> QED BY <2>1, <3>1, TranscriptionAssumption
  <2>5. AppendPcm(e, chunk) = e1
    BY <2>4 DEF AppendPcm
  <2> HIDE DEF pcm1
  <2> QED BY <1>1, <2>3, <2>5 DEF Entry
<1>6. /\ k1 \in Clip /\ Ongoing(c, k1) /\ Heeded(c, k1, e, pcm1, 0)
  <2>1. e.pcm \in Seq(Chunk) /\ Ongoing(c, k) /\ Heeded(c, k, e, e.pcm, 0)
    BY <1>1, <1>4, Fields DEF Listening
  <2>2. k1 = ReadFrom(k) /\ pcm1 = Append(e.pcm, Head(k.inbox))
    BY DEF ReadFrom
  <2> HIDE DEF k, k1, e, pcm1
  <2> QED BY <1>1, <1>2, <2>1, <2>2, TakenIn
<1>7. /\ k1.conn = k.conn /\ k1.flushed = k.flushed /\ k1.final = k.final
  BY <1>1 DEF Clip
<1>8. Requested(k1) = Requested(k)
  BY <1>7 DEF Requested
<1>9. clips' = [clips EXCEPT ![c] = k1]
  BY <1>2
<1>10. /\ e2 \in Entry
       /\ Taken(c, k1, e2, e.overlap \o pcm1)
       /\ Silent(pcm1) => Heeded(c, k1, e2, <<>>, 0)
       /\ e2.pcm = <<>>
  <2>1. e2 = WithPcm(e, <<>>)
    BY DEF WithPcm
  <2> HIDE DEF k1, e, e2, pcm1
  <2> QED BY <1>1, <1>5, <1>6, <2>1, TakenOut
<1>11. \/ handlers' = handlers /\ entries' = [entries EXCEPT ![c] = e1]
       \/ handlers' = handlers /\ Silent(pcm1) /\ entries' = [entries EXCEPT ![c] = e2]
       \/ handlers' = [handlers EXCEPT ![c] = h2] /\ entries' = [entries EXCEPT ![c] = e2]
  <2> DEFINE x == AppendPcm(entries[session], chunk)
  <2>1. session # 0
    BY <1>3 DEF Clips
  <2>2. x = e1
    BY <1>3, <1>5
  <2>3. \/ handlers' = handlers /\ entries' = [entries EXCEPT ![session] = x]
        \/ /\ handlers' = handlers /\ Silent(x.pcm)
           /\ entries' = [entries EXCEPT ![session].pcm = <<>>]
        \/ /\ handlers' = [handlers EXCEPT ![c] =
                     [phase |-> "window", entry |-> session,
                      combined |-> x.overlap \o x.pcm]]
           /\ entries' = [entries EXCEPT ![session].pcm = <<>>]
    BY <2>1 DEF Receive
  <2>4. [entries EXCEPT ![session].pcm = <<>>] = [entries EXCEPT ![c] = e2]
    BY <1>3
  <2> HIDE DEF x, e1, e2, pcm1, e, chunk
  <2> QED BY <1>3, <1>5, <2>2, <2>3, <2>4
<1> HIDE DEF k, k1, e, e1, e2, h, f, chunk, pcm1
<1>12. Aligned(e1)
  BY <1>4, <1>5 DEF Listening, Heeded, Aligned
<1>13. Heeded(c, k1, e1, e1.pcm, 0)
  BY <1>5, <1>6, <1>12 DEF Heeded
<1>14. Listening(c, k1, e1, h, f) /\ (Silent(pcm1) => Listening(c, k1, e2, h, f))
  BY <1>4, <1>6, <1>7, <1>8, <1>10, <1>13 DEF Listening
<1>15. Hearing(c, k1, e2, h2, f)
  BY <1>4, <1>6, <1>7, <1>8, <1>10 DEF Listening, Hearing
<1>16. /\ finalises' = [finalises EXCEPT ![c] = f]
       /\ session' = session /\ k1.conn = clips[c].conn
       /\ handlers[c].phase = "receiving" /\ h.phase = "receiving" /\ h2.phase = "window"
  BY <1>1, <1>2, <1>7 DEF k, h, Receiving, Idle
<1> HIDE DEF h2
<1>17. CASE handlers' = handlers /\ entries' = [entries EXCEPT ![c] = e1]
  BY <1>1, <1>5, <1>6, <1>9, <1>14, <1>16, <1>17, OneClip DEF Orderly
<1>18. CASE handlers' = handlers /\ Silent(pcm1) /\ entries' = [entries EXCEPT ![c] = e2]
  BY <1>1, <1>6, <1>9, <1>10, <1>14, <1>16, <1>18, OneClip DEF Orderly
<1>19. CASE handlers' = [handlers EXCEPT ![c] = h2] /\ entries' = [entries EXCEPT ![c] = e2]
  BY <1>1, <1>6, <1>9, <1>10, <1>15, <1>16, <1>19, OneClip DEF Orderly
<1> QED BY <1>11, <1>17, <1>18, <1>19

(* The connection is opened. *)
LEMMA AcceptKeepsUndisturbed ==
  ASSUME Undisturbed, NEW c \in Clips, Accept(c), calm' PROVE Undisturbed'
<1> DEFINE k == clips[c]
           h == handlers[c]
           f == finalises[c]
           e == FreshEntry
           k1 == [k EXCEPT !.conn = "open"]
<1>1. /\ k \in Clip /\ Orderly(c, k, entries[c], h, f)
      /\ finalises = [finalises EXCEPT ![c] = f]
  BY ClipState
<1>2. /\ k.conn = "connecting" /\ h = Idle
      /\ \A d \in Clips \ {c} : handlers[d] \in {Idle, Gone}
      /\ clips' = [clips EXCEPT ![c].conn = "open"]
      /\ handlers' = [handlers EXCEPT ![c] = Receiving]
      /\ session' = c
      /\ entries' = [entries EXCEPT ![c] = e]
      /\ finalises' = finalises
  BY DEF Accept, Noting
<1>3. clips' = [clips EXCEPT ![c] = k1]
  BY <1>2
<1>4. Connecting(c, k, h, f)
  BY <1>1, <1>2, WhichPhase
<1>5. /\ k1 \in Clip /\ k1.conn = "open" /\ k1.spoken = k.spoken /\ k1.said = k.said
      /\ k1.inbox = k.inbox /\ k1.words = k.words /\ k1.flushed = k.flushed
      /\ k1.final = k.final
  BY <1>1 DEF Clip
<1>6. Requested(k1) = Requested(k)
  BY <1>5 DEF Requested
<1>7. /\ e \in Entry /\ e.pcm = <<>> /\ e.until = 0 /\ e.start = 0 /\ e.overlap = <<>>
  <2>1. <<>> \in Seq(Chunk)
    OBVIOUS
  <2> QED BY <2>1 DEF FreshEntry, Entry
<1> HIDE DEF k, k1, e, h, f
<1>8. k.spoken \in Nat /\ k.said \in SUBSET Nat
  BY <1>1 DEF Clip
<1>9. Ongoing(c, k1)
  <2>1. Ongoing(c, k)
    BY <1>4 DEF Connecting
  <2> QED BY <1>5, <2>1 DEF Ongoing
<1>10. Len(<<>>) = 0 /\ 1..Len(<<>>) = {}
  OBVIOUS
<1>11. Heeded(c, k1, e, <<>>, 0)
  <2>1. Aligned(e)
    BY <1>7, <1>10 DEF Aligned
  <2>2. k1.words = <<>> /\ k1.spoken - Len(k1.inbox) - (Len(<<>>) - 0) = 0
    BY <1>4, <1>5, <1>8, <1>10 DEF Connecting
  <2>3. \A t \in k1.said : ~(t <= 0)
    BY <1>5, <1>8, <1>9 DEF Ongoing
  <2>4. Received(c, <<>>, k1.said, 0, 0)
    BY <1>10, <2>3 DEF Received
  <2>5. Spoken(c, k1.said, <<>>, 0, k1.spoken - Len(k1.inbox))
    BY <1>10 DEF Spoken
  <2>6. 0 <= Len(<<>>)
    BY <1>10
  <2> QED BY <1>7, <2>1, <2>2, <2>4, <2>5, <2>6 DEF Heeded
<1>12. Listening(c, k1, e, Receiving, f)
  BY <1>4, <1>5, <1>6, <1>7, <1>9, <1>11 DEF Connecting, Listening
<1>13. \A d \in Clips : handlers'[d].phase \in {"receiving", "window"} <=> session' = d
  BY <1>2 DEF Undisturbed, Idle, Gone, Receiving
<1>14. /\ k1.conn # "none" /\ clips[c].conn # "none"
       /\ k1.conn # "closed" /\ clips[c].conn # "closed"
       /\ finalises' = [finalises EXCEPT ![c] = f]
  BY <1>1, <1>2, <1>5 DEF k
<1>15. Orderly(c, k1, e, Receiving, f)
  BY <1>12 DEF Orderly
<1> QED BY <1>2, <1>3, <1>5, <1>7, <1>13, <1>14, <1>15, ClipStep

(* The connection of a clip that is over is found closed. *)
LEMMA DisconnectKeepsUndisturbed ==
  ASSUME Undisturbed, NEW c \in Clips, Disconnect(c), calm' PROVE Undisturbed'
<1> DEFINE k == clips[c]
           h == handlers[c]
           f == finalises[c]
           e == entries[c]
<1>1. /\ k \in Clip /\ e \in Entry /\ Orderly(c, k, e, h, f)
      /\ clips = [clips EXCEPT ![c] = k]
      /\ entries = [entries EXCEPT ![c] = e]
      /\ finalises = [finalises EXCEPT ![c] = f]
  BY ClipState
<1>2. /\ h = Receiving /\ k.conn = "closed"
      /\ clips' = [clips EXCEPT ![c].conn = "closed", ![c].inbox = <<>>]
      /\ handlers' = [handlers EXCEPT ![c] = Gone]
      /\ session' = 0
      /\ UNCHANGED <<entries, finalises>>
  BY DEF Disconnect, Noting, CloseSession
<1>3. Over(k, h, f)
  BY <1>1, <1>2, WhichPhase
<1>4. k = [NewClip EXCEPT !.conn = "closed"] /\ k.inbox = <<>>
  BY <1>3 DEF Over, NewClip
<1>5. [k EXCEPT !.conn = "closed", !.inbox = <<>>] = k
  BY <1>4 DEF NewClip
<1>6. clips' = [clips EXCEPT ![c] = k]
  <2>1. clips' = [clips EXCEPT ![c] = [k EXCEPT !.conn = "closed", !.inbox = <<>>]]
    BY <1>2
  <2> QED BY <1>5, <2>1
<1>7. Orderly(c, k, e, Gone, f)
  BY <1>3 DEF Over, Orderly
<1>8. \A d \in Clips : handlers'[d].phase \in {"receiving", "window"} <=> session' = d
  <2>1. session = c
    BY <1>2 DEF Undisturbed, Receiving, Idle
  <2>2. 0 \notin Clips
    BY DEF Clips
  <2> QED BY <1>2, <2>1, <2>2 DEF Undisturbed, Gone, Idle
<1>9. /\ entries' = [entries EXCEPT ![c] = e]
      /\ finalises' = [finalises EXCEPT ![c] = f]
      /\ k.conn = clips[c].conn
  BY <1>1, <1>2
<1> HIDE DEF k, e, h, f
<1> QED BY <1>1, <1>2, <1>6, <1>7, <1>8, <1>9, ClipStep

(* The successor of a clip takes over. *)
LEMMA NextClipKeepsUndisturbed ==
  ASSUME Undisturbed, NEW c \in Clips, NextClip(c), calm' PROVE Undisturbed'
<1> DEFINE k == clips[c]
           h == handlers[c]
           f == finalises[c]
           e == entries[c]
           k1 == [NewClip EXCEPT !.conn = "closed"]
           k2 == [NewClip EXCEPT !.conn = "connecting"]
<1>1. k \in Clip /\ Orderly(c, k, e, h, f)
  BY ClipState
<1>2. /\ k.conn # "none" /\ clips[c + 1].conn = "none" /\ c < MaxClip
      /\ k.flushed /\ k.final
      /\ clips' = [clips EXCEPT
           ![c] = [NewClip EXCEPT !.conn = "closed", !.inbox = k.inbox],
           ![c + 1].conn = "connecting"]
      /\ UNCHANGED <<handlers, session, entries, finalises>>
  BY DEF NextClip, Latest, Noting, Resolved, Replace
<1>3. c \in Int /\ c + 1 \in Clips /\ c + 1 # c
  BY <1>2, TranscriptionAssumption DEF Clips
<1>4. /\ Orderly(c + 1, clips[c + 1], entries[c + 1], handlers[c + 1], finalises[c + 1])
      /\ Unused(clips[c + 1], handlers[c + 1], finalises[c + 1])
  BY <1>2, <1>3, ClipState, WhichPhase
<1>5. Concluded(c, k, e, h, f)
  <2>1. k.conn # "closed"
    BY <1>2 DEF Undisturbed
  <2>2. k.conn # "connecting"
    BY <1>1, <1>2, WhichPhase DEF Connecting
  <2>3. k.conn = "open"
    BY <1>1, <1>2, <2>1, <2>2 DEF Clip
  <2> QED BY <1>1, <1>2, <2>3, WhichPhase
<1>6. /\ k.inbox = <<>> /\ h = Receiving /\ f = Done /\ k.conn = "open"
  BY <1>5 DEF Concluded
<1>7. [NewClip EXCEPT !.conn = "closed", !.inbox = k.inbox] = k1
  <2>1. k1 \in Clip /\ k1.inbox = <<>>
    <3>1. <<>> \in Seq(Chunk) /\ <<>> \in Seq(SUBSET TimedWord)
      OBVIOUS
    <3> QED BY <3>1 DEF NewClip, Clip
  <2>2. [NewClip EXCEPT !.conn = "closed", !.inbox = k.inbox] = [k1 EXCEPT !.inbox = k.inbox]
    OBVIOUS
  <2>3. k.inbox = <<>>
    BY <1>6
  <2> HIDE DEF k1
  <2>4. [k1 EXCEPT !.inbox = <<>>] = k1
    BY <2>1 DEF Clip
  <2> QED BY <2>2, <2>3, <2>4
<1>8. clips[c + 1] = NewClip /\ handlers[c + 1] = Idle /\ finalises[c + 1] = Idle
  BY <1>4 DEF Unused
<1>9. clips' = [clips EXCEPT ![c] = k1, ![c + 1] = k2]
  <2>1. clips' = [clips EXCEPT ![c] = k1, ![c + 1].conn = "connecting"]
    BY <1>2, <1>7, Zenon
  <2>2. [clips EXCEPT ![c] = k1][c + 1] = NewClip
    BY <1>3, <1>8 DEF Undisturbed
  <2> QED BY <2>1, <2>2
<1>10. k1 \in Clip /\ k2 \in Clip /\ k1.conn = "closed" /\ k2.conn = "connecting"
  <2>1. <<>> \in Seq(Chunk) /\ <<>> \in Seq(SUBSET TimedWord)
    OBVIOUS
  <2> QED BY <2>1 DEF NewClip, Clip
<1>11. Over(k1, h, f)
  BY <1>6 DEF Over
<1>12. Connecting(c + 1, k2, handlers[c + 1], finalises[c + 1])
  <2>1. /\ k2.conn = "connecting" /\ k2.spoken = 0 /\ k2.said = {} /\ k2.inbox = <<>>
        /\ k2.words = <<>> /\ ~k2.flushed /\ ~k2.final
    BY DEF NewClip
  <2>2. Len(<<>>) = 0 /\ 1..Len(<<>>) = {}
    OBVIOUS
  <2> HIDE DEF k2
  <2>3. Ongoing(c + 1, k2)
    BY <2>1, <2>2 DEF Ongoing, Spoken
  <2> QED BY <1>8, <2>1, <2>2, <2>3 DEF Connecting, Requested
<1> HIDE DEF k1, k2
<1>13. /\ clips'[c] = k1 /\ clips'[c + 1] = k2
       /\ \A d \in Clips : d # c /\ d # c + 1 => clips'[d] = clips[d]
       /\ clips' \in [Clips -> Clip]
  BY <1>3, <1>9, <1>10 DEF Undisturbed
<1>14. \A d \in Clips : Orderly(d, clips'[d], entries'[d], handlers'[d], finalises'[d])
  BY <1>2, <1>11, <1>12, <1>13 DEF Orderly, Undisturbed
<1>15. \A d, g \in Clips :
        d < g /\ clips'[g].conn # "none" => clips'[d].conn = "closed"
  <2>1. ASSUME NEW d \in Clips, NEW g \in Clips, d < g, clips'[g].conn # "none"
        PROVE  clips'[d].conn = "closed"
    <3>0. d \in Int /\ g \in Int
      BY DEF Clips
    <3>1. \A x, y \in Clips : x < y /\ clips[y].conn # "none" => clips[x].conn = "closed"
      BY DEF Undisturbed
    <3>2. CASE d = c
      BY <1>10, <1>13, <3>2
    <3>3. CASE d = c + 1
      <4>1. c < g /\ g # c /\ g # c + 1 /\ c + 1 < g
        BY <1>3, <2>1, <3>0, <3>3
      <4>2. clips[g].conn # "none"
        BY <1>13, <2>1, <4>1
      <4>3. clips[c + 1].conn = "closed"
        BY <1>3, <3>1, <4>1, <4>2
      <4> QED BY <1>2, <4>3
    <3>4. CASE d # c /\ d # c + 1
      <4>1. CASE g # c + 1
        <5>1. clips[g].conn # "none"
          BY <1>2, <1>13, <2>1, <4>1
        <5> QED BY <1>13, <2>1, <3>1, <3>4, <5>1
      <4>2. CASE g = c + 1
        <5>1. d < c
          BY <1>3, <2>1, <3>0, <3>4, <4>2
        <5> QED BY <1>2, <1>13, <3>1, <3>4, <5>1
      <4> QED BY <4>1, <4>2
    <3> QED BY <3>2, <3>3, <3>4
  <2> QED BY <2>1
<1>16. ASSUME NEW d \in Clips, clips'[d].conn = "closed"
       PROVE  d < MaxClip /\ clips'[d + 1].conn # "none"
  <2>1. CASE d = c
    BY <1>2, <1>10, <1>13, <2>1
  <2>2. CASE d # c
    <3>1. d # c + 1
      BY <1>10, <1>13, <1>16
    <3>2. d < MaxClip /\ clips[d + 1].conn # "none"
      BY <1>13, <1>16, <2>2, <3>1 DEF Undisturbed
    <3>3. d \in Int /\ d + 1 \in Clips /\ d + 1 # c + 1
      BY <1>3, <2>2, <3>2, TranscriptionAssumption DEF Clips
    <3>4. CASE d + 1 = c
      BY <1>10, <1>13, <3>2, <3>4
    <3>5. CASE d + 1 # c
      BY <1>13, <3>2, <3>3, <3>5
    <3> QED BY <3>4, <3>5
  <2> QED BY <2>1, <2>2
<1> QED BY <1>2, <1>13, <1>14, <1>15, <1>16 DEF Undisturbed

(* Inference on a window is over. *)
LEMMA WindowKeepsUndisturbed ==
  ASSUME Undisturbed, NEW c \in Clips, WindowAnswered(c), calm' PROVE Undisturbed'
<1> DEFINE k == clips[c]
           h == handlers[c]
           f == finalises[c]
           e == entries[c]
           heard == Heard(h.combined, e.start)
           new == NewWords(e, heard)
           e1 == Transcribed(e, h.combined, heard)
           more == IF new = {} THEN k.words ELSE Append(k.words, new)
           k1 == [k EXCEPT !.words = more]
<1>1. /\ k \in Clip /\ e \in Entry /\ Orderly(c, k, e, h, f)
      /\ finalises = [finalises EXCEPT ![c] = f]
  BY ClipState
<1>2. h.phase = "window"
  BY DEF WindowAnswered
<1>3. Hearing(c, k, e, h, f)
  BY <1>1, <1>2, WhichPhase
<1>4. h.entry = c /\ k.conn = "open" /\ Taken(c, k, e, h.combined)
  BY <1>3 DEF Hearing
<1>5. /\ entries' = [entries EXCEPT ![h.entry] =
                       Transcribed(@, h.combined, Heard(h.combined, entries[h.entry].start))]
      /\ Send(h.entry, NewWords(entries[h.entry], Heard(h.combined, entries[h.entry].start)), FALSE)
      /\ handlers' = [handlers EXCEPT ![c] = Receiving]
      /\ UNCHANGED <<session, finalises>>
  BY DEF WindowAnswered, Noting
<1>6. entries' = [entries EXCEPT ![c] = e1] /\ Send(c, new, FALSE)
  BY <1>4, <1>5
<1>7. clips' = [clips EXCEPT ![c] = k1]
  <2>1. clips' = [clips EXCEPT ![c].words = IF new = {} THEN @ ELSE Append(@, new),
                               ![c].final = @ \/ FALSE]
    BY <1>4, <1>6 DEF Send
  <2>2. clips' = [clips EXCEPT ![c] = [k EXCEPT !.words = more, !.final = k.final \/ FALSE]]
    BY <2>1 DEF Undisturbed
  <2>3. k.final \/ FALSE = k.final
    OBVIOUS
  <2>4. [k EXCEPT !.words = more, !.final = k.final \/ FALSE] = k1
    <3> HIDE DEF more, k
    <3> QED BY <1>1 DEF Clip
  <2> QED BY <2>2, <2>4
<1>a. /\ e1 = Transcribed(e, h.combined, Heard(h.combined, e.start))
      /\ more = Extended(k.words, NewWords(e, Heard(h.combined, e.start)))
  BY DEF Extended
<1> HIDE DEF k, h, f, e, heard, new, e1, more
<1>8. /\ e1 \in Entry /\ Aligned(e1) /\ e1.pcm = <<>>
      /\ more \in Seq(SUBSET TimedWord)
      /\ Received(c, more, k.said, e1.until, k.spoken - Len(k.inbox))
  BY <1>1, <1>4, <1>a, Answered
<1>9. /\ k1 \in Clip /\ k1.conn = k.conn /\ k1.spoken = k.spoken /\ k1.said = k.said
      /\ k1.inbox = k.inbox /\ k1.words = more /\ k1.flushed = k.flushed
      /\ k1.final = k.final
  BY <1>1, <1>8 DEF Clip
<1> HIDE DEF k1
<1>10. Ongoing(c, k1) /\ Requested(k1) = Requested(k)
  BY <1>3, <1>9 DEF Hearing, Ongoing, Requested
<1>11. Len(<<>>) = 0 /\ 1..Len(<<>>) = {} /\ 0 <= Len(<<>>)
  OBVIOUS
<1>12. Heeded(c, k1, e1, <<>>, 0)
  <2>1. Spoken(c, k1.said, <<>>, 0, k1.spoken - Len(k1.inbox))
    BY <1>11 DEF Spoken
  <2>2. k1.spoken - Len(k1.inbox) - (Len(<<>>) - 0) = k.spoken - Len(k.inbox)
    <3>1. k1.spoken \in Int /\ Len(k1.inbox) \in Int
      BY <1>8, <1>9, Fields
    <3> DEFINE m == Len(k1.inbox)
               l == Len(<<>>)
    <3>2. m \in Int /\ l = 0
      BY <1>11, <3>1
    <3> HIDE DEF m, l
    <3>3. k1.spoken - m - (l - 0) = k1.spoken - m
      BY <3>1, <3>2
    <3> QED BY <1>9, <3>3 DEF m, l
  <2> QED BY <1>8, <1>9, <1>11, <2>1, <2>2 DEF Heeded
<1>13. Listening(c, k1, e1, Receiving, f)
  BY <1>3, <1>8, <1>9, <1>10, <1>12 DEF Hearing, Listening
<1>14. /\ Orderly(c, k1, e1, Receiving, f)
       /\ finalises' = [finalises EXCEPT ![c] = f]
       /\ session' = session /\ k1.conn = clips[c].conn
       /\ Receiving.phase = "receiving" /\ handlers[c].phase = "window"
  BY <1>1, <1>2, <1>5, <1>9, <1>13 DEF k, h, Orderly, Receiving, Idle
<1> QED BY <1>5, <1>6, <1>7, <1>8, <1>9, <1>14, OneClip

(* The final transcript is sent. *)
LEMMA ConcludeKeepsUndisturbed ==
  ASSUME Undisturbed, NEW c \in Clips, session = c,
         clips[c].conn = "open", handlers[c] = Receiving,
         clips[c].inbox = <<>>, clips[c].flushed, Ongoing(c, clips[c]),
         NEW e \in Entry, e.pcm = <<>>, NEW es, es = [entries EXCEPT ![c] = e],
         NEW new, NEW more \in Seq(SUBSET TimedWord),
         more = IF new = {} THEN clips[c].words ELSE Append(clips[c].words, new),
         Received(c, more, clips[c].said, e.until, clips[c].spoken),
         Conclude(c, es, new), UNCHANGED <<handlers, session>>
  PROVE  Undisturbed'
<1> DEFINE k == clips[c]
           k1 == [k EXCEPT !.words = more, !.final = TRUE]
           e1 == [e EXCEPT !.overlap = <<>>, !.start = 0]
<1>1. k \in Clip /\ handlers = [handlers EXCEPT ![c] = Receiving]
  BY ClipState
<1>2. session # 0
  BY DEF Clips
<1>3. /\ finalises' = [finalises EXCEPT ![c] = Done]
      /\ entries' = ClearOverlap(es, c)
      /\ Send(c, new, TRUE)
  BY <1>2 DEF Conclude, Done
<1>4. entries' = [entries EXCEPT ![c] = e1]
  BY <1>3 DEF ClearOverlap, Undisturbed
<1>5. clips' = [clips EXCEPT ![c] = k1]
  <2>1. clips' = [clips EXCEPT ![c].words = IF new = {} THEN @ ELSE Append(@, new),
                               ![c].final = @ \/ TRUE]
    BY <1>3 DEF Send
  <2>2. clips' = [clips EXCEPT ![c] = [k EXCEPT !.words = more, !.final = k.final \/ TRUE]]
    BY <2>1 DEF Undisturbed
  <2>3. [k EXCEPT !.words = more, !.final = k.final \/ TRUE] = k1
    <3> HIDE DEF k
    <3> QED BY <1>1 DEF Clip
  <2> QED BY <2>2, <2>3
<1>6. /\ k1 \in Clip /\ k1.conn = k.conn /\ k1.spoken = k.spoken /\ k1.said = k.said
      /\ k1.inbox = k.inbox /\ k1.words = more /\ k1.flushed = k.flushed
      /\ k1.final
  <2> HIDE DEF k
  <2> QED BY <1>1 DEF Clip
<1>7. e1 \in Entry /\ e1.pcm = <<>> /\ e1.until = e.until
  <2>1. <<>> \in Seq(Chunk) /\ 0 \in Int
    OBVIOUS
  <2>2. e1 \in Entry
    BY <2>1 DEF Entry
  <2>3. e1.pcm = e.pcm /\ e1.until = e.until
    BY DEF Entry
  <2> QED BY <2>2, <2>3
<1> HIDE DEF k1, e1
<1>8. Ongoing(c, k1)
  BY <1>6 DEF Ongoing
<1>9. Concluded(c, k1, e1, Receiving, Done)
  BY <1>6, <1>7, <1>8 DEF Concluded
<1>10. /\ handlers' = [handlers EXCEPT ![c] = Receiving]
       /\ session' = session
       /\ Orderly(c, k1, e1, Receiving, Done)
       /\ k1.conn = clips[c].conn
  BY <1>1, <1>6, <1>9 DEF Orderly
<1> QED BY <1>3, <1>4, <1>5, <1>6, <1>7, <1>10, OneClip

(* Finalise arrives: it is done at once, or takes the buffer to the pool. *)
LEMMA FinaliseKeepsUndisturbed ==
  ASSUME Undisturbed, NEW c \in Clips, FinaliseArrives(c), calm' PROVE Undisturbed'
<1> DEFINE k == clips[c]
           h == handlers[c]
           f == finalises[c]
           e == entries[c]
           combined == e.overlap \o e.pcm
           e1 == WithPcm(e, <<>>)
           f1 == [phase |-> "pool", entry |-> c, combined |-> combined]
           taken == [entries EXCEPT ![c] = e1]
<1>1. /\ k \in Clip /\ e \in Entry /\ Orderly(c, k, e, h, f)
      /\ clips = [clips EXCEPT ![c] = k]
      /\ handlers = [handlers EXCEPT ![c] = h]
  BY ClipState
<1>2. /\ f.phase = "sent" /\ h = Receiving /\ k.inbox = <<>>
      /\ UNCHANGED <<handlers, session>>
  BY DEF FinaliseArrives, Noting
<1>3. session = c /\ session # 0
  BY <1>2 DEF Undisturbed, Receiving, Idle, Clips
<1>4. Listening(c, k, e, h, f) /\ k.flushed
  BY <1>1, <1>2, WhichPhase
<1>5. [entries EXCEPT ![session].pcm = <<>>] = taken
  BY <1>3 DEF WithPcm, Undisturbed
<1>6. \/ (e.pcm = <<>> \/ Silent(combined)) /\ Conclude(c, taken, {})
      \/ /\ entries' = taken /\ clips' = clips
         /\ finalises' = [finalises EXCEPT ![c] = f1]
  <2> DEFINE t == [entries EXCEPT ![session].pcm = <<>>]
             q == entries[session].overlap \o entries[session].pcm
  <2>1. \/ /\ entries[session].pcm = <<>> \/ Silent(q)
           /\ Conclude(c, t, {})
        \/ /\ entries' = t /\ clips' = clips
           /\ finalises' = [finalises EXCEPT ![c] =
                [phase |-> "pool", entry |-> session, combined |-> q]]
    BY <1>3 DEF FinaliseArrives
  <2>2. t = taken /\ q = combined
    BY <1>3, <1>5
  <2> HIDE DEF t, q, taken, combined
  <2> QED BY <1>3, <2>1, <2>2
<1> HIDE DEF k, h, f, e, e1, f1, taken
<1>7. e.pcm \in Seq(Chunk) /\ e.overlap \in Seq(Chunk) /\ k.spoken \in Nat
  BY <1>1, Fields
<1>8. Ongoing(c, k) /\ Heeded(c, k, e, e.pcm, 0)
  BY <1>4 DEF Listening
<1>9. /\ e1 \in Entry /\ e1.pcm = <<>>
      /\ Taken(c, k, e1, combined)
      /\ Silent(e.pcm) => Heeded(c, k, e1, <<>>, 0)
  BY <1>1, <1>7, <1>8, TakenOut DEF e1
<1>10. e.pcm = <<>> \/ Silent(combined) => Silent(e.pcm)
  <2>1. ASSUME Silent(combined), NEW i \in 1..Len(e.pcm) PROVE e.pcm[i].kind = "silence"
    <3> DEFINE n == Len(e.overlap)
    <3>a. n \in Nat /\ Len(e.pcm) \in Nat
      BY <1>7
    <3>b. \A j \in 1..n + Len(e.pcm) :
            combined[j] = IF j <= n THEN e.overlap[j] ELSE e.pcm[j - n]
      BY <1>7, ConcatProperties
    <3>c. Len(combined) = n + Len(e.pcm)
      BY <1>7, ConcatProperties
    <3>d. i \in Int /\ i > 0 /\ i <= Len(e.pcm)
      BY <2>1, <3>a
    <3>1. combined[n + i] = e.pcm[i]
      <4> HIDE DEF n, combined
      <4>1. n + i \in 1..n + Len(e.pcm) /\ ~(n + i <= n) /\ (n + i) - n = i
        BY <3>a, <3>d
      <4> QED BY <3>b, <4>1
    <3> HIDE DEF n, combined
    <3>2. n + i \in 1..Len(combined)
      BY <3>a, <3>c, <3>d
    <3> QED BY <2>1, <3>1, <3>2 DEF Silent
  <2>2. Len(<<>>) = 0 /\ 1..0 = {}
    OBVIOUS
  <2> QED BY <2>1, <2>2 DEF Silent
<1> HIDE DEF combined
<1>11. CASE (e.pcm = <<>> \/ Silent(combined)) /\ Conclude(c, taken, {})
  <2>1. Heeded(c, k, e1, <<>>, 0)
    BY <1>9, <1>10, <1>11
  <2>2. Received(c, k.words, k.said, e1.until, k.spoken)
    <3>1. k.spoken - Len(k.inbox) - (Len(<<>>) - 0) = k.spoken
      BY <1>2, <1>7
    <3> QED BY <2>1, <3>1 DEF Heeded
  <2>3. /\ k.words \in Seq(SUBSET TimedWord)
        /\ k.words = IF {} = {} THEN k.words ELSE Append(k.words, {})
    BY <1>1, Fields
  <2>4. taken = [entries EXCEPT ![c] = e1]
    BY DEF taken
  <2>5. k.conn = "open"
    BY <1>4 DEF Listening
  <2> QED BY <1>2, <1>3, <1>4, <1>8, <1>9, <1>11, <2>2, <2>3, <2>4, <2>5,
             ConcludeKeepsUndisturbed DEF k, h
<1>12. CASE /\ entries' = taken /\ clips' = clips
            /\ finalises' = [finalises EXCEPT ![c] = f1]
  <2>1. f1.phase = "pool" /\ f1.entry = c /\ f1.combined = combined
    BY DEF f1
  <2>2. Concluding(c, k, e1, h, f1)
    BY <1>2, <1>4, <1>8, <1>9, <2>1 DEF Listening, Concluding
  <2>3. /\ entries' = [entries EXCEPT ![c] = e1] /\ session' = session
        /\ clips' = [clips EXCEPT ![c] = k] /\ handlers' = [handlers EXCEPT ![c] = h]
        /\ k.conn = clips[c].conn /\ h = handlers[c]
        /\ Orderly(c, k, e1, h, f1)
    BY <1>1, <1>2, <1>12, <2>2 DEF taken, Orderly, k, h
  <2> QED BY <1>1, <1>9, <1>12, <2>3, OneClip
<1> QED BY <1>6, <1>11, <1>12

(* Inference on the rest of the clip is over. *)
LEMMA AnswerKeepsUndisturbed ==
  ASSUME Undisturbed, NEW c \in Clips, FinaliseAnswered(c), calm' PROVE Undisturbed'
<1> DEFINE k == clips[c]
           h == handlers[c]
           f == finalises[c]
           e == entries[c]
           heard == Heard(f.combined, e.start)
           new == NewWords(e, heard)
           e1 == Transcribed(e, f.combined, heard)
           more == Extended(k.words, new)
           es == [entries EXCEPT ![c] = e1]
<1>1. k \in Clip /\ e \in Entry /\ Orderly(c, k, e, h, f)
  BY ClipState
<1>2. f.phase = "pool"
  BY DEF FinaliseAnswered
<1>3. Concluding(c, k, e, h, f)
  BY <1>1, <1>2, WhichPhase
<1>4. /\ f.entry = c /\ k.conn = "open" /\ h = Receiving /\ k.inbox = <<>> /\ k.flushed
      /\ Ongoing(c, k) /\ Taken(c, k, e, f.combined)
  BY <1>3 DEF Concluding
<1>5. session = c
  BY <1>4 DEF Undisturbed, Receiving, Idle
<1>6. /\ Conclude(c, [entries EXCEPT ![f.entry] =
                        Transcribed(@, f.combined, Heard(f.combined, entries[f.entry].start))],
                  NewWords(entries[f.entry], Heard(f.combined, entries[f.entry].start)))
      /\ UNCHANGED <<handlers, session>>
  BY DEF FinaliseAnswered, Noting
<1>7. Conclude(c, es, new)
  <2>1. [entries EXCEPT ![f.entry] =
           Transcribed(@, f.combined, Heard(f.combined, entries[f.entry].start))] = es
    BY <1>4
  <2>2. NewWords(entries[f.entry], Heard(f.combined, entries[f.entry].start)) = new
    BY <1>4
  <2> HIDE DEF es, new
  <2> QED BY <1>6, <2>1, <2>2
<1>8. /\ e1 = Transcribed(e, f.combined, Heard(f.combined, e.start))
      /\ more = Extended(k.words, NewWords(e, Heard(f.combined, e.start)))
      /\ more = IF new = {} THEN k.words ELSE Append(k.words, new)
      /\ es = [entries EXCEPT ![c] = e1]
  BY DEF Extended
<1> HIDE DEF k, h, f, e, heard, new, e1, more, es
<1>9. /\ e1 \in Entry /\ e1.pcm = <<>>
      /\ more \in Seq(SUBSET TimedWord)
      /\ Received(c, more, k.said, e1.until, k.spoken - Len(k.inbox))
  BY <1>1, <1>4, <1>8, Answered
<1>10. k.spoken - Len(k.inbox) = k.spoken
  <2>1. k.spoken \in Nat /\ Len(<<>>) = 0
    BY <1>1, Fields
  <2> QED BY <1>4, <2>1
<1> QED BY <1>4, <1>5, <1>6, <1>7, <1>8, <1>9, <1>10, ConcludeKeepsUndisturbed DEF k, h

(* A reset meets an entry that is fresh, or one of a clip that is over. *)
LEMMA ResetKeepsUndisturbed ==
  ASSUME Undisturbed, StoreInv, ResetArrives, calm' PROVE Undisturbed'
<1>1. UNCHANGED <<clips, handlers, session, finalises>>
  BY DEF ResetArrives
<1>2. CASE entries' = entries
  BY <1>1, <1>2 DEF Undisturbed
<1>3. CASE session # 0 /\ entries' = [entries EXCEPT ![session] = FreshEntry]
           /\ (clips[session].conn = "open" => entries[session] = FreshEntry)
  <2> DEFINE c == session
             k == clips[c]
             h == handlers[c]
             f == finalises[c]
             e == entries[c]
  <2>1. c \in Clips
    BY <1>3 DEF StoreInv
  <2>2. /\ k \in Clip /\ Orderly(c, k, e, h, f)
        /\ clips = [clips EXCEPT ![c] = k]
        /\ entries = [entries EXCEPT ![c] = e]
        /\ handlers = [handlers EXCEPT ![c] = h]
        /\ finalises = [finalises EXCEPT ![c] = f]
    BY <2>1, ClipState
  <2>3. h.phase \in {"receiving", "window"}
    BY <2>1 DEF Undisturbed
  <2>4. k.conn = "open" \/ k.conn = "closed"
    <3> HIDE DEF k, e, h, f, c
    <3>1. \/ Listening(c, k, e, h, f) \/ Hearing(c, k, e, h, f)
          \/ Concluding(c, k, e, h, f) \/ Concluded(c, k, e, h, f)
          \/ k.conn = "closed"
      BY <2>2, <2>3, WhichPhase
    <3> QED BY <3>1 DEF Listening, Hearing, Concluding, Concluded
  <2>5. CASE k.conn = "open"
    <3>1. entries' = entries
      BY <1>3, <2>2, <2>5
    <3> QED BY <1>2, <3>1
  <2>6. CASE k.conn = "closed"
    <3>1. Orderly(c, k, FreshEntry, h, f)
      <4> HIDE DEF k, e, h, f, c
      <4>1. Over(k, h, f)
        BY <2>2, <2>6, WhichPhase
      <4> QED BY <4>1 DEF Orderly
    <3>2. FreshEntry \in Entry
      BY DEF FreshEntry, Entry
    <3>3. /\ clips' = [clips EXCEPT ![c] = k]
          /\ handlers' = [handlers EXCEPT ![c] = h]
          /\ finalises' = [finalises EXCEPT ![c] = f]
          /\ session' = session
      BY <1>1, <2>2
    <3> QED BY <1>3, <2>1, <2>2, <3>1, <3>2, <3>3, OneClip
  <2> QED BY <2>4, <2>5, <2>6
<1>4. entries' = entries \/ /\ session # 0 /\ entries' = [entries EXCEPT ![session] = FreshEntry]
                            /\ (clips[session].conn = "open" => entries[session] = FreshEntry)
  BY DEF ResetArrives, Noting
<1> QED BY <1>2, <1>3, <1>4

-----------------------------------------------------------------------------
(* The theorem. *)

(* The session starts with a clip that connects. *)
LEMMA InitUndisturbed == Init => Undisturbed
<1> SUFFICES ASSUME Init PROVE Undisturbed
  OBVIOUS
<1> DEFINE first == [NewClip EXCEPT !.conn = "connecting"]
<1>1. /\ clips = [c \in Clips |-> IF c = 1 THEN first ELSE NewClip]
      /\ handlers = [c \in Clips |-> Idle]
      /\ session = 0
      /\ entries = [c \in Clips |-> FreshEntry]
      /\ finalises = [c \in Clips |-> Idle]
  BY DEF Init
<1>2. NewClip \in Clip /\ first \in Clip /\ FreshEntry \in Entry
  <2>1. <<>> \in Seq(Chunk) /\ <<>> \in Seq(SUBSET TimedWord)
    OBVIOUS
  <2>2. NewClip \in Clip
    BY <2>1 DEF NewClip, Clip
  <2>3. first \in Clip
    BY <2>2 DEF Clip
  <2>4. FreshEntry \in Entry
    BY <2>1 DEF FreshEntry, Entry
  <2> QED BY <2>2, <2>3, <2>4
<1>3. /\ first.conn = "connecting" /\ first.inbox = <<>> /\ first.spoken = 0
      /\ first.said = {} /\ first.words = <<>> /\ ~first.final /\ ~first.flushed
      /\ NewClip.conn = "none"
  BY DEF NewClip
<1> HIDE DEF first
<1>4. Unused(NewClip, Idle, Idle)
  BY DEF Unused
<1>5. Len(<<>>) = 0 /\ 1..0 = {}
  OBVIOUS
<1>6. \A c : Connecting(c, first, Idle, Idle)
  <2>1. Requested(first) = Idle
    BY <1>3 DEF Requested
  <2>2. \A c : Ongoing(c, first)
    BY <1>3, <1>5 DEF Ongoing, Spoken
  <2> QED BY <1>3, <1>5, <2>1, <2>2 DEF Connecting
<1>7. /\ clips \in [Clips -> Clip] /\ entries \in [Clips -> Entry]
      /\ handlers = [c \in Clips |-> handlers[c]]
      /\ finalises = [c \in Clips |-> finalises[c]]
  BY <1>1, <1>2
<1>8. \A c \in Clips : Orderly(c, clips[c], entries[c], handlers[c], finalises[c])
  BY <1>1, <1>4, <1>6 DEF Orderly
<1>9. \A c \in Clips : handlers[c].phase \in {"receiving", "window"} <=> session = c
  BY <1>1 DEF Idle, Clips
<1>10. \A c \in Clips : /\ clips[c].conn \in {"none", "connecting"}
                        /\ clips[c].conn # "none" => c = 1
  BY <1>1, <1>3
<1>11. \A c, d \in Clips : c < d => d # 1
  BY TranscriptionAssumption DEF Clips
<1> QED BY <1>7, <1>8, <1>9, <1>10, <1>11 DEF Undisturbed

(* The first clip connects; nothing was said yet. *)
LEMMA TranscriptInit == Init => TranscriptInv
BY InitUndisturbed DEF TranscriptInv

(* What is calm was so before. *)
LEMMA CalmBefore == [Next]_vars /\ calm' => calm
<1> SUFFICES ASSUME [Next]_vars, calm' PROVE calm
  OBVIOUS
<1>1. ASSUME NEW c \in Clips,
             \/ Speak(c) \/ NextClip(c) \/ Return(c)
             \/ Accept(c) \/ WindowAnswered(c) \/ Disconnect(c)
             \/ FinaliseArrives(c) \/ FinaliseAnswered(c)
      PROVE  calm
  BY <1>1 DEF Speak, NextClip, Return, Accept, WindowAnswered, Disconnect,
              FinaliseArrives, FinaliseAnswered, Noting
<1>2. ASSUME NEW c \in Clips, Flush(c) \/ Receive(c) PROVE calm
  BY <1>2 DEF Flush, Receive
<1>3. CASE ResetArrives
  BY <1>3 DEF ResetArrives, Noting
<1>4. ASSUME NEW job, Resume(job) \/ OtherAsks(job) \/ OtherAnswered(job) PROVE calm
  BY <1>4 DEF Resume, OtherAsks, OtherAnswered
<1>5. CASE UNCHANGED vars
  BY <1>5 DEF vars
<1> QED BY <1>1, <1>2, <1>3, <1>4, <1>5 DEF Next

(* A step without a fault leaves the session undisturbed. *)
LEMMA TranscriptStep == TranscriptInv /\ StoreInv /\ [Next]_vars => TranscriptInv'
<1> SUFFICES ASSUME TranscriptInv, StoreInv, [Next]_vars, calm' PROVE Undisturbed'
  BY DEF TranscriptInv
<1>1. Undisturbed
  BY CalmBefore DEF TranscriptInv
<1>2. CASE UNCHANGED <<clips, handlers, session, entries, finalises>>
  BY <1>1, <1>2 DEF Undisturbed
<1>3. ASSUME NEW c \in Clips, Speak(c) \/ Flush(c) \/ Receive(c) PROVE Undisturbed'
  BY <1>1, <1>3, SpeakKeepsUndisturbed, FlushKeepsUndisturbed, ReceiveKeepsUndisturbed
<1>4. ASSUME NEW c \in Clips, Accept(c) \/ Disconnect(c) \/ NextClip(c) PROVE Undisturbed'
  BY <1>1, <1>4, AcceptKeepsUndisturbed, DisconnectKeepsUndisturbed,
     NextClipKeepsUndisturbed
<1>5. ASSUME NEW c \in Clips, WindowAnswered(c) \/ FinaliseArrives(c) \/ FinaliseAnswered(c)
      PROVE  Undisturbed'
  BY <1>1, <1>5, WindowKeepsUndisturbed, FinaliseKeepsUndisturbed, AnswerKeepsUndisturbed
<1>6. ASSUME NEW c \in Clips, Return(c) PROVE FALSE
  BY <1>6 DEF Return, Noting
<1>7. CASE ResetArrives
  BY <1>1, <1>7, ResetKeepsUndisturbed
<1>8. ASSUME NEW job, Resume(job) \/ OtherAsks(job) \/ OtherAnswered(job)
      PROVE  UNCHANGED <<clips, handlers, session, entries, finalises>>
  BY <1>8 DEF Resume, OtherAsks, OtherAnswered
<1>9. CASE UNCHANGED vars
  BY <1>2, <1>9 DEF vars
<1> QED BY <1>2, <1>3, <1>4, <1>5, <1>6, <1>7, <1>8, <1>9 DEF Next

(* What the transcripts brought is what was said so far. *)
LEMMA UndisturbedIsFaithful == TranscriptInv => TranscriptFaithful
<1> SUFFICES ASSUME Undisturbed, NEW c \in Clips
    PROVE  LET words   == clips[c].words
               emitted == {w.at : w \in UNION {words[i] : i \in 1..Len(words)}}
           IN /\ \A i \in 1..Len(words) : \A w \in words[i] : w.clip = c
              /\ \A i, j \in 1..Len(words) : \A v \in words[i], w \in words[j] :
                   /\ i < j => v.at < w.at
                   /\ v.at < w.at <=> v.end < w.end
                   /\ i = j /\ v.at = w.at => v = w
              /\ emitted \subseteq clips[c].said
              /\ \A t \in clips[c].said, u \in emitted : t < u => t \in emitted
              /\ clips[c].final => emitted = clips[c].said
  BY DEF TranscriptInv, TranscriptFaithful
<1> DEFINE k == clips[c]
           e == entries[c]
           h == handlers[c]
           f == finalises[c]
           words == k.words
           emitted == {w.at : w \in UNION {words[i] : i \in 1..Len(words)}}
<1>1. k \in Clip /\ e \in Entry /\ Orderly(c, k, e, h, f)
  BY ClipState
<1> HIDE DEF k, e, h, f
<1>2. /\ k.said \in SUBSET Nat /\ k.spoken \in Nat /\ Len(k.inbox) \in Nat
      /\ h.combined \in Seq(Chunk) => Len(h.combined) \in Nat
      /\ f.combined \in Seq(Chunk) => Len(f.combined) \in Nat
      /\ Len(e.pcm) \in Nat /\ Len(e.overlap) \in Nat
  BY <1>1, Fields
<1>3. (words = <<>> /\ ~k.final) \/ \E p \in Int :
        /\ \E until : Received(c, words, k.said, until, p)
        /\ k.final => p = k.spoken /\ k.said \subseteq 1..k.spoken
  <2>1. CASE Unused(k, h, f) \/ Connecting(c, k, h, f) \/ Over(k, h, f)
    BY <2>1 DEF Unused, Connecting, Over, NewClip
  <2>0. ASSUME NEW q, Len(q) \in Nat, NEW n \in Nat, Heeded(c, k, e, q, n)
        PROVE  \E p \in Int : \E until : Received(c, words, k.said, until, p)
    <3> DEFINE p == k.spoken - Len(k.inbox) - (Len(q) - n)
    <3>1. p \in Int
      BY <1>2, <2>0
    <3>2. Received(c, words, k.said, e.until, p)
      BY <2>0 DEF Heeded
    <3> HIDE DEF p
    <3> QED BY <3>1, <3>2
  <2>2. CASE Listening(c, k, e, h, f)
    <3>1. ~k.final /\ Heeded(c, k, e, e.pcm, 0)
      BY <2>2 DEF Listening
    <3> QED BY <1>2, <2>0, <3>1
  <2>3. CASE Hearing(c, k, e, h, f)
    <3>1. ~k.final /\ Heeded(c, k, e, h.combined, Len(e.overlap)) /\ Len(h.combined) \in Nat
      BY <1>2, <2>3 DEF Hearing, Taken
    <3> QED BY <1>2, <2>0, <3>1
  <2>4. CASE Concluding(c, k, e, h, f)
    <3>1. ~k.final /\ Heeded(c, k, e, f.combined, Len(e.overlap)) /\ Len(f.combined) \in Nat
      BY <1>2, <2>4 DEF Concluding, Taken
    <3> QED BY <1>2, <2>0, <3>1
  <2>5. CASE Concluded(c, k, e, h, f)
    BY <1>2, <2>5 DEF Concluded, Ongoing
  <2> QED BY <1>1, <2>1, <2>2, <2>3, <2>4, <2>5 DEF Orderly
<1>4. \A x : x \in emitted <=> \E i \in 1..Len(words) : \E w \in words[i] : w.at = x
  OBVIOUS
<1> HIDE DEF emitted
<1>5. CASE words = <<>> /\ ~k.final
  <2>1. 1..Len(words) = {}
    BY <1>5
  <2> QED BY <1>4, <1>5, <2>1 DEF emitted, k
<1>6. ASSUME NEW p \in Int, NEW until, Received(c, words, k.said, until, p),
             k.final => p = k.spoken /\ k.said \subseteq 1..k.spoken
      PROVE  /\ \A i \in 1..Len(words) : \A w \in words[i] : w.clip = c
             /\ \A i, j \in 1..Len(words) : \A v \in words[i], w \in words[j] :
                   /\ i < j => v.at < w.at
                   /\ v.at < w.at <=> v.end < w.end
                   /\ i = j /\ v.at = w.at => v = w
             /\ emitted \subseteq k.said
             /\ \A t \in k.said, u \in emitted : t < u => t \in emitted
             /\ k.final => emitted = k.said
  <2> HIDE DEF words
  <2>1. /\ \A i \in 1..Len(words) : \A w \in words[i] : w.clip = c
        /\ \A i, j \in 1..Len(words) : \A v \in words[i], w \in words[j] :
             /\ i < j => v.at < w.at
             /\ v.at < w.at <=> v.end < w.end
             /\ i = j /\ v.at = w.at => v = w
    BY <1>6 DEF Received
  <2>2. \A x \in emitted : x \in k.said /\ x <= p
    BY <1>4, <1>6 DEF Received
  <2>3. \A t \in k.said : t <= p => t \in emitted
    BY <1>4, <1>6 DEF Received
  <2>4. \A t \in k.said, u \in emitted : t < u => t \in emitted
    <3>1. \A t \in k.said, u \in emitted : t < u => t <= p
      BY <1>2, <2>2
    <3> QED BY <2>3, <3>1
  <2>5. k.final => emitted = k.said
    <3>1. k.final => \A t \in k.said : t <= p
      BY <1>2, <1>6
    <3> QED BY <2>2, <2>3, <3>1
  <2> QED BY <2>1, <2>2, <2>4, <2>5
<1> QED BY <1>3, <1>5, <1>6 DEF k, emitted, words

(* Whatever the number of clips, chunks, workers and calls of others, the size
   of windows and the words repeated: a session that nothing disturbs gets each
   word once, in order, and all of them with the final transcript. *)
THEOREM TranscriptAlways == Spec => []TranscriptFaithful
<1>1. Spec => []TranscriptInv
  BY TranscriptInit, TranscriptStep, StoreInvariant, PTL DEF Spec
<1> QED BY <1>1, UndisturbedIsFaithful, PTL

==============================================================================
