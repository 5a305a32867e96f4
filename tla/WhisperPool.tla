----------------------------- MODULE WhisperPool -----------------------------
(***************************************************************************)
(* transcription/src/whisper_pool.py: a fixed number of Whisper models     *)
(* behind an asyncio semaphore.  A call that has a permit takes a model    *)
(* from a queue, runs inference in a thread and puts the model back.  A    *)
(* model whose inference failed is discarded; its permit is not.           *)
(*                                                                         *)
(* The queue is a queue.Queue: get() on an empty one blocks the thread of  *)
(* the event loop itself.  From then on nothing else of the container      *)
(* runs, not even the code that would put a model back: stuck is final.    *)
(***************************************************************************)
EXTENDS Integers, Sequences, FiniteSets

CONSTANTS
  Workers,        (* WHISPER_WORKERS                          *)
  Calls           (* the transcribe() calls that may be under way *)

ASSUME WorkersAssumption == Workers \in Nat

VARIABLES
  models,         (* _models: the free models, as a queue     *)
  permits,        (* the value of _semaphore                  *)
  waiting,        (* the calls that wait for a permit         *)
  granted,        (* the calls woken with a permit            *)
  running,        (* the calls whose inference runs           *)
  workerCount,    (* _worker_count                            *)
  available,      (* _available                               *)
  stuck           (* the event loop is blocked in get()       *)

poolVars == <<models, permits, waiting, granted, running, workerCount,
              available, stuck>>

PoolInit ==
  /\ models = [w \in 1..Workers |-> w]
  /\ permits = Workers
  /\ waiting = <<>>
  /\ granted = {}
  /\ running = {}
  /\ workerCount = Workers
  /\ available = Workers
  /\ stuck = FALSE

(* Definitions named Bad... are slips the code could contain; no action uses
   one. *)
BadGetModel(c) ==
  /\ available' = available - 1
  /\ running' = running \cup {[call |-> c, model |-> models[1]]}
  /\ UNCHANGED <<models, workerCount, stuck>>

(* From the permit to the executor. *)
GetModel(c) ==
  /\ available' = available - 1
  /\ UNCHANGED workerCount
  /\ \/ /\ models # <<>>
        /\ models' = Tail(models)
        /\ running' = running \cup {[call |-> c, model |-> Head(models)]}
        /\ UNCHANGED stuck
     \/ /\ models = <<>>
        /\ stuck' = TRUE
        /\ UNCHANGED <<models, running>>

(* A call is a coroutine of its own: it enters the pool once at a time. *)
UnderWay(c) ==
  \/ c \in granted
  \/ \E i \in 1..Len(waiting) : waiting[i] = c
  \/ \E r \in running : r.call = c

(* transcribe() up to the first wait. *)
Transcribe(c) ==
  /\ ~stuck
  /\ ~UnderWay(c)
  /\ \/ /\ permits > 0
        /\ permits' = permits - 1
        /\ GetModel(c)
        /\ UNCHANGED <<waiting, granted>>
     \/ /\ permits = 0
        /\ waiting' = Append(waiting, c)
        /\ UNCHANGED <<models, permits, granted, running, workerCount,
                       available, stuck>>

(* A call that was handed a permit goes on. *)
PoolResume(c) ==
  /\ ~stuck
  /\ c \in granted
  /\ granted' = granted \ {c}
  /\ GetModel(c)
  /\ UNCHANGED <<permits, waiting>>

BadReleaseSilently == permits' = permits + 1 /\ UNCHANGED <<waiting, granted>>
BadReleaseTwice ==
  /\ permits' = permits + 1
  /\ waiting' = IF waiting = <<>> THEN waiting ELSE Tail(waiting)
  /\ granted' = IF waiting = <<>> THEN granted ELSE granted \cup {Head(waiting)}

(* asyncio.Semaphore.release: the permit goes to whoever waits first. *)
Release ==
  \/ /\ waiting # <<>>
     /\ waiting' = Tail(waiting)
     /\ granted' = granted \cup {Head(waiting)}
     /\ UNCHANGED permits
  \/ /\ waiting = <<>>
     /\ permits' = permits + 1
     /\ UNCHANGED <<waiting, granted>>

(* Inference returned (ok) or raised: put the model back or discard it. *)
PutBack(model, ok) == IF ok THEN Append(models, model) ELSE models

Finish(c, ok) ==
  /\ ~stuck
  /\ \E r \in running :
       /\ r.call = c
       /\ running' = running \ {r}
       /\ models' = PutBack(r.model, ok)
  /\ workerCount' = IF ok THEN workerCount ELSE workerCount - 1
  /\ available' = available + 1
  /\ Release
  /\ UNCHANGED stuck

(* The pool under any callers. *)
PoolNext ==
  \E c \in Calls :
    \/ Transcribe(c)
    \/ PoolResume(c)
    \/ \E ok \in BOOLEAN : Finish(c, ok)

PoolSpec == PoolInit /\ [][PoolNext]_poolVars

-----------------------------------------------------------------------------
(* Properties. *)

PoolTypeOK ==
  /\ models \in Seq(1..Workers)
  /\ permits \in 0..Workers
  /\ waiting \in Seq(Calls)
  /\ granted \subseteq Calls
  /\ running \subseteq [call : Calls, model : 1..Workers]
  /\ workerCount \in 0..Workers
  /\ available \in Int
  /\ stuck \in BOOLEAN

(* As long as no model was discarded, whoever has a permit finds a model: the
   event loop does not block in get(). *)
IntactPoolNeverBlocks == workerCount = Workers => ~stuck

(* WhisperModel instances are not thread-safe: no model is used by two calls
   at a time, or is used and free. *)
ModelsExclusive ==
  /\ \A r1, r2 \in running : r1.model = r2.model => r1 = r2
  /\ \A r \in running, i \in 1..Len(models) : models[i] # r.model
  /\ \A i, j \in 1..Len(models) : models[i] = models[j] => i = j

(* Every model is free, in use, or discarded. *)
ModelsAccountedFor == Len(models) + Cardinality(running) = workerCount

=============================================================================
