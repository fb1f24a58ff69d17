-------------------------------- MODULE WorkerPool ------------------------------
(***************************************************************************)
(* Class WorkerPool (packages/crypto-worker): the eager workers that boot  *)
(* waits for, the ones that join in the background, the choice of a worker *)
(* for a request, and dispose at any of these points.  A worker is what    *)
(* Subprocess models, seen from outside: it boots or fails to, has calls   *)
(* under way, and stops.                                                   *)
(***************************************************************************)
EXTENDS Naturals, Sequences, FiniteSetsExt

CONSTANTS
  workerCount,         \* configuration: workers to boot
  EAGER_WORKER_COUNT,
  MaxCalls             \* bound: calls under way at a worker

\* What a module that sets the constants has to assume.
WorkerPoolAssumption ==
  /\ workerCount \in Nat \ {0} /\ EAGER_WORKER_COUNT \in Nat \ {0} /\ MaxCalls \in Nat

\* Workers are numbered in the order they are spawned.
Ids == 1..workerCount

VARIABLES
  allWorkers,  \* how many workers have been spawned: #allWorkers, before dispose empties it
  state,       \* of each worker: "none", "booting", "booted", "failed" or "stopped"
  workers,     \* #workers
  cursor,      \* #currentWorkerIndex
  calls,       \* getQueueSize() of each worker
  booting,     \* where boot() is
  growth,      \* where #growPool is
  disposal,    \* where dispose() is
  taken,       \* the workers dispose has taken: the ones up to this number
  picks        \* history: the last workers chosen while all were idle, one round at most

poolVars == <<allWorkers, state, workers, cursor, calls, booting, growth, disposal, taken, picks>>

eagerCount == Min({EAGER_WORKER_COUNT, workerCount})

disposed == disposal # "no"

PoolInit ==
  /\ allWorkers = 0 /\ state = [w \in Ids |-> "none"]
  /\ workers = <<>> /\ cursor = 0 /\ calls = [w \in Ids |-> 0]
  /\ booting = "no" /\ growth = "no" /\ disposal = "no" /\ taken = 0 /\ picks = <<>>

\* Mutant: a worker is entered in the list when it has booted, and not before.
BootUncounted ==
  /\ booting = "no" /\ booting' = "eager"
  /\ state' = [w \in Ids |-> IF w <= eagerCount THEN "booting" ELSE "none"]
  /\ UNCHANGED <<allWorkers, workers, cursor, calls, growth, disposal, taken, picks>>

\* boot spawns the eager workers.
Boot ==
  /\ booting = "no" /\ booting' = "eager"
  /\ allWorkers' = eagerCount
  /\ state' = [w \in Ids |-> IF w <= eagerCount THEN "booting" ELSE "none"]
  /\ UNCHANGED <<workers, cursor, calls, growth, disposal, taken, picks>>

\* The end of #spawnWorker.
Join(w) == workers' = IF disposed THEN workers ELSE Append(workers, w)

\* The boot request of a worker is answered.
Booted(w) ==
  /\ state[w] = "booting"
  /\ state' = [state EXCEPT ![w] = "booted"]
  /\ Join(w)
  /\ picks' = <<>>
  /\ UNCHANGED <<allWorkers, cursor, calls, booting, growth, disposal, taken>>

\* It fails; the thread may live on.
BootFails(w) ==
  /\ state[w] = "booting"
  /\ state' = [state EXCEPT ![w] = "failed"]
  /\ UNCHANGED <<allWorkers, workers, cursor, calls, booting, growth, disposal, taken, picks>>

\* The eager workers have booted: the others are started in the background.
BootEnds ==
  /\ booting = "eager" /\ \A w \in 1..eagerCount : state[w] \notin {"booting", "failed"}
  /\ booting' = "done"
  /\ growth' = IF workerCount > eagerCount /\ ~disposed THEN "running" ELSE "no"
  /\ UNCHANGED <<allWorkers, state, workers, cursor, calls, disposal, taken, picks>>

\* boot rejects when one of them failed.
BootRejects ==
  /\ booting = "eager" /\ \E w \in 1..eagerCount : state[w] = "failed"
  /\ booting' = "rejected"
  /\ UNCHANGED <<allWorkers, state, workers, cursor, calls, growth, disposal, taken, picks>>

\* #growPool: the next worker, when the one before has booted or failed.
Grow ==
  /\ growth = "running" /\ state[allWorkers] # "booting"
  /\ IF allWorkers = workerCount \/ disposed
     THEN growth' = "done" /\ UNCHANGED <<allWorkers, state>>
     ELSE /\ allWorkers' = allWorkers + 1
          /\ state' = [state EXCEPT ![allWorkers + 1] = "booting"]
          /\ UNCHANGED growth
  /\ UNCHANGED <<workers, cursor, calls, booting, disposal, taken, picks>>

\* The workers getWorker chooses from, in the order of the pool.
Available == SelectSeq(workers, LAMBDA w : state[w] # "stopped")

\* The search of getWorker, from the cursor on and round: the first of the smallest queues.
Smallest(live, at) ==
  LET place(offset) == ((at + offset) % Len(live)) + 1
      best == CHOOSE o \in 0..(Len(live) - 1) :
                /\ \A k \in 0..(Len(live) - 1) : calls[live[place(o)]] <= calls[live[place(k)]]
                /\ \A k \in 0..(o - 1) : calls[live[place(k)]] > calls[live[place(o)]]
  IN place(best)

\* getWorker, and the request that is sent to the worker.
GetWorker ==
  /\ Available # <<>>
  /\ LET live == Available
         at == cursor % Len(live)
         chosen == live[Smallest(live, at)]
     IN /\ calls[chosen] < MaxCalls
        /\ cursor' = (at + 1) % Len(live)
        /\ calls' = [calls EXCEPT ![chosen] = @ + 1]
        /\ picks' = IF \E w \in Ids : calls[w] > 0 THEN <<>>
                    ELSE Append(IF Len(picks) = Len(live) THEN Tail(picks) ELSE picks, chosen)
  /\ UNCHANGED <<allWorkers, state, workers, booting, growth, disposal, taken>>

\* A call is answered.
Answer(w) ==
  /\ calls[w] > 0 /\ calls' = [calls EXCEPT ![w] = @ - 1]
  /\ UNCHANGED <<allWorkers, state, workers, cursor, booting, growth, disposal, taken, picks>>

\* A worker thread dies: its calls are rejected.
Dies(w) ==
  /\ state[w] \in {"booted", "failed"}
  /\ state' = [state EXCEPT ![w] = "stopped"]
  /\ calls' = [calls EXCEPT ![w] = 0]
  /\ picks' = <<>>
  /\ UNCHANGED <<allWorkers, workers, cursor, booting, growth, disposal, taken>>

\* whenReady.
WhenReady == growth # "running"

\* dispose begins.
Dispose ==
  /\ disposal = "no" /\ booting # "no" /\ disposal' = "waiting"
  /\ UNCHANGED <<allWorkers, state, workers, cursor, calls, booting, growth, taken, picks>>

\* The growth has ended: the workers spawned so far are taken out of the pool.
DisposeWorkers ==
  /\ disposal = "waiting" /\ WhenReady
  /\ disposal' = "stopping" /\ taken' = allWorkers
  /\ workers' = <<>> /\ picks' = <<>>
  /\ UNCHANGED <<allWorkers, state, cursor, calls, booting, growth>>

\* Worker.dispose of one of them: its calls have settled, its boot request included.
DisposeWorker(w) ==
  /\ disposal = "stopping" /\ w <= taken
  /\ state[w] \in {"booted", "failed"} /\ calls[w] = 0
  /\ state' = [state EXCEPT ![w] = "stopped"]
  /\ UNCHANGED <<allWorkers, workers, cursor, calls, booting, growth, disposal, taken, picks>>

\* dispose has ended.
DisposeEnds ==
  /\ disposal = "stopping" /\ \A w \in 1..taken : state[w] = "stopped"
  /\ disposal' = "done"
  /\ UNCHANGED <<allWorkers, state, workers, cursor, calls, booting, growth, taken, picks>>

PoolNext ==
  \/ Boot \/ BootEnds \/ BootRejects \/ Grow \/ GetWorker
  \/ \E w \in Ids : Booted(w) \/ BootFails(w) \/ Answer(w) \/ Dies(w) \/ DisposeWorker(w)
  \/ Dispose \/ DisposeWorkers \/ DisposeEnds

PoolSpec == PoolInit /\ [][PoolNext]_poolVars

-------------------------------------------------------------------------------

PoolTypeOK ==
  /\ allWorkers \in 0..workerCount /\ taken \in 0..workerCount
  /\ state \in [Ids -> {"none", "booting", "booted", "failed", "stopped"}]
  /\ workers \in Seq(Ids) /\ cursor \in Nat /\ calls \in [Ids -> 0..MaxCalls]
  /\ booting \in {"no", "eager", "done", "rejected"} /\ growth \in {"no", "running", "done"}
  /\ disposal \in {"no", "waiting", "stopping", "done"}
  /\ picks \in Seq(Ids)
  /\ \A w \in Ids : state[w] = "none" <=> w > allWorkers

\* "getWorker() never returns a worker whose in-worker app isn't ready yet", and none that
\* dispose is about to stop: a boot that ends late does not put its worker back.
PoolIsReady ==
  /\ \A i \in DOMAIN workers : state[workers[i]] \in {"booted", "stopped"}
  /\ disposal \in {"stopping", "done"} => workers = <<>>

\* When dispose has ended no worker thread is left, whether it came during the eager boots or
\* while the pool was growing in the background.
NoThreadLeft == disposal = "done" => \A w \in Ids : state[w] \in {"none", "stopped"}

\* Ties "fall back to round-robin and spread evenly" (getWorker): an idle pool hands out each of
\* its workers once before it starts again.
SpreadsEvenly == \A i, j \in DOMAIN picks : i # j => picks[i] # picks[j]

IsDisposing == disposal = "waiting"

================================================================================
