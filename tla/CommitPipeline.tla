---------------------------- MODULE CommitPipeline ----------------------------
(***************************************************************************)
(* How a decided block enters the node's stores, and how the stores are     *)
(* brought back after a stop: BlockProcessor.commit, the EVM database, the  *)
(* state store, the database service and the validator set, the deferred    *)
(* synchronisation of the API database (Postgres) and Bootstrapper.         *)
(*                                                                          *)
(* The EVM database and Postgres survive a stop, everything else is lost.   *)
(* A stop may fall between any two steps.  The genesis block is number 0    *)
(* and a block is what its header and its proof say of rounds: the round    *)
(* it was first proposed in and the round it was committed in.  The reward  *)
(* of a block is 1 and the genesis supply 0, so that the supply in the EVM  *)
(* is the number of the last block.                                         *)
(***************************************************************************)
EXTENDS Naturals, Sequences, FiniteSetsExt

CONSTANTS
  RoundSize,    \* roundValidators of the milestones: blocks of a validator round
  MaxBlock,     \* bound: number of the last block committed
  MaxRound,     \* bound: highest consensus round a block is committed in
  MaxAttempts,  \* configuration maxSyncAttempts; 0 stands for its default, no limit
  MaxLost       \* bound: acknowledgements of Postgres lost since the last restore

\* What a module that sets the constants has to assume.
CommitPipelineAssumption ==
  /\ RoundSize \in Nat \ {0}
  /\ {MaxBlock, MaxRound, MaxAttempts, MaxLost} \subseteq Nat

VARIABLES
  evm,    \* LMDB: the committed blocks and total_round
  pg,     \* Postgres, see EmptyPg
  pc,     \* where the node is
  unit,   \* the block in BlockProcessor.commit
  store,  \* State.Store: block number and total round
  db,     \* DatabaseService #state
  vset,   \* the round whose validators ValidatorSet holds
  tasks,  \* the handlers of commit that have not settled
  failed, \* one of them was rejected
  queue,  \* jobs of the MemoryQueue of api-sync
  job,    \* the running job: at most one
  lost    \* number of acknowledgements lost since the last restore

vars == <<evm, pg, pc, unit, store, db, vset, tasks, failed, queue, job, lost>>

node == <<unit, store, db, vset, tasks, failed>>

Genesis == [round |-> 0, commitRound |-> 0]

Units == {u \in [round : 0..MaxRound, commitRound : 0..MaxRound] : u.round <= u.commitRound}

Height == Len(evm.blocks) - 1

BlockOf(n) == evm.blocks[n + 1]

calculateRound(n) == IF n = 0 THEN 0 ELSE 1 + (n - 1) \div RoundSize

isNewRound(n) == n = 0 \/ (n - 1) % RoundSize = 0

(* The tables of Postgres: blocks; the row of state, its block number and   *)
(* supply; validatorProducedBlocks, summed over the wallets;                *)
(* validator_rounds, the round and the index its order of proposers starts  *)
(* at; whether ranks and token counts were computed; the maintenance flag.  *)
EmptyPg ==
  [blocks |-> {}, number |-> 0, supply |-> 0, produced |-> 0, rounds |-> {},
   ranked |-> FALSE, maintenance |-> FALSE]

NoNumbers == [number |-> 0, total |-> 0]

PipelineInit ==
  /\ evm = [blocks |-> <<>>, total |-> 0] /\ pg = EmptyPg
  /\ pc = "down" /\ unit = Genesis
  /\ store = NoNumbers /\ db = NoNumbers /\ vset = 0
  /\ tasks = {} /\ failed = FALSE /\ queue = <<>> /\ job = {} /\ lost = 0

-----------------------------------------------------------------------------
(* The process stops, killed or by app.terminate: what is not on disk goes. *)

Stop ==
  /\ pc # "down"
  /\ pc' = "down" /\ unit' = Genesis
  /\ store' = NoNumbers /\ db' = NoNumbers /\ vset' = 0
  /\ tasks' = {} /\ failed' = FALSE /\ queue' = <<>> /\ job' = {}
  /\ UNCHANGED <<evm, pg, lost>>

(* DatabaseService.initialize reads the state row of the EVM database.      *)
Initialize ==
  /\ pc = "down"
  /\ db' = [number |-> IF evm.blocks = <<>> THEN 0 ELSE Height, total |-> evm.total]
  /\ pc' = IF evm.blocks = <<>> THEN "commit" ELSE "state"
  /\ UNCHANGED <<evm, pg, unit, store, vset, tasks, failed, queue, job, lost>>

-----------------------------------------------------------------------------
(* BlockProcessor.commit.  The steps are separated by its awaits.  The      *)
(* genesis block is committed by the bootstrapper, without api-sync.        *)

Number == Len(evm.blocks)

Decide(u) ==
  /\ pc = "ready" /\ Height < MaxBlock
  /\ unit' = u
  /\ pc' = "flush"
  /\ UNCHANGED <<evm, pg, store, db, vset, tasks, failed, queue, job, lost>>

(* MemoryQueue.drain resolves when nothing runs and nothing waits.          *)
Flush ==
  /\ pc = "flush"
  /\ queue = <<>> /\ job = {}
  /\ pc' = "commit"
  /\ UNCHANGED <<evm, pg, node, queue, job, lost>>

(* PersistentDB.commit_to_db: one LMDB transaction writes the accounts, the *)
(* block, its proof and total_round.                                        *)
commit_to_db(u) ==
  [blocks |-> Append(evm.blocks, u), total |-> evm.total + u.commitRound + 1]

(* An error leaves the EVM database as it was, and is reported by app.fail. *)
EvmCommit ==
  /\ pc = "commit"
  /\ \/ evm' = commit_to_db(unit) /\ pc' = "store"
     \/ pc' = "failing" /\ UNCHANGED evm
  /\ UNCHANGED <<pg, node, queue, job, lost>>

StoreCommit ==
  /\ pc = "store"
  /\ store' = [number |-> Height, total |-> store.total + unit.commitRound + 1]
  /\ pc' = "database"
  /\ UNCHANGED <<evm, pg, unit, db, vset, tasks, failed, queue, job, lost>>

DatabaseCommit ==
  /\ pc = "database"
  /\ db' = [number |-> Height, total |-> db.total + unit.commitRound + 1]
  /\ pc' = "validators"
  /\ UNCHANGED <<evm, pg, unit, store, vset, tasks, failed, queue, job, lost>>

(* ValidatorSet.onCommit asks the contract for the validators when the next *)
(* block starts a round; the handlers are then started together.            *)
ValidatorsCommit ==
  /\ pc = "validators"
  /\ vset' = IF isNewRound(Height + 1) THEN calculateRound(Height + 1) ELSE vset
  /\ tasks' = {"pool", "worker"} \cup (IF Height > 0 THEN {"api"} ELSE {})
  /\ failed' = FALSE
  /\ pc' = "handlers"
  /\ UNCHANGED <<evm, pg, unit, store, db, queue, job, lost>>

(* What api-sync keeps of the block.  The order of the proposers of the     *)
(* next round starts at the total round modulo the number of validators.    *)
DeferredSync ==
  [number |-> Height,
   rounds |-> IF isNewRound(Height + 1)
              THEN {[round |-> calculateRound(Height + 1), first |-> store.total % RoundSize]}
              ELSE {}]

(* A handler settles.  That of api-sync pushes a job.                       *)
HandlerSettles(t) ==
  /\ pc = "handlers" /\ t \in tasks
  /\ tasks' = tasks \ {t}
  /\ \/ /\ queue' = IF t = "api" THEN Append(queue, DeferredSync) ELSE queue
        /\ UNCHANGED failed
     \/ /\ failed' = TRUE
        /\ UNCHANGED queue
  /\ UNCHANGED <<evm, pg, pc, unit, store, db, vset, job, lost>>

(* Promise.allSettled: the events are emitted, or commit rejects and the    *)
(* caller calls app.fail.  The commit of the genesis goes on with boot.     *)
CommitEnds ==
  /\ pc = "handlers" /\ tasks = {}
  /\ pc' = CASE failed -> "failing"
             [] ~failed /\ Height = 0 -> "set"
             [] OTHER -> "ready"
  /\ UNCHANGED <<evm, pg, node, queue, job, lost>>

-----------------------------------------------------------------------------
(* Bootstrapper.bootstrap with a database that holds blocks.                *)

(* The last block and the total round are taken from the database service.  *)
InitPostGenesisState ==
  /\ pc = "state"
  /\ store' = [number |-> db.number, total |-> db.total]
  /\ pc' = "set"
  /\ UNCHANGED <<evm, pg, unit, db, vset, tasks, failed, queue, job, lost>>

(* ValidatorSet.restore: the contract answers with the round of the next    *)
(* block, calculated when the last block of the round before was processed. *)
RestoreValidators ==
  /\ pc = "set"
  /\ vset' = calculateRound(Height + 1)
  /\ pc' = "reset"
  /\ UNCHANGED <<evm, pg, unit, store, db, tasks, failed, queue, job, lost>>

MaxHeight == IF pg.blocks = {} THEN 0 ELSE Max(pg.blocks)

BlocksOkIfAny == pg.blocks # {}

blocksOk == pg.blocks # {} /\ MaxHeight = db.number

ResetNecessary(forced) == ~blocksOk \/ forced \/ pg.maintenance

(* #resetDatabaseIfNecessary: the schema is dropped and created again.      *)
(* forced is the configuration truncateDatabase.                            *)
ResetDatabase(forced) ==
  /\ pc = "reset"
  /\ pg' = IF ResetNecessary(forced) THEN EmptyPg ELSE pg
  /\ pc' = IF ResetNecessary(forced) THEN "restore" ELSE "ready"
  /\ UNCHANGED <<evm, node, queue, job, lost>>

RestoreStarts ==
  /\ pc = "restore"
  /\ pg' = [pg EXCEPT !.maintenance = TRUE]
  /\ pc' = "ingest"
  /\ UNCHANGED <<evm, node, queue, job, lost>>

TotalRoundBy(round(_), n) == MapThenSumSet(LAMBDA i : round(BlockOf(i)) + 1, 0..n)

IngestBlocksAndTransactions == 0..Height

(* validatorProducedBlocks counts the blocks of every proposer; the genesis *)
(* block has none.                                                          *)
IngestWallets == Cardinality(IngestBlocksAndTransactions \ {0})

(* The rounds the contract knows: up to that of the next block.  Their      *)
(* order is computed from the rounds the blocks were proposed in.           *)
IngestValidatorRounds ==
  {[round |-> r, first |-> TotalRoundBy(LAMBDA b : b.round, (r - 1) * RoundSize) % RoundSize] :
     r \in 1..calculateRound(Height + 1)}

(* The first transaction of Restore.restore writes every table; the supply  *)
(* is the sum of the balances in the EVM database.                          *)
Ingest ==
  /\ pc = "ingest"
  /\ pg' = [pg EXCEPT !.blocks = IngestBlocksAndTransactions, !.produced = IngestWallets,
                      !.rounds = IngestValidatorRounds, !.number = Height, !.supply = Height]
  /\ lost' = 0
  /\ pc' = "analyze"
  /\ UNCHANGED <<evm, node, queue, job>>

(* The second one computes the ranks and the token counts.                  *)
Analyze ==
  /\ pc = "analyze"
  /\ pg' = [pg EXCEPT !.ranked = TRUE]
  /\ pc' = "finish"
  /\ UNCHANGED <<evm, node, queue, job, lost>>

RestoreEnds ==
  /\ pc = "finish"
  /\ pg' = [pg EXCEPT !.maintenance = FALSE]
  /\ pc' = "ready"
  /\ UNCHANGED <<evm, node, queue, job, lost>>

-----------------------------------------------------------------------------
(* MemoryQueue #processJobs and the job of #queueDeferredSync.              *)

ShiftJob ==
  /\ pc # "down" /\ queue # <<>> /\ job = {}
  /\ job' = {[sync |-> Head(queue), attempts |-> 0]}
  /\ queue' = Tail(queue)
  /\ UNCHANGED <<evm, pg, pc, node, lost>>

SyncedUnguarded(d) ==
  [pg EXCEPT !.blocks = @ \cup {d.number}, !.number = d.number, !.supply = @ + 1,
             !.produced = @ + 1, !.rounds = @ \cup d.rounds]

(* A round that is already there is ignored.                                *)
InsertedRounds(d) == {x \in d.rounds : x.round \notin {y.round : y \in pg.rounds}}

(* validatorProducedBlocks of a wallet is added to.                         *)
ProducedBlocks == pg.produced + 1

(* #syncToDatabase, one transaction: a block that is already there is       *)
(* ignored, the row of state only moves to the next block.                  *)
Synced(d) ==
  LET moves == pg.number = d.number - 1
  IN [pg EXCEPT !.blocks = @ \cup {d.number},
                !.number = IF moves THEN d.number ELSE @,
                !.supply = IF moves THEN @ + 1 ELSE @,
                !.produced = ProducedBlocks,
                !.rounds = @ \cup InsertedRounds(d)]

(* The transaction is committed and acknowledged.                           *)
SyncSucceeds ==
  \E j \in job :
    /\ pg' = Synced(j.sync)
    /\ job' = {}
    /\ UNCHANGED <<evm, pc, node, queue, lost>>

(* After an error the job sleeps and tries again while attempts are left.   *)
Retried(j) ==
  IF MaxAttempts = 0 THEN {j}
  ELSE IF j.attempts + 1 < MaxAttempts THEN {[j EXCEPT !.attempts = @ + 1]}
  ELSE {}

(* The transaction is rolled back.                                          *)
SyncFails ==
  \E j \in job :
    /\ job' = Retried(j)
    /\ UNCHANGED <<evm, pg, pc, node, queue, lost>>

(* It is committed, and the connection breaks before the answer.            *)
SyncIsLost ==
  \E j \in job :
    /\ lost < MaxLost
    /\ lost' = lost + 1
    /\ pg' = Synced(j.sync)
    /\ job' = Retried(j)
    /\ UNCHANGED <<evm, pc, node, queue>>

-----------------------------------------------------------------------------
CommitStep ==
  \/ Flush \/ EvmCommit \/ StoreCommit \/ DatabaseCommit \/ ValidatorsCommit
  \/ \E t \in tasks : HandlerSettles(t)
  \/ CommitEnds

BootStep ==
  \/ InitPostGenesisState \/ RestoreValidators
  \/ \E forced \in BOOLEAN : ResetDatabase(forced)
  \/ RestoreStarts \/ Ingest \/ Analyze \/ RestoreEnds

PipelineNext ==
  \/ Stop \/ Initialize \/ CommitStep \/ BootStep
  \/ \E u \in Units : Decide(u)
  \/ ShiftJob \/ SyncSucceeds \/ SyncFails \/ SyncIsLost

PipelineSpec == PipelineInit /\ [][PipelineNext]_vars

-----------------------------------------------------------------------------
(* The blocks api-sync still has to write.                                  *)
Queued == {j.sync.number : j \in job} \cup {queue[i].number : i \in DOMAIN queue}

(* Type invariant.  No more than one block waits for Postgres: commit       *)
(* flushes the queue before it stores the next block                        *)
(* (block-processor.ts:124-126).                                            *)
PipelineTypeOK ==
  /\ evm.blocks \in Seq(Units) /\ evm.total \in Nat /\ Len(evm.blocks) <= MaxBlock + 1
  /\ pg.blocks \subseteq 0..MaxBlock /\ {pg.number, pg.supply, pg.produced} \subseteq Nat
  /\ pg.rounds \subseteq [round : Nat, first : 0..RoundSize - 1]
  /\ pg.ranked \in BOOLEAN /\ pg.maintenance \in BOOLEAN
  /\ pc \in {"down", "state", "set", "reset", "restore", "ingest", "analyze", "finish",
             "ready", "flush", "commit", "store", "database", "validators", "handlers",
             "failing"}
  /\ unit \in Units /\ store \in [number : Nat, total : Nat]
  /\ db \in [number : Nat, total : Nat] /\ vset \in Nat
  /\ tasks \subseteq {"pool", "worker", "api"} /\ failed \in BOOLEAN
  /\ lost \in 0..MaxLost
  /\ Len(queue) + Cardinality(job) <= 1

(* Between two blocks, also after any stop and restart, the state store and *)
(* the database service hold the number and the total round of the EVM      *)
(* database, and the validator set holds the round of the next block: the   *)
(* proposer of the next block is computed from all of them                  *)
(* (bootstrapper.ts:126-130, database-service.ts:24-26).                    *)
StoresAgree ==
  pc \in {"ready", "flush"} =>
    /\ store = [number |-> Height, total |-> evm.total]
    /\ db = store
    /\ vset = calculateRound(Height + 1)

(* While the node runs, Postgres and the queue together hold every block of *)
(* the EVM database and no other: a stop between the commit in LMDB and the *)
(* write to Postgres is repaired by the next start (service.ts:656-688).    *)
ApiIsComplete ==
  pc \in {"ready", "flush"} => pg.blocks \cup Queued = 0..Height

(* A block that is synchronised has the round that starts after it: the     *)
(* validators of the round of the next block are in validator_rounds        *)
(* (service.ts:394-398).                                                    *)
RoundsAreComplete ==
  pc \in {"ready", "flush"} =>
    {x.round : x \in pg.rounds} = 1..calculateRound(MaxHeight + 1)

(* A restore that was cut short is never taken for a finished one: a        *)
(* running node has the ranks the second transaction computes               *)
(* (restore.ts:194 and 293, service.ts:674).                                *)
RestoreIsFinished ==
  pc \in {"ready", "flush"} => pg.ranked /\ ~pg.maintenance

(* The supply Postgres reports is that of the block it reports: no retry,   *)
(* stop or abandoned block adds a reward twice or out of order              *)
(* (service.ts:488-499).                                                    *)
SupplyIsExact ==
  pg.supply = pg.number

(* The blocks the validators are credited with are the blocks stored, as    *)
(* long as no acknowledgement was lost: a transaction that is rolled back   *)
(* and tried again credits nobody twice (service.ts:634-640).               *)
ProducedIsExact ==
  lost = 0 => pg.produced = Cardinality(pg.blocks \ {0})

(* A block is committed and not in Postgres, and the process is up.         *)
IsUnsynced(n) == Number > n /\ n \notin pg.blocks /\ pc # "down"
=============================================================================
