# Verification of Mainsail

TLA+ models of a Mainsail node, the TLC configurations that check them on small
instances, and TLAPS proofs for all instances. Paths below are relative to
`src/packages/` unless they start with `contracts/`.

- [The system](#the-system)
- [The modules](#the-modules)
- [How the node is modelled](#how-the-node-is-modelled)
- [How the other parts are modelled](#how-the-other-parts-are-modelled)
- [The runs](#the-runs)
- [The proofs](#the-proofs)
- [A disagreement between code and tests](#a-disagreement-between-code-and-tests)
- [Other observations](#other-observations)
- [What is not modelled](#what-is-not-modelled)

Run a model with `tlc -workers 2 -config X.cfg M`, check the proofs of a module with
`tlapm M.tla`. `PROJECT.json` lists the components, the runs, the lines each definition
stands for, a mutated definition for each property (a slip the property catches), the hazards
and the theorems.

## The system

Mainsail is a node of a proof-of-stake chain. Every block number is decided by the round
validators with Tendermint (Algorithm 1 of "The latest gossip on BFT consensus"), in rounds
of a proposal, prevotes and precommits; +2/3 precommits for a block commit it. A process
hosts any number of validators. Blocks hold transactions of an EVM whose contracts keep the
validators, the votes and the user names.

| Part | Code | State | What is hard | What must hold |
|---|---|---|---|---|
| Consensus | `consensus/source/consensus.ts` | block number, round, step, locked and valid value, flags, handler lock | every handler is interrupted at its awaits; timers fire outside the lock; queued handlers are stale when they run; a crash at any await | one vote of a kind per round, locks respected, no fork, position never lost, always a timeout pending, a decision in the end |
| Processors | `consensus/source/processors/*` | messages whose signature is being verified | two checks around an await; identical messages share a verification; the commit lock is held meanwhile | no second message of a validator is added; every waiter is released |
| Consensus storage, bootstrapper | `consensus-storage/source/service.ts`, `consensus/source/bootstrapper.ts` | state, proposals and messages of one block number | keys do not name the block; the block number is remembered in memory | one block number at a time; the node starts at the position it left |
| Lock | `utils/source/lock.ts` | promises of both kinds | wake-ups; a handler that asks for the lock it holds | exclusion, no lost wake-up |
| Downloaders | `p2p/source/downloader/*` | jobs, ranges, marks | answers out of order, peers that vanish, live consensus commits what is being downloaded | ranges stay contiguous, honest peers are not banned, what failed is asked again |
| Peers | `p2p/source/peer-*.ts`, `service.ts` | pending and connected peers, bans, the worker's copy | a ban or a dispose during a handshake | banned peers stay out, the copies agree |
| Worker threads | `kernel/source/ipc/subprocess.ts`, `crypto-worker/source/worker-pool.ts` | requests under way, workers | late replies, failing posts, exit and dispose while work is queued | each promise settles once, no thread is left |
| Commit | `processor/source/block-processor.ts`, `state`, `database`, `api-sync`, `bootstrap` | EVM database, memory, Postgres | a sequence of handlers, one of which may fail; a crash in the middle; retries | all stores agree again after a restart |
| Transaction pool | `transaction-pool-service/source/*` | sender mempools, stored transactions, wallets | concurrent additions of one sender, re-adding after a commit, limits | pool, storage and wallets agree |
| Forger, EVM state | `forger`, `processor`, `evm/bindings`, `evm/core` | pending commits, caches, change sets | failed, skipped and rolled back transactions; several pending commits | a forged block replays, a commit is the execution of its block |
| EVM database | `evm/core/src/db.rs`, `historical.rs` | memory map, resize gate, account history | several threads and processes; a window that moves between two reads | no transaction across a remap, commits fit, reads are of their block |
| Contracts | `contracts/src/consensus/ConsensusV1.sol`, `usernames/UsernamesV1.sol` | validators, votes as a linked list, names | long sequences of legal calls | list, indexes and sums stay exact |
| Configuration, calculators | `crypto-config/source/configuration.ts`, `blockchain-utils/source/*` | milestones and a cached cursor | boundaries of rounds | agreement with direct definitions |

`consensus` is the core: the processors feed round states to it, the downloaders feed messages
and commits to it, it drives the block processor, and the store and the bootstrapper carry its
position across restarts.

## The modules

| Module | Models |
|---|---|
| `Majority` | `isMajority`, `isMinority` |
| `Tendermint` | what the consensus promises: all nodes of a network deciding one block number |
| `Consensus` | one node in detail: rules, locks, timers, processors, store, crash and restart |
| `ConsensusRefinement` | the node implements a correct node of `Tendermint` |
| `Lock` | class `Lock`: exclusive and non-exclusive calls, who waits, who is woken |
| `Processors` | `MessageProcessor` and `ProposalProcessor` step by step, with the commit lock (extends `Lock`) |
| `BlockDownloader` | ranges of blocks requested from several peers, beside live consensus |
| `MessageDownloader` | missing votes, with the controller of the peer that answers |
| `ProposalDownloader` | missing proposals, with `HeaderService` |
| `Peers` | acceptance, discovery, bans, the service loop, and the pool worker's copy of the peers |
| `Subprocess` | requests to a worker thread, its failures, drain and dispose |
| `WorkerPool` | the crypto workers: eager and background boots, choice of a worker, dispose |
| `CommitPipeline` | `BlockProcessor.commit`, the stores it writes, api-sync and the bootstrap after a stop |
| `Evm`, `Forging` | pending commits of the EVM; the forger and the block processor that use them |
| `TransactionPool` | `Service`, `Mempool`, `SenderMempool`, `SenderState` at every await |
| `ConsensusV1` | the consensus contract, with paging of the votes |
| `WalletMirror` | names and votes in the contracts, in account updates and in the wallets table |
| `ResizeGate` | the LMDB map of several processes and the lock around its resize |
| `AccountHistory` | the window of past account states and reads of it |
| `Milestones` | milestones with their cursor; rounds and timestamps computed from them |
| `TendermintProofs`, `ConsensusV1Proofs` | the theorems about `Tendermint` and `ConsensusV1` |
| `ConcurrencyProofs` | the theorems about `Lock`, `Processors`, `ResizeGate` and `Subprocess` |
| `ConsensusLemmas`, `ConsensusInvariant`, `ConsensusRecovery` | the inductive invariants of `Consensus`, and that every step keeps them |
| `ConsensusProofs` | the theorems about `Consensus` |
| `RefinementProofs` | that `Consensus` implements `Tendermint` |
| `MCX` | instances for TLC |

`Tendermint` abstracts from everything but the votes and what a node has made durable. A
vote, once cast, may be counted by anybody at any later time, or never: this covers lost,
delayed, duplicated and reordered messages. A crash is no step there, because a node must
come back with exactly its durable state; that it does is what the refinement shows.
Faulty validators sign anything. The properties in it are the argument for "no fork":
`OneVotePerRound`, `PrevotesRespectLocks`, `MajoritiesAreSafe`, `Agreement`.

`Consensus` is the code. `ConsensusRefinement` maps it to a `Tendermint` with this node as
the only correct one and all other validators faulty, so that the node is held against
arbitrary behaviour of its peers; it is checked by a run and proved. With it, the theorems of
`Tendermint` speak about networks of such nodes.

## How the node is modelled

State. `blockNumber`, `round`, `step`, `lockedRound`, `validRound`, `didMajorityPrevote`,
`didMajorityPrecommit` are the fields of `Consensus`; a locked or valid value is a round
state, named by its round. `rounds` is the repository of the running block number,
`timers` the scheduler, `proposing` the `#proposalPromise`, `store` and `storeNumber` the
LMDB store and the number the storage service remembers, `chain` the database. `jobs` are the
callers waiting for `#handlerLock`, `pc` and `unit` where the running handler waits and what
it works on, `inbox` the own messages on their way through the processors. `cast`,
`proposed`, `forgot` and `crashes` are history.

Actions. One per rule of `applyRules` (`ProcessProposal`, `OnProposal`,
`OnMajorityPrevote`, `OnMajorityPrevoteAny`, `OnMajorityPrevoteNull`,
`OnMajorityPrecommitAny`, `OnMajorityPrecommit`, `OnMinorityWithHigherRound`), one per
entry point that takes the handler lock (`Handle`, `HandleCommitState`, the timeouts), the
start of a round (`StartRound`, `BeginRound`), signing (`CastVote`), the own proposal
(`OnTimeoutBlockPrepare`, `SubmitProposal`, `ProposalFails`), the commit (`Commit`,
`NextBlock`), the processors, and `Crash`, `Restart`, `Booted`.

Grain. JavaScript runs without preemption between awaits, so an action is the code up to
an await where something else can happen:

- A rule that applies ends in an action; rules that do not apply are passed in no time.
  Between them the code only yields to the microtask queue, while messages are added when a
  signature worker answers.
- An assignment of the position and the `#persistState` awaited after it are one step. No
  vote is signed in between, so a crash there is a crash before it. The exception that
  matters is kept: after `startRound` has stored the round, `BeginRound` is a step of its
  own, and the block prepare timer, which runs outside the handler lock, may fire before it.
- A message is added to its round state and stored in one step: LMDB writes are
  transactions in the order they were asked for, so no later state is stored without it.
- Each signed vote is a step: a crash may come between the votes of two own validators.
- Jobs are served in any order, as `Lock` promises no order of its waiters.

Messages of peers. `RemoteVotes`, `RemoteProposals` and `Commits` are what may arrive, in
any order or not at all. `hasValidBlockNumberAndRound` is evaluated before the signature is
verified and the message is added after it, so a message of any round since the node
started at the block number (`bootRound`) may come in. A vote of a validator that has voted is
a duplicate. A proposal with a lock proof, and a commit of the downloader, arrive only when
peers can have the +2/3 votes in it, which are counted as cast from then on.

Commit. The processors hold the commit lock together, `onMajorityPrecommit` exclusively.
Own votes pass their checks when they are cast, so `Commit` waits for the ones in `inbox`; own
proposals and remote messages are kept out until the commit is over. After it, `startRound`
begins the next block number and applies its rules with the lock still held.

Crash and restart. `Crash` may hit any state and keeps `store` and `chain`. `Restart` reads
the store as `StorageService.initialize` and `Bootstrapper.bootstrap` do, and restores, or
refuses to start when a stored lock or valid value has no proof.

Left out on purpose: the wording of logs; `onMajorityPrecommitWithoutProposal`, which only
logs; contents of blocks (`ValidBlocks` is the verdict of `BlockProcessor.process`,
`EarlyBlocks` those whose timestamp may be found too early); failing signature workers and
stores; an unreadable store and a store ahead of the database, which crashes alone do not
produce. `dispose` takes steps away until the process ends, and the end is a crash.

`Processors` opens up what is one step in `Consensus`. A call of `process` runs from
`Process` (wait for the commit lock, or the checks up to the first await) over `Answer` (the
worker's verdict, or an error), `Add` (second duplicate check, round state) and `Save` to
`Leave`. `pendingMessages` is `#pendingMessages`: a vote that is byte for byte the same as one
under verification waits for its outcome (`"sharing"`). The consensus is reduced to its
position: it enters rounds, commits as an exclusive call of the lock, is disposed, and its
store is closed once `dispose` has waited for the handler, but not for the calls of `process`.
A message is a record of what the checks look at; `slot` and `copy` tell conflicting messages
from identical ones. A call of the lock is used once, so every arrival has a name.

## How the other parts are modelled

An action is again the code between two awaits where something else can run, the awaits that
only yield to the microtask queue are passed in no time, and a handler with all it calls is one
action. What the model leaves open (verdicts of peers and verifiers, failures, the moment of a
timer) is a choice of the action.

- `BlockDownloader`. `downloadJobs` is `#downloadJobs`; a job goes from `Download` over `Ends`
  (answer, error) to its turn in `ProcessNextJob`; `work` is the batch under way, with the
  deserialisation, the verification and the commit of each block as steps of their own
  (`Start`, `Batch`), `pending` is `PendingCommits`. `LiveCommit` and `LiveValidators` are the
  two halves of a commit by consensus. A job of a peer that has gone is an orphan until its
  request ends.
- `MessageDownloader`, `ProposalDownloader`. A job is made with the header of one moment
  (`Download`), its request is sent with that of a later one (`Emit`), the honest peer answers
  from its own state, and the answer is checked (`CheckResponse`, `Matches`).
- `Peers`. An acceptance goes through `stage`; `todo` and `parent` are its recursive discovery;
  `toWorker`, `worker`, `posting`, `toMain` are the messages between the two threads.
- `Subprocess`, `WorkerPool`. `promise`, `queue` and `thread` of a worker; a post that throws, a
  reply that cannot be read, an error, an exit, a drain, a dispose. The pool sees a worker from
  outside and counts its calls.
- `CommitPipeline`. `pc` goes through `BlockProcessor.commit` and through the bootstrap; `evm` and
  `pg` survive a stop. `job` is the deferred sync under way, which may fail, or succeed with the
  acknowledgement lost.
- `Evm`, `Forging`. A pending commit has the cache the next transaction reads and the transitions
  the commit writes. revm is external: a transaction is checked for nonce, balance and gas, and
  moves value or reverts. After the transactions come the reward, the vote weights and, in the last
  block of a round, the registration fee and the weights of the next round (`EndOfBlock`), then state
  root and logs bloom. Blocks of other validators have failing transactions, or a header that states
  too little, too much or something else; of the verifiers, the gas limit and the duplicates are
  modelled, and `chained` is the verdict of the others. `decided` is the block that a commit was for.
  `RefRun` and its parts are the direct definition that the caches are checked against.
- `TransactionPool`. A call is a flow with a stage for each await: the read of the wallet, the
  sender's lock, the preverification, and each removal of a clean-up. A block may credit accounts,
  and may be the first of a milestone, for which `CommitHandler` adds everything again without
  waiting (`ReAddStarts`); `allowedSenders` may exceed the limit of a sender. `credited` and
  `overlapped` are history: who was credited by a block without a transaction of theirs, and whose
  calls were disturbed by another one in one of the three ways that `Disturbed` names.
- `ConsensusV1`, `WalletMirror`. A call of a contract is an action, a revert a guard that fails. A
  contract that refuses its refund (`Refusing`) makes the resignation revert.
- `ResizeGate`. `at` says where a thread is; the gate's read and write sides are derived from it.
- `AccountHistory`. A historical read is two steps with commits in between; `past` is the direct
  definition.
- `Milestones`. `index` is the cursor that every read of a milestone moves, also the reads of the
  calculators. A round above the limit of `calculateMinimalTimestamp` is refused (`RoundLimit`).
  `RefValue` and `RefRounds` are the direct definitions.

## The runs

| Run | Module | Distinct states | Question |
|---|---|---|---|
| `agreement` | `MCTendermint` | 778,184 | is there one decision per block number? |
| `restart` | `MCConsensus` | 284,405 | does a node keep its word and its position across crashes? |
| `node` | `MCNode` | 389,300 | are only justified blocks committed, once, and is the store of one block? |
| `refinement` | `MCRefinement` | 170,589 | is the node a correct node of `Tendermint`? |
| `single` | `MCSingle` | 174,776 | does a network of one node decide? |
| `locks` | `MCLocks` | 1,074,542 | what do the commit lock and the resize gate protect? |
| `network` | `MCNetwork` | 1,023,463 | downloads, peers and workers |
| `storage` | `MCStorage` | 758,460 | stores, API database, history, milestones |
| `execution` | `MCExecution` | 667,035 | pool, forger, processor, EVM |
| `contract` | `MCContract` | 515,381 | the consensus contract |
| `liveness` | `MCLiveness` | 130,228 | worker requests, and what has to happen in the end |
| `stored_proof` | `MCConsensus`, `MCStoredProof.cfg` | stops | `ProofIsStored`, violated |

Components that share no state are checked in one run: a variable `part` (or `scenario`, for
instances of one component) says which one moves in a behaviour, and the variables of the others
stay as they are. The behaviours of the sum are exactly those of the components, so nothing is
hidden by it and nothing interleaves that does not in the code. Where a component is only
instantiated, its variables are the slots `x1`, `x2`, ... and a property of it is repeated with
its name and `part = ...` before it.

`agreement`. Four validators, one faulty, three on two nodes, so that one node signs several
votes with the others' in between; two blocks, two rounds. Two rounds are where a lock of
the first meets a conflicting proposal of the second. The faulty validator has all its votes
out from the start, which is its worst. Symmetric in the two validators of one node and in the
blocks. That more rounds change nothing is proved.

`restart`. One own validator of four; the others vote alike, because only +2/3 and f+1
matter to the rules. Two rounds. In the first scenario the node proposes in round 1 only and
crashes twice, as the second crash may hit what the first restart rebuilt; in the second it
proposes in both rounds, could forge a different block each time it is asked, and crashes once.
- `NoEquivocation`, `OneProposalPerRound`: no two votes of a kind and no two proposals for a
  round, though the step, the signature and the stored message are separate events.
- `PositionNeverRegresses`: round, step, lock and valid value survive restarts.
- `ValuesAreProven`, `OwnProposalsAreProven`: locked and valid values keep the proposal and +2/3
  prevotes, so that they can be proposed again.
- `StepsTimeOut`: an idle node has the timeout of its step pending, or the next step would
  depend on others; also when a timer fired while a round was being entered.
- `StartsAgain`: a restart is refused only after the disagreement described below.

`node`. Two block numbers. In the first scenario one round each and a crash, with commits from
the rules and from the downloader, also of a block the processor rejects; in the second two
rounds and neither a crash nor the downloader, so that precommits of round 0 complete when the
node is in round 1 (there only block A is proposed). `CommitLockIsFree`: no handler asks for the commit lock it holds.

`refinement`. Round 0 proposes A, round 1 proposes B. The crash and the commit are in separate
scenarios to keep each small: B comes without a lock proof in the one with the crash, and with a
proof of round 0 in the one with the commit, where the peers precommit in round 1 only. All other
combinations are covered by the proof.

`single`. A network of one process that hosts all validators must decide. Three rounds, in the
first two of which any timer may expire first and building the proposal may fail. Timeouts of
the last round do not expire and its proposal does not fail: stage timeouts grow with the round,
and `MaxRound` stands for the first round that is long enough. The fairness is weak
fairness of each kind of step: the event loop runs every callback that is due, the handler
lock serves its waiters, timers expire and promises settle. No fairness is assumed of peers.

`locks`. Two copies of a prevote, a conflicting prevote of the same validator, a proposal
of round 1, and a vote of the next block that comes before, during or after the commit.
`RoundStatesAreLive` is what the commit lock is for: a round state looked up before an await is
still in the repository after it; `OneMessagePerSlot` what the second duplicate check is for. For
the gate: the core process with its committer and a reader, another process with two readers,
growths of one to seven pages with units of two and two retries, so that commits fit at once, after
each retry, and never. `NoTxnAcrossRemap` is what the gate is for, `CommitFits` what the retries are
for.

`network`. Blocks: an honest peer and one that answers anything, ranges of two, two jobs, up to
four announced blocks, rounds of two blocks, the first of which live consensus may commit by itself
(`BlocksComeInOrder`). Votes: the current round with two votes and two block numbers; a higher round
with the votes of the only validator; and a header one round above ours in which the votes of one
of three validators are no +1/3 (parts `behind` and `behind one`, the latter with a peer that answers
anything). Two jobs run at a time (`MaxJobs`), enough for one to take the marks of the other.
Proposals: two rounds. `HonestPeersPass`: no honest peer is banned by any of the three downloaders,
but in the cases its comment lists. `RequestsAreTracked`: marks, slots and jobs of the downloaders
agree, but for the stray marks described below. Peers: two ips that find each other
(`RepositoryFollowsBans`, with the pool worker's copy). Workers (`WorkersAreAccountedFor`): four, two
of them eager, so that two join in the background, and two calls each.

`storage`. Five blocks in rounds of two with a commit round that may differ from the proposal's,
one lost acknowledgement, any number of stops; then three blocks with `maxSyncAttempts` 2
(`StoresAgree`, `ApiTotalsAreExact`). Two users, a proxy contract and two blocks of two transactions
with names that break one rule each (`WalletsFollowContracts`). A history window of two over four
blocks (`HistoryIsExact`). The configurations of up to five milestones and three validators in
which no entry repeats the number in force (see the observations), read up to height 12, with
minimal timestamps of rounds up to and above the limit of four (`MilestonesAreExact`).

`execution`. The pool, in four parts (`PoolIsExact`): `pool`, a sender with two transactions and
replacements of each, one of them refused and one so dear that the next cannot follow, and a second
sender, with a removal, a restart and a block; `aging`, two blocks, so that transactions grow old,
with credits, a restart and a sender that may exceed its limit; `calls`, two calls at a time, of one
sender or of two, and a full pool; `commits`, two calls of a sender and a block, which may be the
first of a milestone. A forger and a processor with two senders, one living off a legacy wallet, and
one round of two blocks: what is forged is accepted with the same results, and exactly what an honest
execution gives is accepted (`BlocksReplay`), and what is committed is the execution of the decided
block, while others are pending (`CommitIsExecution`).

`contract`. Three accounts and three keys, in the four scenarios of `MCContract`, one of them with
two rounds, so that the list of the first is deleted before the second is made: the list of the
voters (`VotesFormList`), the sums of the votes however the pages are cut (`VotesAddUp`), the array of
the active validators (`ActiveIsExact`), refunds and the least number of validators
(`ResignationsAreSafe`), and the choice of the round validators (`RoundsAreTheTop`).

`liveness`. `Subprocess` with three requests and all its failures, and every other component that
waits, smaller than in its safety run: live consensus commits only the last block of the first
round by itself, with which it both ends a round and overtakes a download. The fairness is what the event loop and the operating
system give (`LocalFairness`): callbacks run, workers answer or throw, writes end, timers fire.
`NetworkFairness`: requests end by an answer or a timeout, headers of connected peers keep
arriving. Strong fairness only where something is tried again and again (`Repeated`): a header of
a reliable peer finds a slot free, a database that is asked again answers once, the gate lets in
a thread that can enter again and again. Nothing makes a message arrive, a commit begin or a
peer honest. `EveryoneGetsOn` says that every call, message, handshake and disposal comes to an end,
`WhatIsAnnouncedArrives` that announced blocks, votes and proposals are downloaded and committed
blocks are synced. Both have the form `[]<>` of a state that, once reached for good, stays:
a request that is settled again and again is settled whenever nobody makes a new one.
A first job that is ready and not started is excepted (`LeftReady`): `#replayJob` has skipped its
predecessor, whose range consensus had committed, and that branch does not look at the next job,
which waits until another request ends. So are the stray marks of votes.

`CHECK_DEADLOCK FALSE` is in the configurations of `Consensus` and `Tendermint`, in `MCExecution.cfg` and in
`MCLiveness.cfg`: block numbers, rounds, crashes and messages are bounded, so the instances come
to an end when everything has happened; so does a node that refused to start. In the other
runs a part that may come to rest has an explicit stuttering step, and the rest is checked for
deadlock.

Bounds are the constants `Max...`, and the finite sets of messages, calls and peers.

## The proofs

Each leaf names the prover that finds it, with a limit of 60 seconds. That is about ten times what
the slowest takes, so that the outcome does not depend on the load of the machine.

`TendermintProofs` proves, for every finite set of validators, every assignment to nodes, all
blocks and any number of rounds:

| Theorem | States |
|---|---|
| `TypeCorrect` | `Spec => []TypeOK` |
| `InvariantHolds` | the inductive invariant `IInv` |
| `NoFork` | `Spec => []Agreement` |
| `NoDoubleVote` | `Spec => []OneVotePerRound` |
| `LocksAreRespected` | `Spec => []PrevotesRespectLocks` |

Assumptions: `ConstantsAssumption`, which TLC evaluates in the runs, and for all but
`TypeCorrect` that less than a third of the validators is faulty (`FewFaulty`).

`Agreement` is not inductive. `IInv` adds what each step relies on: a vote is behind the step
of its node (`VotesBehindStep`), so that a node votes once per round; a lock has +2/3 prevotes
and is not of a later round (`LocksHaveMajority`); a precommitted block is locked, or a later
one is (`PrecommitsAreLocked`); a prevote against a precommit has +2/3 prevotes from a round
in between (`PrevotesRespectLocks`); a decision has +2/3 precommits. The centre is
`MajoritiesAreSafe`: once a block has +2/3 prevotes in a round, the validators that
precommitted another block in an earlier round, or still may, are no majority. When a prevote
completes such a majority, suppose they were one; the two majorities share a correct validator
(`MajoritiesIntersect`). It has voted in the later round, so it has left the earlier one and did
precommit there; so it had +2/3 prevotes for the new block from a round in between, for which
the invariant already held, or from the earlier round itself, where two blocks would have +2/3
prevotes. Then two decisions of different rounds contradict it (`OneDecidable`).
One lemma per conjunct carries it through the actions; `StepSummary` collects what any step
does to the votes, `PositionMoves` and `HasLeftStays` what it does to the position of a node.

`ConsensusProofs` proves, for any validators, own and remote, any blocks, proposers, bounds on
rounds, block numbers and crashes, and whatever the peers send:

| Theorem | States |
|---|---|
| `Invariance` | `Spec => []IInv`, the inductive invariant |
| `TypeCorrectness` | `Spec => []TypeOK` |
| `VotesOnce` | `Spec => []NoEquivocation` |
| `ValuesHaveProofs` | `Spec => []ValuesAreProven` |
| `ProposalsHaveProofs` | `Spec => []OwnProposalsAreProven` |
| `CommitsDoNotWait` | `Spec => []CommitLockIsFree` |
| `CommitsHaveProofs` | `Spec => []CommitsAreJustified` |
| `StoreHoldsOneBlock` | `Spec => []OneBlockInStore` |
| `NoRegress` | `Spec => PositionNeverRegresses` |
| `RecordsInvariance` | `Spec => []SInv`, what a restart finds |
| `BootstrapSucceeds` | `Spec => []StartsAgain` |
| `ProposesOnce` | `Spec => []OneProposalPerRound` |
| `StepsAreTimed` | `Spec => []StepsTimeOut`, if `Local # {}` |
| `VotesInvariance` | `Spec => []RInv`, what the votes rest on |
| `Refinement` (`RefinementProofs`) | `Spec => ImplementsTendermint` |

They assume `ConstantsAssumption` of `Consensus`. None of the properties is inductive; `IInv`
(in `ConsensusLemmas`) relates all that a crash can separate. `StoreInStep`: the stored state is the
position of the node, except that nothing is stored where a block number starts; this is why a
restart does not move the node (`NoRegress`). `StoreIsOfOneBlock`: the records are of one block
number, which the service knows or takes for 0. `VotesAreCast`: what is counted, stored or queued
was cast. `OwnVotesAreBehind`: an own vote is behind the stored step, and a validator that is about
to sign has not voted in the round; `OneOwnVote` follows, for a step that is left is never entered
again. `ValuesOK`: the round state of a lock has its proposal and +2/3 prevotes, kept because votes
and proposals are only ever added before the block is committed. `CommitsOK`: what is committed, or
queued to be, has +2/3 precommits. `CommitLockOK`: while a commit is under way nothing is proposed at
the next block number, so the rules that `startRound` applies cannot commit, which would wait for
the lock they hold. Majorities enter only by `MajoritiesGrow` (`MajoritiesAreCounted`): more votes
keep a majority.

`SInv` adds what the store mirrors as long as no restart has lost the block number of its records
(`~forgot`): every round state, and every proposal the node made. So the proof of a stored lock is
found again, and `prepareProposal` finds the proposal it made before a crash. `TInv` adds that the
rule which schedules the timeout of the step is still ahead of the running handler, or queued, or
the timeout is armed, also when its handler waits for the lock. `Local # {}` is needed there:
`onTimeoutPropose` of a node without validators enters the prevote step without applying the rules,
and if the +2/3 prevotes had come before, no timeout is scheduled until the next message; TLC finds
the case with `Local = {}`.

`Refinement` shows that every step of the node is one that `Tendermint` allows a correct node, or
changes nothing that it sees. It sees round, step, lock, locked block, decision and the votes that
were cast at the first block number. `IInv` gives most of it: a restart restores the position, a
vote is the first of its validator in the round, a lock has +2/3 prevotes and a commit +2/3
precommits. What it does not give is that a prevote is one the lock allows; `RInv` adds this.
`ProposalsExclude`: an own proposal that is still on its way is for a round that has no other, so
that the block of a round, and with it the locked block, stays what it is. `StoredMatch`: a stored proposal is the one the round state holds, so a
restart finds the same block. `ProofsAreCast` and `ResultsOK`: the +2/3 prevotes in a lock proof
that was verified were cast, in an earlier round than the proposal's. `BallotOK`: from the rule that
decides on a vote to the last signature, the vote is nil, or a precommit of the block that was just
locked, or a prevote that `LockAllows`: there is no lock, or the proposal has such a proof that is
not older than the lock or is for the locked block. The votes of one own validator, and those of
peers that arrive together, are each one step of `Tendermint`; handlers, timers, crashes and
restarts are stuttering steps.

`ConsensusInvariant` has one lemma per conjunct of `IInv`, `ConsensusRecovery` those of `SInv`,
`RInv` and `TInv`. They go over the actions by what these write (`Writers`), which stage of `applyRules` they
are (`RuleGuards`), and what they do to the position and to the store (`PositionSteps`,
`RecordSteps`).

`ConcurrencyProofs` proves, for any number of calls, messages, commits, threads, processes and
requests:

| Theorem | States |
|---|---|
| `LockInvariant` | `LockSpec => []LockInv` |
| `LockExcludes` | `LockSpec => []Exclusion` |
| `RoundStatesStayLive` | `Spec => []RoundStatesAreLive` |
| `OneMessageIsAdded` | `Spec => []OneMessagePerSlot` |
| `SharedChecksAreAnswered` | `Spec => []SharedChecksHaveOwner` |
| `RulesActOnStored` | `Spec => []HandledIsStored` |
| `RemapIsExclusive` | `GateSpec => []NoTxnAcrossRemap` |
| `CommitterMapsFile` | `GateSpec => []WriterMapsFile` |
| `CommitsFit` | `GateSpec => []CommitFits` |
| `ReadsGiveUpLate` | `GateSpec => []ReadsRecover` |
| `QueueIsExact` | `SubprocessSpec => []CallbacksArePending` |
| `DrainsHaveReason` | `SubprocessSpec => []DrainHasReason` |
| `DisposeIsGraceful` | `SubprocessSpec => []EarlyCallsFinish` |
| `PromisesSettleOnce` | `SubprocessSpec => SettledStays` |

`LockInv` is inductive, from `CallsAssumption`, that no call is of both kinds: the exclusive call
awaits exactly the running non-exclusive ones, because none starts while the promise is set.
`StepsOfTheLock` shows that the processors and the consensus use the lock only by its own steps, so
`LockInv` carries over; a call in its callback is running under the lock (`LiveInv`); so there is
none when a commit changes the block number. For the gate, the thread that remaps is alone in its
process (`RemapIsAlone`), and the room in the map grows by a unit with each retry (`RoomIsMade`); a
read that retries has seen the file grow since it adopted the grown size (`ReadInv`). For the
worker, `SubprocessInv` relates callbacks, replies under way and the drain.

`ConsensusV1Proofs` proves, for any accounts, keys and amounts:

| Theorem | States |
|---|---|
| `ActiveValidatorsAreExact` | `ConsensusV1Spec => []ActiveIsExact` |
| `BlsKeysAreUnique` | `ConsensusV1Spec => []KeysAreUnique` |
| `VotersFormOneList` | `ConsensusV1Spec => []VotesFormList` |

The array and the index of the active validators are inverse to each other through `push` and the
removal that moves the last one (`ActiveInv`); a key in use is a used key. The doubly linked list of
the voters is described by the sequence it spells (`Spells`): each operation on the pointers, at the
head, at the tail, in the middle and of the only voter, has a sequence that the result spells.

Only model-checked, and why:

- liveness (`Decides`, `EveryoneGetsOn`, `WhatIsAnnouncedArrives`), which needs fairness and
  `ENABLED`;
- sums and folds: `VotesAddUp`, `ResignationsAreSafe`, `RoundsAreTheTop`, `ApiTotalsAreExact`,
  `PoolIsExact`, `BlocksReplay`, `CommitIsExecution`, `MilestonesAreExact`: what a recursion over a
  list of votes, blocks or transactions computes needs induction over data;
- the downloaders, the peers, the worker pool, the commit pipeline, the account history and the
  wallets: their properties tie many fields together, and their invariants are checked on the
  instances only.

## A disagreement between code and tests

`consensus/source/bootstrapper.test.ts:435` says "Every message is stored before the rules
run on it, so the proof of a stored lock or valid value is always stored with it."
Run `stored_proof` violates it (`ProofIsStored`) with one crash:

1. In round 0 a proposal and +2/3 prevotes of peers are stored. Round 0 itself is not
   stored (`consensus.ts:211`), so there is no state record yet.
2. The process stops. On restart `initialize` (`consensus-storage/source/service.ts:37`) takes
   the block number from the state record and, there being none, assumes 0. The bootstrapper loads
   the records.
3. The rules run. The first `saveState` finds a block number above 0, takes the stored records for
   those of an earlier block and clears them.
4. The node locks the proposal and stores the lock, without its proof.

At the next restart `#getProvenRoundState` finds no proof and the node does not start. If the
lost record is the own proposal, a restarted proposer may build a second one for the round.
`consensus-storage/source/service.test.ts:205` says of the same line: "A restart creates a new
service over the same store; it must know which block the records belong to." `StartsAgain` and
`OneProposalPerRound` are stated for nodes this has not happened to (`forgot`).

## Other observations

What else the models showed where the code and what is said of it part. Where such a case bears on
a property of a run, the property excepts exactly that case, and its comment names it.

- `BlockDownloader`: `BlockProcessor.commit` moves the state store before the validator set, with
  awaits in between (`block-processor.ts:131-133`). A batch of the next round that starts in that
  window is verified with the validators of the round before, and the honest peer is banned. The same
  happens when consensus commits the last block of a round while a slice is being deserialised.
- `MessageDownloader`: a job lists the missing votes when it is made, the request carries the
  header of the moment it is sent. A vote that arrives in between is not sent by the peer and
  counted as missing (`message-downloader.ts:285`).
- `MessageDownloader`: a round with +1/3 votes at the peer is chosen for a full download, and the
  answer is required to hold +2/3 (`:270`), where the comment at `:27` speaks of 1/3.
- `MessageDownloader`: a peer that is one round ahead without +1/3 votes gives rise to a job of the
  node's round with the missing votes of the peer's (`:104`); the comment at `:28` says "for the
  current round". The votes are marked for the round of the header and unmarked for that of the job
  (`:387`): the marks stay until the block is applied, and those of another job may be taken away.
- `ProposalDownloader`: as with votes, the request carries our header of the moment it is sent
  (`peer-communicator.ts:216`). When our round or block has changed since the job was started, the
  answer is for another one than the job expects (`proposal-downloader.ts:139`, `:145`).
- `PeerProcessor.#acceptNewPeer` (`peer-processor.ts:130`, `:138`): when the worker's reply cannot be
  read, `Subprocess` rejects all its requests (`subprocess.ts:46`). A rejected `setPeer` ends the
  acceptance without `forgetPendingPeer`: once the peer has left the repository, its ip is not
  accepted again before the process restarts.
- api-sync: a restore computes the total round from the round a block was made in
  (`restore.ts:445`), the live path from the one it was committed in.
- `Mempool.addTransaction` (`mempool.ts:47`): two first transactions of a sender that are added
  concurrently each create a sender mempool; one of them is lost from the pool, not from the storage.
- `SenderMempool.replaceTransaction` (`sender-mempool.ts:121`) does not take the sender's lock: another
  call may change the list between its check of the wallet and its change of the list.
- `CommitHandler` (`commit.ts:32`) does not wait for the re-adding at a milestone, so that the next
  block may move the block number meanwhile. If the pool is full then, the clean-up of the re-adding
  (`service.ts:217`) may drop, as old, the row of a transaction that it then adds to the mempool. The
  forger's removal may do the same to one that is still being added.
- The pool is told of the senders of a block only (`transaction-pool-worker/source/worker.ts:84`): an
  account that a block credits keeps its lower balance in the pool until its next transaction is
  committed or its mempool is made anew.
- `SenderMempool` (`sender-mempool.ts:122`): the index of the transaction to be replaced is found
  before an await, and a removal takes no lock, so the assertion behind it may fail.
- `ConsensusV1.sol:16` says that round validators are active validators; one that resigns is a
  round validator until the round ends.
- `get_account_info` (`evm/bindings/src/lib.rs:435`): an account without an entry up to the block
  asked for reads as it is now, also when a later block of the window changed it.
- `#checkRoundValidators` (`configuration.ts:252`) measures a change from the previous entry with a
  number of validators, also when that entry repeats the number in mid-round; `calculateRound` then
  throws for an accepted configuration.
- `collect_dirty_accounts_and_events` (`state_changes.rs:308`): the event of an account that is not in
  the change set of the block is lost to the wallets table.
- A retried sync counts the forged totals of a validator twice when the acknowledgement of the first
  was lost; the supply has a guard against it, the totals have none (`service.ts:634`).

## What is not modelled

`PROJECT.json` lists every part with its reason. In short: cryptography, serialization and
schemas are functions of single values; the generated protocol code, types, exceptions and
constants hold no state; the execution semantics of the EVM is a library; the HTTP APIs only
read; configuration files, command line and genesis are sequential set-up. These make up most of
the lines of the repository, so that the definitions cover about a tenth of them: the parts where
state changes under concurrency, failures and restarts.

A restarted node that had stored its step but not its vote stays silent in the round. It is
safe, which `NoEquivocation` shows. A network in which a third of the validators does so at
once has no +2/3 votes in that round; no run claims it goes on.
