------------------------------- MODULE MCLiveness -------------------------------
(***************************************************************************)
(* What has to happen in the end, in every component that waits: for a     *)
(* lock, a worker thread, a peer, a database or a gate.  One component     *)
(* moves in a behaviour; its fairness is stated for it alone.              *)
(***************************************************************************)
EXTENDS Subprocess, Sequences, TLC

CONSTANTS r1, r2, r3, e1, e2, e3, n1, n2, n3, commit, copy1, copy2, proposal, later,
  h, slow, p1, p2, core, other, w, a, b

ThreeRequests == {r1, r2, r3}

ThreeExclusive == {e1, e2, e3}
ThreeNonExclusive == {n1, n2, n3}

\* Two copies of a prevote that fails its check, a proposal of the wrong validator, and one
\* for the next block.
Message(type, number, eligible, valid) ==
  [type |-> type, blockNumber |-> number, round |-> 0, slot |-> 0, copy |-> 1,
   eligible |-> eligible, valid |-> valid]

OneCommit == {commit}
BadCalls == {copy1, copy2, proposal, later}
BadMessages ==
  [c \in BadCalls |->
     CASE c \in {copy1, copy2} -> Message("prevote", 1, TRUE, FALSE)
       [] c = proposal         -> Message("proposal", 1, FALSE, TRUE)
       [] c = later            -> Message("proposal", 2, TRUE, TRUE)]

TwoPeers == {h, slow}
OneHonest == {h}
OnePrevote == {<<"prevote", 1>>}
TwoIps == {p1, p2}

\* A transaction and a dearer replacement.
Tx(price, cost) == [from |-> "s", nonce |-> 0, price |-> price, cost |-> cost, valid |-> TRUE]
TwoTxs == {Tx(2, 1), Tx(3, 3)}
BalanceOfS == [s \in {"s"} |-> 3]

\* The core with its committer and a reader, and a process with another reader.
TwoProcesses == {core, other}
TwoReaders == {a, b}
ProcessOfThread == (w :> core) @@ (a :> core) @@ (b :> other)

VARIABLES
  part,  \* the component that moves
  x1, x2, x3, x4, x5, x6, x7, x8, x9, x10, x11, x12, x13, x14, x15   \* its variables, in the order of its module

Waiting == INSTANCE Lock WITH
  Exclusive <- ThreeExclusive, NonExclusive <- ThreeNonExclusive, pc <- x1,
  exclusivePromise <- x2, nonExclusivePromises <- x3, awaited <- x4

Handling == INSTANCE Processors WITH
  Exclusive <- OneCommit, NonExclusive <- BadCalls, msg <- BadMessages, MaxBlockNumber <- 2,
  MaxRound <- 0, pc <- x1, exclusivePromise <- x2, nonExclusivePromises <- x3,
  awaited <- x4, blockNumber <- x5, round <- x6, disposed <- x7, storeOpen <- x8,
  added <- x9, stage <- x10, result <- x11, pendingMessages <- x12, stored <- x13,
  timers <- x14, handled <- x15

Blocks == INSTANCE BlockDownloader WITH
  Peers <- TwoPeers, Honest <- OneHonest, Reliable <- OneHonest, MaxHeader <- 4,
  LiveBlocks <- {2}, RoundSize <- 2, MAX_DOWNLOAD_BLOCKS <- 2,
  MAX_DOWNLOAD_BLOCKS_JOBS <- 2, stored <- x1, validators <- x2, header <- x3,
  repository <- x4, banned <- x5, downloadJobs <- x6, orphans <- x7, work <- x8,
  pending <- x9, skipped <- x10,
  excused <- x11

Voting == INSTANCE MessageDownloader WITH
  Peers <- TwoPeers, Honest <- OneHonest, Votes <- OnePrevote, roundValidators <- 3,
  MaxBlock <- 1, MaxRound <- 1, MaxJobs <- 2, node <- x1, peer <- x2, header <- x3,
  repository <- x4, downloads <- x5, fullDownloads <- x6, jobs <- x7, trying <- x8,
  bans <- x9, mixed <- x10

Proposing == INSTANCE ProposalDownloader WITH
  Peers <- TwoPeers, Honest <- OneHonest, Reliable <- OneHonest, MaxBlock <- 1,
  MaxRound <- 0, node <- x1, peer <- x2, header <- x3, checking <- x4, repository <- x5,
  blocking <- x6, downloads <- x7, jobs <- x8, bans <- x9

Accepting == INSTANCE Peers WITH
  Ips <- TwoIps, MaxQueue <- 2, MaxRemoved <- 1, blacklist <- x1, peers <- x2,
  pending <- x3, stage <- x4, todo <- x5, parent <- x6, verifying <- x7, loop <- x8,
  disposed <- x9, toWorker <- x10, worker <- x11, posting <- x12, toMain <- x13,
  rejected <- x14

Booting == INSTANCE WorkerPool WITH
  workerCount <- 3, EAGER_WORKER_COUNT <- 2, MaxCalls <- 1, allWorkers <- x1, state <- x2,
  workers <- x3, cursor <- x4, calls <- x5, booting <- x6, growth <- x7, disposal <- x8,
  taken <- x9, picks <- x10

Syncing == INSTANCE CommitPipeline WITH
  RoundSize <- 2, MaxBlock <- 2, MaxRound <- 0, MaxAttempts <- 0, MaxLost <- 1, evm <- x1,
  pg <- x2, pc <- x3, unit <- x4, store <- x5, db <- x6, vset <- x7, tasks <- x8,
  failed <- x9, queue <- x10, job <- x11, lost <- x12

Pooling == INSTANCE TransactionPool WITH
  Senders <- {"s"}, Txs <- TwoTxs, Balance <- BalanceOfS, Calls <- {"x", "y"},
  maxTransactionsInPool <- 3, maxTransactionsPerSender <- 2, maxTransactionAge <- 2,
  allowedSenders <- {}, MaxNumber <- 1, MaxCredit <- 0, MaxRemovals <- 0, MaxRestarts <- 1,
  mps <- x1, map <- x2, storage <- x3, flows <- x4, chain <- x5, number <- x6, removals <- x7, restarts <- x8,
  overlapped <- x9, credited <- x10

Resizing == INSTANCE ResizeGate WITH
  Processes <- TwoProcesses, Core <- core, Committer <- w, Readers <- TwoReaders,
  ProcessOf <- ProcessOfThread, Unit <- 2, Retries <- 1, Growths <- {1, 3}, MaxDisk <- 6,
  disk <- x1, map <- x2, at <- x3, attempts <- x4, grow <- x5, growths <- x6

allLive == <<part, subprocessVars, x1, x2, x3, x4, x5, x6, x7, x8, x9, x10, x11, x12, x13,
             x14, x15>>

Unused(v) == v = 0

LiveInit ==
  \/ /\ part = "subprocess" /\ SubprocessInit
     /\ Unused(x1) /\ Unused(x2) /\ Unused(x3) /\ Unused(x4) /\ Unused(x5) /\ Unused(x6) /\
        Unused(x7) /\ Unused(x8) /\ Unused(x9) /\ Unused(x10) /\ Unused(x11) /\ Unused(x12)
        /\ Unused(x13) /\ Unused(x14) /\ Unused(x15)
  \/ /\ part = "lock" /\ Waiting!LockInit /\ SubprocessInit
     /\ Unused(x5) /\ Unused(x6) /\ Unused(x7) /\ Unused(x8) /\ Unused(x9) /\ Unused(x10) /\
        Unused(x11) /\ Unused(x12) /\ Unused(x13) /\ Unused(x14) /\ Unused(x15)
  \/ /\ part = "processors" /\ Handling!Init /\ SubprocessInit
  \/ /\ part = "blocks" /\ Blocks!DownloaderInit /\ SubprocessInit
     /\ Unused(x12) /\ Unused(x13) /\ Unused(x14) /\ Unused(x15)
  \/ /\ part = "votes" /\ Voting!MsgInit /\ SubprocessInit
     /\ Unused(x11) /\ Unused(x12) /\ Unused(x13) /\ Unused(x14) /\
        Unused(x15)
  \/ /\ part = "proposals" /\ Proposing!ProposalInit /\ SubprocessInit
     /\ Unused(x10) /\ Unused(x11) /\ Unused(x12) /\ Unused(x13) /\ Unused(x14) /\
        Unused(x15)
  \/ /\ part = "peers" /\ Accepting!PeersInit /\ SubprocessInit /\ Unused(x15)
  \/ /\ part = "workers" /\ Booting!PoolInit /\ SubprocessInit
     /\ Unused(x11) /\ Unused(x12) /\ Unused(x13) /\ Unused(x14) /\ Unused(x15)
  \/ /\ part = "pipeline" /\ Syncing!PipelineInit /\ SubprocessInit
     /\ Unused(x13) /\ Unused(x14) /\ Unused(x15)
  \/ /\ part = "pool" /\ Pooling!PoolInit /\ SubprocessInit
     /\ Unused(x11) /\ Unused(x12) /\ Unused(x13) /\ Unused(x14) /\ Unused(x15)
  \/ /\ part = "gate" /\ Resizing!GateInit /\ SubprocessInit
     /\ Unused(x7) /\ Unused(x8) /\ Unused(x9) /\ Unused(x10) /\ Unused(x11) /\ Unused(x12)
        /\ Unused(x13) /\ Unused(x14) /\ Unused(x15)

LiveNext ==
  \/ /\ part = "subprocess" /\ SubprocessNext
     /\ UNCHANGED <<part, x1, x2, x3, x4, x5, x6, x7, x8, x9, x10, x11, x12, x13, x14, x15>>
  \/ /\ part = "lock" /\ Waiting!LockNext
     /\ UNCHANGED <<part, subprocessVars, x5, x6, x7, x8, x9, x10, x11, x12, x13, x14, x15>>
  \/ /\ part = "processors" /\ Handling!Next
     /\ UNCHANGED <<part, subprocessVars>>
  \/ /\ part = "blocks" /\ Blocks!DownloaderNext
     /\ UNCHANGED <<part, subprocessVars, x12, x13, x14, x15>>
  \/ /\ part = "votes" /\ Voting!MsgNext
     /\ UNCHANGED <<part, subprocessVars, x11, x12, x13, x14, x15>>
  \/ /\ part = "proposals" /\ Proposing!ProposalNext
     /\ UNCHANGED <<part, subprocessVars, x10, x11, x12, x13, x14, x15>>
  \/ /\ part = "peers" /\ Accepting!AcceptanceNext
     /\ UNCHANGED <<part, subprocessVars, x15>>
  \/ /\ part = "workers" /\ Booting!PoolNext
     /\ UNCHANGED <<part, subprocessVars, x11, x12, x13, x14, x15>>
  \/ /\ part = "pipeline" /\ Syncing!PipelineNext
     /\ UNCHANGED <<part, subprocessVars, x13, x14, x15>>
  \/ /\ part = "pool" /\ Pooling!PoolNext
     /\ UNCHANGED <<part, subprocessVars, x11, x12, x13, x14, x15>>
  \/ /\ part = "gate" /\ Resizing!GateNext
     /\ UNCHANGED <<part, subprocessVars, x7, x8, x9, x10, x11, x12, x13, x14, x15>>

-------------------------------------------------------------------------------

\* The event loop resumes what can go on, callbacks settle, workers answer or throw, writes end
\* and timers fire; nothing makes a message arrive or a commit begin.
LocalFairness ==
  /\ \A c \in Waiting!Calls : WF_(Waiting!lockVars)(part = "lock" /\
       (Waiting!Acquire(c) \/ Waiting!Drained(c) \/ Waiting!Settle(c)))
  /\ \A c \in BadCalls : WF_(Handling!vars)(part = "processors" /\ x1[c] # "idle" /\
       Handling!CallStep(c))
  /\ \A m \in Handling!Messages : WF_(Handling!vars)(part = "processors" /\
       Handling!HandleProposal(m))
  /\ WF_(Handling!vars)(part = "processors" /\ Handling!DrainCommit(commit))
  /\ WF_(Handling!vars)(part = "processors" /\ Handling!CommitBlock(commit))
  /\ WF_(Booting!poolVars)(part = "workers" /\ (Booting!BootEnds \/ Booting!BootRejects))
  /\ WF_(Booting!poolVars)(part = "workers" /\ Booting!Grow)
  /\ WF_(Booting!poolVars)(part = "workers" /\ Booting!DisposeWorkers)
  /\ WF_(Booting!poolVars)(part = "workers" /\ Booting!DisposeEnds)
  /\ \A i \in Booting!Ids :
       /\ WF_(Booting!poolVars)(part = "workers" /\ (Booting!Booted(i) \/ Booting!BootFails(i)))
       /\ WF_(Booting!poolVars)(part = "workers" /\ Booting!Answer(i))
       /\ WF_(Booting!poolVars)(part = "workers" /\ Booting!DisposeWorker(i))
  /\ WF_(Syncing!vars)(part = "pipeline" /\ Syncing!CommitStep)
  /\ WF_(Syncing!vars)(part = "pipeline" /\ Syncing!BootStep)
  /\ WF_(Syncing!vars)(part = "pipeline" /\ Syncing!ShiftJob)
  /\ WF_(Syncing!vars)(part = "pipeline" /\ x3 = "failing" /\ Syncing!Stop)
  /\ \A c \in {"x", "y", "commit", "start"} : WF_(Pooling!vars)(part = "pool" /\ Pooling!CallStep(c))
  /\ WF_(Pooling!vars)(part = "pool" /\ Pooling!CommitStep)
  /\ WF_(Resizing!gateVars)(part = "gate" /\ Resizing!Step(b))

\* Requests to peers end by an answer, an error or a timeout; batches and commits go on; the
\* headers of connected peers keep arriving.  All the service loop and the pool worker do to
\* an acceptance is to ban or to dispose of its peer, as Ban and Disconnect do.
NetworkFairness ==
  /\ \A i \in 1..2 : WF_(Blocks!downloaderVars)(part = "blocks" /\ Blocks!Ends(i))
  /\ WF_(Blocks!downloaderVars)(part = "blocks" /\ Blocks!OrphanEnds)
  /\ WF_(Blocks!downloaderVars)(part = "blocks" /\ Blocks!Batch)
  /\ WF_(Blocks!downloaderVars)(part = "blocks" /\ Blocks!LiveValidators)
  /\ WF_(Voting!msgVars)(part = "votes" /\ Voting!TryToDownload)
  /\ \A p \in TwoPeers, r \in 0..1 : WF_(Voting!msgVars)(part = "votes" /\
       \E job \in x7 : job.peer = p /\ job.announced = r /\ Voting!JobStep(job))
  /\ WF_(Voting!msgVars)(part = "votes" /\ Voting!Header(h))
  /\ \A d \in Proposing!Place : WF_(Proposing!proposalVars)(part = "proposals" /\
       \E j \in x8 : j.place = d /\ Proposing!JobStep(j))
  /\ WF_(Proposing!proposalVars)(part = "proposals" /\ Proposing!Header(h))
  /\ \A ip \in TwoIps : WF_(Accepting!peersVars)(part = "peers" /\ Accepting!AcceptStep(ip))
  /\ WF_(Accepting!peersVars)(part = "peers" /\ Accepting!HandleRequest)

\* Strong fairness.  A reliable peer sends headers at times that do not depend on the node's
\* slots, so that some are looked at when a slot is free; a database that is asked again and
\* again answers once; the gate serves those who wait, so that a thread that can enter again
\* and again gets in.  As one component moves, the strong fairness of a disjunction is that of
\* its disjunct.
Repeated(i) ==
  \/ i = 1 /\ part = "blocks" /\ Blocks!Download(h) /\ UNCHANGED <<part, subprocessVars, x12, x13, x14, x15>>
  \/ i = 1 /\ part = "votes" /\ Voting!Download(h) /\ UNCHANGED <<part, subprocessVars, x11, x12, x13, x14, x15>>
  \/ /\ part = "proposals" /\ Proposing!CanDownload(h, x7)
     /\ (i = 1 /\ Proposing!Header(h)) \/ (i = 2 /\ Proposing!Check(h))
     /\ UNCHANGED <<part, subprocessVars, x10, x11, x12, x13, x14, x15>>
  \/ i = 1 /\ part = "pipeline" /\ Syncing!SyncSucceeds /\ UNCHANGED <<part, subprocessVars, x13, x14, x15>>
  \/ part = "gate" /\ Resizing!Step(<<w, a>>[i]) /\ UNCHANGED <<part, subprocessVars, x7, x8, x9, x10, x11, x12, x13, x14, x15>>

LiveSpec ==
  /\ LiveInit /\ [][LiveNext]_allLive
  /\ SubprocessFairness /\ LocalFairness /\ NetworkFairness
  /\ SF_allLive(Repeated(1)) /\ SF_allLive(Repeated(2))

-------------------------------------------------------------------------------

\* Whoever waits gets on in the end, one conjunct per component:
\* - every call to a worker thread settles, whatever fails or exits (Subprocess);
\* - every call of a Lock gets its turn: no wake-up is lost when #exclusivePromise is cleared;
\* - every message that a processor has taken settles, and so does a commit that asked for the
\*   lock, also when workers throw and when the node is disposed meanwhile;
\* - every acceptance of a peer ends, although its discovery waits for that of others;
\* - dispose of the worker pool ends, at whatever point of the boot it is called;
\* - every call to the transaction pool ends, and so does every commit, although a call waits
\*   for the sender's lock and a commit for the calls;
\* - every call of the database ends: no reader waits for a gate that waits for its own guard,
\*   and a commit that resizes is not starved by readers.
EveryoneGetsOn ==
  /\ CallsSettle
  /\ []<>(part = "lock" => \A c \in Waiting!Calls : x1[c] = "done")
  /\ []<>(part = "processors" => \A c \in Handling!Calls : Handling!AtRest(c))
  /\ \A ip \in TwoIps : []<>(part = "peers" => x4[ip] = "idle")
  /\ []<>(part = "workers" => ~Booting!IsDisposing)
  /\ \A c \in {"x", "y", "commit", "start"} : []<>(part = "pool" => ~Pooling!IsAtWork(c))
  /\ \A t \in {w, a, b} : []<>(part = "gate" => ~Resizing!IsCalling(t))

\* What is announced or committed arrives, one conjunct per component:
\* - the blocks a reliable peer has announced, whatever the other peer answers (#replayJob asks
\*   for them again); except that the peer is banned because a round ended during its batch, or
\*   that their job is ready and not started, #replayJob having skipped its predecessor;
\* - a vote that a connected honest peer announces for our round, unless the node or the peer
\*   moves on: no request of our round that fails or is cut off keeps the vote marked as asked
\*   for; except for the mark that a request made while the peer was a round ahead leaves behind;
\* - a proposal that a reliable peer keeps announcing, unless the node leaves the round, once no
\*   blocks are downloaded (x6);
\* - a committed block in Postgres, unless the process stops first.
WhatIsAnnouncedArrives ==
  /\ []<>(part = "blocks" => Blocks!HasCaughtUp(h))
  /\ []<>(part = "votes" => \A v \in OnePrevote : ~Voting!IsMissing(h, v))
  /\ \/ []<>(part = "proposals" /\ x6)
     \/ []<>(part = "proposals" => \A d \in Proposing!Place : ~Proposing!IsMissing(h, d))
  /\ []<>(part = "pipeline" => \A n \in 0..2 : ~Syncing!IsUnsynced(n))

================================================================================
