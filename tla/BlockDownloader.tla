----------------------------- MODULE BlockDownloader ----------------------------
(***************************************************************************)
(* Class BlockDownloader (packages/p2p): ranges of blocks are requested    *)
(* from several peers at once and processed strictly in order, while live  *)
(* consensus commits blocks of its own.  The blocks a peer sends are       *)
(* abstracted to how many there are and to the check they fail, if any.    *)
(* PendingCommits, the state store, the repository of peers and the ban    *)
(* list are state the downloader shares with the rest of the node.         *)
(***************************************************************************)
EXTENDS Naturals, Sequences, FiniteSetsExt

CONSTANTS
  Peers,               \* every peer the node may know
  Honest,              \* the ones that answer as GetBlocksController does
  Reliable,            \* honest ones that never lose their connection
  MaxHeader,           \* bound: the highest consensus block number a peer announces
  LiveBlocks,          \* bound: the blocks live consensus may commit by itself
  RoundSize,           \* roundCalculator: blocks per validator round
  MAX_DOWNLOAD_BLOCKS,
  MAX_DOWNLOAD_BLOCKS_JOBS

\* What a module that sets the constants has to assume.
DownloaderAssumption ==
  /\ Reliable \subseteq Honest /\ Honest \subseteq Peers
  /\ MaxHeader \in Nat /\ LiveBlocks \subseteq Nat
  /\ {RoundSize, MAX_DOWNLOAD_BLOCKS, MAX_DOWNLOAD_BLOCKS_JOBS} \subseteq Nat \ {0}

VARIABLES
  stored,       \* stateStore.getBlockNumber()
  validators,   \* the validator round that validatorSet holds
  header,       \* peer.header.blockNumber
  repository,   \* the peers of the repository
  banned,       \* the peers banned so far
  downloadJobs, \* #downloadJobs
  orphans,      \* whether requests are still open whose job has been removed
  work,         \* the locals of #processBlocks: the next number, the blocks left, the
                \* verified commits of the slice still to process, the block of
                \* previousBlockHash; history: live consensus has ended a round since the
                \* last slice was verified
  pending,      \* PendingCommits: block numbers
  skipped,      \* history: #replayJob has shifted a first job from #processBlocks
  excused       \* history: the peers banned for a slice while a round ended

downloaderVars == <<stored, validators, header, repository, banned, downloadJobs, orphans,
                    work, pending, skipped, excused>>

Verdicts == {"good", "wrongNumber", "badSignature", "badBlock"}

RoundOf(n) == (n - 1) \div RoundSize

Job(p, from, to) ==
  [peer |-> p, from |-> from, to |-> to, status |-> "Downloading",
   count |-> 0, verdict |-> "good", large |-> FALSE]

NoWork == [number |-> 0, left |-> 0, slice |-> 0, previous |-> 0, raced |-> FALSE]

DownloaderInit ==
  /\ stored = 0 /\ validators = RoundOf(1)
  /\ header \in [Peers -> 1..MaxHeader]
  /\ repository = Peers /\ banned = {}
  /\ downloadJobs = <<>> /\ orphans = FALSE
  /\ work = NoWork /\ pending = {} /\ skipped = FALSE /\ excused = {}

IsProcessing(js) == js # <<>> /\ js[1].status = "Processing"

\* Between awaits nothing else runs: a batch without blocks left is finished at once.
Settled == IsProcessing(downloadJobs) => work.left > 0

LastRequestedBlockNumber ==
  IF downloadJobs = <<>> THEN stored ELSE downloadJobs[Len(downloadJobs)].to

BlockNumberTo(p, last) ==
  IF header[p] - last > MAX_DOWNLOAD_BLOCKS THEN last + MAX_DOWNLOAD_BLOCKS ELSE header[p] - 1

\* download: the header of a connected peer has arrived.
Download(p) ==
  /\ Settled /\ p \in repository
  /\ header[p] > LastRequestedBlockNumber + 1
  /\ Len(downloadJobs) < MAX_DOWNLOAD_BLOCKS_JOBS
  /\ LET last == LastRequestedBlockNumber
     IN downloadJobs' = Append(downloadJobs, Job(p, last + 1, BlockNumberTo(p, last)))
  /\ UNCHANGED <<stored, validators, header, repository, banned, orphans, work, pending, skipped, excused>>

\* Mutant: applied blocks are not skipped when a batch starts.
StartWithoutSkip(job) ==
  [number |-> job.from, left |-> job.count, slice |-> 0, previous |-> stored, raced |-> FALSE]

\* The beginning of #processBlocks, with #skipAppliedBlocks.
Start(job) ==
  LET skip == IF job.from > stored THEN 0 ELSE Min({job.count, stored - job.from + 1})
  IN [number |-> job.from + skip, left |-> job.count - skip, slice |-> 0, previous |-> stored,
      raced |-> validators # RoundOf(stored + 1)]

\* #processNextJob, on the jobs js.
ProcessNextJob(js) ==
  IF js # <<>> /\ js[1].status = "ReadyToProcess"
  THEN downloadJobs' = [js EXCEPT ![1].status = "Processing"] /\ work' = Start(js[1])
  ELSE downloadJobs' = js /\ work' = IF IsProcessing(js) THEN work ELSE NoWork

\* #replayJob of the job at i: the lists it may leave, one for each random peer.
Replay(js, i, peers) ==
  LET sole == Len(js) = 1
      from == IF i = 1 THEN stored + 1 ELSE js[i].from
      required == IF sole THEN from ELSE Max({from, js[i].to})
      able == {p \in peers : header[p] > required}
      to(p) == IF sole THEN BlockNumberTo(p, from - 1) ELSE js[i].to
  IN IF able = {} THEN {SubSeq(js, 1, i - 1)}
     ELSE {IF i = 1 /\ from > to(p) THEN Tail(js)
           ELSE [js EXCEPT ![i] = Job(p, from, to(p))] : p \in able}

\* When the job at i is replaced and ks becomes the list, requests may lose their job.
Orphaned(i, ks) ==
  /\ Len(ks) < i
  /\ \E k \in (i + 1)..Len(downloadJobs) : downloadJobs[k].status = "Downloading"

\* What a peer may answer to the job: an honest one is short only for the payload limit.
Answers(job) ==
  LET full == job.to - job.from + 1
  IN IF job.peer \in Honest
     THEN {[count |-> c, verdict |-> "good", large |-> c < full] : c \in 1..full}
     ELSE {[count |-> c, verdict |-> v, large |-> FALSE] :
             c \in 0..Min({full + 1, MAX_DOWNLOAD_BLOCKS}), v \in Verdicts}

\* #downloadBlocksFromPeer, the answer of the peer.
Receive(i) ==
  /\ Settled /\ downloadJobs[i].status = "Downloading"
  /\ \E a \in Answers(downloadJobs[i]) :
       ProcessNextJob([downloadJobs EXCEPT
         ![i].status = "ReadyToProcess", ![i].count = a.count,
         ![i].verdict = a.verdict, ![i].large = a.large])
  /\ UNCHANGED <<stored, validators, header, repository, banned, orphans, pending, skipped, excused>>

\* #downloadBlocksFromPeer, the request failed: banPeer disposes of a peer whose connection
\* broke or timed out and bans one whose answer is not well formed; #replayJob.
Fail(i) ==
  /\ Settled /\ downloadJobs[i].status = "Downloading"
  /\ downloadJobs[i].peer \notin Reliable
  /\ repository' = repository \ {downloadJobs[i].peer}
  /\ banned' \in {banned} \cup {banned \cup ({downloadJobs[i].peer} \ Honest)}
  /\ \E js \in Replay(downloadJobs, i, repository') :
       /\ orphans' = (orphans \/ Orphaned(i, js))
       /\ ProcessNextJob(js)
  /\ UNCHANGED <<stored, validators, header, pending, skipped, excused>>

\* The request of a removed job ends: nothing but #processNextJob.
OrphanEnds ==
  /\ Settled /\ orphans
  /\ orphans' \in BOOLEAN
  /\ ProcessNextJob(downloadJobs)
  /\ UNCHANGED <<stored, validators, header, repository, banned, pending, skipped, excused>>

\* #replayJob of the first job at the end of #processBlocks; the next job is not started.
ReplayFirst(peers) ==
  \E js \in Replay(downloadJobs, 1, peers) :
    /\ downloadJobs' = js
    /\ orphans' = (orphans \/ Orphaned(1, js))
    /\ work' = NoWork /\ pending' = {}
    /\ skipped' = (skipped \/ (js # <<>> /\ Len(js) < Len(downloadJobs)))

\* #handleJobError for a batch in processing, and the finally clause.
HandleJobError ==
  /\ repository' = repository \ {downloadJobs[1].peer}
  /\ banned' = banned \cup {downloadJobs[1].peer}
  /\ excused' = IF work.raced THEN excused \cup {downloadJobs[1].peer} ELSE excused
  /\ ReplayFirst(repository')
  /\ UNCHANGED <<stored, validators, header>>

\* Blocks of the batch up to the end of the round.
Slice == Min({work.left, (RoundOf(work.number) + 1) * RoundSize - work.number + 1})

\* The number check and hasValidSignature of the slice, with the validators of this moment.
Verified ==
  /\ downloadJobs[1].verdict \notin {"wrongNumber", "badSignature"}
  /\ work.previous = work.number - 1
  /\ \A n \in work.number..(work.number + Slice - 1) : RoundOf(n) = validators

\* The slice has been deserialised: it is verified and becomes pending, its first commit is taken.
Verify ==
  /\ IsProcessing(downloadJobs) /\ work.left > 0 /\ work.slice = 0
  /\ IF Verified
     THEN /\ work' = [work EXCEPT !.slice = Slice, !.raced = FALSE]
          /\ pending' = pending \cup (work.number + 1)..(work.number + Slice - 1)
          /\ UNCHANGED <<stored, validators, header, repository, banned, downloadJobs, orphans, skipped, excused>>
     ELSE HandleJobError

\* commitProcessor.process of the first commit: consensus skips a block it has applied.
Process ==
  /\ IsProcessing(downloadJobs) /\ work.slice > 0
  /\ validators = RoundOf(stored + 1)
  /\ IF work.number = stored + 1 /\ downloadJobs[1].verdict = "badBlock"
     THEN HandleJobError
     ELSE /\ stored' = Max({stored, work.number})
          /\ validators' = RoundOf(stored' + 1)
          /\ work' = [work EXCEPT !.number = @ + 1, !.left = @ - 1, !.slice = @ - 1,
                                  !.previous = work.number]
          /\ pending' = pending \ {work.number + 1}
          /\ UNCHANGED <<header, repository, banned, downloadJobs, orphans, skipped, excused>>

\* The end of #processBlocks: #handleMissingBlocks, or shift and #processNextJob.
Finish ==
  /\ ~Settled
  /\ IF downloadJobs[1].to # work.number - 1
     THEN LET bad == IF downloadJobs[1].large THEN {} ELSE {downloadJobs[1].peer}
          IN /\ repository' = repository \ bad
             /\ banned' = banned \cup bad
             /\ ReplayFirst(repository')
     ELSE /\ ProcessNextJob(Tail(downloadJobs))
          /\ pending' = {}
          /\ UNCHANGED <<repository, banned, orphans, skipped>>
  /\ UNCHANGED <<stored, validators, header, excused>>

\* Live consensus commits the next block: the state store moves first ...
LiveCommit ==
  /\ Settled /\ stored + 1 \in LiveBlocks
  /\ validators = RoundOf(stored + 1)
  /\ stored' = stored + 1
  /\ work' = [work EXCEPT !.raced = @ \/ (IsProcessing(downloadJobs) /\ RoundOf(stored + 2) # validators)]
  /\ UNCHANGED <<validators, header, repository, banned, downloadJobs, orphans, pending, skipped, excused>>

\* ... and the validator set once the database has the block.
LiveValidators ==
  /\ Settled /\ validators # RoundOf(stored + 1)
  /\ validators' = RoundOf(stored + 1)
  /\ UNCHANGED <<stored, header, repository, banned, downloadJobs, orphans, work, pending, skipped, excused>>

\* A peer announces the next block.
Announce(p) ==
  /\ Settled /\ header[p] < MaxHeader
  /\ header' = [header EXCEPT ![p] = @ + 1]
  /\ UNCHANGED <<stored, validators, repository, banned, downloadJobs, orphans, work, pending, skipped, excused>>

\* A peer that was disposed of, and not banned, connects again.
Reconnect(p) ==
  /\ Settled /\ p \notin repository \cup banned
  /\ repository' = repository \cup {p}
  /\ UNCHANGED <<stored, validators, header, banned, downloadJobs, orphans, work, pending, skipped, excused>>

Batch == Verify \/ Process \/ Finish

\* A request ends, by an answer or by an error or timeout.
Ends(i) == i \in DOMAIN downloadJobs /\ (Receive(i) \/ Fail(i))

DownloaderNext ==
  \/ \E p \in Peers : Download(p) \/ Announce(p) \/ Reconnect(p)
  \/ \E i \in DOMAIN downloadJobs : Ends(i)
  \/ OrphanEnds \/ Batch \/ LiveCommit \/ LiveValidators

DownloaderSpec == DownloaderInit /\ [][DownloaderNext]_downloaderVars

-------------------------------------------------------------------------------

JobType ==
  [peer : Peers, from : Nat, to : Nat, status : {"Downloading", "ReadyToProcess", "Processing"},
   count : Nat, verdict : Verdicts, large : BOOLEAN]

DownloaderTypeOK ==
  /\ stored \in Nat /\ validators \in Nat
  /\ header \in [Peers -> 1..MaxHeader]
  /\ repository \subseteq Peers /\ banned \subseteq Peers
  /\ downloadJobs \in Seq(JobType) /\ Len(downloadJobs) <= MAX_DOWNLOAD_BLOCKS_JOBS
  /\ orphans \in BOOLEAN
  /\ work \in [number : Nat, left : Nat, slice : Nat, previous : Nat, raced : BOOLEAN]
  /\ pending \subseteq Nat /\ skipped \in BOOLEAN /\ excused \subseteq banned

\* The requested ranges follow one another without gap or overlap ("so the requested ranges
\* stay contiguous", #replayJob), and the first one starts no later than the block after the
\* stored one, whatever is replayed, truncated, or committed by live consensus.
RangesAreContiguous ==
  /\ \A i \in 1..(Len(downloadJobs) - 1) : downloadJobs[i + 1].from = downloadJobs[i].to + 1
  /\ downloadJobs # <<>> => downloadJobs[1].from <= stored + 1

\* Only the first job is ever processed, so the shift() that ends #processBlocks removes
\* the job it has processed and not a successor.
OnlyFirstIsProcessed ==
  \A i \in DOMAIN downloadJobs : downloadJobs[i].status = "Processing" => i = 1

\* The commits other components see as pending (PendingCommits.has keeps consensus from
\* proposing such a block) are the verified ones of the batch in processing that are still
\* to come: none is left behind when a batch fails, and none whose signature is bad is added.
PendingAreVerified ==
  /\ pending = (work.number + 1)..(work.number + work.slice - 1)
  /\ pending # {} =>
       /\ IsProcessing(downloadJobs)
       /\ downloadJobs[1].verdict \in {"good", "badBlock"}

\* The first commit of a slice is verified against the hash of its true predecessor, although
\* the store may have moved on since the batch was started (previousBlockHash).
PredecessorIsRight ==
  IsProcessing(downloadJobs) /\ work.left > 0 => work.previous = work.number - 1

\* A peer that answers what it was asked, or as much as fits the payload limit, is not banned,
\* however live consensus and the other peers interfere (#handleJobError,
\* #handleMissingBlocks).  Except when live consensus commits the last block of a round while
\* a slice waits for its deserialisation, or is between the state store and the validator set
\* (commit of BlockProcessor) when the batch starts: its signatures are then checked with the
\* validators of another round.
HonestPeersStay == banned \cap Honest \subseteq excused

\* A first job that is ready and not started: #replayJob has skipped its predecessor from
\* within #processBlocks, and #processNextJob runs only when another request ends.
LeftReady == skipped /\ downloadJobs # <<>> /\ downloadJobs[1].status = "ReadyToProcess"

\* The node has the blocks that a peer has announced, or the peer is banned, or their job is
\* left ready.
HasCaughtUp(p) == stored >= header[p] - 1 \/ p \in banned \/ LeftReady

================================================================================
