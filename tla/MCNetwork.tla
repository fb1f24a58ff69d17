------------------------------ MODULE MCNetwork -------------------------------
(***************************************************************************)
(* What a node gets from its peers: the downloaders of blocks, votes and   *)
(* proposals, the acceptance of peers, and the pool of worker threads that *)
(* verify what arrives.  They share no state, so that one of them moves in *)
(* a behaviour.                                                            *)
(*                                                                         *)
(* One honest peer and, for blocks and for votes of a round above ours,    *)
(* one that answers anything; rounds of two blocks, and live consensus may *)
(* commit the blocks of the first round by itself.                         *)
(***************************************************************************)
EXTENDS Naturals, Sequences, TLC

CONSTANTS h, f, v1, v2, p1, p2

OnePeer == {h}
TwoPeers == {h, f}
NoPeer == {}
FirstRound == 1..2
TwoPrevotes == {"prevote"} \X {v1, v2}
BothOfOne == {"prevote", "precommit"} \X {v1}
OnePrevote == {<<"prevote", v1>>}
TwoIps == {p1, p2}

Symmetry == Permutations(TwoIps)

VARIABLES
  part,  \* the component that moves
  x1, x2, x3, x4, x5, x6, x7, x8, x9, x10, x11, x12, x13, x14   \* its variables

Blocks == INSTANCE BlockDownloader WITH
  Peers <- TwoPeers, Honest <- OnePeer, Reliable <- NoPeer, LiveBlocks <- FirstRound,
  MaxHeader <- 4, RoundSize <- 2, MAX_DOWNLOAD_BLOCKS <- 2, MAX_DOWNLOAD_BLOCKS_JOBS <- 2,
  stored <- x1, validators <- x2, header <- x3, repository <- x4, banned <- x5,
  downloadJobs <- x6, orphans <- x7, work <- x8, pending <- x9, skipped <- x10,
  excused <- x11

CurrentRound == INSTANCE MessageDownloader WITH
  Peers <- OnePeer, Honest <- OnePeer, Votes <- TwoPrevotes, roundValidators <- 2,
  MaxBlock <- 2, MaxRound <- 0, MaxJobs <- 2,
  node <- x1, peer <- x2, header <- x3, repository <- x4, downloads <- x5,
  fullDownloads <- x6, jobs <- x7, trying <- x8, bans <- x9, mixed <- x10

HigherRounds == INSTANCE MessageDownloader WITH
  Peers <- OnePeer, Honest <- OnePeer, Votes <- BothOfOne, roundValidators <- 1,
  MaxBlock <- 1, MaxRound <- 1, MaxJobs <- 2,
  node <- x1, peer <- x2, header <- x3, repository <- x4, downloads <- x5,
  fullDownloads <- x6, jobs <- x7, trying <- x8, bans <- x9, mixed <- x10

\* The votes of one of three validators are no +1/3.
Behind == INSTANCE MessageDownloader WITH
  Peers <- OnePeer, Honest <- OnePeer, Votes <- BothOfOne, roundValidators <- 3,
  MaxBlock <- 1, MaxRound <- 1, MaxJobs <- 2,
  node <- x1, peer <- x2, header <- x3, repository <- x4, downloads <- x5,
  fullDownloads <- x6, jobs <- x7, trying <- x8, bans <- x9, mixed <- x10

BehindOne == INSTANCE MessageDownloader WITH
  Peers <- TwoPeers, Honest <- OnePeer, Votes <- OnePrevote, roundValidators <- 3,
  MaxBlock <- 1, MaxRound <- 1, MaxJobs <- 2,
  node <- x1, peer <- x2, header <- x3, repository <- x4, downloads <- x5,
  fullDownloads <- x6, jobs <- x7, trying <- x8, bans <- x9, mixed <- x10

Proposals == INSTANCE ProposalDownloader WITH
  Peers <- OnePeer, Honest <- OnePeer, Reliable <- NoPeer, MaxBlock <- 1, MaxRound <- 1,
  node <- x1, peer <- x2, header <- x3, checking <- x4, repository <- x5, blocking <- x6,
  downloads <- x7, jobs <- x8, bans <- x9

Acceptance == INSTANCE Peers WITH
  Ips <- TwoIps, MaxQueue <- 2, MaxRemoved <- 1, blacklist <- x1, peers <- x2,
  pending <- x3, stage <- x4, todo <- x5, parent <- x6, verifying <- x7, loop <- x8,
  disposed <- x9, toWorker <- x10, worker <- x11, posting <- x12, toMain <- x13,
  rejected <- x14

Workers == INSTANCE WorkerPool WITH
  workerCount <- 4, EAGER_WORKER_COUNT <- 2, MaxCalls <- 2, allWorkers <- x1, state <- x2,
  workers <- x3, cursor <- x4, calls <- x5, booting <- x6, growth <- x7, disposal <- x8,
  taken <- x9, picks <- x10

allNetwork == <<part, x1, x2, x3, x4, x5, x6, x7, x8, x9, x10, x11, x12, x13, x14>>

Unused(v) == v = 0

NetworkInit ==
  \/ /\ part = "blocks" /\ Blocks!DownloaderInit
     /\ Unused(x12) /\ Unused(x13) /\ Unused(x14)
  \/ /\ part = "votes" /\ CurrentRound!MsgInit
     /\ Unused(x11) /\ Unused(x12) /\ Unused(x13) /\ Unused(x14)
  \/ /\ part = "rounds" /\ HigherRounds!MsgInit
     /\ Unused(x11) /\ Unused(x12) /\ Unused(x13) /\ Unused(x14)
  \/ /\ part = "behind" /\ Behind!MsgInit
     /\ Unused(x11) /\ Unused(x12) /\ Unused(x13) /\ Unused(x14)
  \/ /\ part = "behind one" /\ BehindOne!MsgInit
     /\ Unused(x11) /\ Unused(x12) /\ Unused(x13) /\ Unused(x14)
  \/ /\ part = "proposals" /\ Proposals!ProposalInit
     /\ Unused(x10) /\ Unused(x11) /\ Unused(x12) /\ Unused(x13) /\ Unused(x14)
  \/ /\ part = "peers" /\ Acceptance!PeersInit
  \/ /\ part = "workers" /\ Workers!PoolInit
     /\ Unused(x11) /\ Unused(x12) /\ Unused(x13) /\ Unused(x14)

NetworkNext ==
  \/ /\ part = "blocks" /\ Blocks!DownloaderNext
     /\ UNCHANGED <<part, x12, x13, x14>>
  \/ /\ part = "votes" /\ CurrentRound!MsgNext
     /\ UNCHANGED <<part, x11, x12, x13, x14>>
  \/ /\ part = "rounds" /\ HigherRounds!MsgNext
     /\ UNCHANGED <<part, x11, x12, x13, x14>>
  \/ /\ part = "behind" /\ Behind!MsgNext
     /\ UNCHANGED <<part, x11, x12, x13, x14>>
  \/ /\ part = "behind one" /\ BehindOne!MsgNext
     /\ UNCHANGED <<part, x11, x12, x13, x14>>
  \/ /\ part = "proposals" /\ Proposals!ProposalNext
     /\ UNCHANGED <<part, x10, x11, x12, x13, x14>>
  \/ /\ part = "peers" /\ Acceptance!PeersNext
     /\ UNCHANGED <<part>>
  \/ /\ part = "workers" /\ Workers!PoolNext
     /\ UNCHANGED <<part, x11, x12, x13, x14>>
  \* These may come to rest.
  \/ /\ part \in {"blocks", "votes", "rounds", "behind", "behind one", "workers"}
     /\ UNCHANGED allNetwork

NetworkSpec == NetworkInit /\ [][NetworkNext]_allNetwork

ASSUME NetworkAssumption ==
  /\ Blocks!DownloaderAssumption /\ CurrentRound!MessageDownloaderAssumption
  /\ HigherRounds!MessageDownloaderAssumption /\ Behind!MessageDownloaderAssumption
  /\ BehindOne!MessageDownloaderAssumption /\ Proposals!ProposalDownloaderAssumption
  /\ Acceptance!PeersAssumption /\ Workers!WorkerPoolAssumption

-------------------------------------------------------------------------------

\* BlockDownloader: the requested ranges follow one another without gap or overlap, whatever is
\* replayed, truncated or committed by live consensus; only the first job is processed; what it
\* has verified and not yet committed is in PendingCommits, and nothing is left there when the
\* batch fails; and a commit is verified against the hash of its true predecessor, although the
\* store may have moved on since the batch was started (#replayJob, #processJob).
BlocksComeInOrder ==
  part = "blocks" =>
    /\ Blocks!DownloaderTypeOK
    /\ Blocks!RangesAreContiguous /\ Blocks!OnlyFirstIsProcessed
    /\ Blocks!PendingAreVerified /\ Blocks!PredecessorIsRight

\* Message and proposal downloader: a vote, a higher round or a proposal is marked as being
\* downloaded only while a job fetches it, and nothing is asked for twice at a time; a mark
\* left behind by a failed request, a purge or a commit would keep it from being asked again.
\* One exception, for votes: a job made for a header one round above ours that has not +1/3 of
\* the prevotes marks the votes for the header's round (download) and clears them for its own
\* (#removePartialDownloadJob).  Exactly its own marks stay until the block is applied, and
\* exactly the votes of its own round that another job was fetching can be asked for twice.
RequestsAreTracked ==
  /\ part = "votes" => /\ CurrentRound!MsgTypeOK
                       /\ CurrentRound!MarksHaveJobs /\ CurrentRound!NothingIsAskedTwice
  /\ part = "rounds" => /\ HigherRounds!MsgTypeOK /\ HigherRounds!MarksHaveJobs
                        /\ HigherRounds!HigherRoundsHaveJobs /\ HigherRounds!NothingIsAskedTwice
  /\ part = "behind" => /\ Behind!MsgTypeOK
                        /\ Behind!MarksHaveJobs /\ Behind!NothingIsAskedTwice
  /\ part = "behind one" => /\ BehindOne!MsgTypeOK
                            /\ BehindOne!MarksHaveJobs /\ BehindOne!NothingIsAskedTwice
  /\ part = "proposals" => /\ Proposals!ProposalTypeOK
                           /\ Proposals!SlotsHaveJobs /\ Proposals!OneRequestPerRound

\* All downloaders: a peer that answers what it was asked is not banned, however live consensus
\* and the other peers interfere (#handleJobError, checkResponse), with these exceptions and no
\* others:
\* - blocks: live consensus ends a round while a slice of the batch is deserialised, or has not
\*   yet updated the validator set when the batch starts;
\* - votes: our header changes between the making of the job and the sending of the request;
\*   the job was made for a header one round above ours, and asks in our round for what was
\*   announced there; the answer is of a round above ours of which the peer itself has no +2/3
\*   of both prevotes and precommits;
\* - proposals: our place changes between the start of the job and the sending of the request.
HonestPeersPass ==
  /\ part = "blocks" => Blocks!HonestPeersStay
  /\ part = "votes" => CurrentRound!HonestAnswersPass
  /\ part = "rounds" => HigherRounds!HonestAnswersPass
  /\ part = "behind" => Behind!HonestAnswersPass
  /\ part = "behind one" => BehindOne!HonestAnswersPass
  /\ part = "proposals" => Proposals!HonestAnswersPass

\* Peers: while a ban lasts its peer is not in the repository, at whatever point of its
\* acceptance the ban came; a pending entry is that of a running acceptance, or of one that
\* ended when the worker's Subprocess rejected setPeer, which skips forgetPendingPeer; the
\* transaction pool worker broadcasts to the peers of the node once nothing is under way
\* between the threads; and the main loop ends with dispose (#acceptNewPeer, disposePeer,
\* mainLoop).
RepositoryFollowsBans ==
  part = "peers" =>
    /\ Acceptance!PeersTypeOK
    /\ Acceptance!BannedStayOut /\ Acceptance!PendingIsAccepting
    /\ Acceptance!WorkerAgrees /\ Acceptance!NoLoopAfterDispose

\* WorkerPool: getWorker returns a ready worker that dispose is not about to stop, each worker
\* of an idle pool in turn; when dispose has ended no thread is left, whether it came during
\* the eager boots or while the pool was growing in the background.
WorkersAreAccountedFor ==
  part = "workers" =>
    /\ Workers!PoolTypeOK
    /\ Workers!PoolIsReady /\ Workers!SpreadsEvenly /\ Workers!NoThreadLeft

================================================================================
