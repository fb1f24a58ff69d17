---------------------------- MODULE MessageDownloader ---------------------------
(***************************************************************************)
(* Class MessageDownloader (packages/p2p) and, on the side of the peer,    *)
(* GetMessagesController: the votes a header announces and this node lacks *)
(* are fetched.  A vote is a member of Votes, its type and validator; its  *)
(* block number and round are where it is kept.  The header of a job is    *)
(* taken when the job is made, the one of the request when it is sent,     *)
(* after the throttle and the connection have been awaited.                *)
(***************************************************************************)
EXTENDS Naturals, FiniteSets, Majority

CONSTANTS
  Peers, Honest,     \* peers, and the ones that answer as GetMessagesController does
  Votes,             \* the votes of a round: <<type, validator>>
  roundValidators,   \* validators per round
  MaxBlock,          \* bound: the last block number
  MaxRound,          \* bound: the last round of a block
  MaxJobs            \* bound: the jobs that may run at a time

\* What a module that sets the constants has to assume.
MessageDownloaderAssumption ==
  /\ Honest \subseteq Peers
  /\ MaxBlock \in Nat \ {0} /\ {MaxRound, MaxJobs} \subseteq Nat /\ roundValidators \in Nat \ {0}

VARIABLES
  node,         \* consensus of this node: block number, round and the votes of each round
  peer,         \* the same for each honest peer
  header,       \* peer.header: the last header received
  repository,   \* the peers of the repository
  downloads,    \* #downloadsByBlockNumber: <<block number, round, vote>>
  fullDownloads,\* #fullDownloadsByBlockNumber: <<block number, round>>
  jobs,         \* the jobs of #downloadMessagesFromPeer that have not ended
  trying,       \* tryToDownload is running
  bans,         \* history: the checks by which honest peers were banned, and what the job and
                \* the answer were like
  mixed         \* history: what jobs for votes of a round above their own did to the marks of
                \* the block: the ones they left, and the ones they took from another job

msgVars == <<node, peer, header, repository, downloads, fullDownloads, jobs, trying, bans, mixed>>

Rounds == 0..MaxRound
Place(b) == [block |-> b, round |-> 0, votes |-> [r \in Rounds |-> {}]]

\* HeaderFactory, and the header a peer sends.
HeaderOf(place) == [block |-> place.block, round |-> place.round, votes |-> place.votes[place.round]]

NoRequest == [block |-> 0, round |-> 0, votes |-> {}]

MsgInit ==
  /\ node = Place(1) /\ peer = [p \in Honest |-> Place(1)]
  /\ header = [p \in Peers |-> HeaderOf(Place(1))]
  /\ repository = Peers
  /\ downloads = {} /\ fullDownloads = {} /\ jobs = {}
  /\ trying = FALSE /\ bans = {} /\ mixed = [left |-> {}, taken |-> {}]

Of(type, votes) == {v \in votes : v[1] = type}
Majority(type, votes, more) == isMajority(Cardinality(Of(type, votes)) + more, roundValidators)
Minority(type, votes) == isMinority(Cardinality(Of(type, votes)), roundValidators)

\* #getHighestRoundToDownload
HighestRound(our, their) ==
  IF their.round <= our.round \/ Minority("prevote", their.votes) THEN their.round
  ELSE their.round - 1

\* #getPrevoteIndexesToDownload and #getPrecommitIndexesToDownload
Indexes(our, their) ==
  {v \in their.votes \ our.votes : <<their.block, their.round, v>> \notin downloads}

\* #canDownload
CanDownload(our, their) ==
  /\ our.block = their.block /\ our.round <= their.round
  /\ LET round == HighestRound(our, their)
     IN IF round = our.round THEN Indexes(our, their) # {}
        ELSE \A d \in fullDownloads : d[1] = their.block => round > d[2]

Job(p, our, their, isFull, asked) ==
  [peer |-> p, full |-> isFull, round |-> HighestRound(our, their), block |-> our.block,
   announced |-> their.round, asked |-> asked, our |-> our, request |-> NoRequest]

\* The peer can serve a job, and the bound allows for it.
MayStart(p) == CanDownload(HeaderOf(node), header[p]) /\ Cardinality(jobs) < MaxJobs

\* download, once the block downloader is idle.
StartDownload(p) ==
  LET our == HeaderOf(node)
      their == header[p]
  IN /\ MayStart(p)
     /\ IF HighestRound(our, their) = our.round
        THEN LET asked == Indexes(our, their)
             IN /\ downloads' = downloads \cup {<<their.block, their.round, v>> : v \in asked}
                /\ jobs' = jobs \cup {Job(p, our, their, FALSE, asked)}
                /\ UNCHANGED fullDownloads
        ELSE /\ fullDownloads' = fullDownloads \cup {<<their.block, HighestRound(our, their)>>}
             /\ jobs' = jobs \cup {Job(p, our, their, TRUE, {})}
             /\ UNCHANGED downloads

\* HeaderService.handle, after its delay.
Download(p) ==
  /\ ~trying /\ p \in repository
  /\ StartDownload(p)
  /\ UNCHANGED <<node, peer, header, repository, trying, bans, mixed>>

\* tryToDownload: jobs are made as long as a peer can serve one.
TryToDownload ==
  /\ trying
  /\ IF \E p \in repository : MayStart(p)
     THEN (\E p \in repository : StartDownload(p)) /\ UNCHANGED trying
     ELSE trying' = FALSE /\ UNCHANGED <<downloads, fullDownloads, jobs>>
  /\ UNCHANGED <<node, peer, header, repository, bans, mixed>>

\* PeerCommunicator.#emit sends the request, with the header of this moment.
Emit(job) ==
  /\ ~trying /\ job.request = NoRequest
  /\ jobs' = (jobs \ {job}) \cup {[job EXCEPT !.request = HeaderOf(node)]}
  /\ UNCHANGED <<node, peer, header, repository, downloads, fullDownloads, trying, bans, mixed>>

\* GetMessagesController.handle: the round the votes are of, and the votes.
GetMessages(place, request) ==
  LET minority == \E t \in {"prevote", "precommit"} : Minority(t, place.votes[place.round])
      round == IF place.round > request.round /\ ~minority THEN place.round - 1 ELSE place.round
  IN IF request.block # place.block \/ request.round > place.round THEN [round |-> 0, votes |-> {}]
     ELSE [round |-> round,
           votes |-> place.votes[round] \ IF round = request.round THEN request.votes ELSE {}]

\* Mutant: votes of the current round are checked like those of a higher one.
CheckResponseAsFull(job, answer) ==
  IF answer.votes = {} THEN "ok"
  ELSE IF job.request.block # job.block \/ answer.round < job.round THEN "message"
  ELSE IF job.our.round <= answer.round
       THEN IF \A t \in {"prevote", "precommit"} :
                 Majority(t, answer.votes, Cardinality(Of(t, job.our.votes)))
            THEN "ok" ELSE "full"
       ELSE IF job.asked \subseteq answer.votes THEN "ok" ELSE "partial"

\* #checkMessage and #checkResponse: the check that fails, if any.
CheckResponse(job, answer) ==
  IF answer.votes = {} THEN "ok"
  ELSE IF job.request.block # job.block \/ answer.round < job.round THEN "message"
  ELSE IF job.our.round < answer.round
       THEN IF \A t \in {"prevote", "precommit"} :
                 Majority(t, answer.votes, Cardinality(Of(t, job.our.votes)))
            THEN "ok" ELSE "full"
       ELSE IF job.asked \subseteq answer.votes THEN "ok" ELSE "partial"

\* Mutant: a job without an answer keeps its votes.
RemoveNothing(job) == UNCHANGED <<downloads, fullDownloads>>

\* #removeDownloadJob
RemoveDownloadJob(job) ==
  IF job.full
  THEN fullDownloads' = fullDownloads \ {<<job.block, job.round>>} /\ UNCHANGED downloads
  ELSE /\ downloads' = downloads \ {<<job.block, job.round, v>> : v \in job.asked}
       /\ UNCHANGED fullDownloads

\* The marks of the votes of a job, and of a job's votes in another round.
MarksOf(job, r) == {<<job.block, r, v>> : v \in job.asked}
MarksOfJobs(of) == UNION {MarksOf(job, job.announced) : job \in of}

\* History: download marks votes for the round of the header, and #removePartialDownloadJob
\* unmarks them for the round of the job.
MixedUp(job) ==
  IF job.full \/ job.announced = job.round \/ job.block # node.block
  THEN [mixed EXCEPT !.left = @ \cap downloads']
  ELSE [left  |-> (mixed.left \cup MarksOf(job, job.announced)) \cap downloads',
        taken |-> mixed.taken \cup (MarksOf(job, job.round) \cap MarksOfJobs(jobs \ {job}))]

\* The end of #downloadMessagesFromPeer: the job is removed; after an error the peer is
\* banned or disposed of and tryToDownload runs, unless blocks are being downloaded.
EndJob(job, check, why) ==
  /\ jobs' = jobs \ {job}
  /\ RemoveDownloadJob(job)
  /\ mixed' = MixedUp(job)
  /\ IF check = "ok" THEN UNCHANGED <<repository, trying, bans>>
     ELSE /\ repository' = repository \ {job.peer}
          /\ trying' \in BOOLEAN
          /\ bans' = IF check = "disposed" \/ job.peer \notin Honest THEN bans
                     ELSE bans \cup {[check |-> check, why |-> why]}

\* What the checks do not allow for: our header has changed between the job and the request;
\* the job asked for votes of a round above its own; the answer is of a round above ours, of
\* which the peer itself has no +2/3 of both types.
Why(job, answer) ==
  [moved |-> job.request # job.our,
   ahead |-> ~job.full /\ job.announced > job.round,
   short |-> /\ answer.round > job.our.round
             /\ \E t \in {"prevote", "precommit"} :
                  ~Majority(t, peer[job.peer].votes[answer.round], 0)]

Unexplained == [moved |-> FALSE, ahead |-> FALSE, short |-> FALSE]

\* An honest peer answers: a vote that passes #checkMessage goes through the message
\* processor, which drops one of another block or of a round that is over.
Receive(job) ==
  LET answer == GetMessages(peer[job.peer], job.request)
      check == CheckResponse(job, answer)
      accepted == /\ check # "message" /\ job.request.block = node.block
                  /\ answer.round >= node.round
  IN /\ ~trying /\ job.request # NoRequest /\ job.peer \in Honest
     /\ node' = IF accepted THEN [node EXCEPT !.votes[answer.round] = @ \cup answer.votes] ELSE node
     /\ EndJob(job, check, Why(job, answer))
     /\ UNCHANGED <<peer, header>>

\* Another peer answers nothing, or votes that do not pass; or a connection breaks.
ReceiveOther(job) ==
  /\ ~trying /\ job.request # NoRequest
  /\ \/ job.peer \notin Honest /\ EndJob(job, "ok", Unexplained)
     \/ job.peer \notin Honest /\ EndJob(job, "invalid", Unexplained)
     \/ EndJob(job, "disposed", Unexplained)
  /\ UNCHANGED <<node, peer, header>>

\* A header arrives from a peer; one that is not honest announces any votes.
Header(p) ==
  /\ ~trying
  /\ IF p \in Honest THEN header' = [header EXCEPT ![p] = HeaderOf(peer[p])]
     ELSE \E votes \in SUBSET Votes :
            header' = [header EXCEPT ![p] = [HeaderOf(node) EXCEPT !.votes = votes]]
  /\ UNCHANGED <<node, peer, repository, downloads, fullDownloads, jobs, trying, bans, mixed>>

\* Steps of the consensus: a vote of the current round arrives, or a round starts.  A vote of
\* a later round is not looked at before the round starts, and arrives then.
Later(place) ==
  {[place EXCEPT !.votes[place.round] = @ \cup {v}] : v \in Votes}
    \cup {[place EXCEPT !.round = r] : r \in Rounds \cap {place.round + 1}}

\* This node looks at no vote of a round that is over.
Forget(place) == [place EXCEPT !.votes = [r \in Rounds |-> IF r < place.round THEN {} ELSE @[r]]]

\* A block is applied; the handler of BlockEvent.Applied purges its downloads.
Apply ==
  /\ ~trying /\ node.block < MaxBlock
  /\ node' = Place(node.block + 1)
  /\ downloads' = {d \in downloads : d[1] # node.block}
  /\ fullDownloads' = {d \in fullDownloads : d[1] # node.block}
  /\ mixed' = [left |-> {}, taken |-> {}]
  /\ UNCHANGED <<peer, header, repository, jobs, trying, bans>>

NodeAdvances ==
  /\ ~trying
  /\ node' \in {Forget(place) : place \in Later(node)}
  /\ UNCHANGED <<peer, header, repository, downloads, fullDownloads, jobs, trying, bans, mixed>>

PeerAdvances(p) ==
  /\ ~trying
  /\ \E new \in Later(peer[p]) \cup {Place(b) : b \in {peer[p].block + 1} \cap 1..MaxBlock} :
       peer' = [peer EXCEPT ![p] = new]
  /\ UNCHANGED <<node, header, repository, downloads, fullDownloads, jobs, trying, bans, mixed>>

JobStep(job) == Emit(job) \/ Receive(job) \/ ReceiveOther(job)

MsgNext ==
  \/ \E p \in Peers : Download(p) \/ Header(p)
  \/ \E p \in Honest : PeerAdvances(p)
  \/ \E job \in jobs : JobStep(job)
  \/ TryToDownload \/ Apply \/ NodeAdvances

MsgSpec == MsgInit /\ [][MsgNext]_msgVars

-------------------------------------------------------------------------------

PlaceType ==
  [block : 1..MaxBlock, round : Rounds, votes : [Rounds -> SUBSET Votes]]

\* Downloads are marked for the block number the consensus is at only.
MsgTypeOK ==
  /\ node \in PlaceType /\ peer \in [Honest -> PlaceType]
  /\ header \in [Peers -> [block : 1..MaxBlock, round : Rounds, votes : SUBSET Votes]]
  /\ repository \subseteq Peers /\ trying \in BOOLEAN
  /\ downloads \subseteq {node.block} \X Rounds \X Votes
  /\ fullDownloads \subseteq {node.block} \X Rounds

\* A vote is marked as being downloaded only while a job is fetching it: a mark that outlives
\* its job would keep the vote from ever being asked for (#removePartialDownloadJob).  Except
\* the marks of a job made for a header one round above ours without +1/3 of the prevotes:
\* download sets them for the header's round and the end of the job clears its own round.
MarksHaveJobs == downloads \subseteq MarksOfJobs({job \in jobs : ~job.full}) \cup mixed.left

\* The same for the higher rounds being downloaded: one whose job has ended, by an answer, an
\* error or a broken connection, can be asked for again (#canDownloadFullRound).
HigherRoundsHaveJobs ==
  \A d \in fullDownloads : \E job \in jobs : job.full /\ job.block = d[1] /\ job.round = d[2]

\* No two jobs of the current block fetch the same vote, or the votes of the same higher round;
\* except a vote whose mark such a job has cleared for the one that was fetching it.
NothingIsAskedTwice ==
  \A j, k \in jobs :
    j # k /\ {j.block, k.block} = {node.block} /\ j.full = k.full /\ j.announced = k.announced
      => IF j.full THEN j.round # k.round
         ELSE MarksOf(j, j.announced) \cap MarksOf(k, k.announced) \subseteq mixed.taken

\* An honest peer is banned for one of three reasons only: our own header changed between the
\* making of the job and the sending of the request; the job was made for a header one round
\* above ours, and asked for the votes announced there while the answer is of our round; or
\* the answer is of a round above ours of which the peer has no +2/3 of prevotes and
\* precommits, which #checkFullRoundResponse demands of it.
HonestAnswersPass ==
  \A b \in bans : \/ b.why.moved
                  \/ b.check = "partial" /\ b.why.ahead
                  \/ b.check = "full" /\ b.why.short

\* A vote that a connected honest peer announces for our round is missing, and its mark is not
\* one left behind by a job that was made while the peer was a round ahead.
IsMissing(p, v) ==
  /\ p \in repository /\ v \in header[p].votes
  /\ <<header[p].block, header[p].round>> = <<node.block, node.round>>
  /\ <<peer[p].block, peer[p].round>> = <<node.block, node.round>>
  /\ v \notin node.votes[node.round]
  /\ <<node.block, node.round, v>> \notin mixed.left

================================================================================
