--------------------------- MODULE ProposalDownloader ---------------------------
(***************************************************************************)
(* Class ProposalDownloader (packages/p2p) with HeaderService, which       *)
(* starts the downloads when the header of a peer arrives, and the         *)
(* GetProposal controller of an honest peer.  A place is a block number    *)
(* and a round.  The headers of a request are those of the moment it is    *)
(* sent, after the throttle and the connection, and not those the job was  *)
(* made for.                                                               *)
(***************************************************************************)
EXTENDS Naturals

CONSTANTS
  Peers,     \* every peer the node may know
  Honest,    \* the ones that answer as GetProposalController does
  Reliable,  \* honest ones that never lose their connection
  MaxBlock,  \* bound: block numbers 0..MaxBlock
  MaxRound   \* bound: rounds 0..MaxRound

\* What a module that sets the constants has to assume.
ProposalDownloaderAssumption ==
  /\ Reliable \subseteq Honest /\ Honest \subseteq Peers
  /\ MaxBlock \in Nat /\ MaxRound \in Nat

VARIABLES
  node,        \* our place and whether its round state has a proposal
  peer,        \* the place of each honest peer and the rounds of its block it has proposals of
  header,      \* peer.header of each peer
  checking,    \* HeaderService.#pending
  repository,  \* the peers of the repository
  blocking,    \* blockDownloader.isDownloading()
  downloads,   \* #downloadsByBlockNumber, as a set of places
  jobs,        \* the running calls of #downloadProposalFromPeer
  bans         \* history: the honest peers that were banned, and whether our place had
               \* moved when the request was sent

proposalVars ==
  <<node, peer, header, checking, repository, blocking, downloads, jobs, bans>>

Place == [block : 0..MaxBlock, round : 0..MaxRound]
PlaceOf(x) == [block |-> x.block, round |-> x.round]

HeaderOf(p) ==
  [block |-> peer[p].block, round |-> peer[p].round, proposed |-> peer[p].round \in peer[p].proposals]

HonestBans == [peer : Honest, moved : BOOLEAN]

Headers == [block : 0..MaxBlock, round : 0..MaxRound, proposed : BOOLEAN]

ProposalInit ==
  /\ node = [block |-> 0, round |-> 0, proposal |-> FALSE]
  /\ peer = [p \in Honest |-> [block |-> 0, round |-> 0, proposals |-> {}]]
  /\ header = [p \in Peers |-> [block |-> 0, round |-> 0, proposed |-> FALSE]]
  /\ checking = {} /\ repository = Peers /\ blocking = FALSE
  /\ downloads = {} /\ jobs = {} /\ bans = {}

\* #canDownload, with the slots that are taken.
CanDownload(p, taken) ==
  /\ PlaceOf(header[p]) = PlaceOf(node)
  /\ PlaceOf(node) \notin taken
  /\ ~node.proposal /\ header[p].proposed

\* A DownloadJob, the place its request has been sent for and whether its proposal is valid.
Job(p) ==
  [peer |-> p, place |-> PlaceOf(header[p]), stage |-> "made", asked |-> PlaceOf(node), valid |-> FALSE]

\* download of one of the peers that can serve us, if there is one: the jobs js and the
\* slots taken are those left by the caller.
StartOne(candidates, js, taken) ==
  LET able == IF blocking THEN {} ELSE {p \in candidates : CanDownload(p, taken)}
  IN IF able = {} THEN jobs' = js /\ downloads' = taken
     ELSE \E p \in able :
            jobs' = js \cup {Job(p)} /\ downloads' = taken \cup {PlaceOf(header[p])}

\* HeaderService.handle: a message of the peer brings its header.  Another peer announces a
\* proposal of our place; any other header of it is without effect until it changes.
Header(p) ==
  /\ header' = [header EXCEPT ![p] =
       IF p \in Honest THEN HeaderOf(p)
       ELSE [block |-> node.block, round |-> node.round, proposed |-> TRUE]]
  /\ checking' = checking \cup {p}
  /\ UNCHANGED <<node, peer, repository, blocking, downloads, jobs, bans>>

\* The delay of HeaderService is over: download(peer) with the latest header.
Check(p) ==
  /\ p \in checking /\ checking' = checking \ {p}
  /\ StartOne({p} \cap repository, jobs, downloads)
  /\ UNCHANGED <<node, peer, header, repository, blocking, bans>>

\* PeerCommunicator.#emit sends the request with our header.
Emit(j) ==
  /\ j.stage = "made"
  /\ jobs' = (jobs \ {j}) \cup {[j EXCEPT !.stage = "sent", !.asked = PlaceOf(node)]}
  /\ UNCHANGED <<node, peer, header, checking, repository, blocking, downloads, bans>>

\* The GetProposal controller of an honest peer: whether it has a proposal of the place.
GetProposal(p, asked) ==
  /\ asked.block = peer[p].block /\ asked.round <= peer[p].round
  /\ asked.round \in peer[p].proposals

\* The proposals a peer may send, and whether it may send none.
Answers(j) ==
  IF j.peer \notin Honest THEN [place : Place, valid : BOOLEAN]
  ELSE IF GetProposal(j.peer, j.asked) THEN {[place |-> j.asked, valid |-> TRUE]} ELSE {}

MayBeEmpty(j) == j.peer \in Honest => ~GetProposal(j.peer, j.asked)

\* #removeDownload.
RemoveDownload(j, taken) == taken \ {j.place}

\* The job ends without an error.
EndJob(j) ==
  /\ jobs' = jobs \ {j}
  /\ downloads' = RemoveDownload(j, downloads)
  /\ UNCHANGED <<checking, repository, bans>>

\* The job ends with an error: banPeer, which bans for a bad answer and disposes of the
\* peer otherwise, and tryToDownload from another one.
FailJob(j, ban) ==
  /\ repository' = repository \ {j.peer}
  /\ bans' = IF ban THEN bans \cup ({[peer |-> j.peer, moved |-> j.asked # j.place]} \cap HonestBans)
             ELSE bans
  /\ StartOne(repository', jobs \ {j}, RemoveDownload(j, downloads))
  /\ UNCHANGED checking

\* The block number and the round of the proposal are those of the job.
Matches(j, a) == a.place = j.place

\* The answer of the peer: nothing, a proposal of another place, or one to process.
Receive(j) ==
  /\ j.stage = "sent"
  /\ \/ MayBeEmpty(j) /\ EndJob(j)
     \/ \E a \in Answers(j) : ~Matches(j, a) /\ FailJob(j, TRUE)
     \/ /\ \E a \in Answers(j) :
             Matches(j, a) /\ jobs' = (jobs \ {j}) \cup {[j EXCEPT !.stage = "processing", !.valid = a.valid]}
        /\ UNCHANGED <<checking, repository, downloads, bans>>
  /\ UNCHANGED <<node, peer, header, blocking>>

\* The request fails, or no answer comes in time.
Fail(j) ==
  /\ j.stage # "processing" /\ j.peer \notin Reliable
  /\ FailJob(j, FALSE)
  /\ UNCHANGED <<node, peer, header, blocking>>

\* proposalProcessor.process: skipped when the place is not ours, or there is a proposal.
Process(j) ==
  /\ j.stage = "processing"
  /\ LET live == j.place = PlaceOf(node) /\ ~node.proposal
     IN \/ /\ live => j.valid
           /\ node' = [node EXCEPT !.proposal = @ \/ live]
           /\ EndJob(j)
        \/ /\ live /\ ~j.valid
           /\ FailJob(j, TRUE)
           /\ UNCHANGED node
  /\ UNCHANGED <<peer, header, blocking>>

\* A proposal arrives from the proposer or a broadcast.
Proposed ==
  /\ ~node.proposal
  /\ node' = [node EXCEPT !.proposal = TRUE]
  /\ UNCHANGED <<peer, header, checking, repository, blocking, downloads, jobs, bans>>

\* Consensus moves to the next round.
NextRound ==
  /\ node.round < MaxRound
  /\ node' = [block |-> node.block, round |-> node.round + 1, proposal |-> FALSE]
  /\ UNCHANGED <<peer, header, checking, repository, blocking, downloads, jobs, bans>>

\* Mutant: the slots of an applied block are kept.
AppliedWithoutPurge == UNCHANGED downloads

\* The listener of BlockEvent.Applied.
Applied == downloads' = {d \in downloads : d.block # node.block}

\* A block is committed.
Commit ==
  /\ node.block < MaxBlock
  /\ node' = [block |-> node.block + 1, round |-> 0, proposal |-> FALSE]
  /\ Applied
  /\ UNCHANGED <<peer, header, checking, repository, blocking, jobs, bans>>

\* An honest peer gets a proposal, or moves to its next round or block.
PeerMoves(p) ==
  /\ \/ peer' = [peer EXCEPT ![p].proposals = @ \cup {peer[p].round}]
     \/ /\ peer[p].round < MaxRound
        /\ peer' = [peer EXCEPT ![p].round = @ + 1]
     \/ /\ peer[p].block < MaxBlock
        /\ peer' = [peer EXCEPT ![p] = [block |-> @.block + 1, round |-> 0, proposals |-> {}]]
  /\ UNCHANGED <<node, header, checking, repository, blocking, downloads, jobs, bans>>

\* The block downloader starts or ends its work.
Blocking ==
  /\ blocking' = ~blocking
  /\ UNCHANGED <<node, peer, header, checking, repository, downloads, jobs, bans>>

\* A peer that was disposed of, or whose ban is over, connects again.
Reconnect(p) ==
  /\ p \notin repository
  /\ repository' = repository \cup {p}
  /\ UNCHANGED <<node, peer, header, checking, blocking, downloads, jobs, bans>>

JobStep(j) == Emit(j) \/ Receive(j) \/ Fail(j) \/ Process(j)

ProposalNext ==
  \/ \E p \in Peers : Header(p) \/ Check(p) \/ Reconnect(p)
  \/ \E j \in jobs : JobStep(j)
  \/ \E p \in Honest : PeerMoves(p)
  \/ Proposed \/ NextRound \/ Commit \/ Blocking

ProposalSpec == ProposalInit /\ [][ProposalNext]_proposalVars

-------------------------------------------------------------------------------

ProposalTypeOK ==
  /\ node \in [block : 0..MaxBlock, round : 0..MaxRound, proposal : BOOLEAN]
  /\ peer \in [Honest -> [block : 0..MaxBlock, round : 0..MaxRound, proposals : SUBSET (0..MaxRound)]]
  /\ header \in [Peers -> Headers]
  /\ checking \subseteq Peers /\ repository \subseteq Peers /\ blocking \in BOOLEAN
  /\ downloads \subseteq Place
  /\ jobs \subseteq [peer : Peers, place : Place, stage : {"made", "sent", "processing"},
                     asked : Place, valid : BOOLEAN]
  /\ bans \subseteq HonestBans

\* A slot of #downloadsByBlockNumber belongs to a running request: a slot that outlived its
\* request would keep the round from ever being asked for again.
SlotsHaveJobs == \A d \in downloads : \E j \in jobs : j.place = d

\* At most one request for a round is under way, and no slot of a block that is applied
\* remains: the purge of the Applied listener does not open the round to a second request.
OneRequestPerRound ==
  /\ \A i, j \in jobs : i.place = j.place => i = j
  /\ \A d \in downloads : d.block >= node.block
  /\ \A j \in jobs : j.place.block >= node.block => j.place \in downloads

\* A peer that answers as the controller does is banned only when our own place moved between
\* the start of the job and the sending of the request: no move of the peer, and none of
\* ours after the request is sent, makes its answer fail.
HonestAnswersPass == \A b \in bans : b.moved

\* The proposal of our round d, which a connected peer announces, is missing.
IsMissing(p, d) ==
  /\ p \in repository /\ header[p] = [block |-> d.block, round |-> d.round, proposed |-> TRUE]
  /\ PlaceOf(node) = d /\ ~node.proposal

================================================================================
