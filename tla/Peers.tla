---------------------------------- MODULE Peers ---------------------------------
(***************************************************************************)
(* The peers of a node (packages/p2p): how PeerProcessor accepts a peer,   *)
(* with PeerVerifier, TxPoolNodeVerifier and the recursive discovery of    *)
(* PeerDiscoverer; how PeerDisposer bans and disposes of one; the loop of  *)
(* the P2P Service that verifies known peers again; and the copy of the    *)
(* peer list that the transaction pool worker keeps, with the messages     *)
(* between the two threads.  An ip stands for the peer; verdicts of the    *)
(* verifiers and the moments of bans and disconnects are left open.        *)
(***************************************************************************)
EXTENDS Naturals, Sequences

CONSTANTS
  Ips,        \* the ips of peers
  MaxQueue,   \* bound: requests to the worker that may be under way
  MaxRemoved  \* bound: PeerEvent.Removed of the worker that may be under way

\* What a module that sets the constants has to assume.
PeersAssumption == {MaxQueue, MaxRemoved} \subseteq Nat \ {0}

VARIABLES
  blacklist,  \* PeerDisposer.#blacklist: the bans that are not over
  peers,      \* PeerRepository.#peers
  pending,    \* PeerRepository.#peersPending
  stage,      \* where the running #acceptNewPeer of an ip is, or "idle"
  todo,       \* the ips that the discovery of that call has still to offer
  parent,     \* the ip whose discovery waits for that call, itself if none does
  verifying,  \* Service.#verifyingPeers
  loop,       \* Service.mainLoop: its timer is armed, it runs, or it has ended
  disposed,   \* Service.#disposed
  toWorker,   \* requests to the worker that it has not handled
  worker,     \* the peers of the worker's repository
  posting,    \* ips the worker is sending transactions to
  toMain,     \* the worker's PeerEvent.Removed that have not been handled
  rejected    \* history: ips whose setPeer of the worker has been rejected

peersVars == <<blacklist, peers, pending, stage, todo, parent, verifying, loop, disposed,
               toWorker, worker, posting, toMain, rejected>>

acceptVars == <<pending, stage, todo, parent>>
serviceVars == <<verifying, loop, disposed>>
workerVars == <<worker, posting, toMain, rejected>>

PeersInit ==
  /\ blacklist = {} /\ peers = {} /\ pending = {}
  /\ stage = [ip \in Ips |-> "idle"]
  /\ todo = [ip \in Ips |-> {}]
  /\ parent = [ip \in Ips |-> ip]
  /\ verifying = {} /\ loop = "armed" /\ disposed = FALSE
  /\ toWorker = <<>> /\ worker = {} /\ posting = {} /\ toMain = <<>> /\ rejected = {}

Request(op, ip) == [op |-> op, ip |-> ip]

QueueHasRoom == Len(toWorker) < MaxQueue

\* disposePeer.
DisposePeer(ip) ==
  IF ip \in peers
  THEN /\ QueueHasRoom
       /\ peers' = peers \ {ip}
       /\ toWorker' = Append(toWorker, Request("forgetPeer", ip))
  ELSE UNCHANGED <<peers, toWorker>>

\* banPeer: a transport error disposes of the peer, any other bans it as well.
BanPeer(ip) ==
  IF ip \in blacklist THEN UNCHANGED <<blacklist, peers, toWorker>>
  ELSE /\ blacklist' \in {blacklist, blacklist \cup {ip}}
       /\ DisposePeer(ip)

\* validateAndAcceptPeer lets the ip through.
Valid(ip) == ip \notin peers \cup pending \cup blacklist

\* validateAndAcceptPeer, up to the first await of #acceptNewPeer; by is the peer whose
\* discovery calls it, or the ip itself.
StartAccept(ip, by) ==
  /\ pending' = pending \cup {ip}
  /\ stage' = [stage EXCEPT ![ip] = "verify"]
  /\ parent' = [parent EXCEPT ![ip] = by]

\* A peer connects, or a seed is offered.
Offer(ip) ==
  /\ Valid(ip)
  /\ StartAccept(ip, ip)
  /\ UNCHANGED <<blacklist, peers, todo, serviceVars, toWorker, workerVars>>

\* The end of #acceptNewPeer.
EndAccept(ip) ==
  /\ pending' = pending \ {ip}
  /\ stage' = [stage EXCEPT ![ip] = "idle"]
  /\ parent' = [parent EXCEPT ![ip] = ip]
  /\ UNCHANGED todo

\* PeerVerifier.verify ends: a failure bans or disposes of the peer.
PeerVerified(ip) ==
  /\ stage[ip] = "verify"
  /\ \/ /\ stage' = [stage EXCEPT ![ip] = "txpool"]
        /\ UNCHANGED <<blacklist, peers, toWorker, pending, todo, parent>>
     \/ BanPeer(ip) /\ EndAccept(ip)
  /\ UNCHANGED <<serviceVars, workerVars>>

\* Mutant: the ban is not looked up again after the awaits.
MayEnterUnchecked(ip) == TRUE

\* The second isBanned of #acceptNewPeer.
MayEnter(ip) == ip \notin blacklist

\* TxPoolNodeVerifier.verify ends: the peer enters the repository, and the worker is told.
NodeVerified(ip) ==
  /\ stage[ip] = "txpool"
  /\ \/ /\ MayEnter(ip) /\ QueueHasRoom
        /\ peers' = peers \cup {ip}
        /\ toWorker' = Append(toWorker, Request("setPeer", ip))
        /\ stage' = [stage EXCEPT ![ip] = "set"]
        /\ UNCHANGED <<pending, todo, parent>>
     \/ EndAccept(ip) /\ UNCHANGED <<peers, toWorker>>
  /\ UNCHANGED <<blacklist, serviceVars, workerVars>>

\* The worker has answered, and getPeers of discoverPeers brings a list of ips.
Discover(ip) ==
  /\ stage[ip] = "set"
  /\ \A i \in DOMAIN toWorker : toWorker[i] # Request("setPeer", ip)
  /\ stage' = [stage EXCEPT ![ip] = "discover"]
  /\ \E found \in SUBSET Ips : todo' = [todo EXCEPT ![ip] = found]
  /\ UNCHANGED <<blacklist, peers, pending, parent, serviceVars, toWorker, workerVars>>

\* The worker's reply to some request cannot be deserialised: rejectPending of Subprocess rejects
\* the setPeer that is in flight.  #acceptNewPeer ends there, without forgetPendingPeer; a
\* discovery that waits for it ends, and its peer is banned for the error.
SetPeerRejected(ip) ==
  LET by == parent[ip]
  IN /\ stage[ip] = "set"
     /\ rejected' = rejected \cup {ip}
     /\ stage' = [stage EXCEPT ![ip] = "idle"]
     /\ parent' = [parent EXCEPT ![ip] = ip]
     /\ todo' = IF by = ip THEN todo ELSE [todo EXCEPT ![by] = {}]
     /\ IF by \in {ip} \cup blacklist THEN UNCHANGED <<blacklist, peers, toWorker>>
        ELSE blacklist' = blacklist \cup {by} /\ DisposePeer(by)
  /\ UNCHANGED <<pending, serviceVars, worker, posting, toMain>>

\* getPeers fails: the peer is banned or disposed of.
DiscoverFails(ip) ==
  /\ stage[ip] = "set"
  /\ \A i \in DOMAIN toWorker : toWorker[i] # Request("setPeer", ip)
  /\ stage' = [stage EXCEPT ![ip] = "discover"]
  /\ BanPeer(ip)
  /\ UNCHANGED <<pending, todo, parent, serviceVars, workerVars>>

Waiting(ip) == \E child \in Ips \ {ip} : parent[child] = ip

\* discoverPeers offers the next ip and waits for its acceptance.
OfferDiscovered(ip, next) ==
  /\ stage[ip] = "discover" /\ ~Waiting(ip) /\ next \in todo[ip]
  /\ todo' = [todo EXCEPT ![ip] = @ \ {next}]
  /\ IF Valid(next) THEN StartAccept(next, ip) ELSE UNCHANGED <<pending, stage, parent>>
  /\ UNCHANGED <<blacklist, peers, serviceVars, toWorker, workerVars>>

\* The discovery is over.
Accepted(ip) ==
  /\ stage[ip] = "discover" /\ ~Waiting(ip) /\ todo[ip] = {}
  /\ EndAccept(ip)
  /\ UNCHANGED <<blacklist, peers, serviceVars, toWorker, workerVars>>

\* A request, answer or message of the peer is wrong, or its connection fails.
Ban(ip) ==
  /\ BanPeer(ip)
  /\ UNCHANGED <<acceptVars, serviceVars, workerVars>>

\* The peer disconnects, or its version is refused by a new milestone.
Disconnect(ip) ==
  /\ DisposePeer(ip)
  /\ UNCHANGED <<blacklist, acceptVars, serviceVars, workerVars>>

\* A ban is over.
BanEnds(ip) ==
  /\ blacklist' = blacklist \ {ip}
  /\ UNCHANGED <<peers, acceptVars, serviceVars, toWorker, workerVars>>

\* mainLoop: cleansePeers starts the verification of some peers.
Cleanse ==
  /\ loop = "armed" /\ loop' = "running"
  /\ \E chosen \in SUBSET (peers \ verifying) : verifying' = verifying \cup chosen
  /\ UNCHANGED <<blacklist, peers, acceptVars, disposed, toWorker, workerVars>>

\* One of them ends, before or after the loop has gone on.
Verified(ip) ==
  /\ ip \in verifying /\ verifying' = verifying \ {ip}
  /\ BanPeer(ip) \/ UNCHANGED <<blacklist, peers, toWorker>>
  /\ UNCHANGED <<acceptVars, loop, disposed, workerVars>>

\* The timer that mainLoop leaves.
Rearm == IF disposed THEN "ended" ELSE "armed"

\* All are verified, or the cutoff of cleansePeers has passed.
LoopEnds ==
  /\ loop = "running" /\ loop' = Rearm
  /\ UNCHANGED <<blacklist, peers, acceptVars, verifying, disposed, toWorker, workerVars>>

\* Service.dispose.
Dispose ==
  /\ ~disposed /\ disposed' = TRUE
  /\ loop' = IF loop = "armed" THEN "ended" ELSE loop
  /\ UNCHANGED <<blacklist, peers, acceptVars, verifying, toWorker, workerVars>>

\* The worker handles a request.
HandleRequest ==
  /\ toWorker # <<>> /\ toWorker' = Tail(toWorker)
  /\ worker' = IF Head(toWorker).op = "setPeer" THEN worker \cup {Head(toWorker).ip}
               ELSE worker \ {Head(toWorker).ip}
  /\ UNCHANGED <<blacklist, peers, acceptVars, serviceVars, posting, toMain, rejected>>

\* The worker sends transactions to one of its peers.
Post(ip) ==
  /\ ip \in worker /\ posting' = posting \cup {ip}
  /\ UNCHANGED <<blacklist, peers, acceptVars, serviceVars, toWorker, worker, toMain, rejected>>

\* handleSocketError with too many errors: the ip is forgotten, also when it has been set
\* again since, and the main thread told.
Forget(ip) == worker' = worker \ {ip} /\ toMain' = Append(toMain, ip)

\* The transactions have been sent, or could not be.
Posted(ip) ==
  /\ ip \in posting /\ posting' = posting \ {ip}
  /\ \/ UNCHANGED <<worker, toMain>>
     \/ Len(toMain) < MaxRemoved /\ Forget(ip)
  /\ UNCHANGED <<blacklist, peers, acceptVars, serviceVars, toWorker, rejected>>

\* The listener of PeerEvent.Removed.
PeerRemoved ==
  /\ toMain # <<>> /\ toMain' = Tail(toMain)
  /\ DisposePeer(Head(toMain))
  /\ UNCHANGED <<blacklist, acceptVars, serviceVars, worker, posting, rejected>>

AcceptStep(ip) ==
  \/ PeerVerified(ip) \/ NodeVerified(ip) \/ Discover(ip) \/ DiscoverFails(ip) \/ Accepted(ip)
  \/ SetPeerRejected(ip)
  \/ \E next \in Ips : OfferDiscovered(ip, next)

AcceptanceNext ==
  \/ \E ip \in Ips : Offer(ip) \/ AcceptStep(ip) \/ Ban(ip) \/ Disconnect(ip) \/ BanEnds(ip)
  \/ HandleRequest

PeersNext ==
  \/ AcceptanceNext
  \/ \E ip \in Ips : Verified(ip) \/ Post(ip) \/ Posted(ip)
  \/ Cleanse \/ LoopEnds \/ Dispose \/ PeerRemoved

PeersSpec == PeersInit /\ [][PeersNext]_peersVars

-------------------------------------------------------------------------------

PeersTypeOK ==
  /\ blacklist \subseteq Ips /\ peers \subseteq Ips /\ pending \subseteq Ips
  /\ stage \in [Ips -> {"idle", "verify", "txpool", "set", "discover"}]
  /\ todo \in [Ips -> SUBSET Ips] /\ parent \in [Ips -> Ips]
  /\ verifying \subseteq Ips /\ loop \in {"armed", "running", "ended"} /\ disposed \in BOOLEAN
  /\ toWorker \in Seq([op : {"setPeer", "forgetPeer"}, ip : Ips])
  /\ worker \subseteq Ips /\ posting \subseteq Ips /\ toMain \in Seq(Ips)
  /\ rejected \subseteq Ips
  /\ \A ip \in Ips : /\ todo[ip] # {} => stage[ip] = "discover"
                     /\ parent[ip] # ip => stage[ip] # "idle" /\ stage[parent[ip]] = "discover"

\* "A banned peer must never enter the repository" (#acceptNewPeer): while a ban lasts its peer
\* is not in the repository, at whatever point of its acceptance the ban came.
BannedStayOut == peers \cap blacklist = {}

\* A pending entry has a running acceptance, and an ip that is accepted has one: an entry left
\* behind would keep the ip out for ever, and without one it would be accepted twice.  Except
\* the entry of an ip whose setPeer the worker's Subprocess has rejected, which stays.
PendingIsAccepting == pending = {ip \in Ips : stage[ip] # "idle"} \cup rejected

\* When nothing is under way between the threads, the peers transactions are broadcast to are
\* the peers of the node, however accepting, disposing and failing broadcasts interleave.
WorkerAgrees == toWorker = <<>> /\ toMain = <<>> => worker = peers

\* The loop ends with dispose, also when it comes while peers are being verified.
NoLoopAfterDispose == disposed => loop # "armed"

================================================================================
