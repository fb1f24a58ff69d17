------------------------------ MODULE Tendermint ------------------------------
(***************************************************************************)
(* The decision of one block number by a whole network, as the consensus   *)
(* package promises it (packages/consensus/source/consensus.ts, which      *)
(* follows Algorithm 1 of "The latest gossip on BFT consensus").           *)
(*                                                                         *)
(* Every correct node runs the rules of class Consensus for the validators *)
(* it hosts.  Its state here is what it has made durable: a node that      *)
(* crashes comes back with exactly this state, so a crash is no step of    *)
(* this specification, and a vote that a crash cut off is a vote that is   *)
(* never cast.  Messages are the votes themselves: a vote once cast can be *)
(* counted by anybody at any later time, or never, which covers loss,      *)
(* delay, duplication and reordering.  Who proposes what is left open: any *)
(* block may be proposed in any round, with or without a valid round.      *)
(***************************************************************************)
EXTENDS Majority, FiniteSets

CONSTANTS
  Validators,   \* the round validators of the block number
  Faulty,       \* the ones that sign whatever they like
  Nodes,        \* the correct nodes
  host,         \* host[v]: the node that runs the correct validator v
  Blocks,       \* the block hashes that may be voted for
  Nil,          \* the vote for no block (blockHash undefined)
  Rounds,       \* consensus rounds
  EarlyVotes    \* votes the faulty validators have out at the start

None == -1      \* no locked round

Values == Blocks \cup {Nil}

Votes == Validators \X Rounds \X Values

ASSUME ConstantsAssumption ==
  /\ IsFiniteSet(Validators)
  /\ Faulty \subseteq Validators
  /\ host \in [Validators \ Faulty -> Nodes]
  /\ Nil \notin Blocks
  /\ Rounds \subseteq Nat /\ 0 \in Rounds
  /\ EarlyVotes \subseteq Faulty \X Rounds \X Values

VARIABLES
  round,        \* round[n]: #round
  step,         \* step[n]: #step; "decided" once the node has left the block number
  lockedRound,  \* lockedRound[n]: round of #lockedValue, None without a lock
  lockedValue,  \* lockedValue[n]: block hash of #lockedValue, Nil without a lock
  decision,     \* decision[n]: the block the node committed, Nil before
  prevotes,     \* prevotes cast
  precommits    \* precommits cast

vars == <<round, step, lockedRound, lockedValue, decision, prevotes, precommits>>

Correct == Validators \ Faulty

Hosted(n) == {v \in Correct : host[v] = n}

Voters(votes, r, x) == {v \in Validators : <<v, r, x>> \in votes}

\* +2/3 of the round validators voted for x in round r.
HasMajority(votes, r, x) ==
  isMajority(Cardinality(Voters(votes, r, x)), Cardinality(Validators))

HasVoted(votes, v, r) == \E x \in Values : <<v, r, x>> \in votes

-------------------------------------------------------------------------------
(* The mutated definitions, each with a remark, are slips the code behind the  *)
(* definition after them could contain.                                        *)

Init ==
  /\ round = [n \in Nodes |-> 0]
  /\ step = [n \in Nodes |-> "propose"]
  /\ lockedRound = [n \in Nodes |-> None]
  /\ lockedValue = [n \in Nodes |-> Nil]
  /\ decision = [n \in Nodes |-> Nil]
  /\ prevotes = EarlyVotes
  /\ precommits = EarlyVotes

\* startRound: a precommit timeout or f+1 votes of a later round.
StartRound(n, r) ==
  /\ step[n] # "decided"
  /\ r > round[n]
  /\ round' = [round EXCEPT ![n] = r]
  /\ step' = [step EXCEPT ![n] = "propose"]
  /\ UNCHANGED <<lockedRound, lockedValue, decision, prevotes, precommits>>

\* The propose step ends: on a processed proposal or on the propose timeout.
EnterPrevote(n) ==
  /\ step[n] = "propose"
  /\ step' = [step EXCEPT ![n] = "prevote"]
  /\ UNCHANGED <<round, lockedRound, lockedValue, decision, prevotes, precommits>>

AllowedWithoutProof(n, x) ==       \* onProposal: the lock is not looked at
  x \in Blocks

\* What onProposal (no lock) and onProposalLocked (a lock proof of round vr) let a
\* node prevote for.
AllowedByLock(n, x) ==
  \/ lockedRound[n] = None
  \/ \E vr \in Rounds :
       /\ vr < round[n]
       /\ HasMajority(prevotes, vr, x)
       /\ lockedRound[n] <= vr \/ lockedValue[n] = x

\* prevote(value), for one hosted validator.
Prevote(n, v, x) ==
  /\ step[n] = "prevote"
  /\ v \in Hosted(n)
  /\ ~HasVoted(prevotes, v, round[n])
  /\ x = Nil \/ AllowedByLock(n, x)
  /\ prevotes' = prevotes \cup {<<v, round[n], x>>}
  /\ UNCHANGED <<round, step, lockedRound, lockedValue, decision, precommits>>

\* onMajorityPrevote in the prevote step: lock the block of the round.
Lock(n, x) ==
  /\ step[n] = "prevote"
  /\ HasMajority(prevotes, round[n], x)
  /\ lockedRound' = [lockedRound EXCEPT ![n] = round[n]]
  /\ lockedValue' = [lockedValue EXCEPT ![n] = x]
  /\ step' = [step EXCEPT ![n] = "precommit"]
  /\ UNCHANGED <<round, decision, prevotes, precommits>>

\* The prevote step ends without a lock: +2/3 prevotes for nil, or the prevote timeout.
EnterPrecommit(n) ==
  /\ step[n] = "prevote"
  /\ step' = [step EXCEPT ![n] = "precommit"]
  /\ UNCHANGED <<round, lockedRound, lockedValue, decision, prevotes, precommits>>

\* precommit(value), for one hosted validator.
Precommit(n, v, x) ==
  /\ step[n] = "precommit"
  /\ v \in Hosted(n)
  /\ ~HasVoted(precommits, v, round[n])
  /\ \/ x = Nil
     \/ lockedRound[n] = round[n] /\ lockedValue[n] = x
  /\ precommits' = precommits \cup {<<v, round[n], x>>}
  /\ UNCHANGED <<round, step, lockedRound, lockedValue, decision, prevotes>>

\* onMajorityPrecommit: commit the block and leave the block number, whatever the
\* round of the +2/3 precommits and whatever the step of the node.
Decide(n, r, x) ==
  /\ step[n] # "decided"
  /\ HasMajority(precommits, r, x)
  /\ decision' = [decision EXCEPT ![n] = x]
  /\ step' = [step EXCEPT ![n] = "decided"]
  /\ round' = [round EXCEPT ![n] = 0]
  /\ lockedRound' = [lockedRound EXCEPT ![n] = None]
  /\ lockedValue' = [lockedValue EXCEPT ![n] = Nil]
  /\ UNCHANGED <<prevotes, precommits>>

\* Faulty validators sign anything for any round, several of them at once.
FaultyPrevotes(Q, r, x) ==
  /\ prevotes' = prevotes \cup (Q \X {r} \X {x})
  /\ UNCHANGED <<round, step, lockedRound, lockedValue, decision, precommits>>

FaultyPrecommits(Q, r, x) ==
  /\ precommits' = precommits \cup (Q \X {r} \X {x})
  /\ UNCHANGED <<round, step, lockedRound, lockedValue, decision, prevotes>>

NodeStep(n) ==
  \/ \E r \in Rounds : StartRound(n, r)
  \/ EnterPrevote(n)
  \/ \E v \in Correct, x \in Values : Prevote(n, v, x)
  \/ \E x \in Blocks : Lock(n, x)
  \/ EnterPrecommit(n)
  \/ \E v \in Correct, x \in Values : Precommit(n, v, x)
  \/ \E r \in Rounds, x \in Blocks : Decide(n, r, x)

FaultyStep ==
  \E Q \in (SUBSET Faulty) \ {{}}, r \in Rounds, x \in Values :
    FaultyPrevotes(Q, r, x) \/ FaultyPrecommits(Q, r, x)

Next == (\E n \in Nodes : NodeStep(n)) \/ FaultyStep

Spec == Init /\ [][Next]_vars

-------------------------------------------------------------------------------

\* Every variable keeps the type the code gives it.
TypeOK ==
  /\ round \in [Nodes -> Rounds]
  /\ step \in [Nodes -> {"propose", "prevote", "precommit", "decided"}]
  /\ lockedRound \in [Nodes -> Rounds \cup {None}]
  /\ lockedValue \in [Nodes -> Values]
  /\ decision \in [Nodes -> Values]
  /\ prevotes \subseteq Votes
  /\ precommits \subseteq Votes

\* The position of the node of v is past round r: no vote of v for round r can follow.
HasLeft(v, r) == step[host[v]] = "decided" \/ round[host[v]] > r

\* A correct validator votes only for rounds its node has reached, and in a round only
\* once the step of the vote is reached (the step is stored before the vote is signed).
VotesBehindStep ==
  \A v \in Correct, r \in Rounds :
    /\ HasVoted(prevotes, v, r) =>
         \/ HasLeft(v, r)
         \/ round[host[v]] = r /\ step[host[v]] \in {"prevote", "precommit"}
    /\ HasVoted(precommits, v, r) =>
         \/ HasLeft(v, r)
         \/ round[host[v]] = r /\ step[host[v]] = "precommit"

\* A correct validator never signs two different prevotes, or two different
\* precommits, for one round (prevote and precommit, whatever crashes in between).
OneVotePerRound ==
  \A v \in Correct, r \in Rounds, x, y \in Values :
    /\ <<v, r, x>> \in prevotes /\ <<v, r, y>> \in prevotes => x = y
    /\ <<v, r, x>> \in precommits /\ <<v, r, y>> \in precommits => x = y

\* A lock is a block with +2/3 prevotes of the locked round, and the locked round is
\* behind the running one until the node reaches the precommit step.
LocksHaveMajority ==
  \A n \in Nodes :
    lockedRound[n] # None =>
      /\ lockedValue[n] \in Blocks
      /\ HasMajority(prevotes, lockedRound[n], lockedValue[n])
      /\ lockedRound[n] <= round[n]
      /\ step[n] # "precommit" => lockedRound[n] < round[n]

\* A correct validator that precommitted a block saw +2/3 prevotes for it, and its node
\* stays locked on that block, or on a block of a later round, until it decides.
PrecommitsAreLocked ==
  \A v \in Correct, r \in Rounds, x \in Blocks :
    <<v, r, x>> \in precommits =>
      /\ HasMajority(prevotes, r, x)
      /\ \/ step[host[v]] = "decided"
         \/ lockedRound[host[v]] > r
         \/ lockedRound[host[v]] = r /\ lockedValue[host[v]] = x

\* A correct validator that precommitted x prevotes for another block in a later round
\* only on +2/3 prevotes for that block from a round in between (onProposalLocked).
PrevotesRespectLocks ==
  \A v \in Correct, r, q \in Rounds, x, y \in Blocks :
    /\ <<v, r, x>> \in precommits
    /\ <<v, q, y>> \in prevotes
    /\ r < q /\ x # y
    => \E vr \in Rounds : r <= vr /\ vr < q /\ HasMajority(prevotes, vr, y)

\* The validators that precommitted x in round r or may still do so.
MayPrecommit(r, x) ==
  {v \in Validators : v \in Faulty \/ <<v, r, x>> \in precommits \/ ~HasLeft(v, r)}

\* +2/3 prevotes for a block mean that no other block can ever get +2/3 precommits in
\* an earlier round.
MajoritiesAreSafe ==
  \A r, q \in Rounds, x, y \in Blocks :
    r < q /\ x # y /\ HasMajority(prevotes, q, y) =>
      ~isMajority(Cardinality(MayPrecommit(r, x)), Cardinality(Validators))

\* A committed block has +2/3 precommits of one round (the commit's proof).
DecisionsHaveMajority ==
  \A n \in Nodes :
    decision[n] # Nil =>
      /\ decision[n] \in Blocks
      /\ \E r \in Rounds : HasMajority(precommits, r, decision[n])

\* No fork: two correct nodes that committed a block at this block number committed
\* the same one (onMajorityPrecommit), in whatever rounds they saw +2/3 precommits.
Agreement ==
  \A m, n \in Nodes :
    decision[m] # Nil /\ decision[n] # Nil => decision[m] = decision[n]

\* Less than a third of the round validators are faulty.
FewFaulty == Cardinality(Faulty) * 3 < Cardinality(Validators)

===============================================================================
