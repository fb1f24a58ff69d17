--------------------------- MODULE RefinementProofs ---------------------------
(***************************************************************************)
(* The node of module Consensus implements module Tendermint, for any      *)
(* validators, blocks, rounds, block numbers and crashes, and whatever the *)
(* peers send.  RInv, what the votes of the node rest on, is in module     *)
(* ConsensusRecovery: which lock lets it sign them, and that the lock      *)
(* proofs it accepts are votes that were made.                             *)
(***************************************************************************)
EXTENDS ConsensusRefinement, ConsensusProofs

-------------------------------------------------------------------------------
(* The steps of Tendermint, in terms of what it sees of the node.          *)

SeenPosition == <<seenRound, seenStep, seenLock, seenValue, seenDecision>>
SeenVotes == <<seenPrevotes, seenPrecommits>>

SeenVoters(votes, r, x) == {v \in Validators : <<v, r, x>> \in votes}

SeenAllows(x) ==
  \/ seenLock = None
  \/ \E vr \in Rounds :
       /\ vr < seenRound
       /\ isMajorityOf(SeenVoters(seenPrevotes, vr, x))
       /\ seenLock <= vr \/ seenValue = x

\* Both modules count the validators alike.
LEMMA SameCardinality ==
  ASSUME NEW S
  PROVE  Abstract!Cardinality(S) = Cardinality(S)
  BY ZenonT(60) DEF Abstract!Cardinality, Cardinality

\* Two histories with the same votes are the same.
LEMMA SameFunction ==
  \A D, R : \A F, G \in [D -> R] : (\A d \in D : F[d] = G[d]) => F = G
  BY SMTT(60)

\* A step that Tendermint does not see.
LEMMA SeesNothing ==
  ASSUME UNCHANGED SeenPosition, UNCHANGED SeenVotes
  PROVE  UNCHANGED Abstract!vars
  BY SMTT(60) DEF SeenPosition, SeenVotes, Abstract!vars

\* startRound.
LEMMA SeesRound ==
  ASSUME NEW r \in Rounds, seenStep # "decided", r > seenRound,
         seenRound' = r, seenStep' = "propose",
         UNCHANGED <<seenLock, seenValue, seenDecision>>, UNCHANGED SeenVotes
  PROVE  Abstract!Next
<1>1. Abstract!StartRound("node", r)
  BY ZenonT(60) DEF Abstract!StartRound, SeenVotes
<1>. QED BY <1>1, ZenonT(60) DEF Abstract!Next, Abstract!NodeStep

\* The end of the propose step.
LEMMA SeesPrevoteStep ==
  ASSUME seenStep = "propose", seenStep' = "prevote",
         UNCHANGED <<seenRound, seenLock, seenValue, seenDecision>>, UNCHANGED SeenVotes
  PROVE  Abstract!Next
<1>1. Abstract!EnterPrevote("node")
  BY SMTT(60) DEF Abstract!EnterPrevote, SeenVotes
<1>. QED BY <1>1, ZenonT(60) DEF Abstract!Next, Abstract!NodeStep

\* The end of the prevote step without a lock.
LEMMA SeesPrecommitStep ==
  ASSUME seenStep = "prevote", seenStep' = "precommit",
         UNCHANGED <<seenRound, seenLock, seenValue, seenDecision>>, UNCHANGED SeenVotes
  PROVE  Abstract!Next
<1>1. Abstract!EnterPrecommit("node")
  BY SMTT(60) DEF Abstract!EnterPrecommit, SeenVotes
<1>. QED BY <1>1, ZenonT(60) DEF Abstract!Next, Abstract!NodeStep

\* onMajorityPrevote in the prevote step.
LEMMA SeesLock ==
  ASSUME NEW x \in Blocks, seenStep = "prevote", seenStep' = "precommit",
         isMajorityOf(SeenVoters(seenPrevotes, seenRound, x)),
         seenLock' = seenRound, seenValue' = x,
         UNCHANGED <<seenRound, seenDecision>>, UNCHANGED SeenVotes
  PROVE  Abstract!Next
<1>1. Abstract!HasMajority(seenPrevotes, seenRound, x)
  BY SameCardinality, ZenonT(60) DEF Abstract!HasMajority, Abstract!Voters,
     Abstract!isMajority, isMajorityOf, isMajority, SeenVoters
<1>2. Abstract!Lock("node", x)
  BY <1>1, ZenonT(60) DEF Abstract!Lock, SeenVotes
<1>. QED BY <1>2, ZenonT(60) DEF Abstract!Next, Abstract!NodeStep

\* onMajorityPrecommit, handleCommitState.
LEMMA SeesDecision ==
  ASSUME NEW r \in Rounds, NEW x \in Blocks, seenStep # "decided",
         isMajorityOf(SeenVoters(seenPrecommits, r, x)),
         seenRound' = 0, seenStep' = "decided", seenLock' = None, seenValue' = Nil,
         seenDecision' = x, UNCHANGED SeenVotes
  PROVE  Abstract!Next
<1>1. Abstract!HasMajority(seenPrecommits, r, x)
  BY SameCardinality, ZenonT(60) DEF Abstract!HasMajority, Abstract!Voters,
     Abstract!isMajority, isMajorityOf, isMajority, SeenVoters
<1>2. Abstract!Decide("node", r, x)
  BY <1>1, ZenonT(60) DEF Abstract!Decide, SeenVotes, Abstract!None, None
<1>. QED BY <1>2, ZenonT(60) DEF Abstract!Next, Abstract!NodeStep

\* The validators of the node are the correct ones.
LEMMA HostedValidators ==
  ASSUME NEW v \in Local
  PROVE  v \in Abstract!Correct /\ v \in Abstract!Hosted("node")
  BY ConstantsAssumption, SMTT(60) DEF Abstract!Correct, Abstract!Hosted, Remote

\* prevote, for one validator.
LEMMA SeesPrevote ==
  ASSUME NEW v \in Local, NEW x \in Values, seenStep = "prevote",
         \A y \in Values : <<v, seenRound, y>> \notin seenPrevotes,
         x = Nil \/ SeenAllows(x),
         seenPrevotes' = seenPrevotes \cup {<<v, seenRound, x>>},
         UNCHANGED seenPrecommits, UNCHANGED SeenPosition
  PROVE  Abstract!Next
<1>1. ~Abstract!HasVoted(seenPrevotes, v, seenRound) /\ x \in Abstract!Values
  BY ZenonT(60) DEF Abstract!HasVoted, Abstract!Values, Values
<1>2. x = Nil \/ Abstract!AllowedByLock("node", x)
  <2>1. \A vr \in Rounds : isMajorityOf(SeenVoters(seenPrevotes, vr, x)) =>
          Abstract!HasMajority(seenPrevotes, vr, x)
    BY SameCardinality, ZenonT(60) DEF Abstract!HasMajority, Abstract!Voters,
     Abstract!isMajority, isMajorityOf, isMajority, SeenVoters
  <2>. QED BY <2>1, SMTT(60) DEF SeenAllows, Abstract!AllowedByLock, Abstract!None, None
<1>3. Abstract!Prevote("node", v, x)
  BY <1>1, <1>2, HostedValidators, SMTT(60) DEF Abstract!Prevote, SeenPosition
<1>. QED BY <1>1, <1>3, HostedValidators, ZenonT(60) DEF Abstract!Next, Abstract!NodeStep

\* precommit, for one validator.
LEMMA SeesPrecommit ==
  ASSUME NEW v \in Local, NEW x \in Values, seenStep = "precommit",
         \A y \in Values : <<v, seenRound, y>> \notin seenPrecommits,
         x = Nil \/ (seenLock = seenRound /\ seenValue = x),
         seenPrecommits' = seenPrecommits \cup {<<v, seenRound, x>>},
         UNCHANGED seenPrevotes, UNCHANGED SeenPosition
  PROVE  Abstract!Next
<1>1. ~Abstract!HasVoted(seenPrecommits, v, seenRound) /\ x \in Abstract!Values
  BY ZenonT(60) DEF Abstract!HasVoted, Abstract!Values, Values
<1>2. Abstract!Precommit("node", v, x)
  BY <1>1, HostedValidators, SMTT(60) DEF Abstract!Precommit, SeenPosition
<1>. QED BY <1>1, <1>2, HostedValidators, ZenonT(60) DEF Abstract!Next, Abstract!NodeStep

\* Votes of peers.
LEMMA SeesPeers ==
  ASSUME NEW Q \in SUBSET Remote, NEW r \in Rounds, NEW x \in Values, Q # {},
         \/ /\ seenPrevotes' = seenPrevotes \cup (Q \X {r} \X {x})
            /\ UNCHANGED seenPrecommits
         \/ /\ seenPrecommits' = seenPrecommits \cup (Q \X {r} \X {x})
            /\ UNCHANGED seenPrevotes,
         UNCHANGED SeenPosition
  PROVE  Abstract!Next
<1>1. Abstract!FaultyPrevotes(Q, r, x) \/ Abstract!FaultyPrecommits(Q, r, x)
  BY SMTT(60) DEF Abstract!FaultyPrevotes, Abstract!FaultyPrecommits, SeenPosition
<1>2. x \in Abstract!Values
  BY ZenonT(60) DEF Abstract!Values, Values
<1>3. Q \in (SUBSET Remote) \ {{}}
  BY SMTT(60)
<1>4. Abstract!FaultyStep
  BY <1>1, <1>2, <1>3, ZenonT(60) DEF Abstract!FaultyStep
<1>. QED BY <1>4, ZenonT(60) DEF Abstract!Next

-------------------------------------------------------------------------------
(* The steps of the node, as Tendermint sees them.                         *)

Seen == Abstract!Next \/ UNCHANGED Abstract!vars

\* Before the first commit Tendermint sees the fields of the node.
LEMMA SeesFields ==
  ASSUME ~decided
  PROVE  /\ seenRound = round /\ seenStep = step /\ seenLock = lockedRound
         /\ seenValue = IF lockedRound = None THEN Nil ELSE BlockOf(lockedRound)
         /\ seenDecision = Nil
  BY ZenonT(60) DEF seenRound, seenStep, seenLock, seenValue, seenDecision, isLocked

\* ... also after the step.
LEMMA SeesFieldsNext ==
  ASSUME ~decided'
  PROVE  /\ seenRound' = round' /\ seenStep' = step' /\ seenLock' = lockedRound'
         /\ seenValue' = IF lockedRound' = None THEN Nil ELSE BlockOf(lockedRound)'
         /\ seenDecision' = Nil
  BY ZenonT(60) DEF seenRound, seenStep, seenLock, seenValue, seenDecision, isLocked

\* Before the first commit the node works on the first block number.
LEMMA FirstBlock ==
  ASSUME IInv, ~decided
  PROVE  blockNumber = 1 /\ Len(chain) = 0 /\ pc # "committed" /\ 1 \in 1..MaxBlockNumber
<1>1. PlaceOK /\ FieldsOK
  BY ZenonT(60) DEF IInv
<1>2. Len(chain) = 0
  BY SMTT(60) DEF decided
<1>3. blockNumber = 1
  BY <1>1, <1>2, SMTT(60) DEF PlaceOK, FieldsOK
<1>4. pc # "committed"
  BY <1>1, <1>2, <1>3, SMTT(60) DEF PlaceOK
<1>. QED BY <1>2, <1>3, <1>4, ConstantsAssumption, SMTT(60)

\* After the first commit the position is out of sight.
LEMMA DecidedStays ==
  ASSUME IInv, [Next]_vars, decided
  PROVE  UNCHANGED SeenPosition
<1>1. RecordsOK
  BY ZenonT(60) DEF IInv
<1>2. decided' /\ chain'[1] = chain[1]
  <2>1. CASE UNCHANGED chain
    BY <2>1, ZenonT(60) DEF decided
  <2>2. CASE Commit
    BY <1>1, <2>2, SMTT(60) DEF Commit, RecordsOK, decided
  <2>. QED BY <2>1, <2>2, Writers, ZenonT(60)
<1>. QED BY <1>2, ZenonT(60) DEF SeenPosition, seenRound, seenStep, seenLock, seenValue,
            seenDecision, isLocked

\* A step that changes none of the fields Tendermint looks at.
LEMMA SamePosition ==
  ASSUME RInv, IInv', [Next]_vars, ~NextBlock,
         UNCHANGED <<blockNumber, round, step, lockedRound, chain>>
  PROVE  UNCHANGED SeenPosition
<1>1. CASE decided
  BY <1>1, DecidedStays, ZenonT(60) DEF RInv, SInv
<1>2. CASE ~decided
  <2>1. ~decided'
    BY <1>2, ZenonT(60) DEF decided
  <2>2. lockedRound # None => BlockOf(lockedRound)' = BlockOf(lockedRound)
    BY LockedBlockStays, ZenonT(60) DEF BlockOf
  <2>. QED BY <1>2, <2>1, <2>2, SeesFields, SeesFieldsNext, ZenonT(60) DEF SeenPosition
<1>. QED BY <1>1, <1>2, ZenonT(60)

\* Votes that are made: by peers, or one the handler signs.
LEMMA VotesAreSeen ==
  ASSUME RInv, IInv', [Next]_vars, ~UNCHANGED cast
  PROVE  Seen
<1>1. /\ IInv /\ FieldsOK /\ HandlerOK /\ RecordsOK /\ PlaceOK /\ OwnVotesAreBehind /\ BallotOK
  BY ZenonT(60) DEF RInv, SInv, IInv
<1>2. CastVote \/ PeersVote \/ PeersPropose \/ PeersCommit
  BY Writers, ZenonT(60)
<1>3. UNCHANGED <<blockNumber, round, step, lockedRound, chain>> /\ ~NextBlock
  <2>1. UNCHANGED <<position, chain>>
    BY <1>2, ZenonT(60) DEF CastVote, PeersVote, ProcessVotes, PeersPropose, ProcessProposalOf,
       PeersCommit, ProcessCommit
  <2>2. ~NextBlock
    BY ZenonT(60) DEF NextBlock, history
  <2>. QED BY <2>1, <2>2, ZenonT(60) DEF position
<1>4. UNCHANGED SeenPosition
  BY <1>3, SamePosition, ZenonT(60)
<1>5. PICK type, r, Q, x : VotesComeIn(type, r, Q, x)
  BY <1>1, CastSteps, ZenonT(60)
<1>6. /\ type \in Types /\ r \in Rounds /\ Q \in SUBSET Validators /\ x \in Values
      /\ VotesMade(cast', type, r, Q, x) /\ 1 \in 1..MaxBlockNumber
  BY <1>5, ConstantsAssumption, SMTT(60) DEF VotesComeIn
<1>7. CASE blockNumber # 1
  <2>1. UNCHANGED SeenVotes
    BY <1>6, <1>7, ZenonT(60) DEF VotesMade, SeenVotes, seenPrevotes, seenPrecommits, Types
  <2>. QED BY <1>4, <2>1, SeesNothing, ZenonT(60) DEF Seen
<1>8. CASE blockNumber = 1
  <2>1. /\ type = "prevote" =>
             seenPrevotes' = seenPrevotes \cup (Q \X {r} \X {x}) /\ UNCHANGED seenPrecommits
        /\ type = "precommit" =>
             seenPrecommits' = seenPrecommits \cup (Q \X {r} \X {x}) /\ UNCHANGED seenPrevotes
    BY <1>6, <1>8, ZenonT(60) DEF VotesMade, seenPrevotes, seenPrecommits, Types
  <2>2. CASE Q \subseteq Remote
    <3>1. Q # {}
      <4>1. ASSUME Q = {} PROVE UNCHANGED cast
        <5>1. Q \X {r} \X {x} = {}
          BY <4>1, SMTT(60)
        <5>2. \A u \in Types, n \in 1..MaxBlockNumber : cast'[u][n] = cast[u][n]
          BY <1>6, <5>1, ZenonT(60) DEF VotesMade
        <5>3. cast \in Histories /\ cast' \in Histories
          BY <1>1, <1>6, ZenonT(60) DEF RecordsOK, VotesMade
        <5>4. ASSUME NEW u \in Types PROVE cast'[u] = cast[u]
          <6>. DEFINE F == [1..MaxBlockNumber -> SUBSET (Validators \X Rounds \X Values)]
          <6>1. cast[u] \in F /\ cast'[u] \in F
            BY <5>3, ZenonT(60) DEF Histories
          <6>2. \A n \in 1..MaxBlockNumber : cast'[u][n] = cast[u][n]
            BY <5>2, ZenonT(60)
          <6>. HIDE DEF F
          <6>3. \A f, g \in F : (\A n \in 1..MaxBlockNumber : f[n] = g[n]) => f = g
            BY SameFunction, ZenonT(60) DEF F
          <6>. QED BY <6>1, <6>2, <6>3, ZenonT(60)
        <5>. DEFINE H == [1..MaxBlockNumber -> SUBSET (Validators \X Rounds \X Values)]
        <5>5. cast \in [Types -> H] /\ cast' \in [Types -> H]
          BY <5>3, ZenonT(60) DEF Histories
        <5>6. \A f, g \in [Types -> H] : (\A u \in Types : f[u] = g[u]) => f = g
          BY SameFunction, ZenonT(60)
        <5>. HIDE DEF H
        <5>. QED BY <5>4, <5>5, <5>6, ZenonT(60)
      <4>. QED BY <4>1, ZenonT(60)
    <3>. QED BY <1>4, <1>6, <2>1, <2>2, <3>1, SeesPeers, ZenonT(60) DEF Types, Seen
  <2>3. CASE ~(Q \subseteq Remote)
    <3>1. PICK v \in ballot.voters : Q = {v}
      BY <1>5, <2>3, ZenonT(60) DEF VotesComeIn
    <3>2. type = ballot.type /\ r = round /\ x = ballot.value /\ pc = "vote"
      BY <1>5, <2>3, ZenonT(60) DEF VotesComeIn, CastVote
    <3>3. v \in Local /\ Q \X {r} \X {x} = {<<v, round, x>>}
      <4>1. v \in Local
        BY <1>1, ZenonT(60) DEF HandlerOK, Ballots
      <4>. QED BY <3>1, <3>2, <4>1, SMTT(60)
    <3>4. ~decided
      <4>1. isRunning /\ Len(chain) \in Nat /\ chain \in Seq(ValidBlocks)
        BY <1>1, <3>2, SMTT(60) DEF PlaceOK, RecordsOK
      <4>2. Len(chain) = 0
        BY <1>1, <1>8, <3>2, <4>1, SMTT(60) DEF PlaceOK
      <4>. QED BY <4>1, <4>2, SMTT(60) DEF decided
    <3>5. \A y \in Values : <<v, round, y>> \notin cast[type][1]
      BY <1>1, <1>6, <1>8, <3>2, <3>3, RoundFacts, SMTT(60) DEF OwnVotesAreBehind, FieldsOK
    <3>6. /\ seenRound = round /\ seenStep = step /\ seenLock = lockedRound
          /\ lockedRound # None => seenValue = BlockOf(lockedRound)
      BY <3>4, SeesFields, ZenonT(60)
    <3>7. CASE type = "prevote"
      <4>1. step = "prevote"
        BY <1>1, <3>2, <3>7, ZenonT(60) DEF OwnVotesAreBehind
      <4>2. x = Nil \/ SeenAllows(x)
        <5>1. x # Nil => LockAllows(x)
          BY <1>1, <3>2, <3>7, ZenonT(60) DEF BallotOK
        <5>2. \A vr : SeenVoters(seenPrevotes, vr, x) = Prevoters(blockNumber, vr, x)
          BY <1>8, ZenonT(60) DEF SeenVoters, seenPrevotes, Prevoters
        <5>3. CASE lockedRound = None
          BY <3>6, <5>3, ZenonT(60) DEF SeenAllows
        <5>4. CASE lockedRound # None
          BY <3>6, <5>1, <5>2, <5>4, ZenonT(60) DEF LockAllows, SeenAllows
        <5>. QED BY <5>3, <5>4, ZenonT(60)
      <4>3. \A y \in Values : <<v, seenRound, y>> \notin seenPrevotes
        BY <3>5, <3>6, <3>7, ZenonT(60) DEF seenPrevotes
      <4>. QED BY <1>4, <1>6, <2>1, <3>3, <3>6, <3>7, <4>1, <4>2, <4>3, SeesPrevote,
                  ZenonT(60) DEF Seen
    <3>8. CASE type = "precommit"
      <4>1. step = "precommit"
        BY <1>1, <3>2, <3>8, ZenonT(60) DEF OwnVotesAreBehind
      <4>2. x = Nil \/ (seenLock = seenRound /\ seenValue = x)
        <5>1. x # Nil => lockedRound = round /\ BlockOf(round) = x
          BY <1>1, <3>2, <3>8, ZenonT(60) DEF BallotOK
        <5>2. round # None
          BY <1>1, RoundFacts, ZenonT(60) DEF FieldsOK
        <5>. QED BY <3>6, <5>1, <5>2, ZenonT(60)
      <4>3. \A y \in Values : <<v, seenRound, y>> \notin seenPrecommits
        BY <3>5, <3>6, <3>8, ZenonT(60) DEF seenPrecommits
      <4>. QED BY <1>4, <1>6, <2>1, <3>3, <3>6, <3>8, <4>1, <4>2, <4>3, SeesPrecommit,
                  ZenonT(60) DEF Seen
    <3>. QED BY <1>6, <3>7, <3>8, ZenonT(60) DEF Types
  <2>. QED BY <2>2, <2>3, ZenonT(60)
<1>. QED BY <1>7, <1>8, ZenonT(60)

\* The commit of the first block is the decision.
LEMMA CommitIsSeen ==
  ASSUME RInv, [Next]_vars, Commit
  PROVE  Seen
<1>1. IInv /\ CommitsOK /\ HandlerOK /\ FieldsOK
  BY ZenonT(60) DEF RInv, SInv, IInv
<1>2. UNCHANGED SeenVotes
  BY ZenonT(60) DEF Commit, history, SeenVotes, seenPrevotes, seenPrecommits
<1>3. CASE decided
  BY <1>1, <1>2, <1>3, DecidedStays, SeesNothing, ZenonT(60) DEF Seen
<1>4. CASE ~decided
  <2>1. chain' = <<unit>>
    BY <1>4, SMTT(60) DEF Commit, decided
  <2>2. decided' /\ chain'[1] = unit
    BY <2>1, SMTT(60) DEF decided
  <2>3. PICK r \in Rounds : isMajorityOf(Precommitters(1, r, unit))
    BY <1>1, <1>4, FirstBlock, ZenonT(60) DEF CommitsOK, Commit, Decided
  <2>4. isMajorityOf(SeenVoters(seenPrecommits, r, unit))
    BY <2>3, ZenonT(60) DEF SeenVoters, seenPrecommits, Precommitters
  <2>5. unit \in Blocks
    BY <1>1, ConstantsAssumption, ZenonT(60) DEF HandlerOK, Commit
  <2>6. seenStep # "decided"
    BY <1>1, <1>4, SeesFields, ZenonT(60) DEF FieldsOK, Steps
  <2>7. /\ seenRound' = 0 /\ seenStep' = "decided" /\ seenLock' = None /\ seenValue' = Nil
        /\ seenDecision' = unit
    BY <2>2, ZenonT(60) DEF seenRound, seenStep, seenLock, seenValue, seenDecision, isLocked
  <2>. QED BY <1>2, <2>4, <2>5, <2>6, <2>7, SeesDecision, ZenonT(60) DEF Seen
<1>. QED BY <1>3, <1>4, ZenonT(60)

\* Before the first commit, the moves of the position are those of Algorithm 1.
LEMMA PositionIsSeen ==
  ASSUME RInv, IInv', [Next]_vars, UNCHANGED <<cast, chain>>, ~decided
  PROVE  Seen
<1>. USE DEF position, flags, disk, history
<1>1. IInv /\ FieldsOK /\ HandlerOK /\ RoundsOK
  BY ZenonT(60) DEF RInv, SInv, IInv
<1>2. blockNumber = 1 /\ Len(chain) = 0 /\ pc # "committed" /\ 1 \in 1..MaxBlockNumber
  BY <1>1, FirstBlock, ZenonT(60)
<1>3. ~decided' /\ UNCHANGED SeenVotes /\ ~NextBlock
  BY <1>2, ZenonT(60) DEF decided, SeenVotes, seenPrevotes, seenPrecommits, NextBlock
<1>4. /\ seenRound = round /\ seenStep = step /\ seenLock = lockedRound
      /\ seenValue = IF lockedRound = None THEN Nil ELSE BlockOf(lockedRound)
      /\ seenDecision = Nil
      /\ seenRound' = round' /\ seenStep' = step' /\ seenLock' = lockedRound'
      /\ seenValue' = IF lockedRound' = None THEN Nil ELSE BlockOf(lockedRound)'
      /\ seenDecision' = Nil
  BY <1>3, SeesFields, SeesFieldsNext, ZenonT(60)
<1>5. ASSUME UNCHANGED <<blockNumber, round, step, lockedRound>> PROVE Seen
  BY <1>3, <1>5, SamePosition, SeesNothing, ZenonT(60) DEF Seen
<1>6. ASSUME UNCHANGED <<lockedRound, rounds>>
      PROVE  UNCHANGED <<seenLock, seenValue, seenDecision>>
  BY <1>4, <1>6, ZenonT(60) DEF BlockOf
<1>7. round \in Rounds /\ round \in Nat /\ step # "decided"
  BY <1>1, RoundFacts, ZenonT(60) DEF FieldsOK, Steps
<1>8. ASSUME step = "propose", step' = "prevote", UNCHANGED <<round, lockedRound, rounds>>
      PROVE  Seen
  BY <1>3, <1>4, <1>6, <1>8, SeesPrevoteStep, ZenonT(60) DEF Seen
<1>9. ASSUME step = "prevote", step' = "precommit", UNCHANGED <<round, lockedRound, rounds>>
      PROVE  Seen
  BY <1>3, <1>4, <1>6, <1>9, SeesPrecommitStep, ZenonT(60) DEF Seen
<1>10. ASSUME NEW r \in Rounds, r > round, StartRound(r), UNCHANGED rounds
       PROVE  Seen
  <2>1. round' = r /\ step' = "propose" /\ UNCHANGED <<lockedRound, rounds>>
    BY <1>10, ZenonT(60) DEF StartRound, EnterRound
  <2>2. UNCHANGED <<seenLock, seenValue, seenDecision>>
    BY <1>6, <2>1, ZenonT(60)
  <2>. QED BY <1>3, <1>4, <1>7, <1>10, <2>1, <2>2, SeesRound, ZenonT(60) DEF Seen
<1>11. CASE OnProposal
  <2>1. step = "propose" /\ step' = "prevote" /\ UNCHANGED <<round, lockedRound, rounds>>
    BY <1>11, RuleGuards, ZenonT(60) DEF OnProposal, MayPrevote
  <2>. QED BY <1>8, <2>1, ZenonT(60)
<1>12. CASE OnMajorityPrevote
  <2>1. /\ unit = round /\ HasMajority(unit, "prevote") /\ HasProposal(unit)
        /\ UNCHANGED <<blockNumber, round, rounds>>
    BY <1>12, RuleGuards, ZenonT(60)
       DEF OnMajorityPrevote, MayLock, isCurrentRoundState, HasMajority
  <2>2. CASE step = "prevote"
    <3>1. lockedRound' = round /\ step' = "precommit"
      BY <1>12, <2>1, <2>2, ZenonT(60) DEF OnMajorityPrevote
    <3>2. isMajorityOf(VotersOf(rounds[round]["prevote"], BlockOf(round)))
      BY <2>1, ZenonT(60) DEF HasMajority, BlockOf
    <3>3. isMajorityOf({v \in Validators : <<v, round, BlockOf(round)>> \in cast["prevote"][1]})
      BY <1>1, <1>2, <1>7, <3>2, CountedVoters, EmptyIsNoMajority, ZenonT(60) DEF Types
    <3>4. isMajorityOf(SeenVoters(seenPrevotes, seenRound, BlockOf(round)))
      BY <1>4, <3>3, ZenonT(60) DEF SeenVoters, seenPrevotes
    <3>5. BlockOf(round) \in Blocks
      BY <1>1, <1>7, <2>1, PrevoteValuesType, ZenonT(60) DEF RoundsOK
    <3>6. round # None
      BY <1>7, RoundFacts, ZenonT(60)
    <3>7. seenLock' = seenRound /\ seenValue' = BlockOf(round)
      BY <1>4, <2>1, <3>1, <3>6, ZenonT(60) DEF BlockOf
    <3>. QED BY <1>3, <1>4, <2>1, <2>2, <3>1, <3>4, <3>5, <3>7, SeesLock, ZenonT(60) DEF Seen
  <2>3. CASE step # "prevote"
    <3>1. UNCHANGED <<step, lockedRound>>
      BY <1>12, <2>3, ZenonT(60) DEF OnMajorityPrevote
    <3>. QED BY <1>5, <2>1, <3>1, ZenonT(60)
  <2>. QED BY <2>2, <2>3, ZenonT(60)
<1>13. CASE OnMajorityPrevoteNull
  <2>1. step = "prevote" /\ step' = "precommit" /\ UNCHANGED <<round, lockedRound, rounds>>
    BY <1>13, RuleGuards, ZenonT(60) DEF OnMajorityPrevoteNull, MayPrecommitNil
  <2>. QED BY <1>9, <2>1, ZenonT(60)
<1>14. CASE OnMinorityWithHigherRound
  <2>1. unit \in Rounds /\ unit > round /\ StartRound(unit) /\ UNCHANGED rounds
    BY <1>1, <1>14, RuleGuards, ZenonT(60) DEF OnMinorityWithHigherRound, MaySkipRound, HandlerOK,
       RuleNames
  <2>. QED BY <1>10, <2>1, ZenonT(60)
<1>15. CASE TakeJob
  <2>1. PICK job \in jobs : \/ Handle(job) \/ HandleCommitState(job) \/ OnTimeoutPropose(job)
                            \/ OnTimeoutPrevote(job) \/ OnTimeoutPrecommit(job)
    BY <1>15, ZenonT(60) DEF TakeJob
  <2>2. UNCHANGED rounds
    BY <2>1, ZenonT(60) DEF Handle, HandleCommitState, OnTimeoutPropose, OnTimeoutPrevote,
       OnTimeoutPrecommit, Take
  <2>3. CASE Handle(job) \/ HandleCommitState(job)
    BY <1>5, <2>3, ZenonT(60) DEF Handle, HandleCommitState
  <2>4. CASE OnTimeoutPropose(job)
    BY <1>5, <1>8, <2>2, <2>4, ZenonT(60) DEF OnTimeoutPropose
  <2>5. CASE OnTimeoutPrevote(job)
    BY <1>5, <1>9, <2>2, <2>5, ZenonT(60) DEF OnTimeoutPrevote
  <2>6. CASE OnTimeoutPrecommit(job)
    <3>1. CASE StartRound(round + 1)
      <4>1. round + 1 <= MaxRound
        BY <3>1, ZenonT(60) DEF StartRound
      <4>2. round + 1 \in Rounds /\ round + 1 > round
        BY <1>7, <4>1, ConstantsAssumption, SMTT(60) DEF Rounds
      <4>. QED BY <1>10, <2>2, <3>1, <4>2, ZenonT(60)
    <3>. QED BY <1>5, <2>6, <3>1, ZenonT(60) DEF OnTimeoutPrecommit
  <2>. QED BY <2>1, <2>3, <2>4, <2>5, <2>6, ZenonT(60)
<1>16. CASE Restart
  <2>1. blockNumber # Len(chain)
    BY <1>2, SMTT(60)
  <2>2. UNCHANGED position
    BY <1>1, <1>16, <2>1, RestartPosition, ZenonT(60)
  <2>. QED BY <1>5, <2>2, ZenonT(60)
<1>. QED BY <1>3, <1>5, <1>11, <1>12, <1>13, <1>14, <1>15, <1>16, Writers, ZenonT(60)
     DEF PositionWriters

\* Every step is a step of Tendermint, or one that it does not see.
LEMMA StepIsSeen ==
  ASSUME RInv, IInv', [Next]_vars
  PROVE  Seen
<1>1. CASE ~UNCHANGED cast
  BY <1>1, VotesAreSeen, ZenonT(60)
<1>2. CASE Commit
  BY <1>2, CommitIsSeen, ZenonT(60)
<1>3. CASE UNCHANGED <<cast, chain>>
  <2>1. CASE decided
    <3>1. UNCHANGED SeenVotes
      BY <1>3, ZenonT(60) DEF SeenVotes, seenPrevotes, seenPrecommits
    <3>. QED BY <2>1, <3>1, DecidedStays, SeesNothing, ZenonT(60) DEF Seen, RInv, SInv
  <2>2. CASE ~decided
    BY <1>3, <2>2, PositionIsSeen, ZenonT(60)
  <2>. QED BY <2>1, <2>2, ZenonT(60)
<1>. QED BY <1>1, <1>2, <1>3, Writers, ZenonT(60)

-------------------------------------------------------------------------------
(* The theorem.                                                            *)

\* The node implements Tendermint, whatever the other validators do: it votes once per
\* round and as its lock allows, locks and decides on +2/3 votes only, and a crash and
\* restart is not seen.
THEOREM Refinement == Spec => ImplementsTendermint
<1>1. Init => Abstract!Init
  <2>1. SUFFICES ASSUME Init PROVE Abstract!Init
    BY ZenonT(60)
  <2>2. ~decided
    BY <2>1, ZenonT(60) DEF Init, decided
  <2>3. seenRound = 0 /\ seenStep = "propose" /\ seenLock = None /\ seenValue = Nil
        /\ seenDecision = Nil
    BY <2>1, <2>2, SeesFields, ZenonT(60) DEF Init
  <2>4. seenPrevotes = {} /\ seenPrecommits = {}
    BY <2>1, ConstantsAssumption, SMTT(60) DEF Init, Types, seenPrevotes, seenPrecommits
  <2>. QED BY <2>3, <2>4, ZenonT(60) DEF Abstract!Init, Abstract!None, None
<1>2. RInv /\ RInv' /\ [Next]_vars => [Abstract!Next]_(Abstract!vars)
  BY StepIsSeen, ZenonT(60) DEF Seen, RInv, SInv
<1>. QED BY <1>1, <1>2, VotesInvariance, PTL DEF Spec, ImplementsTendermint, Abstract!Spec

================================================================================
