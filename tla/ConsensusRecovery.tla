-------------------------- MODULE ConsensusRecovery --------------------------
(***************************************************************************)
(* What the node picks up again: SInv says what a restart finds in the     *)
(* store, RInv what the votes of the node rest on, TInv which timeouts     *)
(* drive a round on.  They rest on IInv, and every step keeps them.        *)
(***************************************************************************)
EXTENDS ConsensusLemmas

-------------------------------------------------------------------------------
(* Restarts that know the block of the stored records.                     *)

\* Proposals the node makes are of its own validators' rounds, up to the running one; the
\* ones it holds, for such a round, in the processor, the round state or the store are its
\* own.
OwnProposalsOfPast ==
  /\ \A s \in proposed :
       /\ s[1] <= blockNumber /\ proposer[s[2].round] \in Local
       /\ s[1] = blockNumber => s[2].round <= round
  /\ proposing.proposal # NoProposal =>
       /\ proposer[proposing.proposal.round] \in Local
       /\ proposing.proposal.round <= round
       /\ pc = "beginRound" => proposing.proposal.round < round
  /\ \A m \in inbox : m[1] = "proposal" => <<m[2], m[3]>> \in proposed
  /\ \A s \in store.proposals : proposer[s[2].round] \in Local => s \in proposed
  /\ \A r \in Rounds : HasProposal(r) /\ proposer[r] \in Local =>
       <<blockNumber, rounds[r].proposal>> \in proposed

\* The store has one proposal per round.
OneStoredProposal == \A s, t \in store.proposals : s[2].round = t[2].round => s = t

\* The service knows the block of the stored records, and all that the round states hold,
\* and all that was proposed, at this block number is stored.
StoreMirrors ==
  /\ \A s \in store.messages \cup store.proposals : s[1] = storeNumber
  /\ \A r \in Rounds : HasProposal(r) => <<blockNumber, rounds[r].proposal>> \in store.proposals
  /\ \A r \in Rounds, type \in Types : \A m \in rounds[r][type] :
       <<blockNumber, type, r, m[1], m[2]>> \in store.messages
  /\ \A s \in proposed : s[1] = blockNumber => s \in store.proposals

\* What is pending was not proposed before; a round that starts again has its proposal.
ProposalsAreNew ==
  /\ \A s, t \in proposed : s[1] = t[1] /\ s[2].round = t[2].round => s = t
  /\ \A s \in proposed : s[1] = blockNumber =>
       /\ proposing.proposal # NoProposal => s[2].round # proposing.proposal.round
       /\ pc = "beginRound" /\ s[2].round = round => HasProposal(round)

SInv ==
  /\ IInv
  /\ OwnProposalsOfPast /\ OneStoredProposal
  /\ ~forgot => StoreMirrors /\ ProposalsAreNew
  /\ StartsAgain

\* What a step records, in the store and in the round states: nothing new, votes that agree
\* with the counted ones, or a proposal.
SameRounds ==
  /\ \A q \in Rounds : rounds'[q].proposal = rounds[q].proposal
  /\ \A q \in Rounds, t \in Types : rounds'[q][t] = rounds[q][t]

NothingRecorded ==
  /\ SameRounds /\ (UNCHANGED rounds \/ ProcessProposal)
  /\ StoreKept \/ StateStored
  /\ UNCHANGED <<blockNumber, proposed, forgot>>

VotesRecorded(type, r, Q, x) ==
  /\ MessagesStored(type, r, Q, x)
  /\ UNCHANGED rounds \/ VotesAdded(rounds', type, r, Q, x)
  /\ \A v \in Q, y \in Values : <<v, y>> \in rounds[r][type] => y = x
  /\ UNCHANGED <<blockNumber, proposed, forgot>>

ProposalRecorded(p) ==
  /\ ProposalStored(p)
  /\ UNCHANGED <<blockNumber, forgot>>
  /\ \/ /\ UNCHANGED rounds /\ SubmitProposal /\ p = proposing.proposal /\ p # NoProposal
        /\ proposed' = proposed \cup {<<blockNumber, p>>}
     \/ /\ ~HasProposal(p.round) /\ ProposalAdded(rounds', p) /\ UNCHANGED proposed
        /\ \/ <<"proposal", blockNumber, p>> \in inbox /\ <<blockNumber, p>> \in proposed
           \/ proposer[p.round] \notin Local /\ p \in RemoteProposals /\ ProcessProposalOf(p)

\* The last part of RecordSteps: steps that write no record.
LEMMA OtherRecords ==
  ASSUME IInv, [Next]_vars,
         ~CastVote, ~ProcessOwnVote, ~PeersVote, ~SubmitProposal, ~ProcessOwnProposal,
         ~PeersPropose, ~NextBlock, ~Restart
  PROVE  NothingRecorded
<1>1. UNCHANGED blockNumber
  BY PositionSteps, ZenonT(60) DEF position
<1>2. UNCHANGED <<proposed, forgot>>
  BY Writers, ZenonT(60)
<1>3. SameRounds
  <2>1. CASE UNCHANGED rounds
    BY <2>1, ZenonT(60) DEF SameRounds
  <2>2. CASE ProcessProposal
    <3>1. RoundsOK /\ unit \in Rounds
      BY <2>2, RuleGuards, ZenonT(60) DEF ProcessProposal, IInv, HandlerOK, RuleNames
    <3>2. PICK x : rounds' = [rounds EXCEPT ![unit].result = x]
      BY <2>2, ZenonT(60) DEF ProcessProposal
    <3>. QED BY <3>1, <3>2, SMTT(60) DEF RoundsOK, RoundStates, SameRounds, Types
  <2>. QED BY <2>1, <2>2, Writers, ZenonT(60)
<1>4. StoreKept \/ StateStored
  <2>1. CASE PositionWriters
    <3>1. FieldsOK'
      BY FieldsStep, ZenonT(60)
    <3>2. UNCHANGED <<rounds, cast, chain, inbox, proposed>>
      BY <2>1, ZenonT(60)
         DEF PositionWriters, OnProposal, OnMajorityPrevote, OnMajorityPrevoteNull,
                  OnMinorityWithHigherRound, TakeJob, Handle, HandleCommitState,
                  OnTimeoutPropose, OnTimeoutPrevote, OnTimeoutPrecommit, Take,
                  position, flags, disk, history
    <3>. QED BY <1>1, <2>1, <3>1, <3>2, PositionIsStored, ZenonT(60) DEF StateStored, StoreKept
  <2>. QED BY <2>1, Writers, ZenonT(60) DEF StoreKept
<1>5. UNCHANGED rounds \/ ProcessProposal
  BY Writers, ZenonT(60)
<1>. QED BY <1>1, <1>2, <1>3, <1>4, <1>5, ZenonT(60) DEF NothingRecorded

\* What a step saves is what it adds to the round states, unless the node goes to the next
\* block or restarts.
LEMMA RecordSteps ==
  ASSUME SInv, [Next]_vars
  PROVE  \/ NothingRecorded
         \/ \E type, r, Q, x : VotesRecorded(type, r, Q, x)
         \/ \E p : ProposalRecorded(p)
         \/ NextBlock \/ Restart
<1>. USE DEF position, flags, disk, history
<1>1. IInv /\ OwnProposalsOfPast
  BY ZenonT(60) DEF SInv
<1>2. /\ FieldsOK /\ RoundsOK /\ HandlerOK /\ RecordsOK /\ PlaceOK /\ QueuesOK
      /\ VotesAreCast /\ OwnVotesAreBehind /\ OneOwnVote
  BY <1>1, ZenonT(60) DEF IInv
<1>3. /\ blockNumber \in Nat /\ blockNumber >= 1 /\ cast \in Histories /\ round \in Rounds
      /\ rounds \in [Rounds -> RoundStates]
  BY <1>2, ZenonT(60) DEF FieldsOK, PlaceOK, RecordsOK, RoundsOK
<1>4. ASSUME NEW p \in Proposals, SaveProposal(blockNumber, p), UNCHANGED <<position, chain>>,
             blockNumber <= MaxBlockNumber
      PROVE  ProposalStored(p)
  <2>1. blockNumber \in 1..MaxBlockNumber
    BY <1>3, <1>4, ConstantsAssumption, SMTT(60)
  <2>. QED BY <1>2, <1>3, <1>4, <2>1, SavesProposal, ZenonT(60) DEF ProposalStored
<1>5. ASSUME NEW type \in Types, NEW r \in Rounds, NEW Q \in SUBSET Validators,
             NEW x \in Values, SaveMessages(blockNumber, type, r, Q, x),
             UNCHANGED <<position, chain, proposed, forgot>>,
             blockNumber \in 1..MaxBlockNumber,
             Q \X {r} \X {x} \subseteq cast'[type][blockNumber],
             UNCHANGED rounds \/ rounds' = addVotes(type, r, Q, x),
             \A v \in Q, y \in Values : <<v, y>> \in rounds[r][type] => y = x
      PROVE  VotesRecorded(type, r, Q, x)
  <2>1. MessagesStored(type, r, Q, x)
    BY <1>2, <1>3, <1>5, SavesMessages, ZenonT(60) DEF MessagesStored
  <2>. QED BY <1>3, <1>5, <2>1, AddVotes, ZenonT(60) DEF VotesRecorded
<1>6. \A r \in Rounds, type \in Types : \A v, y : <<v, y>> \in rounds[r][type] =>
        blockNumber \in 1..MaxBlockNumber /\ <<v, r, y>> \in cast[type][blockNumber]
  BY <1>2, ZenonT(60) DEF VotesAreCast
<1>7. CASE CastVote
  <2>1. PICK v \in ballot.voters :
          /\ SaveMessages(blockNumber, ballot.type, round, {v}, ballot.value)
          /\ cast' = castVotes(ballot.type, round, {v}, ballot.value)
    BY <1>7, ZenonT(60) DEF CastVote
  <2>2. /\ ballot.type \in Types /\ {v} \in SUBSET Validators /\ ballot.value \in Values
        /\ v \in Local
    BY <1>2, ConstantsAssumption, ZenonT(60) DEF HandlerOK, Ballots
  <2>3. blockNumber \in 1..MaxBlockNumber
    BY <1>2, <1>3, <1>7, ConstantsAssumption, SMTT(60) DEF CastVote, PlaceOK
  <2>4. {v} \X {round} \X {ballot.value} \subseteq cast'[ballot.type][blockNumber]
    <3>1. VotesMade(cast', ballot.type, round, {v}, ballot.value)
      BY <1>3, <2>1, <2>2, <2>3, CastVotes, ZenonT(60)
    <3>. QED BY <2>2, <2>3, <3>1, ZenonT(60) DEF VotesMade
  <2>5. pc = "vote" /\ UNCHANGED <<position, chain, proposed, forgot, rounds>>
    BY <1>7, ZenonT(60) DEF CastVote
  <2>6. \A y \in Values : <<v, y>> \notin rounds[round][ballot.type]
    <3>1. \A y \in Values : <<v, round, y>> \notin cast[ballot.type][blockNumber]
      BY <1>2, <1>3, <2>2, <2>3, <2>5, RoundFacts, SMTT(60) DEF OwnVotesAreBehind
    <3>. QED BY <1>3, <1>6, <2>2, <3>1, ZenonT(60)
  <2>. QED BY <1>3, <1>5, <2>1, <2>2, <2>3, <2>4, <2>5, <2>6, ZenonT(60)
<1>8. CASE ProcessOwnVote
  <2>1. PICK m \in inbox : /\ m[1] \in Types /\ SaveMessages(m[2], m[1], m[3], {m[4]}, m[5])
                           /\ rounds' = addVotes(m[1], m[3], {m[4]}, m[5])
                           /\ UNCHANGED <<position, chain, cast, proposed, forgot>>
    BY <1>8, ZenonT(60) DEF ProcessOwnVote
  <2>2. /\ m[2] = blockNumber /\ blockNumber \in 1..MaxBlockNumber /\ m[4] \in Local
        /\ <<m[4], m[3], m[5]>> \in cast[m[1]][blockNumber]
    BY <1>2, <2>1, ZenonT(60) DEF VotesAreCast
  <2>3. m[3] \in Rounds /\ {m[4]} \in SUBSET Validators /\ m[5] \in Values
    BY <1>2, <2>1, ZenonT(60) DEF QueuesOK, Types
  <2>4. {m[4]} \X {m[3]} \X {m[5]} \subseteq cast'[m[1]][blockNumber]
    BY <2>1, <2>2, SMTT(60)
  <2>5. \A y \in Values : <<m[4], y>> \in rounds[m[3]][m[1]] => y = m[5]
    <3>1. SUFFICES ASSUME NEW y \in Values, <<m[4], y>> \in rounds[m[3]][m[1]]
                   PROVE  y = m[5]
      BY ZenonT(60)
    <3>2. <<m[4], m[3], y>> \in cast[m[1]][blockNumber]
      BY <1>6, <2>1, <2>3, <3>1, ZenonT(60)
    <3>. QED BY <1>2, <2>1, <2>2, <2>3, <3>2, ZenonT(60) DEF OneOwnVote
  <2>. QED BY <1>5, <2>1, <2>2, <2>3, <2>4, <2>5, ZenonT(60)
<1>9. CASE PeersVote
  <2>1. PICK m \in RemoteVotes : ProcessVotes(m[1], m[2], m[3], m[4])
    BY <1>9, ZenonT(60) DEF PeersVote
  <2>2. m[1] \in SUBSET Validators /\ m[2] \in Types /\ m[3] \in Rounds /\ m[4] \in Values
    BY ConstantsAssumption, ZenonT(60) DEF Remote
  <2>3. /\ SaveMessages(blockNumber, m[2], m[3], m[1], m[4])
        /\ cast' = castVotes(m[2], m[3], m[1], m[4])
        /\ rounds' = addVotes(m[2], m[3], m[1], m[4])
        /\ UNCHANGED <<position, chain, proposed, forgot>> /\ blockNumber <= MaxBlockNumber
        /\ \A v \in m[1] : ~HasMessage(m[3], m[2], v)
    BY <2>1, ZenonT(60) DEF ProcessVotes, Accepts
  <2>4. blockNumber \in 1..MaxBlockNumber
    BY <1>3, <2>3, ConstantsAssumption, SMTT(60)
  <2>5. m[1] \X {m[3]} \X {m[4]} \subseteq cast'[m[2]][blockNumber]
    <3>1. VotesMade(cast', m[2], m[3], m[1], m[4])
      BY <1>3, <2>2, <2>3, <2>4, CastVotes, ZenonT(60)
    <3>. QED BY <2>2, <2>4, <3>1, ZenonT(60) DEF VotesMade
  <2>6. \A v \in m[1], y \in Values : <<v, y>> \notin rounds[m[3]][m[2]]
    BY <2>3, ZenonT(60) DEF HasMessage
  <2>. QED BY <1>5, <2>2, <2>3, <2>4, <2>5, <2>6, ZenonT(60)
<1>10. CASE SubmitProposal
  <2>1. proposing.proposal \in Proposals /\ proposing.proposal # NoProposal
    BY <1>2, <1>10, ZenonT(60) DEF SubmitProposal, QueuesOK
  <2>2. blockNumber <= MaxBlockNumber
    BY <1>2, <1>3, <2>1, ConstantsAssumption, SMTT(60) DEF PlaceOK, Pending
  <2>3. /\ SaveProposal(blockNumber, proposing.proposal)
        /\ UNCHANGED <<position, chain, rounds, forgot>>
        /\ proposed' = proposed \cup {<<blockNumber, proposing.proposal>>}
    BY <1>10, ZenonT(60) DEF SubmitProposal
  <2>4. ProposalStored(proposing.proposal)
    BY <1>4, <2>1, <2>2, <2>3, ZenonT(60)
  <2>5. ProposalRecorded(proposing.proposal)
    BY <1>10, <2>1, <2>3, <2>4, ZenonT(60) DEF ProposalRecorded
  <2>. QED BY <2>5, ZenonT(60)
<1>11. CASE ProcessOwnProposal
  <2>1. PICK m \in inbox :
          /\ m[1] = "proposal" /\ UNCHANGED <<position, chain, proposed, forgot>>
          /\ \/ UNCHANGED <<rounds, disk>>
             \/ /\ m[2] = blockNumber /\ ~HasProposal(m[3].round)
                /\ SaveProposal(blockNumber, m[3]) /\ rounds' = addProposal(m[3])
    BY <1>11, ZenonT(60) DEF ProcessOwnProposal
  <2>2. /\ m[2] \in 1..MaxBlockNumber /\ m[3] \in Proposals
        /\ <<m[2], m[3]>> \in proposed /\ m = <<"proposal", m[2], m[3]>>
    <3>1. m \in {"proposal"} \X (1..MaxBlockNumber) \X Proposals
      BY <1>2, <2>1, ZenonT(60) DEF QueuesOK, Types
    <3>2. <<m[2], m[3]>> \in proposed
      BY <1>1, <2>1, ZenonT(60) DEF OwnProposalsOfPast
    <3>. QED BY <3>1, <3>2, SMTT(60)
  <2>3. CASE UNCHANGED <<rounds, disk>>
    BY <2>1, <2>3, ZenonT(60) DEF NothingRecorded, SameRounds, StoreKept
  <2>4. CASE /\ m[2] = blockNumber /\ ~HasProposal(m[3].round)
             /\ SaveProposal(blockNumber, m[3]) /\ rounds' = addProposal(m[3])
    <3>1. ProposalStored(m[3])
      <4>1. blockNumber <= MaxBlockNumber
        BY <2>2, <2>4, ConstantsAssumption, SMTT(60)
      <4>. QED BY <1>4, <2>1, <2>2, <2>4, <4>1, ZenonT(60)
    <3>2. ProposalAdded(rounds', m[3])
      BY <1>3, <2>2, <2>4, AddProposal, ZenonT(60)
    <3>3. ProposalRecorded(m[3])
      BY <2>1, <2>2, <2>4, <3>1, <3>2, ZenonT(60) DEF ProposalRecorded
    <3>. QED BY <3>3, ZenonT(60)
  <2>. QED BY <2>1, <2>3, <2>4, ZenonT(60)
<1>12. CASE PeersPropose
  <2>1. PICK p \in RemoteProposals : ProcessProposalOf(p)
    BY <1>12, ZenonT(60) DEF PeersPropose
  <2>2. /\ p \in Proposals /\ SaveProposal(blockNumber, p)
        /\ UNCHANGED <<position, chain, proposed, forgot>>
        /\ blockNumber <= MaxBlockNumber /\ ~HasProposal(p.round)
        /\ rounds' = addProposal(p)
    BY <2>1, ConstantsAssumption, ZenonT(60) DEF ProcessProposalOf, Accepts
  <2>3. proposer[p.round] \notin Local
    BY ConstantsAssumption, ZenonT(60) DEF Remote
  <2>4. ProposalStored(p) /\ ProposalAdded(rounds', p)
    BY <1>3, <1>4, <2>2, AddProposal, ZenonT(60)
  <2>5. ProposalRecorded(p)
    BY <2>1, <2>2, <2>3, <2>4, ZenonT(60) DEF ProposalRecorded
  <2>. QED BY <2>5, ZenonT(60)
<1>. QED BY <1>1, <1>7, <1>8, <1>9, <1>10, <1>11, <1>12, OtherRecords, ZenonT(60)

\* The first proposal of a round number that the node stores stays the only one.
LEMMA OneStoredStep ==
  ASSUME SInv, [Next]_vars
  PROVE  OneStoredProposal'
<1>1. OneStoredProposal
  BY ZenonT(60) DEF SInv
<1>2. ASSUME store'.proposals \subseteq store.proposals
      PROVE  OneStoredProposal'
  BY <1>1, <1>2, ZenonT(60) DEF OneStoredProposal
<1>3. ASSUME NEW p, ProposalRecorded(p)
      PROVE  OneStoredProposal'
  <2>1. store'.proposals \subseteq
          {s \in store.proposals : s[2].round # p.round} \cup {<<blockNumber, p>>}
    BY <1>3, ZenonT(60) DEF ProposalRecorded, ProposalStored, ProposalSaved
  <2>. QED BY <1>1, <2>1, SMTT(60) DEF OneStoredProposal
<1>4. ASSUME NEW type, NEW r, NEW Q, NEW x, VotesRecorded(type, r, Q, x)
      PROVE  store'.proposals \subseteq store.proposals
  BY <1>4, ZenonT(60) DEF VotesRecorded, MessagesStored, MessagesSaved
<1>5. NothingRecorded => store'.proposals \subseteq store.proposals
  BY ZenonT(60) DEF NothingRecorded, StoreKept, StateStored, StateSaved
<1>6. NextBlock \/ Restart => store' = store
  BY ZenonT(60) DEF NextBlock, Restart, disk
<1>. QED BY <1>2, <1>3, <1>4, <1>5, <1>6, RecordSteps, ZenonT(60)

\* A round starts after its predecessor, or again after a restart.
LEMMA RoundStarts ==
  ASSUME IInv, [Next]_vars, pc' = "beginRound"
  PROVE  UNCHANGED <<pc, round>> \/ round' > round \/ NextBlock \/ Restart
<1>. USE DEF position, flags, disk, history
<1>1. HandlerOK /\ FieldsOK
  BY ZenonT(60) DEF IInv
<1>2. round \in Nat
  BY <1>1, RoundFacts, ZenonT(60) DEF FieldsOK
<1>3. CASE OnMinorityWithHigherRound
  <2>1. unit > round /\ round' = unit
    BY <1>3, RuleGuards, ZenonT(60)
       DEF OnMinorityWithHigherRound, MaySkipRound, StartRound, EnterRound
  <2>. QED BY <2>1, ZenonT(60)
<1>4. CASE TakeJob
  <2>1. PICK job \in jobs : \/ Handle(job) \/ HandleCommitState(job) \/ OnTimeoutPropose(job)
                            \/ OnTimeoutPrevote(job) \/ OnTimeoutPrecommit(job)
    BY <1>4, ZenonT(60) DEF TakeJob
  <2>2. pc = "idle"
    BY <2>1, ZenonT(60) DEF Handle, HandleCommitState, OnTimeoutPropose, OnTimeoutPrevote,
                OnTimeoutPrecommit, Take
  <2>3. round' = round + 1
    BY <2>1, <2>2, ZenonT(60) DEF Handle, HandleCommitState, OnTimeoutPropose, OnTimeoutPrevote,
                      OnTimeoutPrecommit, StartRound, EnterRound, Vote
  <2>. QED BY <1>2, <2>3, SMTT(60)
<1>5. ~OnProposal /\ ~OnMajorityPrevote /\ ~OnMajorityPrevoteNull
  BY ZenonT(60) DEF OnProposal, OnMajorityPrevote, OnMajorityPrevoteNull, Vote
<1>6. ~BeginRound /\ ~ProcessProposal /\ ~OnMajorityPrevoteAny /\ ~OnMajorityPrecommitAny
      /\ ~OnMajorityPrecommit /\ ~Return /\ ~Commit /\ ~Crash
  BY ZenonT(60) DEF BeginRound, ProcessProposal, OnMajorityPrevoteAny, OnMajorityPrecommitAny,
         OnMajorityPrecommit, Return, Commit, Crash
<1>7. ~CastVote
  <2>1. ASSUME CastVote PROVE FALSE
    <3>1. pc = "vote" /\ pc' \in {pc, ballot.next}
      BY <2>1, ZenonT(60) DEF CastVote
    <3>. QED BY <1>1, <3>1, ZenonT(60) DEF HandlerOK, Ballots, RuleNames
  <2>. QED BY <2>1, ZenonT(60)
<1>. QED BY <1>3, <1>4, <1>5, <1>6, <1>7, Writers, ZenonT(60) DEF Rule, PositionWriters

\* The pending proposal stays the same until it is dropped or BeginRound makes another one.
LEMMA PendingProposalStays ==
  ASSUME IInv, [Next]_vars, ~BeginRound, proposing'.proposal # NoProposal
  PROVE  proposing'.proposal = proposing.proposal /\ ~NextBlock /\ ~Restart
<1>1. QueuesOK /\ PlaceOK
  BY ZenonT(60) DEF IInv
<1>2. ~NextBlock
  BY SMTT(60) DEF NextBlock, Pending
<1>3. OnTimeoutBlockPrepare => proposing'.proposal = proposing.proposal
  BY <1>1, ZenonT(60) DEF OnTimeoutBlockPrepare, QueuesOK
<1>4. ~SubmitProposal /\ ~ProposalFails /\ ~Crash
  BY SMTT(60) DEF SubmitProposal, ProposalFails, Crash, Pending
<1>5. proposing'.proposal = proposing.proposal
  BY <1>2, <1>3, <1>4, Writers, ZenonT(60)
<1>6. ~Restart
  BY <1>1, <1>5, SMTT(60) DEF Restart, PlaceOK, isRunning, Pending
<1>. QED BY <1>2, <1>5, <1>6, ZenonT(60)

\* Own proposals in the history, pending, in the processor, in the store, in a round state.
LEMMA OwnProposalsOfPastStep ==
  ASSUME SInv, [Next]_vars
  PROVE  OwnProposalsOfPast'
<1>. USE DEF position, flags, disk, history
<1>1. IInv /\ OwnProposalsOfPast
  BY ZenonT(60) DEF SInv
<1>2. /\ FieldsOK /\ RoundsOK /\ RecordsOK /\ PlaceOK /\ QueuesOK /\ ValuesOK
      /\ Advances /\ FieldsOK'
  BY <1>1, ValuesBehindStep, FieldsStep, ZenonT(60) DEF IInv
<1>3. /\ blockNumber \in Nat /\ round \in Nat /\ blockNumber' \in Nat /\ round' \in Nat
      /\ proposed \subseteq (1..MaxBlockNumber) \X Proposals
  BY <1>2, RoundFacts, ZenonT(60) DEF FieldsOK, RecordsOK
<1>4. blockNumber' >= blockNumber /\ (blockNumber' = blockNumber => round' >= round)
  BY <1>2, <1>3, SMTT(60) DEF Advances
<1>5. proposed \subseteq proposed'
  BY Writers, ZenonT(60) DEF SubmitProposal
<1>6. ASSUME NEW s \in proposed'
      PROVE  /\ s[1] <= blockNumber' /\ proposer[s[2].round] \in Local
             /\ s[1] = blockNumber' => s[2].round <= round'
  <2>1. CASE s \in proposed
    <3>1. /\ s[1] <= blockNumber /\ proposer[s[2].round] \in Local
          /\ s[1] = blockNumber => s[2].round <= round
      BY <1>1, <2>1, ZenonT(60) DEF OwnProposalsOfPast
    <3>2. s \in (1..MaxBlockNumber) \X Proposals
      BY <1>3, <2>1, ZenonT(60)
    <3>3. s[1] \in Nat /\ s[2].round \in Rounds
      BY <3>2, SMTT(60) DEF Proposals
    <3>4. s[2].round \in Nat
      BY <3>3, RoundFacts, ZenonT(60)
    <3>. QED BY <1>3, <1>4, <3>1, <3>3, <3>4, SMTT(60)
  <2>2. CASE s \notin proposed
    <3>1. SubmitProposal
      BY <1>6, <2>2, Writers, ZenonT(60)
    <3>2. /\ s = <<blockNumber, proposing.proposal>> /\ proposing.proposal # NoProposal
          /\ UNCHANGED <<blockNumber, round>>
      BY <1>2, <1>6, <2>2, <3>1, ZenonT(60) DEF SubmitProposal, QueuesOK
    <3>. QED BY <1>1, <1>3, <3>2, SMTT(60) DEF OwnProposalsOfPast
  <2>. QED BY <2>1, <2>2, ZenonT(60)
<1>7. ASSUME NEW p, p = proposing'.proposal, p # NoProposal
      PROVE  /\ proposer[p.round] \in Local /\ p.round <= round'
             /\ pc' = "beginRound" => p.round < round'
  <2>1. CASE BeginRound
    <3>1. /\ proposer[round] \in Local /\ p \in OwnProposals /\ pc' # "beginRound"
          /\ UNCHANGED round
      BY <1>7, <2>1, SMTT(60) DEF BeginRound, Pending
    <3>2. p.round = round
      BY <1>2, <3>1, OwnProposalsType, ZenonT(60)
    <3>. QED BY <1>3, <3>1, <3>2, SMTT(60)
  <2>2. CASE ~BeginRound
    <3>1. proposing'.proposal = proposing.proposal /\ ~NextBlock
      BY <1>1, <1>7, <2>2, PendingProposalStays, ZenonT(60)
    <3>2. ~Restart
      BY <1>1, <1>7, <2>2, PendingProposalStays, ZenonT(60)
    <3>3. UNCHANGED blockNumber
      BY <1>1, <3>1, <3>2, PositionSteps, ZenonT(60)
    <3>4. /\ proposer[p.round] \in Local /\ p.round <= round
          /\ pc = "beginRound" => p.round < round
      BY <1>1, <1>7, <3>1, ZenonT(60) DEF OwnProposalsOfPast
    <3>5. p.round \in Nat
      BY <1>2, <1>7, <3>1, RoundFacts, ZenonT(60) DEF QueuesOK, Proposals
    <3>6. pc' = "beginRound" => UNCHANGED <<pc, round>> \/ round' > round
      BY <1>1, <3>1, <3>2, RoundStarts, ZenonT(60)
    <3>. QED BY <1>3, <1>4, <3>3, <3>4, <3>5, <3>6, SMTT(60)
  <2>. QED BY <2>1, <2>2, ZenonT(60)
<1>8. ASSUME NEW m \in inbox', m[1] = "proposal"
      PROVE  <<m[2], m[3]>> \in proposed'
  <2>1. CASE m \in inbox
    BY <1>1, <1>5, <1>8, <2>1, ZenonT(60) DEF OwnProposalsOfPast
  <2>2. CASE SubmitProposal
    BY <1>5, <1>8, <2>1, <2>2, SMTT(60) DEF SubmitProposal
  <2>3. CASE CastVote
    <3>1. PICK v : inbox' = inbox \cup {<<ballot.type, blockNumber, round, v, ballot.value>>}
      BY <2>3, ZenonT(60) DEF CastVote
    <3>2. ballot.type # "proposal"
      BY <1>1, ZenonT(60) DEF IInv, HandlerOK, Ballots, Types
    <3>. QED BY <1>8, <2>1, <3>1, <3>2, SMTT(60)
  <2>4. CASE ProcessOwnVote \/ ProcessOwnProposal \/ Crash
    BY <1>8, <2>1, <2>4, ZenonT(60) DEF ProcessOwnVote, ProcessOwnProposal, Crash
  <2>. QED BY <1>8, <2>1, <2>2, <2>3, <2>4, Writers, ZenonT(60)
<1>9. ASSUME NEW s \in store'.proposals, proposer[s[2].round] \in Local
      PROVE  s \in proposed'
  <2>1. CASE s \in store.proposals
    BY <1>1, <1>5, <1>9, <2>1, ZenonT(60) DEF OwnProposalsOfPast
  <2>2. CASE s \notin store.proposals
    <3>1. ASSUME NEW p, ProposalRecorded(p)
          PROVE  s \in proposed'
      <4>1. s = <<blockNumber, p>>
        BY <1>9, <2>2, <3>1, ZenonT(60) DEF ProposalRecorded, ProposalStored, ProposalSaved
      <4>. QED BY <1>9, <3>1, <4>1, ZenonT(60) DEF ProposalRecorded
    <3>2. ASSUME NEW type, NEW r, NEW Q, NEW x, VotesRecorded(type, r, Q, x)
          PROVE  FALSE
      BY <1>9, <2>2, <3>2, ZenonT(60) DEF VotesRecorded, MessagesStored, MessagesSaved
    <3>3. ~NothingRecorded
      BY <1>9, <2>2, ZenonT(60) DEF NothingRecorded, StoreKept, StateStored, StateSaved
    <3>4. ~NextBlock /\ ~Restart
      BY <1>9, <2>2, ZenonT(60) DEF NextBlock, Restart
    <3>. QED BY <3>1, <3>2, <3>3, <3>4, RecordSteps, ZenonT(60)
  <2>. QED BY <2>1, <2>2, ZenonT(60)
<1>10. ASSUME NEW r \in Rounds, rounds'[r].proposal # NoProposal, proposer[r] \in Local
       PROVE  <<blockNumber', rounds'[r].proposal>> \in proposed'
  <2>1. ASSUME rounds'[r].proposal = rounds[r].proposal, UNCHANGED blockNumber
        PROVE  <<blockNumber', rounds'[r].proposal>> \in proposed'
    BY <1>1, <1>5, <1>10, <2>1, ZenonT(60) DEF OwnProposalsOfPast, HasProposal
  <2>2. CASE NothingRecorded
    BY <1>10, <2>1, <2>2, ZenonT(60) DEF NothingRecorded, SameRounds
  <2>3. ASSUME NEW type, NEW q, NEW Q, NEW x, VotesRecorded(type, q, Q, x)
        PROVE  <<blockNumber', rounds'[r].proposal>> \in proposed'
    BY <1>10, <2>1, <2>3, ZenonT(60) DEF VotesRecorded, VotesAdded
  <2>4. ASSUME NEW p, ProposalRecorded(p)
        PROVE  <<blockNumber', rounds'[r].proposal>> \in proposed'
    BY <1>10, <2>1, <2>4, ZenonT(60) DEF ProposalRecorded, ProposalAdded
  <2>5. CASE NextBlock
    BY <1>10, <2>5, ZenonT(60) DEF NextBlock, EmptyRound
  <2>6. CASE Restart
    <3>1. \/ UNCHANGED <<rounds, blockNumber>>
          \/ rounds' = LoadedRounds(Len(chain) + 1) /\ blockNumber' = Len(chain) + 1
      BY <2>6, ZenonT(60) DEF Restart
    <3>2. CASE rounds' = LoadedRounds(Len(chain) + 1) /\ blockNumber' = Len(chain) + 1
      <4>1. Len(chain) + 1 \in Nat
        BY <1>2, SMTT(60) DEF RecordsOK
      <4>2. RoundsLoaded(rounds', blockNumber')
        BY <1>2, <3>2, <4>1, LoadsRounds, ZenonT(60)
      <4>3. rounds'[r].proposal.round = r /\ <<blockNumber',
        rounds'[r].proposal>> \in store.proposals
        BY <1>10, <4>2, ZenonT(60) DEF RoundsLoaded
      <4>. QED BY <1>1, <1>5, <1>10, <4>3, ZenonT(60) DEF OwnProposalsOfPast
    <3>. QED BY <2>1, <3>1, <3>2, ZenonT(60)
  <2>. QED BY <2>2, <2>3, <2>4, <2>5, <2>6, RecordSteps, ZenonT(60)
<1>. QED BY <1>6, <1>7, <1>8, <1>9, <1>10, ZenonT(60) DEF OwnProposalsOfPast, HasProposal

\* A restart that knows the block of the stored records.
LEMMA RememberedNumber ==
  ASSUME SInv, Restart, ~forgot'
  PROVE  /\ ~forgot /\ UNCHANGED store
         /\ \A s \in store.messages \cup store.proposals : s[1] = storeNumber'
<1>1. StoreIsOfOneBlock /\ (~forgot => StoreMirrors)
  BY ZenonT(60) DEF SInv, IInv
<1>2. /\ ~forgot /\ UNCHANGED store /\ storeNumber' = store.state.blockNumber
      /\ store.state # NoState \/ store = EmptyStore
  BY ZenonT(60) DEF Restart
<1>3. CASE store = EmptyStore
  BY <1>2, <1>3, ZenonT(60) DEF EmptyStore
<1>4. CASE store.state # NoState
  BY <1>1, <1>2, <1>4, ZenonT(60) DEF StoreIsOfOneBlock, StoreMirrors
<1>. QED BY <1>2, <1>3, <1>4, ZenonT(60)

\* A restart loads every vote and proposal the round states held.
LEMMA LoadedMirror ==
  ASSUME SInv, ~forgot, Len(chain) + 1 = blockNumber,
         NEW new, RoundsLoaded(new, blockNumber), NEW r \in Rounds
  PROVE  /\ HasProposal(r) => new[r].proposal = rounds[r].proposal
         /\ \A type \in Types : rounds[r][type] \subseteq new[r][type]
<1>1. StoreMirrors /\ OneStoredProposal /\ RoundsOK
  BY ZenonT(60) DEF SInv, IInv
<1>2. ASSUME HasProposal(r)
      PROVE  new[r].proposal = rounds[r].proposal
  <2>1. /\ <<blockNumber, rounds[r].proposal>> \in store.proposals
        /\ rounds[r].proposal.round = r
    BY <1>1, <1>2, ZenonT(60) DEF StoreMirrors, RoundsOK
  <2>2. new[r].proposal # NoProposal
    BY <2>1, ZenonT(60) DEF RoundsLoaded
  <2>3. /\ <<blockNumber, new[r].proposal>> \in store.proposals
        /\ new[r].proposal.round = r
    BY <2>2, ZenonT(60) DEF RoundsLoaded
  <2>4. <<blockNumber, new[r].proposal>> = <<blockNumber, rounds[r].proposal>>
    BY <1>1, <2>1, <2>3, ZenonT(60) DEF OneStoredProposal
  <2>. QED BY <2>4, ZenonT(60)
<1>3. ASSUME NEW type \in Types, NEW m \in rounds[r][type]
      PROVE  m \in new[r][type]
  <2>1. m \in Validators \X Values
    BY <1>1, <1>3, ZenonT(60) DEF RoundsOK, RoundStates, Types
  <2>2. <<blockNumber, type, r, m[1], m[2]>> \in store.messages
    BY <1>1, <1>3, ZenonT(60) DEF StoreMirrors
  <2>3. <<m[1], m[2]>> \in new[r][type]
    BY <1>3, <2>1, <2>2, ZenonT(60) DEF RoundsLoaded
  <2>. QED BY <2>1, <2>3, SMTT(60)
<1>. QED BY <1>2, <1>3, ZenonT(60)

\* The store goes on to hold what the round states hold and what was proposed.
LEMMA MirrorStep ==
  ASSUME SInv, [Next]_vars, ~forgot'
  PROVE  ~forgot /\ StoreMirrors'
<1>. USE DEF position, flags, disk, history
<1>1. ~forgot
  BY Writers, ZenonT(60) DEF Restart
<1>2. /\ IInv /\ OwnProposalsOfPast /\ StoreMirrors /\ ProposalsAreNew
      /\ RoundsOK /\ StoreIsOfOneBlock /\ FieldsOK /\ RecordsOK
  BY <1>1, ZenonT(60) DEF SInv, IInv
<1>3. /\ blockNumber \in Nat /\ storeNumber \in Nat /\ storeNumber <= blockNumber
      /\ proposed \subseteq (1..MaxBlockNumber) \X Proposals
      /\ rounds \in [Rounds -> RoundStates]
  BY <1>2, ZenonT(60) DEF FieldsOK, RecordsOK, StoreIsOfOneBlock, RoundsOK
<1>4. blockNumber > storeNumber =>
        /\ \A s \in store.messages \cup store.proposals : s[1] # blockNumber
        /\ \A r \in Rounds : ~HasProposal(r) /\ \A type \in Types : rounds[r][type] = {}
        /\ \A s \in proposed : s[1] # blockNumber
  <2>1. SUFFICES ASSUME blockNumber # storeNumber
                 PROVE  /\ \A s \in store.messages \cup store.proposals : s[1] # blockNumber
                        /\ \A r \in Rounds : ~HasProposal(r)
                        /\ \A r \in Rounds, type \in Types : rounds[r][type] = {}
                        /\ \A s \in proposed : s[1] # blockNumber
    BY <1>3, SMTT(60)
  <2>2. \A s \in store.messages \cup store.proposals : s[1] # blockNumber
    BY <1>2, <2>1, ZenonT(60) DEF StoreMirrors
  <2>3. ASSUME NEW r \in Rounds, HasProposal(r)
        PROVE  FALSE
    <3>1. <<blockNumber, rounds[r].proposal>> \in store.proposals
      BY <1>2, <2>3, ZenonT(60) DEF StoreMirrors
    <3>. QED BY <2>2, <3>1, SMTT(60)
  <2>4. ASSUME NEW r \in Rounds, NEW type \in Types, NEW m \in rounds[r][type]
        PROVE  FALSE
    <3>1. <<blockNumber, type, r, m[1], m[2]>> \in store.messages
      BY <1>2, <2>4, ZenonT(60) DEF StoreMirrors
    <3>. QED BY <2>2, <3>1, SMTT(60)
  <2>5. \A s \in proposed : s[1] # blockNumber
    BY <1>2, <2>2, ZenonT(60) DEF StoreMirrors
  <2>. QED BY <2>2, <2>3, <2>4, <2>5, ZenonT(60)
<1>5. CASE NothingRecorded
  <2>1. StoreKept \/ StateSaved(State(blockNumber', round', step', lockedRound', validRound'))
    BY <1>5, ZenonT(60) DEF NothingRecorded, StateStored
  <2>2. State(blockNumber', round', step', lockedRound', validRound').blockNumber = blockNumber
    BY <1>5, ZenonT(60) DEF State, NothingRecorded
  <2>3. /\ \A s \in store'.messages \cup store'.proposals : s[1] = storeNumber'
        /\ ~(blockNumber > storeNumber) => /\ store'.messages = store.messages
                                           /\ store'.proposals = store.proposals
    BY <1>2, <1>3, <2>1, <2>2, ZenonT(60) DEF StoreMirrors, StoreKept, StateSaved, NumberSaved
  <2>4. /\ \A q \in Rounds : rounds'[q].proposal = rounds[q].proposal
        /\ \A q \in Rounds, t \in Types : rounds'[q][t] = rounds[q][t]
        /\ UNCHANGED <<blockNumber, proposed>>
    BY <1>5, ZenonT(60) DEF NothingRecorded, SameRounds
  <2>5. \A r \in Rounds : rounds'[r].proposal # NoProposal =>
          <<blockNumber', rounds'[r].proposal>> \in store'.proposals
    BY <1>2, <1>4, <2>3, <2>4, ZenonT(60) DEF StoreMirrors, HasProposal
  <2>6. ASSUME NEW r \in Rounds, NEW type \in Types, NEW m \in rounds'[r][type]
        PROVE  <<blockNumber', type, r, m[1], m[2]>> \in store'.messages
    <3>1. m \in rounds[r][type]
      BY <2>4, <2>6, ZenonT(60)
    <3>2. ~(blockNumber > storeNumber)
      BY <1>4, <2>6, <3>1, ZenonT(60)
    <3>3. <<blockNumber, type, r, m[1], m[2]>> \in store.messages
      BY <1>2, <2>6, <3>1, ZenonT(60) DEF StoreMirrors
    <3>. QED BY <2>3, <2>4, <3>2, <3>3, ZenonT(60)
  <2>7. \A s \in proposed' : s[1] = blockNumber' => s \in store'.proposals
    BY <1>2, <1>4, <2>3, <2>4, ZenonT(60) DEF StoreMirrors
  <2>. QED BY <1>1, <2>3, <2>5, <2>6, <2>7, ZenonT(60) DEF StoreMirrors, HasProposal
<1>6. ASSUME NEW type, NEW r, NEW Q, NEW x, VotesRecorded(type, r, Q, x)
      PROVE  StoreMirrors'
  <2>1. /\ type \in Types /\ r \in Rounds /\ Q \in SUBSET Validators /\ x \in Values
        /\ MessagesSaved(blockNumber, type, r, Q, x)
        /\ UNCHANGED <<blockNumber, proposed>>
        /\ UNCHANGED rounds \/ VotesAdded(rounds', type, r, Q, x)
    BY <1>6, ZenonT(60) DEF VotesRecorded, MessagesStored
  <2>2. \A q \in Rounds : rounds'[q].proposal = rounds[q].proposal
    BY <2>1, ZenonT(60) DEF VotesAdded
  <2>3. \A q \in Rounds, t \in Types : \A m \in rounds'[q][t] :
          m \in rounds[q][t] \/ (q = r /\ t = type /\ m \in Q \X {x})
    BY <2>1, ZenonT(60) DEF VotesAdded
  <2>4. storeNumber' = blockNumber
    <3>1. NumberSaved(blockNumber)
      BY <2>1, ZenonT(60) DEF MessagesSaved
    <3>. QED BY <1>3, <3>1, SMTT(60) DEF NumberSaved
  <2>5. \A s \in store'.messages \cup store'.proposals : s[1] = storeNumber'
    <3>1. CASE blockNumber > storeNumber
      <4>1. /\ store'.messages = {<<blockNumber, type, r, v, x>> : v \in Q}
            /\ store'.proposals = {}
        BY <2>1, <3>1, ZenonT(60) DEF MessagesSaved
      <4>. QED BY <2>4, <4>1, SMTT(60)
    <3>2. CASE ~(blockNumber > storeNumber)
      BY <1>2, <1>3, <2>1, <2>4, <3>2, SMTT(60) DEF MessagesSaved, StoreMirrors
    <3>. QED BY <3>1, <3>2, ZenonT(60)
  <2>6. \A q \in Rounds : rounds'[q].proposal # NoProposal =>
          <<blockNumber, rounds'[q].proposal>> \in store'.proposals
    <3>1. CASE blockNumber > storeNumber
      BY <1>4, <2>2, <3>1, ZenonT(60) DEF HasProposal
    <3>2. CASE ~(blockNumber > storeNumber)
      BY <1>2, <2>1, <2>2, <3>2, ZenonT(60) DEF MessagesSaved, StoreMirrors, HasProposal
    <3>. QED BY <3>1, <3>2, ZenonT(60)
  <2>7. ASSUME NEW q \in Rounds, NEW t \in Types, NEW m \in rounds'[q][t]
        PROVE  <<blockNumber, t, q, m[1], m[2]>> \in store'.messages
    <3>1. CASE q = r /\ t = type /\ m \in Q \X {x}
      <4>1. m[1] \in Q /\ m[2] = x
        BY <3>1, ZenonT(60)
      <4>2. {<<blockNumber, type, r, v, x>> : v \in Q} \subseteq store'.messages
        BY <2>1, ZenonT(60) DEF MessagesSaved
      <4>. QED BY <3>1, <4>1, <4>2, ZenonT(60)
    <3>2. CASE m \in rounds[q][t]
      <4>1. <<blockNumber, t, q, m[1], m[2]>> \in store.messages /\ ~(blockNumber > storeNumber)
        BY <1>2, <1>4, <2>7, <3>2, ZenonT(60) DEF StoreMirrors
      <4>2. CASE q = r /\ t = type /\ m[1] \in Q
        <5>1. m \in Validators \X Values
          BY <1>3, <2>7, <3>2, ZenonT(60) DEF RoundStates, Types
        <5>2. m[2] = x
          <6>1. \A v \in Q, y \in Values : <<v, y>> \in rounds[r][type] => y = x
            BY <1>6, ZenonT(60) DEF VotesRecorded
          <6>. QED BY <3>2, <4>2, <5>1, <6>1, SMTT(60)
        <5>3. {<<blockNumber, type, r, v, x>> : v \in Q} \subseteq store'.messages
          BY <2>1, ZenonT(60) DEF MessagesSaved
        <5>. QED BY <4>2, <5>2, <5>3, ZenonT(60)
      <4>3. CASE ~(q = r /\ t = type /\ m[1] \in Q)
        <5>1. {s \in store.messages : ~(s[2] = type /\ s[3] = r /\ s[4] \in Q)}
                \subseteq store'.messages
          BY <2>1, <4>1, ZenonT(60) DEF MessagesSaved
        <5>. QED BY <4>1, <4>3, <5>1, ZenonT(60)
      <4>. QED BY <4>2, <4>3, ZenonT(60)
    <3>. QED BY <2>3, <2>7, <3>1, <3>2, ZenonT(60)
  <2>8. \A s \in proposed : s[1] = blockNumber => s \in store'.proposals
    BY <1>2, <1>4, <2>1, ZenonT(60) DEF MessagesSaved, StoreMirrors
  <2>. QED BY <2>1, <2>5, <2>6, <2>7, <2>8, ZenonT(60) DEF StoreMirrors, HasProposal
<1>7. ASSUME NEW p, ProposalRecorded(p)
      PROVE  StoreMirrors'
  <2>1. /\ p \in Proposals /\ ProposalSaved(blockNumber, p) /\ UNCHANGED blockNumber
    BY <1>7, ZenonT(60) DEF ProposalRecorded, ProposalStored
  <2>2. storeNumber' = blockNumber
    <3>1. NumberSaved(blockNumber)
      BY <2>1, ZenonT(60) DEF ProposalSaved
    <3>. QED BY <1>3, <3>1, SMTT(60) DEF NumberSaved
  <2>3. /\ \A s \in store'.messages \cup store'.proposals : s[1] = storeNumber'
        /\ <<blockNumber, p>> \in store'.proposals
    <3>1. CASE blockNumber > storeNumber
      <4>1. store'.proposals = {<<blockNumber, p>>} /\ store'.messages = {}
        BY <2>1, <3>1, ZenonT(60) DEF ProposalSaved
      <4>. QED BY <2>2, <4>1, SMTT(60)
    <3>2. CASE ~(blockNumber > storeNumber)
      <4>1. /\ store'.messages = store.messages
            /\ store'.proposals =
                 {s \in store.proposals : s[2].round # p.round} \cup {<<blockNumber, p>>}
        BY <2>1, <3>2, ZenonT(60) DEF ProposalSaved
      <4>2. \A s \in store.messages \cup store.proposals : s[1] = storeNumber
        BY <1>2, ZenonT(60) DEF StoreMirrors
      <4>3. storeNumber' = storeNumber
        BY <2>1, <3>2, ZenonT(60) DEF ProposalSaved, NumberSaved
      <4>. QED BY <2>2, <4>1, <4>2, <4>3, SMTT(60)
    <3>. QED BY <3>1, <3>2, ZenonT(60)
  <2>4. ~(blockNumber > storeNumber) =>
          /\ store'.messages = store.messages
          /\ \A s \in store.proposals : s[2].round # p.round => s \in store'.proposals
    BY <2>1, ZenonT(60) DEF ProposalSaved
  <2>5. /\ \A q \in Rounds, t \in Types : rounds'[q][t] = rounds[q][t]
        /\ \A q \in Rounds : q # p.round => rounds'[q].proposal = rounds[q].proposal
        /\ rounds'[p.round].proposal \in {p, NoProposal}
    <3>1. p.round \in Rounds
      BY <2>1, ZenonT(60) DEF Proposals
    <3>2. CASE ~HasProposal(p.round) /\ ProposalAdded(rounds', p)
      BY <3>1, <3>2, ZenonT(60) DEF ProposalAdded
    <3>3. CASE UNCHANGED rounds /\ p = proposing.proposal /\ p # NoProposal
      <4>1. ~HasProposal(p.round)
        <5>1. SUFFICES ASSUME HasProposal(p.round) PROVE FALSE
          BY ZenonT(60)
        <5>2. proposer[p.round] \in Local
          BY <1>2, <3>3, ZenonT(60) DEF OwnProposalsOfPast
        <5>3. <<blockNumber, rounds[p.round].proposal>> \in proposed
          BY <1>2, <3>1, <5>1, <5>2, ZenonT(60) DEF OwnProposalsOfPast
        <5>4. rounds[p.round].proposal.round = p.round
          BY <1>2, <3>1, <5>1, ZenonT(60) DEF RoundsOK
        <5>. QED BY <1>2, <3>3, <5>3, <5>4, ZenonT(60) DEF ProposalsAreNew
      <4>. QED BY <3>3, <4>1, ZenonT(60) DEF HasProposal
    <3>. QED BY <1>7, <3>2, <3>3, ZenonT(60) DEF ProposalRecorded
  <2>6. ASSUME NEW s \in proposed', s[1] = blockNumber
        PROVE  s \in store'.proposals
    <3>1. CASE s = <<blockNumber, p>>
      BY <2>3, <3>1, ZenonT(60)
    <3>2. CASE s # <<blockNumber, p>>
      <4>1. s \in proposed
        BY <1>7, <2>6, <3>2, ZenonT(60) DEF ProposalRecorded
      <4>2. s \in store.proposals /\ ~(blockNumber > storeNumber)
        BY <1>2, <1>4, <2>6, <4>1, ZenonT(60) DEF StoreMirrors
      <4>3. s[2].round # p.round
        <5>1. CASE p = proposing.proposal /\ p # NoProposal
          BY <1>2, <2>6, <4>1, <5>1, ZenonT(60) DEF ProposalsAreNew
        <5>2. CASE <<blockNumber, p>> \in proposed
          BY <1>2, <2>6, <3>2, <4>1, <5>2, ZenonT(60) DEF ProposalsAreNew
        <5>3. CASE proposer[p.round] \notin Local
          BY <1>2, <4>1, <5>3, ZenonT(60) DEF OwnProposalsOfPast
        <5>. QED BY <1>7, <5>1, <5>2, <5>3, ZenonT(60) DEF ProposalRecorded
      <4>. QED BY <2>4, <4>2, <4>3, ZenonT(60)
    <3>. QED BY <3>1, <3>2, ZenonT(60)
  <2>7. ASSUME NEW q \in Rounds, rounds'[q].proposal # NoProposal
        PROVE  <<blockNumber, rounds'[q].proposal>> \in store'.proposals
    <3>1. CASE q = p.round
      BY <2>3, <2>5, <2>7, <3>1, ZenonT(60)
    <3>2. CASE q # p.round
      <4>1. HasProposal(q) /\ rounds'[q].proposal = rounds[q].proposal
        BY <2>5, <2>7, <3>2, ZenonT(60) DEF HasProposal
      <4>2. /\ <<blockNumber, rounds[q].proposal>> \in store.proposals
            /\ rounds[q].proposal.round = q /\ ~(blockNumber > storeNumber)
        BY <1>2, <1>4, <4>1, ZenonT(60) DEF StoreMirrors, RoundsOK
      <4>. QED BY <2>4, <3>2, <4>1, <4>2, ZenonT(60)
    <3>. QED BY <3>1, <3>2, ZenonT(60)
  <2>8. ASSUME NEW q \in Rounds, NEW t \in Types, NEW m \in rounds'[q][t]
        PROVE  <<blockNumber, t, q, m[1], m[2]>> \in store'.messages
    BY <1>2, <1>4, <2>4, <2>5, <2>8, ZenonT(60) DEF StoreMirrors
  <2>. QED BY <2>1, <2>3, <2>6, <2>7, <2>8, ZenonT(60) DEF StoreMirrors, HasProposal
<1>8. CASE NextBlock
  <2>1. /\ UNCHANGED <<store, storeNumber, proposed>> /\ blockNumber' = blockNumber + 1
        /\ rounds' = [r \in Rounds |-> EmptyRound]
    BY <1>8, ZenonT(60) DEF NextBlock
  <2>2. \A r \in Rounds : /\ rounds'[r].proposal = NoProposal
                          /\ \A type \in Types : rounds'[r][type] = {}
    BY <2>1, SMTT(60) DEF EmptyRound, Types
  <2>3. \A s \in proposed : s[1] # blockNumber'
    BY <1>2, <1>3, <2>1, SMTT(60) DEF OwnProposalsOfPast
  <2>4. \A s \in store'.messages \cup store'.proposals : s[1] = storeNumber'
    BY <1>2, <2>1, ZenonT(60) DEF StoreMirrors
  <2>5. \A s \in proposed' : s[1] # blockNumber'
    BY <2>1, <2>3, ZenonT(60)
  <2>. QED BY <1>1, <2>2, <2>4, <2>5, ZenonT(60) DEF StoreMirrors, HasProposal
<1>9. CASE Restart
  <2>1. /\ UNCHANGED <<store, proposed>>
        /\ \A s \in store.messages \cup store.proposals : s[1] = storeNumber'
    BY <1>9, RememberedNumber, ZenonT(60) DEF Restart
  <2>2. \A s \in proposed : s[1] = blockNumber' => s \in store.proposals
    <3>1. UNCHANGED blockNumber \/ blockNumber' = blockNumber + 1
      BY <1>2, <1>9, RestartPosition, ZenonT(60)
    <3>2. blockNumber' = blockNumber + 1 => \A s \in proposed : s[1] # blockNumber'
      BY <1>2, <1>3, SMTT(60) DEF OwnProposalsOfPast
    <3>. QED BY <1>2, <3>1, <3>2, ZenonT(60) DEF StoreMirrors
  <2>3. \/ UNCHANGED <<rounds, blockNumber>>
        \/ rounds' = LoadedRounds(Len(chain) + 1) /\ blockNumber' = Len(chain) + 1
    BY <1>9, ZenonT(60) DEF Restart
  <2>4. CASE UNCHANGED <<rounds, blockNumber>>
    <3>1. \A r \in Rounds : rounds'[r].proposal # NoProposal =>
            <<blockNumber', rounds'[r].proposal>> \in store'.proposals
      BY <1>2, <2>1, <2>4, ZenonT(60) DEF StoreMirrors, HasProposal
    <3>2. \A r \in Rounds, type \in Types : \A m \in rounds'[r][type] :
            <<blockNumber', type, r, m[1], m[2]>> \in store'.messages
      BY <1>2, <2>1, <2>4, ZenonT(60) DEF StoreMirrors
    <3>3. \A s \in proposed' : s[1] = blockNumber' => s \in store'.proposals
      BY <2>1, <2>2, ZenonT(60)
    <3>4. \A s \in store'.messages \cup store'.proposals : s[1] = storeNumber'
      BY <2>1, ZenonT(60)
    <3>. QED BY <1>1, <3>1, <3>2, <3>3, <3>4, ZenonT(60) DEF StoreMirrors, HasProposal
  <2>5. CASE rounds' = LoadedRounds(Len(chain) + 1) /\ blockNumber' = Len(chain) + 1
    <3>1. Len(chain) + 1 \in Nat
      BY <1>2, SMTT(60) DEF RecordsOK
    <3>2. RoundsLoaded(rounds', blockNumber')
      BY <1>2, <2>5, <3>1, LoadsRounds, ZenonT(60)
    <3>3. \A r \in Rounds : rounds'[r].proposal # NoProposal =>
            <<blockNumber', rounds'[r].proposal>> \in store.proposals
      BY <3>2, ZenonT(60) DEF RoundsLoaded
    <3>4. ASSUME NEW r \in Rounds, NEW type \in Types, NEW m \in rounds'[r][type]
          PROVE  <<blockNumber', type, r, m[1], m[2]>> \in store.messages
      <4>1. m \in Validators \X Values
        BY <3>2, <3>4, ZenonT(60) DEF RoundsLoaded, RoundStates, Types
      <4>2. m = <<m[1], m[2]>> /\ m[1] \in Validators /\ m[2] \in Values
        BY <4>1, SMTT(60)
      <4>. QED BY <3>2, <3>4, <4>2, SMTT(60) DEF RoundsLoaded
    <3>5. /\ \A s \in proposed' : s[1] = blockNumber' => s \in store'.proposals
          /\ \A s \in store'.messages \cup store'.proposals : s[1] = storeNumber'
      BY <2>1, <2>2, ZenonT(60)
    <3>6. store' = store
      BY <2>1, ZenonT(60)
    <3>. QED BY <1>1, <3>3, <3>4, <3>5, <3>6, ZenonT(60) DEF StoreMirrors, HasProposal
  <2>. QED BY <2>3, <2>4, <2>5, ZenonT(60)
<1>. QED BY <1>1, <1>5, <1>6, <1>7, <1>8, <1>9, RecordSteps, ZenonT(60)

\* While the node works on a block number a round state keeps its proposal.
LEMMA ProposalsStay ==
  ASSUME SInv, [Next]_vars, ~NextBlock, ~Restart, NEW r \in Rounds, HasProposal(r)
  PROVE  rounds'[r].proposal = rounds[r].proposal /\ rounds'[r].proposal # NoProposal
<1>1. ASSUME NEW type, NEW q, NEW Q, NEW x, VotesRecorded(type, q, Q, x)
      PROVE  rounds'[r].proposal = rounds[r].proposal
  BY <1>1, ZenonT(60) DEF VotesRecorded, VotesAdded
<1>2. ASSUME NEW p, ProposalRecorded(p)
      PROVE  rounds'[r].proposal = rounds[r].proposal
  BY <1>2, ZenonT(60) DEF ProposalRecorded, ProposalAdded
<1>3. NothingRecorded => rounds'[r].proposal = rounds[r].proposal
  BY ZenonT(60) DEF NothingRecorded, SameRounds
<1>. QED BY <1>1, <1>2, <1>3, RecordSteps, ZenonT(60) DEF HasProposal

\* What the node proposes next is new.
LEMMA ProposalsAreNewStep ==
  ASSUME SInv, [Next]_vars, ~forgot'
  PROVE  ProposalsAreNew'
<1>. USE DEF position, flags, disk, history
<1>1. ~forgot
  BY MirrorStep, ZenonT(60)
<1>2. /\ IInv /\ OwnProposalsOfPast /\ StoreMirrors /\ ProposalsAreNew
      /\ FieldsOK /\ RecordsOK /\ QueuesOK /\ RoundsOK /\ ValuesOK /\ PlaceOK
  BY <1>1, ZenonT(60) DEF SInv, IInv
<1>3. blockNumber \in Nat /\ round \in Rounds /\ round \in Nat
  BY <1>2, RoundFacts, ZenonT(60) DEF FieldsOK
<1>4. ASSUME NEW s \in proposed
      PROVE  s[1] \in Nat /\ s[2].round \in Nat /\ s[1] <= blockNumber
  <2>1. s \in (1..MaxBlockNumber) \X Proposals
    BY <1>2, ZenonT(60) DEF RecordsOK
  <2>2. s[1] \in Nat /\ s[2].round \in Rounds
    BY <2>1, SMTT(60) DEF Proposals
  <2>. QED BY <1>2, <2>2, RoundFacts, ZenonT(60) DEF OwnProposalsOfPast
<1>5. ASSUME NEW s \in proposed', s \notin proposed
      PROVE  /\ s = <<blockNumber, proposing.proposal>> /\ proposing.proposal # NoProposal
             /\ UNCHANGED <<blockNumber, round, pc>> /\ proposing'.proposal = NoProposal
             /\ proposed' = proposed \cup {s}
  <2>1. SubmitProposal
    BY <1>5, Writers, ZenonT(60)
  <2>. QED BY <1>2, <1>5, <2>1, ZenonT(60) DEF SubmitProposal, QueuesOK, Pending
<1>6. ASSUME NEW s \in proposed', NEW t \in proposed', s[1] = t[1], s[2].round = t[2].round
      PROVE  s = t
  <2>1. CASE s \in proposed /\ t \in proposed
    BY <1>2, <1>6, <2>1, ZenonT(60) DEF ProposalsAreNew
  <2>2. CASE s \notin proposed /\ t \in proposed
    BY <1>2, <1>5, <1>6, <2>2, SMTT(60) DEF ProposalsAreNew
  <2>3. CASE s \in proposed /\ t \notin proposed
    BY <1>2, <1>5, <1>6, <2>3, SMTT(60) DEF ProposalsAreNew
  <2>4. CASE s \notin proposed /\ t \notin proposed
    BY <1>5, <2>4, ZenonT(60)
  <2>. QED BY <2>1, <2>2, <2>3, <2>4, ZenonT(60)
<1>7. ~NextBlock /\ ~Restart => UNCHANGED blockNumber
  BY <1>2, PositionSteps, ZenonT(60)
<1>8. ASSUME NEW s \in proposed', s[1] = blockNumber', proposing'.proposal # NoProposal
      PROVE  s[2].round # proposing'.proposal.round
  <2>1. s \in proposed
    BY <1>5, <1>8, ZenonT(60)
  <2>2. CASE BeginRound
    <3>1. /\ pc = "beginRound" /\ ~HasProposal(round) /\ UNCHANGED blockNumber
          /\ proposing'.proposal \in OwnProposals
      BY <1>8, <2>2, SMTT(60) DEF BeginRound, Pending
    <3>2. proposing'.proposal.round = round
      BY <1>2, <3>1, OwnProposalsType, ZenonT(60)
    <3>. QED BY <1>2, <1>8, <2>1, <3>1, <3>2, ZenonT(60) DEF ProposalsAreNew
  <2>3. CASE ~BeginRound
    <3>1. ~NextBlock
      BY <1>8, SMTT(60) DEF NextBlock, Pending
    <3>2. proposing'.proposal = proposing.proposal
      <4>1. CASE OnTimeoutBlockPrepare
        BY <1>2, <4>1, ZenonT(60) DEF OnTimeoutBlockPrepare, QueuesOK
      <4>2. CASE SubmitProposal \/ ProposalFails \/ Crash
        <5>1. proposing' = Pending(NoProposal)
          BY <4>2, ZenonT(60) DEF SubmitProposal, ProposalFails, Crash
        <5>. QED BY <1>8, <5>1, SMTT(60) DEF Pending
      <4>. QED BY <2>3, <3>1, <4>1, <4>2, Writers, ZenonT(60)
    <3>3. ~Restart
      BY <1>2, <1>8, <3>2, SMTT(60) DEF Restart, PlaceOK, isRunning, Pending
    <3>. QED BY <1>2, <1>7, <1>8, <2>1, <3>1, <3>2, <3>3, ZenonT(60) DEF ProposalsAreNew
  <2>. QED BY <2>2, <2>3, ZenonT(60)
<1>9. ASSUME NEW s \in proposed', s[1] = blockNumber', pc' = "beginRound", s[2].round = round'
      PROVE  rounds'[round'].proposal # NoProposal
  <2>1. CASE NextBlock
    <3>1. blockNumber' = blockNumber + 1 /\ UNCHANGED proposed
      BY <2>1, ZenonT(60) DEF NextBlock
    <3>. QED BY <1>3, <1>4, <1>9, <3>1, SMTT(60)
  <2>2. CASE Restart
    <3>1. UNCHANGED proposed
      BY <2>2, ZenonT(60) DEF Restart
    <3>2. UNCHANGED blockNumber \/ blockNumber' = blockNumber + 1
      BY <1>2, <2>2, RestartPosition, ZenonT(60)
    <3>3. CASE blockNumber' = blockNumber + 1
      <4>1. s[1] \in Nat /\ s[1] <= blockNumber
        BY <1>4, <1>9, <3>1, ZenonT(60)
      <4>. QED BY <1>3, <1>9, <3>3, <4>1, SMTT(60)
    <3>4. CASE UNCHANGED blockNumber
      <4>1. s \in store.proposals
        BY <1>2, <1>9, <3>1, <3>4, ZenonT(60) DEF StoreMirrors
      <4>2. pc = "idle"
        BY <1>2, <2>2, ZenonT(60) DEF Restart, PlaceOK, isRunning
      <4>3. rounds' = LoadedRounds(Len(chain) + 1) /\ blockNumber' = Len(chain) + 1
        BY <1>9, <2>2, <4>2, ZenonT(60) DEF Restart
      <4>4. Len(chain) + 1 \in Nat
        BY <1>2, SMTT(60) DEF RecordsOK
      <4>5. RoundsLoaded(rounds', blockNumber')
        BY <1>2, <4>3, <4>4, LoadsRounds, ZenonT(60)
      <4>6. round' \in Rounds
        BY <1>2, FieldsStep, ZenonT(60) DEF FieldsOK
      <4>. QED BY <1>9, <4>1, <4>5, <4>6, ZenonT(60) DEF RoundsLoaded
    <3>. QED BY <3>2, <3>3, <3>4, ZenonT(60)
  <2>3. CASE ~NextBlock /\ ~Restart
    <3>1. UNCHANGED blockNumber /\ (UNCHANGED <<pc, round>> \/ round' > round)
      BY <1>2, <1>7, <1>9, <2>3, RoundStarts, ZenonT(60)
    <3>2. CASE s \notin proposed
      BY <1>2, <1>3, <1>5, <1>9, <3>2, SMTT(60) DEF OwnProposalsOfPast
    <3>3. CASE s \in proposed /\ round' > round
      <4>1. s[2].round <= round
        BY <1>2, <1>9, <3>1, <3>3, ZenonT(60) DEF OwnProposalsOfPast
      <4>. QED BY <1>3, <1>4, <1>9, <3>3, <4>1, SMTT(60)
    <3>4. CASE s \in proposed /\ UNCHANGED <<pc, round>>
      <4>1. HasProposal(round)
        BY <1>2, <1>9, <3>1, <3>4, ZenonT(60) DEF ProposalsAreNew
      <4>. QED BY <1>3, <2>3, <3>4, <4>1, ProposalsStay, ZenonT(60)
    <3>. QED BY <3>1, <3>2, <3>3, <3>4, ZenonT(60)
  <2>. QED BY <2>1, <2>2, <2>3, ZenonT(60)
<1>. QED BY <1>6, <1>8, <1>9, ZenonT(60) DEF ProposalsAreNew, HasProposal

\* The lock and the valid value of a node that knows its records are loaded with their proof.
LEMMA StartsAgainStep ==
  ASSUME SInv, [Next]_vars
  PROVE  StartsAgain'
<1>1. CASE ~Restart
  <2>1. UNCHANGED forgot
    BY <1>1, Writers, ZenonT(60)
  <2>2. status' = "refused" => status = "refused"
    BY <1>1, Writers, ZenonT(60) DEF Booted, Crash
  <2>. QED BY <2>1, <2>2, ZenonT(60) DEF SInv, StartsAgain
<1>2. ASSUME Restart, ~forgot'
      PROVE  status' # "refused"
  <2>1. /\ IInv /\ StoreMirrors /\ StoreInStep /\ PlaceOK /\ RecordsOK /\ ValuesOK
        /\ FieldsOK /\ RoundsOK /\ ~forgot
    BY <1>2, MirrorStep, ZenonT(60) DEF SInv, IInv
  <2>. DEFINE number == Len(chain) + 1
              loaded == LoadedRounds(number)
              stored == IF store.state.blockNumber = number THEN store.state
                        ELSE State(number, 0, "propose", None, None)
  <2>2. SUFFICES ASSUME NEW r \in {stored.lockedRound, stored.validRound} \ {None}
                 PROVE  isProven(loaded[r])
    BY <1>2, ZenonT(60) DEF Restart
  <2>3. /\ Len(chain) \in Nat /\ blockNumber \in {Len(chain), Len(chain) + 1}
        /\ store.state \in States
    BY <2>1, SMTT(60) DEF PlaceOK, RecordsOK, Stores
  <2>4. store.state.blockNumber = number
    BY <2>2, ZenonT(60) DEF State
  <2>5. blockNumber = number
    BY <2>1, <2>3, <2>4, SMTT(60) DEF StoreInStep
  <2>6. store.state = State(blockNumber, round, step, lockedRound, validRound)
    BY <2>1, <2>4, <2>5, ZenonT(60) DEF StoreInStep
  <2>7. r \in {lockedRound, validRound} \ {None}
    BY <2>2, <2>4, <2>6, SMTT(60) DEF State
  <2>8. r \in Rounds /\ isProven(rounds[r])
    BY <2>1, <2>7, ZenonT(60) DEF ValuesOK, FieldsOK
  <2>9. RoundsLoaded(loaded, blockNumber)
    BY <2>1, <2>3, <2>5, LoadsRounds, SMTT(60)
  <2>. HIDE DEF loaded, number, stored
  <2>10. HasProposal(r)
    BY <2>8, ZenonT(60) DEF isProven, HasProposal
  <2>11. Len(chain) + 1 = blockNumber
    BY <2>5, ZenonT(60) DEF number
  <2>12. loaded[r].proposal = rounds[r].proposal /\ rounds[r].prevote \subseteq loaded[r].prevote
    BY <2>1, <2>8, <2>9, <2>10, <2>11, LoadedMirror, ZenonT(60) DEF Types
  <2>13. LET x == rounds[r].proposal.block IN
         /\ VotersOf(rounds[r].prevote, x) \subseteq VotersOf(loaded[r].prevote, x)
         /\ VotersOf(rounds[r].prevote, x) \in SUBSET Validators
         /\ VotersOf(loaded[r].prevote, x) \in SUBSET Validators
    BY <2>12, ZenonT(60) DEF VotersOf
  <2>14. isMajorityOf(VotersOf(rounds[r].prevote, rounds[r].proposal.block))
    BY <2>8, ZenonT(60) DEF isProven
  <2>15. isMajorityOf(VotersOf(loaded[r].prevote, rounds[r].proposal.block))
    BY <2>1, <2>13, <2>14, MajorityGrows, ZenonT(60)
  <2>. QED BY <2>8, <2>12, <2>15, ZenonT(60) DEF isProven
<1>. QED BY <1>1, <1>2, ZenonT(60) DEF StartsAgain

-------------------------------------------------------------------------------
(* What the votes of the node rest on.                                     *)

\* A pending proposal is of a round that has none yet, neither in its round state nor in the
\* processor; a round that starts has none of its own in the processor.
ProposalsExclude ==
  /\ proposing.proposal # NoProposal => ~HasProposal(proposing.proposal.round)
  /\ \A m \in inbox : m[1] = "proposal" /\ m[2] = blockNumber =>
       /\ proposing.proposal # NoProposal => m[3].round # proposing.proposal.round
       /\ pc = "beginRound" => m[3].round < round

\* The stored proposal of a round is the one of the round state, if that has one.
StoredMatch ==
  \A s \in store.proposals :
    s[1] = blockNumber /\ HasProposal(s[2].round) => s[2] = rounds[s[2].round].proposal

\* A lock proof that verifies consists of votes that were made.
ProofIsCast(n, p) ==
  p.proven /\ p.validRound # None =>
    n \in 1..MaxBlockNumber /\ isMajorityOf(Prevoters(n, p.validRound, p.block))

ProofsAreCast ==
  /\ \A s \in store.proposals : ProofIsCast(s[1], s[2])
  /\ \A r \in Rounds : HasProposal(r) => ProofIsCast(blockNumber, rounds[r].proposal)

\* Proposals with a lock proof that does not verify fail (#processProposal).
ResultsOK ==
  \A r \in Rounds : rounds[r].result = "success" => LockProofVerifies(rounds[r].proposal)

\* What onProposal (no lock) and onProposalLocked (a lock proof) let the node prevote for.
LockAllows(x) ==
  \/ lockedRound = None
  \/ \E vr \in Rounds :
       /\ vr < round
       /\ isMajorityOf(Prevoters(blockNumber, vr, x))
       /\ lockedRound <= vr \/ BlockOf(lockedRound) = x

\* The block the handler is signing votes for: the lock still allows the prevotes, and the
\* precommits are for the block it locked in this round.
BallotOK ==
  pc = "vote" /\ ballot.value # Nil =>
    /\ ballot.type = "prevote" => LockAllows(ballot.value)
    /\ ballot.type = "precommit" => lockedRound = round /\ BlockOf(round) = ballot.value

RInv ==
  /\ SInv
  /\ ProposalsExclude /\ StoredMatch /\ ProofsAreCast /\ ResultsOK /\ BallotOK

\* A restart that does not refuse loads the round states of the stored records.
LEMMA RestartRounds ==
  ASSUME IInv, Restart
  PROVE  /\ UNCHANGED <<store, cast, chain, inbox>> /\ inbox = {}
         /\ \/ UNCHANGED <<rounds, blockNumber>>
            \/ RoundsLoaded(rounds', blockNumber') /\ blockNumber' = Len(chain) + 1
<1>1. RecordsOK /\ PlaceOK
  BY ZenonT(60) DEF IInv
<1>2. Len(chain) + 1 \in Nat
  BY <1>1, SMTT(60) DEF RecordsOK
<1>3. RoundsLoaded(LoadedRounds(Len(chain) + 1), Len(chain) + 1)
  BY <1>1, <1>2, LoadsRounds, ZenonT(60)
<1>4. \/ UNCHANGED <<rounds, blockNumber>>
      \/ rounds' = LoadedRounds(Len(chain) + 1) /\ blockNumber' = Len(chain) + 1
  BY ZenonT(60) DEF Restart, position
<1>5. UNCHANGED <<store, cast, chain, inbox>> /\ inbox = {}
  BY <1>1, ZenonT(60) DEF Restart, PlaceOK, isRunning
<1>. QED BY <1>3, <1>4, <1>5, ZenonT(60)

\* The round states of the next block number are empty.
LEMMA NextBlockRounds ==
  ASSUME NextBlock, NEW r \in Rounds
  PROVE  rounds'[r].proposal = NoProposal /\ rounds'[r].result = "none"
<1>1. rounds'[r] = EmptyRound
  BY ZenonT(60) DEF NextBlock
<1>. QED BY <1>1, SMTT(60) DEF EmptyRound

\* What is in the processor was there before, or is the proposal submitted just now.
LEMMA InboxProposals ==
  ASSUME IInv, [Next]_vars, NEW m \in inbox', m[1] = "proposal"
  PROVE  \/ m \in inbox
         \/ SubmitProposal /\ m = <<"proposal", blockNumber, proposing.proposal>>
<1>1. CASE SubmitProposal
  BY <1>1, ZenonT(60) DEF SubmitProposal
<1>2. CASE CastVote
  <2>1. PICK v : inbox' = inbox \cup {<<ballot.type, blockNumber, round, v, ballot.value>>}
    BY <1>2, ZenonT(60) DEF CastVote
  <2>2. ballot.type # "proposal"
    BY ZenonT(60) DEF IInv, HandlerOK, Ballots, Types
  <2>. QED BY <2>1, <2>2, SMTT(60)
<1>3. CASE ProcessOwnVote \/ ProcessOwnProposal \/ Crash
  BY <1>3, ZenonT(60) DEF ProcessOwnVote, ProcessOwnProposal, Crash
<1>. QED BY <1>1, <1>2, <1>3, Writers, ZenonT(60)

\* The node makes a proposal when it begins a round without one, and nothing else brings a
\* proposal of that round while it is pending.
LEMMA ProposalsExcludeStep ==
  ASSUME RInv, IInv', [Next]_vars
  PROVE  ProposalsExclude'
<1>. USE DEF position, flags, disk, history
<1>1. SInv /\ IInv /\ OwnProposalsOfPast /\ ProposalsExclude
  BY ZenonT(60) DEF RInv, SInv
<1>2. FieldsOK /\ RoundsOK /\ QueuesOK /\ ValuesOK /\ PlaceOK /\ RecordsOK
  BY <1>1, ZenonT(60) DEF IInv
<1>3. QueuesOK' /\ FieldsOK'
  BY ZenonT(60) DEF IInv
<1>4. /\ blockNumber \in Nat /\ round \in Nat /\ blockNumber' \in Nat /\ round' \in Nat
      /\ round \in Rounds
  BY <1>2, <1>3, RoundFacts, ZenonT(60) DEF FieldsOK
<1>5. ASSUME NEW m \in inbox', m[1] = "proposal"
      PROVE  m[3] \in Proposals /\ m[3].round \in Nat /\ m[2] \in Nat
  <2>1. m[3] \in Proposals /\ m[2] \in 1..MaxBlockNumber
    BY <1>3, <1>5, ZenonT(60) DEF QueuesOK, Types
  <2>2. m[3].round \in Rounds
    BY <2>1, ZenonT(60) DEF Proposals
  <2>3. m[2] \in Nat
    BY <2>1, ConstantsAssumption, SMTT(60)
  <2>. QED BY <2>1, <2>2, <2>3, RoundFacts, ZenonT(60)
<1>6. ~NextBlock /\ ~Restart => UNCHANGED blockNumber
  BY <1>1, PositionSteps, ZenonT(60)
<1>7. ASSUME NEW p, p = proposing'.proposal, p # NoProposal
      PROVE  rounds'[p.round].proposal = NoProposal
  <2>1. CASE BeginRound
    <3>1. p \in OwnProposals /\ ~HasProposal(round) /\ UNCHANGED rounds
      BY <1>7, <2>1, SMTT(60) DEF BeginRound, Pending
    <3>2. p.round = round
      BY <1>2, <3>1, OwnProposalsType, ZenonT(60)
    <3>. QED BY <3>1, <3>2, ZenonT(60) DEF HasProposal
  <2>2. CASE ~BeginRound
    <3>1. p = proposing.proposal /\ ~NextBlock /\ ~Restart
      BY <1>1, <1>7, <2>2, PendingProposalStays, ZenonT(60)
    <3>2. rounds[p.round].proposal = NoProposal
      BY <1>1, <1>7, <3>1, ZenonT(60) DEF ProposalsExclude, HasProposal
    <3>3. p.round \in Rounds /\ proposer[p.round] \in Local
      BY <1>1, <1>2, <1>7, <3>1, ZenonT(60) DEF QueuesOK, Proposals, OwnProposalsOfPast
    <3>4. ASSUME NEW q, ProposalRecorded(q)
          PROVE  rounds'[p.round].proposal = NoProposal
      <4>1. CASE UNCHANGED rounds
        BY <3>2, <4>1, ZenonT(60)
      <4>2. CASE <<"proposal", blockNumber, q>> \in inbox /\ ProposalAdded(rounds', q)
        <5>1. q.round # p.round
          BY <1>1, <1>7, <3>1, <4>2, SMTT(60) DEF ProposalsExclude
        <5>. QED BY <3>2, <3>3, <4>2, <5>1, ZenonT(60) DEF ProposalAdded
      <4>3. CASE proposer[q.round] \notin Local /\ ProposalAdded(rounds', q)
        BY <3>2, <3>3, <4>3, ZenonT(60) DEF ProposalAdded
      <4>. QED BY <3>4, <4>1, <4>2, <4>3, ZenonT(60) DEF ProposalRecorded
    <3>5. ASSUME NEW type, NEW q, NEW Q, NEW x, VotesRecorded(type, q, Q, x)
          PROVE  rounds'[p.round].proposal = NoProposal
      BY <3>2, <3>3, <3>5, ZenonT(60) DEF VotesRecorded, VotesAdded
    <3>6. NothingRecorded => rounds'[p.round].proposal = NoProposal
      BY <3>2, <3>3, ZenonT(60) DEF NothingRecorded, SameRounds
    <3>. QED BY <1>1, <3>1, <3>4, <3>5, <3>6, RecordSteps, ZenonT(60)
  <2>. QED BY <2>1, <2>2, ZenonT(60)
<1>8. ASSUME NEW m \in inbox', m[1] = "proposal", m[2] = blockNumber',
             proposing'.proposal # NoProposal
      PROVE  m[3].round # proposing'.proposal.round
  <2>1. ~SubmitProposal
    BY <1>8, SMTT(60) DEF SubmitProposal, Pending
  <2>2. m \in inbox
    BY <1>1, <1>8, <2>1, InboxProposals, ZenonT(60)
  <2>3. CASE BeginRound
    <3>1. /\ proposing'.proposal \in OwnProposals /\ UNCHANGED blockNumber
          /\ pc = "beginRound"
      BY <1>8, <2>3, SMTT(60) DEF BeginRound, Pending
    <3>2. proposing'.proposal.round = round
      BY <1>2, <3>1, OwnProposalsType, ZenonT(60)
    <3>3. m[3].round < round
      BY <1>1, <1>8, <2>2, <3>1, ZenonT(60) DEF ProposalsExclude
    <3>. QED BY <1>4, <1>5, <1>8, <3>2, <3>3, SMTT(60)
  <2>4. CASE ~BeginRound
    <3>1. proposing'.proposal = proposing.proposal /\ ~NextBlock /\ ~Restart
      BY <1>1, <1>8, <2>4, PendingProposalStays, ZenonT(60)
    <3>. QED BY <1>1, <1>6, <1>8, <2>2, <3>1, ZenonT(60) DEF ProposalsExclude
  <2>. QED BY <2>3, <2>4, ZenonT(60)
<1>9. ASSUME NEW m \in inbox', m[1] = "proposal", m[2] = blockNumber', pc' = "beginRound"
      PROVE  m[3].round < round'
  <2>1. ~Restart
    BY <1>1, <1>9, RestartRounds, ZenonT(60)
  <2>2. CASE SubmitProposal /\ m = <<"proposal", blockNumber, proposing.proposal>>
    <3>1. UNCHANGED <<pc, round>> /\ proposing.proposal # NoProposal
      BY <1>2, <2>2, ZenonT(60) DEF SubmitProposal, QueuesOK
    <3>2. proposing.proposal.round < round
      BY <1>1, <1>9, <3>1, ZenonT(60) DEF OwnProposalsOfPast
    <3>3. m[3] = proposing.proposal
      BY <2>2, SMTT(60)
    <3>. QED BY <3>1, <3>2, <3>3, ZenonT(60)
  <2>3. CASE m \in inbox
    <3>1. <<m[2], m[3]>> \in proposed
      BY <1>1, <1>9, <2>3, ZenonT(60) DEF OwnProposalsOfPast
    <3>2. m[2] <= blockNumber /\ (m[2] = blockNumber => m[3].round <= round)
      BY <1>1, <3>1, SMTT(60) DEF OwnProposalsOfPast
    <3>3. ~NextBlock
      <4>1. NextBlock => blockNumber' = blockNumber + 1
        BY ZenonT(60) DEF NextBlock
      <4>. QED BY <1>4, <1>9, <3>2, <4>1, SMTT(60)
    <3>4. m[2] = blockNumber
      BY <1>6, <1>9, <2>1, <3>3, ZenonT(60)
    <3>5. UNCHANGED <<pc, round>> \/ round' > round
      BY <1>1, <1>9, <2>1, <3>3, RoundStarts, ZenonT(60)
    <3>6. pc = "beginRound" => m[3].round < round
      BY <1>1, <1>9, <2>3, <3>4, ZenonT(60) DEF ProposalsExclude
    <3>. QED BY <1>4, <1>5, <1>9, <3>2, <3>4, <3>5, <3>6, SMTT(60)
  <2>. QED BY <1>1, <1>9, <2>2, <2>3, InboxProposals, ZenonT(60)
<1>. QED BY <1>7, <1>8, <1>9, ZenonT(60) DEF ProposalsExclude, HasProposal

\* Whatever is stored for a round later than its proposal came in is that proposal.
LEMMA StoredMatchStep ==
  ASSUME RInv, IInv', [Next]_vars
  PROVE  StoredMatch'
<1>1. /\ SInv /\ IInv /\ OneStoredProposal /\ StoredMatch /\ ProposalsExclude
  BY ZenonT(60) DEF RInv, SInv
<1>2. RecordsOK'
  BY ZenonT(60) DEF IInv
<1>3. SUFFICES ASSUME NEW s \in store'.proposals, s[1] = blockNumber',
                      rounds'[s[2].round].proposal # NoProposal
               PROVE  s[2] = rounds'[s[2].round].proposal
  BY ZenonT(60) DEF StoredMatch, HasProposal
<1>4. s \in Nat \X Proposals
  BY <1>2, ZenonT(60) DEF RecordsOK, Stores
<1>5. s[2].round \in Rounds /\ s = <<s[1], s[2]>>
  BY <1>4, SMTT(60) DEF Proposals
<1>6. ASSUME s \in store.proposals, UNCHANGED blockNumber,
             rounds'[s[2].round].proposal = rounds[s[2].round].proposal
      PROVE  s[2] = rounds'[s[2].round].proposal
  BY <1>1, <1>3, <1>6, ZenonT(60) DEF StoredMatch, HasProposal
<1>7. ASSUME NEW p, ProposalRecorded(p)
      PROVE  s[2] = rounds'[s[2].round].proposal
  <2>1. /\ store'.proposals \subseteq
             {t \in store.proposals : t[2].round # p.round} \cup {<<blockNumber, p>>}
        /\ UNCHANGED blockNumber
    BY <1>7, ZenonT(60) DEF ProposalRecorded, ProposalStored, ProposalSaved
  <2>2. CASE UNCHANGED rounds /\ p = proposing.proposal /\ p # NoProposal
    <3>1. s \in store.proposals \/ s[2] = p
      BY <1>3, <2>1, SMTT(60)
    <3>2. rounds[p.round].proposal = NoProposal
      BY <1>1, <2>2, ZenonT(60) DEF ProposalsExclude, HasProposal
    <3>. QED BY <1>3, <1>6, <2>1, <2>2, <3>1, <3>2, ZenonT(60)
  <2>3. CASE ProposalAdded(rounds', p)
    <3>1. s[2] = p \/ (s \in store.proposals /\ s[2].round # p.round)
      BY <1>3, <2>1, SMTT(60)
    <3>. QED BY <1>5, <1>6, <2>1, <2>3, <3>1, ZenonT(60) DEF ProposalAdded
  <2>. QED BY <1>7, <2>2, <2>3, ZenonT(60) DEF ProposalRecorded
<1>8. ASSUME NEW type, NEW q, NEW Q, NEW x, VotesRecorded(type, q, Q, x)
      PROVE  s[2] = rounds'[s[2].round].proposal
  <2>1. s \in store.proposals /\ UNCHANGED blockNumber
    BY <1>3, <1>8, ZenonT(60) DEF VotesRecorded, MessagesStored, MessagesSaved
  <2>. QED BY <1>5, <1>6, <1>8, <2>1, ZenonT(60) DEF VotesRecorded, VotesAdded
<1>9. ASSUME NothingRecorded
      PROVE  s[2] = rounds'[s[2].round].proposal
  <2>1. s \in store.proposals /\ UNCHANGED blockNumber
    BY <1>3, <1>9, ZenonT(60) DEF NothingRecorded, StoreKept, StateStored, StateSaved
  <2>. QED BY <1>5, <1>6, <1>9, <2>1, ZenonT(60) DEF NothingRecorded, SameRounds
<1>10. CASE NextBlock
  BY <1>3, <1>5, <1>10, NextBlockRounds, ZenonT(60)
<1>11. CASE Restart
  <2>1. s \in store.proposals
    BY <1>1, <1>3, <1>11, RestartRounds, ZenonT(60)
  <2>2. CASE UNCHANGED <<rounds, blockNumber>>
    BY <1>6, <2>1, <2>2, ZenonT(60)
  <2>3. CASE RoundsLoaded(rounds', blockNumber')
    <3>. DEFINE p == rounds'[s[2].round].proposal
    <3>1. <<blockNumber', p>> \in store.proposals /\ p.round = s[2].round
      BY <1>3, <1>5, <2>3, ZenonT(60) DEF RoundsLoaded
    <3>. HIDE DEF p
    <3>2. s = <<blockNumber', p>>
      BY <1>1, <2>1, <3>1, SMTT(60) DEF OneStoredProposal
    <3>3. s[2] = p
      BY <3>2, SMTT(60)
    <3>. QED BY <3>3, ZenonT(60) DEF p
  <2>. QED BY <1>1, <1>11, <2>2, <2>3, RestartRounds, ZenonT(60)
<1>. QED BY <1>1, <1>7, <1>8, <1>9, <1>10, <1>11, RecordSteps, ZenonT(60)

\* The prevotes of a lock proof stay made.
LEMMA ProofStays ==
  ASSUME IInv, [Next]_vars, NEW n \in 1..MaxBlockNumber, NEW r, NEW x,
         isMajorityOf(Prevoters(n, r, x))
  PROVE  isMajorityOf(Prevoters(n, r, x)')
<1>1. cast.prevote[n] \subseteq cast'.prevote[n]
  BY CastGrows, ZenonT(60) DEF Types
<1>2. /\ Prevoters(n, r, x) \in SUBSET Validators /\ Prevoters(n, r, x)' \in SUBSET Validators
      /\ Prevoters(n, r, x) \subseteq Prevoters(n, r, x)'
  BY <1>1, ZenonT(60) DEF Prevoters
<1>. QED BY <1>2, MajorityGrows, ZenonT(60)

\* The lock proof of a proposal that comes in consists of votes that were made: the node
\* took its own from counted votes, and one of peers takes +2/3 of the validators.
LEMMA RecordedProof ==
  ASSUME IInv, [Next]_vars, NEW p, ProposalRecorded(p), p.proven, p.validRound # None
  PROVE  /\ blockNumber \in 1..MaxBlockNumber
         /\ isMajorityOf(Prevoters(blockNumber, p.validRound, p.block)')
<1>1. RecordsOK /\ OwnProposalsOK
  BY ZenonT(60) DEF IInv
<1>2. blockNumber \in 1..MaxBlockNumber /\ p \in Proposals /\ UNCHANGED blockNumber
  BY ZenonT(60) DEF ProposalRecorded, ProposalStored
<1>3. CASE HasProof(blockNumber, p)
  <2>1. isMajorityOf(Prevoters(blockNumber, p.validRound, p.block))
    BY <1>3, ZenonT(60) DEF HasProof
  <2>. QED BY <1>2, <2>1, ProofStays, ZenonT(60)
<1>4. CASE p = proposing.proposal /\ p # NoProposal
  BY <1>1, <1>3, <1>4, ZenonT(60) DEF OwnProposalsOK
<1>5. CASE <<blockNumber, p>> \in proposed
  BY <1>1, <1>3, <1>5, SMTT(60) DEF OwnProposalsOK
<1>6. CASE ProcessProposalOf(p)
  <2>1. /\ isMajorityOf(Remote \cup OwnVoters("prevote", p.validRound, p.block))
        /\ cast' = castVotes("prevote", p.validRound, Remote, p.block)
    BY <1>6, ZenonT(60) DEF ProcessProposalOf, PeersHaveMajority
  <2>2. p.validRound \in Rounds /\ p.block \in Values /\ Remote \in SUBSET Validators
    BY <1>2, ZenonT(60) DEF Proposals, Values, Remote
  <2>3. VotesMade(cast', "prevote", p.validRound, Remote, p.block)
    BY <1>1, <1>2, <2>1, <2>2, CastVotes, ZenonT(60) DEF RecordsOK, Types
  <2>4. cast'.prevote[blockNumber] =
          cast.prevote[blockNumber] \cup (Remote \X {p.validRound} \X {p.block})
    BY <1>2, <2>3, ZenonT(60) DEF VotesMade, Types
  <2>5. Remote \cup OwnVoters("prevote", p.validRound, p.block)
          \subseteq Prevoters(blockNumber, p.validRound, p.block)'
    <3>1. ASSUME NEW v \in Remote
          PROVE  v \in Validators /\ <<v, p.validRound, p.block>> \in cast'.prevote[blockNumber']
      <4>1. <<v, p.validRound, p.block>> \in Remote \X {p.validRound} \X {p.block}
        BY <3>1, SMTT(60)
      <4>. QED BY <1>2, <2>4, <4>1, ZenonT(60) DEF Remote
    <3>2. ASSUME NEW v \in OwnVoters("prevote", p.validRound, p.block)
          PROVE  v \in Validators /\ <<v, p.validRound, p.block>> \in cast'.prevote[blockNumber']
      BY <1>2, <2>4, <3>2, ConstantsAssumption, ZenonT(60) DEF OwnVoters
    <3>. QED BY <3>1, <3>2, ZenonT(60) DEF Prevoters
  <2>6. /\ Remote \cup OwnVoters("prevote", p.validRound, p.block) \in SUBSET Validators
        /\ Prevoters(blockNumber, p.validRound, p.block)' \in SUBSET Validators
    BY ConstantsAssumption, ZenonT(60) DEF Remote, OwnVoters, Prevoters
  <2>. QED BY <1>2, <2>1, <2>5, <2>6, MajorityGrows, ZenonT(60)
<1>. QED BY <1>4, <1>5, <1>6, ZenonT(60) DEF ProposalRecorded

\* Lock proofs, in the store or in a round state, consist of votes that were made.
LEMMA ProofsAreCastStep ==
  ASSUME RInv, [Next]_vars
  PROVE  ProofsAreCast'
<1>1. SInv /\ IInv /\ ProofsAreCast
  BY ZenonT(60) DEF RInv, SInv
<1>2. ASSUME NEW n, NEW p, ProofIsCast(n, p)
      PROVE  ProofIsCast(n, p)'
  BY <1>1, <1>2, ProofStays, ZenonT(60) DEF ProofIsCast
<1>3. ASSUME NEW p, ProposalRecorded(p)
      PROVE  ProofIsCast(blockNumber, p)'
  <2>1. UNCHANGED blockNumber
    BY <1>3, ZenonT(60) DEF ProposalRecorded
  <2>. QED BY <1>1, <1>3, <2>1, RecordedProof, ZenonT(60) DEF ProofIsCast
<1>4. ASSUME NEW s \in store'.proposals
      PROVE  ProofIsCast(s[1], s[2])'
  <2>1. CASE s \in store.proposals
    BY <1>1, <1>2, <2>1, ZenonT(60) DEF ProofsAreCast
  <2>2. CASE s \notin store.proposals
    <3>1. ASSUME NEW p, ProposalRecorded(p)
          PROVE  ProofIsCast(s[1], s[2])'
      <4>1. s = <<blockNumber, p>> /\ UNCHANGED blockNumber
        BY <1>4, <2>2, <3>1, ZenonT(60) DEF ProposalRecorded, ProposalStored, ProposalSaved
      <4>2. s[1] = blockNumber /\ s[2] = p
        BY <4>1, SMTT(60)
      <4>. QED BY <1>3, <3>1, <4>1, <4>2, ZenonT(60)
    <3>2. ASSUME NEW type, NEW r, NEW Q, NEW x, VotesRecorded(type, r, Q, x)
          PROVE  FALSE
      BY <1>4, <2>2, <3>2, ZenonT(60) DEF VotesRecorded, MessagesStored, MessagesSaved
    <3>3. ~NothingRecorded
      BY <1>4, <2>2, ZenonT(60) DEF NothingRecorded, StoreKept, StateStored, StateSaved
    <3>4. ~NextBlock /\ ~Restart
      BY <1>4, <2>2, ZenonT(60) DEF NextBlock, Restart, disk
    <3>. QED BY <1>1, <3>1, <3>2, <3>3, <3>4, RecordSteps, ZenonT(60)
  <2>. QED BY <2>1, <2>2, ZenonT(60)
<1>5. ASSUME NEW r \in Rounds, rounds'[r].proposal # NoProposal
      PROVE  ProofIsCast(blockNumber, rounds[r].proposal)'
  <2>1. ASSUME rounds'[r].proposal = rounds[r].proposal, UNCHANGED blockNumber
        PROVE  ProofIsCast(blockNumber, rounds[r].proposal)'
    <3>1. ProofIsCast(blockNumber, rounds[r].proposal)
      BY <1>1, <1>5, <2>1, ZenonT(60) DEF ProofsAreCast, HasProposal
    <3>2. ProofIsCast(blockNumber', rounds'[r].proposal)
      BY <2>1, <3>1, ZenonT(60)
    <3>. QED BY <1>1, <2>1, <3>1, ProofStays, ZenonT(60) DEF ProofIsCast
  <2>2. ASSUME NEW p, ProposalRecorded(p)
        PROVE  ProofIsCast(blockNumber, rounds[r].proposal)'
    <3>1. UNCHANGED blockNumber
      BY <2>2, ZenonT(60) DEF ProposalRecorded
    <3>2. rounds'[r].proposal \in {p, rounds[r].proposal}
      BY <2>2, ZenonT(60) DEF ProposalRecorded, ProposalAdded
    <3>. QED BY <1>3, <2>1, <2>2, <3>1, <3>2, ZenonT(60) DEF ProofIsCast
  <2>3. ASSUME NEW type, NEW q, NEW Q, NEW x, VotesRecorded(type, q, Q, x)
        PROVE  ProofIsCast(blockNumber, rounds[r].proposal)'
    BY <2>1, <2>3, ZenonT(60) DEF VotesRecorded, VotesAdded
  <2>4. NothingRecorded => ProofIsCast(blockNumber, rounds[r].proposal)'
    BY <2>1, ZenonT(60) DEF NothingRecorded, SameRounds
  <2>5. ~NextBlock
    BY <1>5, NextBlockRounds, ZenonT(60)
  <2>6. CASE Restart
    <3>1. CASE UNCHANGED <<rounds, blockNumber>>
      BY <2>1, <3>1, ZenonT(60)
    <3>2. CASE RoundsLoaded(rounds', blockNumber')
      <4>1. <<blockNumber', rounds'[r].proposal>> \in store'.proposals
        BY <1>1, <1>5, <2>6, <3>2, RestartRounds, ZenonT(60) DEF RoundsLoaded
      <4>. QED BY <1>4, <4>1, SMTT(60) DEF ProofIsCast
    <3>. QED BY <1>1, <2>6, <3>1, <3>2, RestartRounds, ZenonT(60)
  <2>. QED BY <1>1, <2>2, <2>3, <2>4, <2>5, <2>6, RecordSteps, ZenonT(60)
<1>. QED BY <1>4, <1>5, ZenonT(60) DEF ProofsAreCast, HasProposal

\* The processor result of a proposal whose lock proof does not verify is a failure.
LEMMA ResultsStep ==
  ASSUME RInv, [Next]_vars
  PROVE  ResultsOK'
<1>1. SInv /\ IInv /\ ResultsOK /\ RoundsOK /\ HandlerOK
  BY ZenonT(60) DEF RInv, SInv, IInv
<1>2. SUFFICES ASSUME NEW r \in Rounds, rounds'[r].result = "success"
               PROVE  LockProofVerifies(rounds'[r].proposal)
  BY ZenonT(60) DEF ResultsOK, LockProofVerifies
<1>3. ASSUME rounds'[r].result = rounds[r].result
      PROVE  LockProofVerifies(rounds'[r].proposal)
  <2>1. HasProposal(r) /\ LockProofVerifies(rounds[r].proposal)
    BY <1>1, <1>2, <1>3, ZenonT(60) DEF RoundsOK, ResultsOK
  <2>2. ~NextBlock
    BY <1>2, NextBlockRounds, ZenonT(60)
  <2>3. CASE Restart
    <3>1. UNCHANGED rounds
      BY <1>1, <1>2, <2>3, RestartRounds, ZenonT(60) DEF RoundsLoaded
    <3>. QED BY <2>1, <3>1, ZenonT(60)
  <2>4. CASE ~Restart
    BY <1>1, <2>1, <2>2, <2>4, ProposalsStay, ZenonT(60)
  <2>. QED BY <2>3, <2>4, ZenonT(60)
<1>4. CASE ProcessProposal
  <2>1. unit \in Rounds
    BY <1>1, <1>4, RuleGuards, ZenonT(60) DEF ProcessProposal, HandlerOK, RuleNames
  <2>2. CASE r = unit
    <3>. DEFINE p == rounds[unit].proposal
                x == IF LockProofVerifies(p) /\ p.block \in ValidBlocks
                     THEN "success" ELSE "failure"
    <3>1. rounds' = [rounds EXCEPT ![unit].result = x]
      BY <1>4, ZenonT(60) DEF ProcessProposal
    <3>2. x = "success" => LockProofVerifies(p)
      BY ZenonT(60)
    <3>. HIDE DEF x
    <3>3. rounds'[r].result = x /\ rounds'[r].proposal = p
      BY <1>1, <2>1, <2>2, <3>1, SMTT(60) DEF RoundsOK, RoundStates
    <3>. QED BY <1>2, <3>2, <3>3, ZenonT(60)
  <2>3. CASE r # unit
    <3>1. rounds'[r] = rounds[r]
      BY <1>1, <1>4, <2>3, ZenonT(60) DEF ProcessProposal, RoundsOK
    <3>. QED BY <1>3, <3>1, ZenonT(60)
  <2>. QED BY <2>2, <2>3, ZenonT(60)
<1>5. CASE NextBlock
  BY <1>2, <1>5, NextBlockRounds, ZenonT(60)
<1>6. CASE Restart
  <2>1. UNCHANGED rounds
    BY <1>1, <1>2, <1>6, RestartRounds, ZenonT(60) DEF RoundsLoaded
  <2>. QED BY <1>3, <2>1, ZenonT(60)
<1>7. CASE ~ProcessProposal /\ ~NextBlock /\ ~Restart
  <2>1. ASSUME NEW p, ProposalRecorded(p)
        PROVE  rounds'[r].result = rounds[r].result
    BY <2>1, ZenonT(60) DEF ProposalRecorded, ProposalAdded
  <2>2. ASSUME NEW type, NEW q, NEW Q, NEW x, VotesRecorded(type, q, Q, x)
        PROVE  rounds'[r].result = rounds[r].result
    BY <2>2, ZenonT(60) DEF VotesRecorded, VotesAdded
  <2>3. NothingRecorded => rounds'[r].result = rounds[r].result
    BY <1>7, ZenonT(60) DEF NothingRecorded
  <2>. QED BY <1>1, <1>3, <1>7, <2>1, <2>2, <2>3, RecordSteps, ZenonT(60)
<1>. QED BY <1>4, <1>5, <1>6, <1>7, ZenonT(60)

\* The locked value stays the same block, also across a restart, as long as the lock stays.
LEMMA LockedBlockStays ==
  ASSUME RInv, IInv', [Next]_vars, ~NextBlock, UNCHANGED <<blockNumber, lockedRound>>,
         lockedRound # None
  PROVE  rounds'[lockedRound].proposal = rounds[lockedRound].proposal
<1>1. SInv /\ IInv /\ FieldsOK /\ ValuesOK /\ StoredMatch
  BY ZenonT(60) DEF RInv, SInv, IInv
<1>2. lockedRound \in Rounds /\ rounds[lockedRound].proposal # NoProposal
  BY <1>1, ZenonT(60) DEF FieldsOK, ValuesOK, isProven
<1>3. CASE ~Restart
  BY <1>1, <1>2, <1>3, ProposalsStay, ZenonT(60) DEF HasProposal
<1>4. CASE Restart
  <2>1. CASE UNCHANGED rounds
    BY <2>1, ZenonT(60)
  <2>2. CASE RoundsLoaded(rounds', blockNumber')
    <3>. DEFINE p == rounds'[lockedRound].proposal
    <3>1. ValuesOK'
      BY ZenonT(60) DEF IInv
    <3>2. p # NoProposal
      BY <3>1, ZenonT(60) DEF ValuesOK, isProven
    <3>3. <<blockNumber, p>> \in store.proposals /\ p.round = lockedRound
      BY <1>2, <2>2, <3>2, ZenonT(60) DEF RoundsLoaded
    <3>. HIDE DEF p
    <3>4. p = rounds[lockedRound].proposal
      BY <1>1, <1>2, <3>3, SMTT(60) DEF StoredMatch, HasProposal
    <3>. QED BY <3>4, ZenonT(60) DEF p
  <2>. QED BY <1>1, <1>4, <2>1, <2>2, RestartRounds, ZenonT(60)
<1>. QED BY <1>3, <1>4, ZenonT(60)

\* The position does not move while the handler signs votes.
LEMMA VotingStays ==
  ASSUME IInv, [Next]_vars, pc = "vote"
  PROVE  UNCHANGED position /\ ~NextBlock /\ ~Restart
<1>1. PlaceOK
  BY ZenonT(60) DEF IInv
<1>2. ~NextBlock /\ ~Restart /\ ~TakeJob
  BY <1>1, ZenonT(60) DEF NextBlock, Restart, PlaceOK, isRunning, TakeJob, Handle,
     HandleCommitState, OnTimeoutPropose, OnTimeoutPrevote, OnTimeoutPrecommit, Take
<1>3. ~OnProposal /\ ~OnMajorityPrevote /\ ~OnMajorityPrevoteNull /\ ~OnMinorityWithHigherRound
  BY RuleGuards, ZenonT(60) DEF OnProposal, OnMajorityPrevote, OnMajorityPrevoteNull,
     OnMinorityWithHigherRound, RuleNames
<1>. QED BY <1>2, <1>3, Writers, ZenonT(60) DEF PositionWriters, position

\* What the handler starts to sign for a block: what onProposal may prevote, or the block it
\* has just locked.
LEMMA VotingForBlock ==
  ASSUME IInv, [Next]_vars, pc # "vote", pc' = "vote", ballot'.value # Nil
  PROVE  \/ /\ OnProposal /\ ballot'.type = "prevote" /\ ballot'.value \in PrevoteValues
         \/ /\ OnMajorityPrevote /\ ballot'.type = "precommit" /\ ballot'.value = BlockOf(unit)
            /\ step = "prevote"
<1>. USE DEF position, flags, disk, history
<1>1. HandlerOK /\ FieldsOK /\ RoundsOK /\ PlaceOK
  BY ZenonT(60) DEF IInv
<1>2. ballot \in Ballots /\ rounds \in [Rounds -> RoundStates] /\ Nil \in Values
  BY <1>1, ZenonT(60) DEF HandlerOK, RoundsOK, Values
<1>3. ASSUME NEW type \in Types, NEW x \in Values, NEW next \in RuleNames \cup {"idle"},
             Vote(type, x, next)
      PROVE  ballot'.type = type /\ ballot'.value = x
  <2>1. HandlerVotes(type, x, next)
    BY <1>2, <1>3, VoteSteps, ZenonT(60)
  <2>2. next # "vote"
    BY ZenonT(60) DEF RuleNames
  <2>. QED BY <2>1, <2>2, ZenonT(60) DEF HandlerVotes
<1>4. pc \in RuleNames => unit \in Rounds
  BY <1>1, ZenonT(60) DEF HandlerOK, RuleNames
<1>5. CASE OnProposal
  <2>1. unit \in Rounds /\ HasProposal(unit)
    BY <1>4, <1>5, RuleGuards, ZenonT(60) DEF OnProposal, MayPrevote
  <2>2. PICK x \in PrevoteValues : Vote("prevote", x, "prevotes")
    BY <1>5, ZenonT(60) DEF OnProposal
  <2>3. ballot'.type = "prevote" /\ ballot'.value = x
    BY <1>2, <1>3, <2>1, <2>2, PrevoteValuesType, ZenonT(60) DEF Types, RuleNames
  <2>. QED BY <1>5, <2>2, <2>3, ZenonT(60)
<1>6. CASE OnMajorityPrevote
  <2>1. unit \in Rounds /\ HasProposal(unit)
    BY <1>4, <1>6, RuleGuards, ZenonT(60) DEF OnMajorityPrevote, MayLock, HasMajority
  <2>2. BlockOf(unit) \in Values
    BY <1>2, <2>1, PrevoteValuesType, ZenonT(60) DEF Values
  <2>3. step = "prevote" /\ Vote("precommit", BlockOf(unit), "prevotesAny")
    BY <1>6, ZenonT(60) DEF OnMajorityPrevote
  <2>4. ballot'.type = "precommit" /\ ballot'.value = BlockOf(unit)
    BY <1>3, <2>2, <2>3, ZenonT(60) DEF Types, RuleNames
  <2>. QED BY <1>6, <2>3, <2>4, ZenonT(60)
<1>7. ~OnMajorityPrevoteNull
  BY <1>2, <1>3, ZenonT(60) DEF OnMajorityPrevoteNull, Types, RuleNames
<1>8. ~TakeJob
  <2>1. SUFFICES ASSUME TakeJob PROVE FALSE
    BY ZenonT(60)
  <2>2. PICK job \in jobs : \/ Handle(job) \/ HandleCommitState(job) \/ OnTimeoutPropose(job)
                            \/ OnTimeoutPrevote(job) \/ OnTimeoutPrecommit(job)
    BY <2>1, ZenonT(60) DEF TakeJob
  <2>3. pc = "idle"
    BY <2>2, ZenonT(60) DEF Handle, HandleCommitState, OnTimeoutPropose, OnTimeoutPrevote,
                OnTimeoutPrecommit, Take
  <2>4. Vote("prevote", Nil, "idle") \/ Vote("precommit", Nil, "idle")
    BY <2>2, <2>3, ZenonT(60) DEF Handle, HandleCommitState, OnTimeoutPropose, OnTimeoutPrevote,
       OnTimeoutPrecommit, StartRound, EnterRound
  <2>. QED BY <1>2, <1>3, <2>4, ZenonT(60) DEF Types
<1>9. ~BeginRound /\ ~Commit /\ ~NextBlock /\ ~Crash /\ ~Restart /\ ~CastVote
  BY <1>1, ZenonT(60) DEF BeginRound, Commit, NextBlock, EnterRound, Crash, Restart, PlaceOK,
     isRunning, CastVote
<1>10. ~ProcessProposal /\ ~OnMajorityPrevoteAny /\ ~OnMajorityPrecommitAny
       /\ ~OnMajorityPrecommit /\ ~OnMinorityWithHigherRound /\ ~Return
  BY ZenonT(60)
     DEF ProcessProposal, OnMajorityPrevoteAny, OnMajorityPrecommitAny, OnMajorityPrecommit,
         OnMinorityWithHigherRound, StartRound, EnterRound, Return
<1>. QED BY <1>5, <1>6, <1>7, <1>8, <1>9, <1>10, Writers, ZenonT(60) DEF Rule

\* What onProposal and onProposalLocked prevote for is allowed by the lock: there is none,
\* or +2/3 prevoted for the block since, or for the locked block itself.
LEMMA PrevoteIsAllowed ==
  ASSUME RInv, OnProposal, NEW x \in PrevoteValues, x # Nil
  PROVE  LockAllows(x)
<1>1. /\ IInv /\ FieldsOK /\ RoundsOK /\ HandlerOK /\ ProofsAreCast /\ ResultsOK
  BY ZenonT(60) DEF RInv, SInv, IInv
<1>2. /\ unit \in Rounds /\ unit = round /\ HasProposal(unit)
      /\ rounds[unit].proposal.validRound < round
  BY <1>1, RuleGuards, ZenonT(60) DEF OnProposal, HandlerOK, RuleNames, MayPrevote,
     isCurrentRoundState
<1>. DEFINE p == rounds[unit].proposal
<1>3. p \in Proposals /\ p.round = unit
  BY <1>1, <1>2, ZenonT(60) DEF RoundsOK, RoundStates, HasProposal
<1>4. /\ rounds[unit].result = "success" /\ x = p.block
      /\ IF p.validRound = None THEN lockedRound = None
         ELSE \/ lockedRound <= p.validRound
              \/ lockedRound # None /\ BlockOf(lockedRound) = p.block
  BY ZenonT(60) DEF PrevoteValues
<1>5. LockProofVerifies(p)
  BY <1>1, <1>2, <1>4, ZenonT(60) DEF ResultsOK
<1>6. ProofIsCast(blockNumber, p)
  BY <1>1, <1>2, ZenonT(60) DEF ProofsAreCast
<1>7. p.validRound # None => p.validRound \in Rounds
  BY <1>3, ZenonT(60) DEF Proposals
<1>. HIDE DEF p
<1>. QED BY <1>2, <1>4, <1>5, <1>6, <1>7, ZenonT(60)
            DEF LockAllows, LockProofVerifies, ProofIsCast, p

\* The lock allows the votes of the handler as long as it signs them.
LEMMA BallotStep ==
  ASSUME RInv, IInv', [Next]_vars
  PROVE  BallotOK'
<1>1. IInv /\ BallotOK /\ FieldsOK /\ PlaceOK /\ HandlerOK
  BY ZenonT(60) DEF RInv, SInv, IInv
<1>2. SUFFICES ASSUME pc' = "vote", ballot'.value # Nil PROVE BallotOK'
  BY ZenonT(60) DEF BallotOK
<1>3. CASE pc = "vote"
  <2>1. UNCHANGED <<blockNumber, round, lockedRound>> /\ ~NextBlock
    BY <1>1, <1>3, VotingStays, ZenonT(60) DEF position
  <2>2. ballot'.type = ballot.type /\ ballot'.value = ballot.value
    <3>1. CASE UNCHANGED ballot
      BY <3>1, ZenonT(60)
    <3>2. CASE CastVote
      <4>1. PICK v \in ballot.voters :
              LET left == ballot.voters \ {v} IN
              IF left = {} THEN pc' = ballot.next /\ ballot' = NoBallot
              ELSE pc' = pc /\ ballot' = [ballot EXCEPT !.voters = left]
        BY <3>2, ZenonT(60) DEF CastVote
      <4>2. ballot \in Ballots /\ ballot.next # "vote"
        BY <1>1, ZenonT(60) DEF HandlerOK, Ballots, RuleNames
      <4>3. ballot' = [ballot EXCEPT !.voters = ballot.voters \ {v}]
        BY <1>2, <4>1, <4>2, ZenonT(60)
      <4>. QED BY <4>2, <4>3, SMTT(60) DEF Ballots
    <3>3. ~BeginRound /\ ~Rule /\ ~Commit /\ ~Crash /\ ~TakeJob
      <4>1. ~BeginRound /\ ~Commit /\ ~Crash
        BY <1>2, ZenonT(60) DEF BeginRound, Commit, Crash
      <4>2. ~Rule
        BY <1>3, RuleGuards, ZenonT(60) DEF Rule, ProcessProposal, OnProposal, OnMajorityPrevote,
           OnMajorityPrevoteAny, OnMajorityPrevoteNull, OnMajorityPrecommitAny,
           OnMajorityPrecommit, OnMinorityWithHigherRound, Return, RuleNames
      <4>3. ~TakeJob
        BY <1>3, ZenonT(60) DEF TakeJob, Handle, HandleCommitState, OnTimeoutPropose,
           OnTimeoutPrevote, OnTimeoutPrecommit, Take
      <4>. QED BY <4>1, <4>2, <4>3, ZenonT(60)
    <3>. QED BY <1>1, <1>3, <3>1, <3>2, <3>3, VotingStays, Writers, ZenonT(60)
  <2>3. blockNumber \in 1..MaxBlockNumber
    BY <1>1, <1>3, ConstantsAssumption, SMTT(60) DEF PlaceOK, FieldsOK, isRunning
  <2>4. lockedRound # None => BlockOf(lockedRound)' = BlockOf(lockedRound)
    BY <2>1, LockedBlockStays, ZenonT(60) DEF BlockOf
  <2>5. ASSUME ballot.type = "prevote" PROVE LockAllows(ballot.value)'
    <3>1. LockAllows(ballot.value)
      BY <1>1, <1>2, <1>3, <2>2, <2>5, ZenonT(60) DEF BallotOK
    <3>2. CASE lockedRound = None
      BY <2>1, <3>2, ZenonT(60) DEF LockAllows
    <3>3. CASE lockedRound # None
      <4>1. PICK vr \in Rounds :
              /\ vr < round /\ isMajorityOf(Prevoters(blockNumber, vr, ballot.value))
              /\ lockedRound <= vr \/ BlockOf(lockedRound) = ballot.value
        BY <3>1, <3>3, ZenonT(60) DEF LockAllows
      <4>2. isMajorityOf(Prevoters(blockNumber, vr, ballot.value)')
        <5>1. \A x : isMajorityOf(Prevoters(blockNumber, vr, x)) =>
                isMajorityOf({v \in Validators : <<v, vr, x>> \in cast'.prevote[blockNumber]})
          BY <1>1, <2>3, ProofStays, ZenonT(60) DEF Prevoters
        <5>. QED BY <2>1, <2>2, <4>1, <5>1, ZenonT(60) DEF Prevoters
      <4>3. vr < round' /\ (lockedRound' <= vr \/ BlockOf(lockedRound)' = ballot.value')
        BY <2>1, <2>2, <2>4, <3>3, <4>1, ZenonT(60)
      <4>. QED BY <4>2, <4>3, ZenonT(60) DEF LockAllows
    <3>. QED BY <3>2, <3>3, ZenonT(60)
  <2>6. ASSUME ballot.type = "precommit"
        PROVE  lockedRound' = round' /\ BlockOf(round)' = ballot'.value
    <3>1. lockedRound = round /\ BlockOf(round) = ballot.value
      BY <1>1, <1>2, <1>3, <2>2, <2>6, ZenonT(60) DEF BallotOK
    <3>2. lockedRound # None
      BY <1>1, <3>1, RoundFacts, ZenonT(60) DEF FieldsOK
    <3>3. rounds'[round].proposal = rounds[round].proposal
      BY <2>1, <3>1, <3>2, LockedBlockStays, ZenonT(60)
    <3>. QED BY <2>1, <2>2, <3>1, <3>3, ZenonT(60) DEF BlockOf
  <2>. QED BY <2>2, <2>5, <2>6, ZenonT(60) DEF BallotOK
<1>4. CASE pc # "vote"
  <2>1. CASE OnProposal /\ ballot'.type = "prevote" /\ ballot'.value \in PrevoteValues
    <3>1. LockAllows(ballot'.value)
      BY <1>2, <2>1, PrevoteIsAllowed, ZenonT(60)
    <3>2. UNCHANGED <<blockNumber, round, lockedRound, rounds, cast>>
      BY <2>1, ZenonT(60) DEF OnProposal, history
    <3>3. LockAllows(ballot.value)'
      BY <3>1, <3>2, ZenonT(60) DEF LockAllows, Prevoters, BlockOf
    <3>. QED BY <2>1, <3>3, ZenonT(60) DEF BallotOK
  <2>2. CASE /\ OnMajorityPrevote /\ ballot'.type = "precommit" /\ ballot'.value = BlockOf(unit)
             /\ step = "prevote"
    <3>1. unit = round
      BY <2>2, RuleGuards, ZenonT(60) DEF OnMajorityPrevote, MayLock, isCurrentRoundState
    <3>2. lockedRound' = unit /\ UNCHANGED <<round, rounds>>
      BY <2>2, ZenonT(60) DEF OnMajorityPrevote
    <3>. QED BY <2>2, <3>1, <3>2, ZenonT(60) DEF BallotOK, BlockOf
  <2>. QED BY <1>1, <1>2, <1>4, <2>1, <2>2, VotingForBlock, ZenonT(60)
<1>. QED BY <1>3, <1>4, ZenonT(60)

-------------------------------------------------------------------------------
(* Timeouts.                                                               *)

\* The rules up to a stage are still going to be applied to the running round.
isPending(stage) ==
  \/ pc \in {"beginRound", "vote", "commit", "committed"}
  \/ pc \in RuleNames /\ unit = round /\ Stages[pc] <= Stages[stage]
  \/ <<"round", blockNumber, round>> \in jobs
  \/ \E m \in inbox : m[1] \in Types /\ m[3] = round

\* Timers are of the running round, until the next one clears them.
TimersOfPlace == pc # "beginRound" => \A t \in timers : t[2] = blockNumber /\ t[3] = round

ProposeIsTimed ==
  step = "propose" /\ pc # "beginRound" => isArmed("blockPrepare") \/ isArmed("propose")

PrevoteIsTimed ==
  step = "prevote" /\ HasMajorityAny(round, "prevote") =>
    isPending("prevotesAny") \/ isArmed("prevote")

PrecommitIsTimed ==
  HasMajorityAny(round, "precommit") => isPending("precommitsAny") \/ isArmed("precommit")

TInv ==
  /\ IInv
  /\ TimersOfPlace
  /\ isRunning => ProposeIsTimed /\ PrevoteIsTimed /\ PrecommitIsTimed

\* The order of the rules.
LEMMA StageNumbers ==
  /\ Stages["process"] = 1 /\ Stages["proposal"] = 2 /\ Stages["prevotes"] = 3
  /\ Stages["prevotesAny"] = 4 /\ Stages["prevotesNull"] = 5 /\ Stages["precommitsAny"] = 6
  /\ Stages["precommits"] = 7 /\ Stages["minority"] = 8
  BY ZenonT(60) DEF Stages

\* A node changes its round only where the next one begins.
LEMMA RoundIsKept ==
  ASSUME IInv, [Next]_vars, pc' # "beginRound"
  PROVE  /\ UNCHANGED <<blockNumber, round>>
         /\ pc # "beginRound" \/ BeginRound \/ Crash
<1>. USE DEF position, flags, disk, history
<1>1. FieldsOK /\ PlaceOK
  BY ZenonT(60) DEF IInv
<1>2. CASE OnProposal \/ OnMajorityPrevote \/ OnMajorityPrevoteNull
           \/ OnMinorityWithHigherRound \/ TakeJob
  BY <1>2, ZenonT(60) DEF OnProposal, OnMajorityPrevote, OnMajorityPrevoteNull,
     OnMinorityWithHigherRound, TakeJob, Handle, HandleCommitState, OnTimeoutPropose,
     OnTimeoutPrevote, OnTimeoutPrecommit, Take, StartRound, EnterRound,
     applyRules, Stages
<1>3. ~NextBlock
  BY ZenonT(60) DEF NextBlock, EnterRound
<1>4. CASE Restart
  BY <1>1, <1>4, ZenonT(60) DEF Restart, PlaceOK, isRunning
<1>5. CASE Rule \/ CastVote \/ Commit
  <2>1. pc # "beginRound"
    BY <1>5, RuleGuards, ZenonT(60) DEF Rule, CastVote, Commit, ProcessProposal, OnProposal,
       OnMajorityPrevote, OnMajorityPrevoteAny, OnMajorityPrevoteNull,
       OnMajorityPrecommitAny, OnMajorityPrecommit, OnMinorityWithHigherRound, Return,
       RuleNames
  <2>. QED BY <1>2, <1>3, <1>4, <2>1, Writers, ZenonT(60) DEF PositionWriters
<1>6. CASE ~(Rule \/ CastVote \/ Commit \/ TakeJob \/ Restart)
  BY <1>3, <1>6, Writers, ZenonT(60) DEF Rule, PositionWriters
<1>. QED BY <1>2, <1>4, <1>5, <1>6, ZenonT(60)

\* A node that runs after a step, and does not begin a round there, ran before.
LEMMA RunningSteps ==
  ASSUME IInv, [Next]_vars, isRunning', pc' # "beginRound"
  PROVE  isRunning /\ ~Crash /\ ~Restart /\ ~NextBlock
<1>1. ~Crash
  BY ZenonT(60) DEF Crash, isRunning
<1>2. ~Restart
  BY ZenonT(60) DEF Restart, isRunning
<1>3. ~NextBlock
  BY ZenonT(60) DEF NextBlock, EnterRound
<1>. QED BY <1>1, <1>2, <1>3, Writers, ZenonT(60) DEF isRunning, Booted

\* A new round clears the timeouts of the last one.
LEMMA TimersStep ==
  ASSUME IInv, TimersOfPlace, [Next]_vars
  PROVE  TimersOfPlace'
<1>. USE DEF position, flags, disk, history
<1>1. SUFFICES ASSUME pc' # "beginRound", NEW t \in timers'
               PROVE  t[2] = blockNumber' /\ t[3] = round'
  BY ZenonT(60) DEF TimersOfPlace
<1>2. /\ UNCHANGED <<blockNumber, round>>
      /\ pc # "beginRound" \/ BeginRound \/ Crash
  BY <1>1, RoundIsKept, ZenonT(60)
<1>3. CASE BeginRound
  BY <1>1, <1>2, <1>3, SMTT(60) DEF BeginRound, TimersOfRound
<1>4. CASE Crash
  BY <1>1, <1>4, ZenonT(60) DEF Crash
<1>5. CASE pc # "beginRound" /\ ~BeginRound /\ ~Crash
  <2>1. t \in timers \/ (t[2] = blockNumber /\ t[3] = round)
    <3>1. CASE OnTimeoutBlockPrepare
      BY <1>1, <3>1, SMTT(60) DEF OnTimeoutBlockPrepare
    <3>2. CASE OnMajorityPrevoteAny
      BY <1>1, <3>2, SMTT(60) DEF OnMajorityPrevoteAny
    <3>3. CASE OnMajorityPrecommitAny
      BY <1>1, <3>3, SMTT(60) DEF OnMajorityPrecommitAny
    <3>4. CASE NextBlock
      BY <1>1, <3>4, ZenonT(60) DEF NextBlock
    <3>5. CASE TimeoutExpires
      BY <1>1, <3>5, ZenonT(60) DEF TimeoutExpires
    <3>. QED BY <1>1, <1>5, <3>1, <3>2, <3>3, <3>4, <3>5, Writers, ZenonT(60)
  <2>. QED BY <1>2, <1>5, <2>1, ZenonT(60) DEF TimersOfPlace
<1>. QED BY <1>2, <1>3, <1>4, <1>5, ZenonT(60)

\* A timeout that is scheduled or waits for its handler stays so until its handler runs.
LEMMA ArmedStays ==
  ASSUME IInv, [Next]_vars, isRunning', pc' # "beginRound", ~BeginRound,
         NEW kind \in {"propose", "prevote", "precommit"}, isArmed(kind)
  PROVE  \/ isArmed(kind)'
         \/ kind = "propose" /\ step' # "propose"
         \/ kind = "prevote" /\ step' # "prevote"
<1>. USE DEF position, flags, disk, history
<1>. DEFINE e == <<kind, blockNumber, round>>
<1>1. e' = e
  BY RoundIsKept, ZenonT(60)
<1>2. ~Crash /\ ~NextBlock
  BY RunningSteps, ZenonT(60)
<1>3. e \in timers => e \in timers' \cup jobs'
  <2>1. SUFFICES ASSUME e \in timers PROVE e \in timers' \cup jobs'
    BY ZenonT(60)
  <2>2. CASE OnTimeoutBlockPrepare
    BY <2>1, <2>2, SMTT(60) DEF OnTimeoutBlockPrepare
  <2>3. CASE OnMajorityPrevoteAny \/ OnMajorityPrecommitAny
    BY <2>1, <2>3, ZenonT(60) DEF OnMajorityPrevoteAny, OnMajorityPrecommitAny
  <2>4. CASE TimeoutExpires
    BY <2>1, <2>4, ZenonT(60) DEF TimeoutExpires
  <2>. QED BY <1>2, <2>1, <2>2, <2>3, <2>4, Writers, ZenonT(60)
<1>4. ASSUME e \in jobs, ~TakeJob
      PROVE  e \in jobs'
  <2>1. CASE TimeoutExpires \/ ProcessOwnVote \/ ProcessOwnProposal
    BY <1>4, <2>1, ZenonT(60) DEF TimeoutExpires, ProcessOwnVote, ProcessOwnProposal
  <2>2. CASE PeersVote \/ PeersPropose \/ PeersCommit
    BY <1>4, <2>2, ZenonT(60)
       DEF PeersVote, PeersPropose, PeersCommit, ProcessVotes, ProcessProposalOf,
                      ProcessCommit
  <2>. QED BY <1>2, <1>4, <2>1, <2>2, Writers, ZenonT(60)
<1>5. CASE e \in jobs /\ TakeJob
  <2>1. PICK job \in jobs : \/ Handle(job) \/ HandleCommitState(job) \/ OnTimeoutPropose(job)
                            \/ OnTimeoutPrevote(job) \/ OnTimeoutPrecommit(job)
    BY <1>5, ZenonT(60) DEF TakeJob
  <2>2. jobs' = jobs \ {job}
    BY <2>1, ZenonT(60) DEF Handle, HandleCommitState, OnTimeoutPropose, OnTimeoutPrevote,
                OnTimeoutPrecommit, Take
  <2>3. CASE job # e
    <3>1. e \in jobs'
      BY <1>5, <2>2, <2>3, ZenonT(60)
    <3>. QED BY <1>1, <3>1, ZenonT(60) DEF isArmed
  <2>4. CASE job = e
    <3>1. job[1] = kind
      BY <2>4, ZenonT(60)
    <3>2. CASE OnTimeoutPropose(job)
      BY <2>4, <3>1, <3>2, ZenonT(60) DEF OnTimeoutPropose
    <3>3. CASE OnTimeoutPrevote(job)
      BY <2>4, <3>1, <3>3, ZenonT(60) DEF OnTimeoutPrevote
    <3>4. CASE OnTimeoutPrecommit(job)
      BY <2>4, <3>1, <3>4, ZenonT(60) DEF OnTimeoutPrecommit, StartRound, EnterRound
    <3>5. CASE Handle(job) \/ HandleCommitState(job)
      BY <3>1, <3>5, ZenonT(60) DEF Handle, HandleCommitState
    <3>. QED BY <2>1, <3>2, <3>3, <3>4, <3>5, ZenonT(60)
  <2>. QED BY <2>3, <2>4, ZenonT(60)
<1>. QED BY <1>1, <1>3, <1>4, <1>5, ZenonT(60) DEF isArmed

\* The propose timeout runs through the propose step.
LEMMA ProposeTimedStep ==
  ASSUME TInv, [Next]_vars, isRunning'
  PROVE  ProposeIsTimed'
<1>. USE DEF position, flags, disk, history
<1>1. SUFFICES ASSUME step' = "propose", pc' # "beginRound"
               PROVE  isArmed("blockPrepare")' \/ isArmed("propose")'
  BY ZenonT(60) DEF ProposeIsTimed
<1>2. IInv /\ TimersOfPlace /\ FieldsOK
  BY ZenonT(60) DEF TInv, IInv
<1>3. /\ UNCHANGED <<blockNumber, round>>
      /\ pc # "beginRound" \/ BeginRound \/ Crash
  BY <1>1, <1>2, RoundIsKept, ZenonT(60)
<1>4. isRunning /\ ~Crash /\ ~Restart /\ ~NextBlock
  BY <1>1, <1>2, RunningSteps, ZenonT(60)
<1>5. step = "propose"
  <2>1. Advances
    BY <1>2, ValuesBehindStep, ZenonT(60)
  <2>2. blockNumber \in Int /\ round \in Int /\ step \in Steps
    BY <1>2, RoundFacts, SMTT(60) DEF FieldsOK
  <2>3. StepNumber[step'] >= StepNumber[step]
    BY <1>3, <2>1, <2>2, SMTT(60) DEF Advances
  <2>. QED BY <1>1, <2>2, <2>3, SMTT(60) DEF StepNumber, Steps
<1>6. CASE BeginRound
  BY <1>3, <1>5, <1>6, ZenonT(60) DEF BeginRound, TimersOfRound, isArmed
<1>7. CASE ~BeginRound
  <2>1. isArmed("blockPrepare") \/ isArmed("propose")
    BY <1>3, <1>4, <1>5, <1>7, ZenonT(60) DEF TInv, ProposeIsTimed
  <2>2. CASE isArmed("propose")
    BY <1>1, <1>2, <1>7, <2>2, ArmedStays, ZenonT(60)
  <2>3. CASE isArmed("blockPrepare")
    <3>. DEFINE e == <<"blockPrepare", blockNumber, round>>
    <3>1. CASE OnTimeoutBlockPrepare
      <4>1. \/ <<"propose", blockNumber, round>> \in timers'
            \/ \E t \in timers : t[1] = "propose" /\ t \in timers'
        BY <3>1, ZenonT(60) DEF OnTimeoutBlockPrepare, isScheduled
      <4>2. \A t \in timers : t[1] = "propose" => t = <<"propose", blockNumber, round>>
        <5>1. \A t \in timers : t[2] = blockNumber /\ t[3] = round
          BY <1>2, <1>3, <1>4, <1>7, ZenonT(60) DEF TimersOfPlace
        <5>2. \A t \in timers : t = <<t[1], t[2], t[3]>>
          BY <1>2, SMTT(60) DEF IInv, QueuesOK
        <5>. QED BY <5>1, <5>2, ZenonT(60)
      <4>. QED BY <1>3, <4>1, <4>2, ZenonT(60) DEF isArmed
    <3>2. CASE ~OnTimeoutBlockPrepare
      <4>1. e \in timers => e \in timers'
        <5>1. CASE OnMajorityPrevoteAny \/ OnMajorityPrecommitAny
          BY <5>1, ZenonT(60) DEF OnMajorityPrevoteAny, OnMajorityPrecommitAny
        <5>2. CASE TimeoutExpires
          <6>1. PICK t \in timers : t[1] # "blockPrepare" /\ timers' = timers \ {t}
            BY <5>2, ZenonT(60) DEF TimeoutExpires
          <6>2. e # t
            BY <6>1, SMTT(60)
          <6>. QED BY <6>1, <6>2, ZenonT(60)
        <5>. QED BY <1>4, <1>7, <3>2, <5>1, <5>2, Writers, ZenonT(60)
      <4>2. e \in jobs => e \in jobs'
        <5>1. CASE TimeoutExpires \/ ProcessOwnVote \/ ProcessOwnProposal
          BY <5>1, ZenonT(60) DEF TimeoutExpires, ProcessOwnVote, ProcessOwnProposal
        <5>2. CASE PeersVote \/ PeersPropose \/ PeersCommit
          BY <5>2, ZenonT(60)
             DEF PeersVote, PeersPropose, PeersCommit, ProcessVotes, ProcessProposalOf,
                      ProcessCommit
        <5>3. CASE TakeJob
          <6>1. PICK job \in jobs :
                  /\ jobs' = jobs \ {job}
                  /\ job[1] \in {"round", "commit", "propose", "prevote", "precommit"}
            BY <5>3, ZenonT(60) DEF TakeJob, Handle, HandleCommitState, OnTimeoutPropose,
                        OnTimeoutPrevote, OnTimeoutPrecommit, Take
          <6>. QED BY <6>1, SMTT(60)
        <5>. QED BY <1>4, <5>1, <5>2, <5>3, Writers, ZenonT(60)
      <4>3. e' = e
        BY <1>3, ZenonT(60)
      <4>. QED BY <2>3, <4>1, <4>2, <4>3, ZenonT(60) DEF isArmed
    <3>. QED BY <3>1, <3>2, ZenonT(60)
  <2>. QED BY <2>1, <2>2, <2>3, ZenonT(60)
<1>. QED BY <1>6, <1>7, ZenonT(60)

\* A rule that applies is not passed by.
LEMMA AppliesFirst ==
  ASSUME NEW stage \in Applying(unit), pc \in RuleNames, Stages[pc] <= Stages[stage]
  PROVE  /\ ~Return
         /\ \A other : applyRules(other) => Stages[other] <= Stages[stage]
<1>1. stage \in RuleNames
  BY RuleGuards, ZenonT(60) DEF Applying
<1>2. \A x \in RuleNames : Stages[x] \in Int
  BY StageNumbers, SMTT(60) DEF RuleNames
<1>3. stage \in Ahead
  BY <1>1, <1>2, ZenonT(60) DEF Ahead
<1>. QED BY <1>3, ZenonT(60) DEF Return, applyRules

\* What is still to be applied to the running round is applied to it.
LEMMA PendingStays ==
  ASSUME IInv, [Next]_vars, isRunning', ~BeginRound,
         pc' \notin {"beginRound", "vote", "commit", "committed"},
         NEW stage \in {"prevotesAny", "precommitsAny"},
         isPending(stage), stage \in Applying(round)
  PROVE  \/ isPending(stage)'
         \/ stage = "prevotesAny" /\ OnMajorityPrevoteAny
         \/ stage = "precommitsAny" /\ OnMajorityPrecommitAny
<1>. USE DEF position, flags, disk, history
<1>. DEFINE J == <<"round", blockNumber, round>>
<1>1. HandlerOK /\ VotesAreCast /\ QueuesOK
  BY ZenonT(60) DEF IInv
<1>2. UNCHANGED <<blockNumber, round>> /\ pc # "beginRound"
  BY RoundIsKept, RunningSteps, ZenonT(60)
<1>3. isRunning /\ ~Crash /\ ~Restart /\ ~NextBlock
  BY RunningSteps, ZenonT(60)
<1>4. J' = J
  BY <1>2, ZenonT(60)
<1>5. ASSUME J \in jobs
      PROVE  isPending(stage)'
  <2>1. CASE ~TakeJob
    <3>1. J \in jobs'
      <4>1. CASE TimeoutExpires \/ ProcessOwnVote \/ ProcessOwnProposal
        BY <1>5, <4>1, ZenonT(60) DEF TimeoutExpires, ProcessOwnVote, ProcessOwnProposal
      <4>2. CASE PeersVote \/ PeersPropose \/ PeersCommit
        BY <1>5, <4>2, ZenonT(60) DEF PeersVote, PeersPropose, PeersCommit, ProcessVotes,
                          ProcessProposalOf, ProcessCommit
      <4>. QED BY <1>3, <1>5, <2>1, <4>1, <4>2, Writers, ZenonT(60)
    <3>. QED BY <1>4, <3>1, ZenonT(60) DEF isPending
  <2>2. CASE TakeJob
    <3>1. PICK job \in jobs : \/ Handle(job) \/ HandleCommitState(job) \/ OnTimeoutPropose(job)
                              \/ OnTimeoutPrevote(job) \/ OnTimeoutPrecommit(job)
      BY <2>2, ZenonT(60) DEF TakeJob
    <3>2. jobs' = jobs \ {job}
      BY <3>1, ZenonT(60) DEF Handle, HandleCommitState, OnTimeoutPropose, OnTimeoutPrevote,
                  OnTimeoutPrecommit, Take
    <3>3. CASE job # J
      BY <1>4, <1>5, <3>2, <3>3, ZenonT(60) DEF isPending
    <3>4. CASE job = J
      <4>1. job[1] = "round" /\ job[2] = blockNumber /\ job[3] = round
        BY <3>4, ZenonT(60)
      <4>2. Handle(job)
        BY <3>1, <4>1, ZenonT(60) DEF HandleCommitState, OnTimeoutPropose, OnTimeoutPrevote,
                          OnTimeoutPrecommit
      <4>3. pc' = "process" /\ unit' = round
        BY <4>1, <4>2, ZenonT(60) DEF Handle
      <4>. QED BY <1>2, <4>3, StageNumbers, SMTT(60) DEF isPending, RuleNames
    <3>. QED BY <3>3, <3>4, ZenonT(60)
  <2>. QED BY <2>1, <2>2, ZenonT(60)
<1>6. ASSUME NEW m \in inbox, m[1] \in Types, m[3] = round
      PROVE  isPending(stage)'
  <2>1. CASE m \in inbox'
    BY <1>2, <1>6, <2>1, ZenonT(60) DEF isPending
  <2>2. CASE m \notin inbox'
    <3>1. ProcessOwnVote
      <4>1. ~ProcessOwnProposal
        BY <1>6, <2>2, ZenonT(60) DEF ProcessOwnProposal, Types
      <4>2. ~SubmitProposal /\ ~CastVote
        BY <2>2, ZenonT(60) DEF SubmitProposal, CastVote
      <4>. QED BY <1>3, <2>2, <4>1, <4>2, Writers, ZenonT(60)
    <3>2. <<"round", m[2], m[3]>> \in jobs'
      BY <2>2, <3>1, ZenonT(60) DEF ProcessOwnVote
    <3>3. m[2] = blockNumber
      BY <1>1, <1>6, ZenonT(60) DEF VotesAreCast
    <3>. QED BY <1>4, <1>6, <3>2, <3>3, ZenonT(60) DEF isPending
  <2>. QED BY <2>1, <2>2, ZenonT(60)
<1>7. CASE pc = "vote"
  <2>1. CastVote
    <3>1. ~Rule
      BY <1>7, RuleGuards, ZenonT(60) DEF Rule, ProcessProposal, OnProposal,
         OnMajorityPrevote, OnMajorityPrevoteAny, OnMajorityPrevoteNull,
         OnMajorityPrecommitAny, OnMajorityPrecommit, OnMinorityWithHigherRound, Return,
         RuleNames
    <3>2. ~Commit /\ ~TakeJob
      BY <1>7, ZenonT(60) DEF Commit, TakeJob, Handle, HandleCommitState, OnTimeoutPropose,
                  OnTimeoutPrevote, OnTimeoutPrecommit, Take
    <3>. QED BY <1>3, <1>7, <3>1, <3>2, Writers, ZenonT(60)
  <2>2. PICK v : inbox' = inbox \cup {<<ballot.type, blockNumber, round, v, ballot.value>>}
    BY <2>1, ZenonT(60) DEF CastVote
  <2>3. ballot.type \in Types
    BY <1>1, ZenonT(60) DEF HandlerOK, Ballots
  <2>4. \E m \in inbox' : m[1] \in Types /\ m[3] = round
    <3>. DEFINE m == <<ballot.type, blockNumber, round, v, ballot.value>>
    <3>1. m \in inbox' /\ m[1] \in Types /\ m[3] = round
      BY <2>2, <2>3, ZenonT(60)
    <3>. QED BY <3>1, ZenonT(60)
  <2>. QED BY <1>2, <2>4, ZenonT(60) DEF isPending
<1>8. pc \notin {"commit", "committed"}
  <2>1. SUFFICES ASSUME pc \in {"commit", "committed"} PROVE FALSE
    BY ZenonT(60)
  <2>2. ~Rule
    BY <2>1, RuleGuards, ZenonT(60) DEF Rule, ProcessProposal, OnProposal,
       OnMajorityPrevote, OnMajorityPrevoteAny, OnMajorityPrevoteNull,
       OnMajorityPrecommitAny, OnMajorityPrecommit, OnMinorityWithHigherRound, Return,
       RuleNames
  <2>3. ~CastVote /\ ~TakeJob
    BY <2>1, ZenonT(60) DEF CastVote, TakeJob, Handle, HandleCommitState, OnTimeoutPropose,
                OnTimeoutPrevote, OnTimeoutPrecommit, Take
  <2>4. ~Commit
    BY ZenonT(60) DEF Commit
  <2>. QED BY <1>3, <2>1, <2>2, <2>3, <2>4, Writers, ZenonT(60)
<1>9. CASE pc \in RuleNames /\ unit = round /\ Stages[pc] <= Stages[stage]
  <2>1. CASE UNCHANGED <<pc, unit>>
    BY <1>2, <1>9, <2>1, ZenonT(60) DEF isPending
  <2>2. CASE Rule
    <3>1. /\ ~Return
          /\ \A other : applyRules(other) => Stages[other] <= Stages[stage]
      BY <1>9, AppliesFirst, ZenonT(60)
    <3>2. CASE ProcessProposal
      <4>1. pc' = "proposal" /\ UNCHANGED unit
        BY <3>2, ZenonT(60) DEF ProcessProposal
      <4>. QED BY <1>2, <1>9, <4>1, StageNumbers, SMTT(60) DEF isPending, RuleNames
    <3>3. CASE OnProposal
      <4>1. pc' = "prevotes" /\ UNCHANGED unit
        BY <3>3, ZenonT(60) DEF OnProposal, Vote
      <4>. QED BY <1>2, <1>9, <4>1, StageNumbers, SMTT(60) DEF isPending, RuleNames
    <3>4. CASE OnMajorityPrevote
      <4>1. pc' = "prevotesAny" /\ UNCHANGED unit
        BY <3>4, ZenonT(60) DEF OnMajorityPrevote, Vote
      <4>. QED BY <1>2, <1>9, <4>1, StageNumbers, SMTT(60) DEF isPending, RuleNames
    <3>5. CASE OnMajorityPrevoteAny
      <4>1. pc' = "prevotesNull" /\ UNCHANGED unit
        BY <3>5, ZenonT(60) DEF OnMajorityPrevoteAny
      <4>. QED BY <1>2, <1>9, <3>5, <4>1, StageNumbers, SMTT(60) DEF isPending, RuleNames
    <3>6. CASE OnMajorityPrevoteNull
      <4>1. pc' = "precommitsAny" /\ UNCHANGED unit /\ Stages["prevotesNull"] <= Stages[stage]
        BY <3>1, <3>6, ZenonT(60) DEF OnMajorityPrevoteNull, Vote
      <4>. QED BY <1>2, <1>9, <4>1, StageNumbers, SMTT(60) DEF isPending, RuleNames
    <3>7. CASE OnMajorityPrecommitAny
      <4>1. Stages["precommitsAny"] <= Stages[stage]
        BY <3>1, <3>7, ZenonT(60) DEF OnMajorityPrecommitAny
      <4>. QED BY <3>7, <4>1, StageNumbers, SMTT(60)
    <3>8. CASE OnMajorityPrecommit \/ OnMinorityWithHigherRound
      <4>1. Stages["precommits"] <= Stages[stage] \/ Stages["minority"] <= Stages[stage]
        BY <3>1, <3>8, ZenonT(60) DEF OnMajorityPrecommit, OnMinorityWithHigherRound
      <4>. QED BY <4>1, StageNumbers, SMTT(60)
    <3>. QED BY <2>2, <3>1, <3>2, <3>3, <3>4, <3>5, <3>6, <3>7, <3>8, ZenonT(60) DEF Rule
  <2>3. ~CastVote /\ ~Commit /\ ~TakeJob
    BY <1>9, SMTT(60) DEF CastVote, Commit, TakeJob, Handle, HandleCommitState, OnTimeoutPropose,
                OnTimeoutPrevote, OnTimeoutPrecommit, Take, RuleNames
  <2>. QED BY <1>3, <2>1, <2>2, <2>3, Writers, ZenonT(60)
<1>. QED BY <1>2, <1>5, <1>6, <1>7, <1>8, <1>9, ZenonT(60) DEF isPending

\* Votes that come in queue their round state.
LEMMA CountingQueues ==
  ASSUME IInv, [Next]_vars, ~NextBlock, ~Restart, NEW r \in Rounds, NEW type \in Types
  PROVE  rounds'[r][type] = rounds[r][type] \/ <<"round", blockNumber, r>> \in jobs'
<1>. USE DEF position, flags, disk, history
<1>1. RoundsOK /\ HandlerOK /\ VotesAreCast /\ QueuesOK
  BY ZenonT(60) DEF IInv
<1>2. rounds \in [Rounds -> RoundStates]
  BY <1>1, ZenonT(60) DEF RoundsOK
<1>3. ASSUME NEW t \in Types, NEW q \in Rounds, NEW Q \in SUBSET Validators, NEW x \in Values,
             rounds' = addVotes(t, q, Q, x), <<"round", blockNumber, q>> \in jobs'
      PROVE  rounds'[r][type] = rounds[r][type] \/ <<"round", blockNumber, r>> \in jobs'
  <2>1. VotesAdded(rounds', t, q, Q, x)
    BY <1>2, <1>3, AddVotes, ZenonT(60)
  <2>. QED BY <1>3, <2>1, ZenonT(60) DEF VotesAdded
<1>4. ASSUME NEW p \in Proposals, rounds' = addProposal(p)
      PROVE  rounds'[r][type] = rounds[r][type]
  <2>1. ProposalAdded(rounds', p)
    BY <1>2, <1>4, AddProposal, ZenonT(60)
  <2>. QED BY <2>1, ZenonT(60) DEF ProposalAdded
<1>5. CASE ProcessProposal
  <2>1. PICK x : rounds' = [rounds EXCEPT ![unit].result = x]
    BY <1>5, ZenonT(60) DEF ProcessProposal
  <2>2. unit \in Rounds
    BY <1>1, <1>5, RuleGuards, ZenonT(60) DEF ProcessProposal, HandlerOK, RuleNames
  <2>. QED BY <1>2, <2>1, <2>2, ZenonT(60) DEF RoundStates, Types
<1>6. CASE ProcessOwnVote
  <2>1. PICK m \in inbox : /\ m[1] \in Types /\ rounds' = addVotes(m[1], m[3], {m[4]}, m[5])
                           /\ <<"round", m[2], m[3]>> \in jobs'
    BY <1>6, ZenonT(60) DEF ProcessOwnVote
  <2>2. m[2] = blockNumber
    BY <1>1, <2>1, ZenonT(60) DEF VotesAreCast
  <2>3. m[3] \in Rounds /\ {m[4]} \in SUBSET Validators /\ m[5] \in Values
    BY <1>1, <2>1, ZenonT(60) DEF QueuesOK, Types
  <2>. QED BY <1>3, <2>1, <2>2, <2>3, ZenonT(60)
<1>7. CASE ProcessOwnProposal
  <2>1. PICK m \in inbox : m[1] = "proposal" /\ (UNCHANGED rounds \/ rounds' = addProposal(m[3]))
    BY <1>7, ZenonT(60) DEF ProcessOwnProposal
  <2>2. m[3] \in Proposals
    BY <1>1, <2>1, ZenonT(60) DEF QueuesOK, Types
  <2>. QED BY <1>4, <2>1, <2>2, ZenonT(60)
<1>8. CASE PeersVote
  <2>1. PICK m \in RemoteVotes : ProcessVotes(m[1], m[2], m[3], m[4])
    BY <1>8, ZenonT(60) DEF PeersVote
  <2>2. m[1] \in SUBSET Validators /\ m[2] \in Types /\ m[3] \in Rounds /\ m[4] \in Values
    BY ConstantsAssumption, ZenonT(60) DEF Remote
  <2>3. rounds' = addVotes(m[2], m[3], m[1], m[4]) /\ <<"round", blockNumber, m[3]>> \in jobs'
    BY <2>1, ZenonT(60) DEF ProcessVotes
  <2>. QED BY <1>3, <2>2, <2>3, ZenonT(60)
<1>9. CASE PeersPropose
  <2>1. PICK p \in RemoteProposals : ProcessProposalOf(p)
    BY <1>9, ZenonT(60) DEF PeersPropose
  <2>2. p \in Proposals /\ rounds' = addProposal(p)
    BY <2>1, ConstantsAssumption, ZenonT(60) DEF ProcessProposalOf
  <2>. QED BY <1>4, <2>2, ZenonT(60)
<1>. QED BY <1>5, <1>6, <1>7, <1>8, <1>9, Writers, ZenonT(60)

\* A handler that is about to apply the rules from the one of a scheduling timeout on to the
\* running round, or a timeout of it that is scheduled, keeps the timeout coming.
LEMMA TimedStays ==
  ASSUME TInv, [Next]_vars, isRunning', ~BeginRound,
         pc' \notin {"beginRound", "vote", "commit", "committed"},
         NEW kind \in {"prevote", "precommit"},
         NEW stage \in {"prevotesAny", "precommitsAny"},
         stage = "prevotesAny" <=> kind = "prevote",
         HasMajorityAny(round, kind),
         kind = "prevote" => step = "prevote" /\ step' = "prevote",
         isPending(stage) \/ isArmed(kind)
  PROVE  isPending(stage)' \/ isArmed(kind)'
<1>. USE DEF position, flags, disk, history
<1>1. IInv /\ TimersOfPlace
  BY ZenonT(60) DEF TInv
<1>2. /\ UNCHANGED <<blockNumber, round>>
      /\ pc # "beginRound" \/ BeginRound \/ Crash
  BY <1>1, RoundIsKept, ZenonT(60)
<1>3. ~Crash
  BY <1>1, RunningSteps, ZenonT(60)
<1>4. CASE isArmed(kind)
  BY <1>1, <1>4, ArmedStays, ZenonT(60)
<1>5. CASE isPending(stage) /\ stage \in Applying(round)
  <2>1. CASE isPending(stage)'
    BY <2>1, ZenonT(60)
  <2>2. CASE kind = "prevote" /\ OnMajorityPrevoteAny
    BY <1>2, <2>2, ZenonT(60) DEF OnMajorityPrevoteAny, isArmed
  <2>3. CASE kind = "precommit" /\ OnMajorityPrecommitAny
    BY <1>2, <2>3, ZenonT(60) DEF OnMajorityPrecommitAny, isArmed
  <2>. QED BY <1>1, <1>5, <2>1, <2>2, <2>3, PendingStays, ZenonT(60)
<1>6. CASE stage \notin Applying(round)
  <2>1. stage \in DOMAIN Stages
    BY RuleGuards, ZenonT(60) DEF RuleNames
  <2>2. isScheduled(kind)
    BY <1>6, <2>1, ZenonT(60)
       DEF Applying, MaySchedulePrevote, MaySchedulePrecommit, isCurrentRoundState
  <2>3. PICK t \in timers : t[1] = kind
    BY <2>2, ZenonT(60) DEF isScheduled
  <2>4. t[2] = blockNumber /\ t[3] = round
    BY <1>1, <1>2, <1>3, ZenonT(60) DEF TimersOfPlace
  <2>5. t = <<t[1], t[2], t[3]>>
    BY <1>1, SMTT(60) DEF IInv, QueuesOK
  <2>6. isArmed(kind)
    BY <2>3, <2>4, <2>5, ZenonT(60) DEF isArmed
  <2>. QED BY <1>1, <2>6, ArmedStays, ZenonT(60)
<1>. QED BY <1>4, <1>5, <1>6, ZenonT(60)

\* +2/3 votes that are new have queued their round state.
LEMMA MajorityQueues ==
  ASSUME IInv, [Next]_vars, isRunning', pc' # "beginRound",
         NEW type \in Types, HasMajorityAny(round, type)', ~HasMajorityAny(round, type)
  PROVE  <<"round", blockNumber, round>>' \in jobs'
<1>1. ~NextBlock /\ ~Restart
  BY RunningSteps, ZenonT(60)
<1>2. UNCHANGED <<blockNumber, round>> /\ round \in Rounds
  BY RoundIsKept, ZenonT(60) DEF IInv, FieldsOK
<1>3. rounds'[round][type] = rounds[round][type] \/ <<"round", blockNumber, round>> \in jobs'
  BY <1>1, <1>2, CountingQueues, ZenonT(60)
<1>. QED BY <1>2, <1>3, ZenonT(60) DEF HasMajorityAny, isMajorityOf

\* A node with validators of its own that enters the prevote step votes there, or goes on
\* with the rules of its round.
LEMMA PrevoteStarts ==
  ASSUME IInv, [Next]_vars, isRunning', pc' # "beginRound", Local # {},
         step # "prevote", step' = "prevote"
  PROVE  pc' = "vote" \/ (pc' = "prevotes" /\ unit' = round)
<1>. USE DEF position, flags, disk, history
<1>1. ~NextBlock /\ ~Restart
  BY RunningSteps, ZenonT(60)
<1>2. CASE OnProposal
  <2>1. unit = round
    BY <1>2, RuleGuards, ZenonT(60) DEF OnProposal, MayPrevote, isCurrentRoundState
  <2>. QED BY <1>2, <2>1, ZenonT(60) DEF OnProposal, Vote
<1>3. CASE TakeJob
  <2>1. PICK job \in jobs : \/ Handle(job) \/ HandleCommitState(job) \/ OnTimeoutPropose(job)
                            \/ OnTimeoutPrevote(job) \/ OnTimeoutPrecommit(job)
    BY <1>3, ZenonT(60) DEF TakeJob
  <2>2. CASE OnTimeoutPropose(job)
    <3>. DEFINE voters == {v \in Local : ~HasMessage(round, "prevote", v)}
    <3>1. step = "propose" /\ Vote("prevote", Nil, "idle")
      BY <2>2, ZenonT(60) DEF OnTimeoutPropose
    <3>2. PICK v \in Local : TRUE
      BY ZenonT(60)
    <3>3. ~HasMessage(round, "prevote", v)
      <4>1. SUFFICES ASSUME NEW x \in Values, <<v, x>> \in rounds[round].prevote PROVE FALSE
        BY ZenonT(60) DEF HasMessage
      <4>2. round \in Rounds /\ VotesAreCast /\ OwnVotesAreBehind
        BY ZenonT(60) DEF IInv, FieldsOK
      <4>3. \A m \in rounds[round]["prevote"] : /\ blockNumber \in 1..MaxBlockNumber
                                             /\ <<m[1], round,
                                               m[2]>> \in cast["prevote"][blockNumber]
        BY <4>2, ZenonT(60) DEF VotesAreCast, Types
      <4>4. blockNumber \in 1..MaxBlockNumber /\ <<v, round, x>> \in cast["prevote"][blockNumber]
        BY <4>1, <4>3, ZenonT(60)
      <4>5. ~(blockNumber < blockNumber) /\ ~(round < round)
        BY <4>2, <4>4, RoundFacts, SMTT(60)
      <4>. QED BY <3>1, <4>1, <4>2, <4>4, <4>5, ZenonT(60) DEF OwnVotesAreBehind, Types
    <3>4. voters # {}
      BY <3>3, ZenonT(60)
    <3>. QED BY <3>1, <3>4, ZenonT(60) DEF Vote
  <2>3. CASE Handle(job) \/ HandleCommitState(job)
    BY <2>3, ZenonT(60) DEF Handle, HandleCommitState
  <2>4. CASE OnTimeoutPrevote(job) \/ OnTimeoutPrecommit(job)
    BY <2>4, ZenonT(60) DEF OnTimeoutPrevote, OnTimeoutPrecommit, StartRound, EnterRound
  <2>. QED BY <2>1, <2>2, <2>3, <2>4, ZenonT(60)
<1>4. CASE OnMajorityPrevote \/ OnMajorityPrevoteNull
  BY <1>4, ZenonT(60) DEF OnMajorityPrevote, OnMajorityPrevoteNull
<1>5. CASE OnMinorityWithHigherRound
  BY <1>5, ZenonT(60) DEF OnMinorityWithHigherRound, StartRound, EnterRound
<1>. QED BY <1>1, <1>2, <1>3, <1>4, <1>5, Writers, ZenonT(60) DEF PositionWriters

\* A round that begins has its rules applied from the first on.
LEMMA BeginningIsPending ==
  ASSUME BeginRound, NEW stage \in {"prevotesAny", "precommitsAny"}
  PROVE  isPending(stage)'
<1>. USE DEF position, flags, disk, history
<1>1. pc' = "process" /\ unit' = round'
  BY ZenonT(60) DEF BeginRound
<1>. QED BY <1>1, StageNumbers, SMTT(60) DEF isPending, RuleNames

\* After +2/3 prevotes the prevote step times out.
LEMMA PrevoteTimedStep ==
  ASSUME TInv, [Next]_vars, isRunning', Local # {}
  PROVE  PrevoteIsTimed'
<1>1. SUFFICES ASSUME step' = "prevote", HasMajorityAny(round, "prevote")'
               PROVE  isPending("prevotesAny")' \/ isArmed("prevote")'
  BY ZenonT(60) DEF PrevoteIsTimed
<1>2. CASE pc' \in {"beginRound", "vote", "commit", "committed"}
  BY <1>2, ZenonT(60) DEF isPending
<1>3. CASE BeginRound
  BY <1>3, BeginningIsPending, ZenonT(60)
<1>4. CASE pc' \notin {"beginRound", "vote", "commit", "committed"} /\ ~BeginRound
  <2>1. IInv
    BY ZenonT(60) DEF TInv
  <2>2. UNCHANGED round /\ isRunning
    BY <1>4, <2>1, RoundIsKept, RunningSteps, ZenonT(60)
  <2>3. CASE ~HasMajorityAny(round, "prevote")
    <3>1. <<"round", blockNumber, round>>' \in jobs'
      BY <1>1, <1>4, <2>1, <2>3, MajorityQueues, ZenonT(60) DEF Types
    <3>. QED BY <3>1, ZenonT(60) DEF isPending
  <2>4. CASE step # "prevote"
    <3>1. pc' = "prevotes" /\ unit' = round'
      BY <1>1, <1>4, <2>1, <2>2, <2>4, PrevoteStarts, ZenonT(60)
    <3>. QED BY <3>1, StageNumbers, SMTT(60) DEF isPending, RuleNames
  <2>5. CASE step = "prevote" /\ HasMajorityAny(round, "prevote")
    <3>1. isPending("prevotesAny") \/ isArmed("prevote")
      BY <2>2, <2>5, ZenonT(60) DEF TInv, PrevoteIsTimed
    <3>. QED BY <1>1, <1>4, <2>5, <3>1, TimedStays, ZenonT(60)
  <2>. QED BY <2>3, <2>4, <2>5, ZenonT(60)
<1>. QED BY <1>2, <1>3, <1>4, ZenonT(60)

\* After +2/3 precommits the round times out.
LEMMA PrecommitTimedStep ==
  ASSUME TInv, [Next]_vars, isRunning'
  PROVE  PrecommitIsTimed'
<1>1. SUFFICES ASSUME HasMajorityAny(round, "precommit")'
               PROVE  isPending("precommitsAny")' \/ isArmed("precommit")'
  BY ZenonT(60) DEF PrecommitIsTimed
<1>2. CASE pc' \in {"beginRound", "vote", "commit", "committed"}
  BY <1>2, ZenonT(60) DEF isPending
<1>3. CASE BeginRound
  BY <1>3, BeginningIsPending, ZenonT(60)
<1>4. CASE pc' \notin {"beginRound", "vote", "commit", "committed"} /\ ~BeginRound
  <2>1. IInv
    BY ZenonT(60) DEF TInv
  <2>2. isRunning
    BY <1>4, <2>1, RunningSteps, ZenonT(60)
  <2>3. CASE ~HasMajorityAny(round, "precommit")
    <3>1. <<"round", blockNumber, round>>' \in jobs'
      BY <1>1, <1>4, <2>1, <2>3, MajorityQueues, ZenonT(60) DEF Types
    <3>. QED BY <3>1, ZenonT(60) DEF isPending
  <2>4. CASE HasMajorityAny(round, "precommit")
    <3>1. isPending("precommitsAny") \/ isArmed("precommit")
      BY <2>2, <2>4, ZenonT(60) DEF TInv, PrecommitIsTimed
    <3>. QED BY <1>4, <2>4, <3>1, TimedStays, ZenonT(60)
  <2>. QED BY <2>3, <2>4, ZenonT(60)
<1>. QED BY <1>2, <1>3, <1>4, ZenonT(60)

===============================================================================
