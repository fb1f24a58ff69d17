---------------------------- MODULE ConsensusProofs ----------------------------
(***************************************************************************)
(* Theorems about the node of module Consensus, for any validators,        *)
(* blocks, rounds, block numbers and crashes, and whatever the peers send. *)
(* The invariants behind them are kept by every step: ConsensusInvariant   *)
(* and ConsensusRecovery.                                                  *)
(***************************************************************************)
EXTENDS ConsensusInvariant, ConsensusRecovery, FiniteSetTheorems

\* Majorities are counted, so more validators are no less a majority (isMajority).
LEMMA MajoritiesAreCounted == MajoritiesGrow
<1>1. \A S \in SUBSET Validators : IsFiniteSet(S) /\ Cardinality(S) \in Nat
  BY ConstantsAssumption, FS_Subset, FS_CardinalityType, ZenonT(60)
<1>2. \A S, T \in SUBSET Validators : S \subseteq T => Cardinality(S) <= Cardinality(T)
  BY <1>1, FS_Subset, ZenonT(60)
<1>3. Cardinality({}) = 0
  BY FS_EmptySet, ZenonT(60)
<1>. QED BY <1>1, <1>2, <1>3, SMTT(60) DEF MajoritiesGrow, isMajorityOf, isMajority

\* The invariant of the node.
THEOREM Invariance == Spec => []IInv
  BY MajoritiesAreCounted, InvariantHolds, InvariantIsKept, PTL DEF Spec

\* The fields of Consensus, the round states, the queues and the store keep their types.
THEOREM TypeCorrectness == Spec => []TypeOK
<1>1. ASSUME IInv PROVE TypeOK
  <2>1. FieldsOK /\ RoundsOK /\ HandlerOK /\ QueuesOK /\ RecordsOK
    BY <1>1, ZenonT(60) DEF IInv
  <2>2. \A r \in Rounds :
          /\ rounds[r].proposal \in Proposals \cup {NoProposal}
          /\ rounds[r].result \in {"none", "success", "failure"}
          /\ \A type \in Types : rounds[r][type] \subseteq Validators \X Values
    BY <2>1, ZenonT(60) DEF RoundsOK, RoundStates, Types
  <2>3. pc \in DOMAIN Stages \cup {"idle", "vote", "beginRound", "commit", "committed"}
    BY <2>1, RuleGuards, ZenonT(60) DEF HandlerOK
  <2>4. unit \in Rounds \cup Blocks
    BY <2>1, ConstantsAssumption, ZenonT(60) DEF HandlerOK
  <2>5. ballot.voters \subseteq Local /\ proposing.proposal \in Proposals \cup {NoProposal}
    BY <2>1, ZenonT(60) DEF HandlerOK, QueuesOK, Ballots
  <2>6. chain \in Seq(Blocks)
    BY <2>1, ConstantsAssumption, SMTT(60) DEF RecordsOK
  <2>7. storeNumber \in Nat
    BY <2>1, ZenonT(60) DEF RecordsOK
  <2>. QED BY <2>1, <2>2, <2>3, <2>4, <2>5, <2>6, <2>7, ZenonT(60) DEF TypeOK, FieldsOK, Steps
<1>. QED BY <1>1, Invariance, PTL

\* A set without two different members has at most one.
LEMMA AtMostOne ==
  ASSUME NEW S, \A x, y \in S : x = y
  PROVE  Cardinality(S) <= 1
<1>1. CASE S = {}
  BY <1>1, FS_EmptySet, SMTT(60)
<1>2. CASE S # {}
  <2>1. PICK x : S = {x}
    BY <1>2, SMTT(60)
  <2>2. Cardinality({x}) = 1
    BY FS_Singleton, ZenonT(60)
  <2>. QED BY <2>1, <2>2, SMTT(60)
<1>. QED BY <1>1, <1>2, ZenonT(60)

\* An own validator signs one vote of a kind per round, across every crash and restart: the
\* step is stored before the vote is signed, and a restart never goes back behind it.
THEOREM VotesOnce == Spec => []NoEquivocation
<1>1. ASSUME IInv PROVE NoEquivocation
  <2>. SUFFICES ASSUME NEW type \in Types, NEW n \in 1..MaxBlockNumber, NEW v \in Local,
                       NEW r \in Rounds
                PROVE  Cardinality({x \in Values : <<v, r, x>> \in cast[type][n]}) <= 1
    BY ZenonT(60) DEF NoEquivocation
  <2>. DEFINE signed == {x \in Values : <<v, r, x>> \in cast[type][n]}
  <2>1. \A x, y \in signed : x = y
    BY <1>1, ZenonT(60) DEF IInv, OneOwnVote
  <2>2. Cardinality(signed) <= 1
    <3>. HIDE DEF signed
    <3>. QED BY <2>1, AtMostOne, ZenonT(60)
  <2>. QED BY <2>2, ZenonT(60)
<1>. QED BY <1>1, Invariance, PTL

\* The locked and the valid value of the node have their proposal and +2/3 prevotes, in
\* every round and after every restart.
THEOREM ValuesHaveProofs == Spec => []ValuesAreProven
<1>1. ASSUME IInv PROVE ValuesAreProven
  BY <1>1, ZenonT(60) DEF IInv, ValuesOK, ValuesAreProven
<1>. QED BY <1>1, Invariance, PTL

\* A block that is proposed again was prevoted by +2/3 in the earlier round it names.
THEOREM ProposalsHaveProofs == Spec => []OwnProposalsAreProven
<1>1. ASSUME IInv PROVE OwnProposalsAreProven
  BY <1>1, ZenonT(60) DEF IInv, OwnProposalsOK, HasProof, Prevoters, OwnProposalsAreProven
<1>. QED BY <1>1, Invariance, PTL

\* onMajorityPrecommit never waits for the commit lock that its own handler holds.
THEOREM CommitsDoNotWait == Spec => []CommitLockIsFree
<1>1. ASSUME IInv PROVE CommitLockIsFree
  BY <1>1, ZenonT(60) DEF IInv, CommitLockOK, CommitLockIsFree
<1>. QED BY <1>1, Invariance, PTL

\* Only blocks that the processor accepts and +2/3 precommit are committed, by the rules and
\* by the downloader.
THEOREM CommitsHaveProofs == Spec => []CommitsAreJustified
<1>1. ASSUME IInv PROVE CommitsAreJustified
  BY <1>1, ZenonT(60) DEF IInv, CommitsOK
<1>. QED BY <1>1, Invariance, PTL

\* The store holds records of one block number, the one of its state.
THEOREM StoreHoldsOneBlock == Spec => []OneBlockInStore
<1>1. ASSUME IInv PROVE OneBlockInStore
  <2>. DEFINE numbers == {s[1] : s \in store.messages \cup store.proposals}
  <2>1. StoreIsOfOneBlock
    BY <1>1, ZenonT(60) DEF IInv
  <2>2. Cardinality(numbers) <= 1
    <3>1. \A m, n \in numbers : m = n
      BY <2>1, ZenonT(60) DEF StoreIsOfOneBlock
    <3>. HIDE DEF numbers
    <3>. QED BY <3>1, AtMostOne, ZenonT(60)
  <2>3. store.state # NoState => numbers \subseteq {store.state.blockNumber}
    BY <2>1, ZenonT(60) DEF StoreIsOfOneBlock
  <2>. QED BY <2>2, <2>3, ZenonT(60) DEF OneBlockInStore
<1>. QED BY <1>1, Invariance, PTL

\* No step, and no restart, takes the node back in rounds, steps, lock or valid value.
THEOREM NoRegress == Spec => PositionNeverRegresses
<1>1. IInv /\ [Next]_vars => [Advances]_vars
  BY ValuesBehindStep, ZenonT(60)
<1>2. Spec => [][Advances]_vars
  BY <1>1, Invariance, PTL DEF Spec
<1>. QED BY <1>2, PTL DEF PositionNeverRegresses, Advances

\* The invariant of a node with the records it remembers.
THEOREM RecordsInvariance == Spec => []SInv
<1>1. Init => SInv
  <2>1. SUFFICES ASSUME Init PROVE SInv
    BY ZenonT(60)
  <2>2. IInv
    BY <2>1, InvariantHolds, MajoritiesAreCounted, ZenonT(60)
  <2>3. \A r \in Rounds : /\ rounds[r].proposal = NoProposal
                          /\ \A type \in Types : rounds[r][type] = {}
    BY <2>1, SMTT(60) DEF Init, EmptyRound, Types
  <2>4. /\ store.messages = {} /\ store.proposals = {} /\ proposed = {} /\ inbox = {}
        /\ proposing.proposal = NoProposal /\ status # "refused"
    BY <2>1, ZenonT(60) DEF Init, EmptyStore, Pending
  <2>5. OwnProposalsOfPast /\ OneStoredProposal
    BY <2>3, <2>4, ZenonT(60) DEF OwnProposalsOfPast, OneStoredProposal, HasProposal
  <2>6. StoreMirrors /\ ProposalsAreNew /\ StartsAgain
    BY <2>3, <2>4, ZenonT(60) DEF StoreMirrors, ProposalsAreNew, StartsAgain, HasProposal
  <2>. QED BY <2>2, <2>5, <2>6, ZenonT(60) DEF SInv
<1>2. SInv /\ [Next]_vars => SInv'
  <2>1. SUFFICES ASSUME SInv, [Next]_vars PROVE SInv'
    BY ZenonT(60)
  <2>2. IInv'
    BY <2>1, InvariantIsKept, ZenonT(60) DEF SInv
  <2>3. OwnProposalsOfPast' /\ OneStoredProposal' /\ StartsAgain'
    BY <2>1, OwnProposalsOfPastStep, OneStoredStep, StartsAgainStep, ZenonT(60)
  <2>4. ~forgot' => StoreMirrors' /\ ProposalsAreNew'
    BY <2>1, MirrorStep, ProposalsAreNewStep, ZenonT(60)
  <2>. QED BY <2>2, <2>3, <2>4, ZenonT(60) DEF SInv
<1>. QED BY <1>1, <1>2, PTL DEF Spec

\* What the votes of the node rest on: the proposal of a round is never replaced, a lock proof
\* that #processProposal accepts is of votes that were cast, and the vote being signed is one
\* the lock allows, across crashes and restarts.
THEOREM VotesInvariance == Spec => []RInv
<1>1. Init => ProposalsExclude /\ StoredMatch /\ ProofsAreCast /\ ResultsOK /\ BallotOK
  <2>1. SUFFICES ASSUME Init
                 PROVE  ProposalsExclude /\ StoredMatch /\ ProofsAreCast /\ ResultsOK /\ BallotOK
    BY ZenonT(60)
  <2>2. \A r \in Rounds : rounds[r].proposal = NoProposal /\ rounds[r].result = "none"
    BY <2>1, SMTT(60) DEF Init, EmptyRound
  <2>3. /\ store.proposals = {} /\ inbox = {} /\ proposing.proposal = NoProposal
        /\ pc = "beginRound"
    BY <2>1, ZenonT(60) DEF Init, EmptyStore, Pending
  <2>4. ProposalsExclude /\ StoredMatch /\ BallotOK
    BY <2>3, ZenonT(60) DEF ProposalsExclude, StoredMatch, BallotOK
  <2>5. ProofsAreCast /\ ResultsOK
    BY <2>2, <2>3, ZenonT(60) DEF ProofsAreCast, ResultsOK, HasProposal
  <2>. QED BY <2>4, <2>5, ZenonT(60)
<1>2. RInv /\ SInv' /\ [Next]_vars => RInv'
  <2>1. SUFFICES ASSUME RInv, SInv', [Next]_vars PROVE RInv'
    BY ZenonT(60)
  <2>2. IInv'
    BY <2>1, ZenonT(60) DEF SInv
  <2>3. ProposalsExclude' /\ StoredMatch' /\ ProofsAreCast'
    BY <2>1, <2>2, ProposalsExcludeStep, StoredMatchStep, ProofsAreCastStep, ZenonT(60)
  <2>4. ResultsOK' /\ BallotOK'
    BY <2>1, <2>2, ResultsStep, BallotStep, ZenonT(60)
  <2>. QED BY <2>1, <2>3, <2>4, ZenonT(60) DEF RInv
<1>3. SInv /\ ProposalsExclude /\ StoredMatch /\ ProofsAreCast /\ ResultsOK /\ BallotOK => RInv
  BY ZenonT(60) DEF RInv
<1>. QED BY <1>1, <1>2, <1>3, RecordsInvariance, PTL DEF Spec

\* The bootstrapper refuses to start only after a restart that did not know the block of
\* the stored records: the proof of the stored lock and valid value is in the store.
THEOREM BootstrapSucceeds == Spec => []StartsAgain
<1>1. ASSUME SInv PROVE StartsAgain
  BY <1>1, ZenonT(60) DEF SInv
<1>. QED BY <1>1, RecordsInvariance, PTL

\* A node that crashed after it stored its proposal proposes the same one again, as long as
\* its restarts know the block of the stored records.
THEOREM ProposesOnce == Spec => []OneProposalPerRound
<1>1. ASSUME SInv PROVE OneProposalPerRound
  BY <1>1, ZenonT(60) DEF SInv, ProposalsAreNew, OneProposalPerRound
<1>. QED BY <1>1, RecordsInvariance, PTL

\* A node of validators never waits in a step without its timeout: whatever order votes,
\* expiring timers, handlers, crashes and restarts come in, when the handler lock is free and
\* no round state of the running round is queued, the timeout that ends the step is scheduled
\* or queued.  (A node without validators enters the prevote step on the propose timeout
\* without applying the rules, and waits for the next vote.)
THEOREM StepsAreTimed ==
  ASSUME Local # {}
  PROVE  Spec => []StepsTimeOut
<1>1. Init => TInv
  <2>1. SUFFICES ASSUME Init PROVE TInv
    BY ZenonT(60)
  <2>2. IInv
    BY <2>1, InvariantHolds, MajoritiesAreCounted, ZenonT(60)
  <2>3. timers = {} /\ pc = "beginRound"
    BY <2>1, ZenonT(60) DEF Init
  <2>4. isPending("prevotesAny") /\ isPending("precommitsAny")
    BY <2>3, ZenonT(60) DEF isPending
  <2>. QED BY <2>2, <2>3, <2>4, ZenonT(60)
              DEF TInv, TimersOfPlace, ProposeIsTimed, PrevoteIsTimed,
                                   PrecommitIsTimed
<1>2. TInv /\ [Next]_vars => TInv'
  <2>1. SUFFICES ASSUME TInv, [Next]_vars PROVE TInv'
    BY ZenonT(60)
  <2>2. IInv' /\ TimersOfPlace'
    BY <2>1, InvariantIsKept, TimersStep, ZenonT(60) DEF TInv
  <2>3. isRunning' => ProposeIsTimed' /\ PrevoteIsTimed' /\ PrecommitIsTimed'
    BY <2>1, ProposeTimedStep, PrevoteTimedStep, PrecommitTimedStep, ZenonT(60)
  <2>. QED BY <2>2, <2>3, ZenonT(60) DEF TInv
<1>3. TInv => StepsTimeOut
  <2>1. SUFFICES ASSUME TInv, status = "up", pc = "idle", inbox = {},
                        <<"round", blockNumber, round>> \notin jobs
                 PROVE  /\ step = "propose" => isArmed("blockPrepare") \/ isArmed("propose")
                        /\ step = "prevote" /\ HasMajorityAny(round, "prevote") =>
                             isArmed("prevote")
                        /\ HasMajorityAny(round, "precommit") => isArmed("precommit")
    BY ZenonT(60) DEF StepsTimeOut
  <2>2. ProposeIsTimed /\ PrevoteIsTimed /\ PrecommitIsTimed
    BY <2>1, ZenonT(60) DEF TInv, isRunning
  <2>3. ~isPending("prevotesAny") /\ ~isPending("precommitsAny")
    BY <2>1, ZenonT(60) DEF isPending, RuleNames
  <2>. QED BY <2>1, <2>2, <2>3, ZenonT(60) DEF ProposeIsTimed, PrevoteIsTimed, PrecommitIsTimed
<1>. QED BY <1>1, <1>2, <1>3, PTL DEF Spec

================================================================================
