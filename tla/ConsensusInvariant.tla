-------------------------- MODULE ConsensusInvariant --------------------------
(***************************************************************************)
(* Every step of the node keeps the invariant IInv.  It has one conjunct per *)
(* idea; each is carried through the actions by a lemma of its own.        *)
(***************************************************************************)
EXTENDS ConsensusLemmas

-------------------------------------------------------------------------------
(* The types.                                                              *)

\* Round states keep their types, and a processor result only ever comes with its proposal.
LEMMA RoundsStep ==
  ASSUME IInv, [Next]_vars
  PROVE  RoundsOK'
<1>. USE RoundFacts DEF position, flags, disk, history
<1>1. FieldsOK /\ RoundsOK /\ HandlerOK /\ RecordsOK /\ QueuesOK
  BY ZenonT(60) DEF IInv
<1>2. CASE ProcessProposal
  <2>1. unit \in Rounds /\ HasProposal(unit)
    BY <1>1, <1>2, RuleGuards, ZenonT(60) DEF ProcessProposal, HandlerOK, RuleNames, MayProcess
  <2>2. PICK x \in {"success", "failure"} :
          /\ rounds' = [rounds EXCEPT ![unit].result = x]
          /\ x = "success" => BlockOf(unit) \in ValidBlocks
    BY <1>2, ZenonT(60) DEF ProcessProposal, BlockOf
  <2>3. rounds' \in [Rounds -> RoundStates]
    BY <1>1, <2>1, <2>2, SMTT(60) DEF RoundsOK, RoundStates
  <2>4. \A q \in Rounds : /\ rounds'[q].proposal = rounds[q].proposal
                          /\ rounds'[q].result = IF q = unit THEN x ELSE rounds[q].result
    BY <1>1, <2>1, <2>2, SMTT(60) DEF RoundsOK, RoundStates
  <2>. QED BY <1>1, <2>1, <2>2, <2>3, <2>4, ZenonT(60) DEF RoundsOK, HasProposal, BlockOf
<1>3. CASE NextBlock
  <2>1. rounds' = [r \in Rounds |-> EmptyRound]
    BY <1>3, ZenonT(60) DEF NextBlock
  <2>2. EmptyRound \in RoundStates
    BY ZenonT(60) DEF EmptyRound, RoundStates
  <2>3. \A r \in Rounds : rounds'[r].proposal = NoProposal /\ rounds'[r].result = "none"
    BY <2>1, ZenonT(60) DEF EmptyRound
  <2>. QED BY <2>1, <2>2, <2>3, ZenonT(60) DEF RoundsOK, HasProposal
<1>4. ASSUME NEW type \in Types, NEW r \in Rounds, NEW Q \in SUBSET Validators,
             NEW x \in Values, rounds' = addVotes(type, r, Q, x)
      PROVE  RoundsOK'
  <2>1. VotesAdded(rounds', type, r, Q, x)
    BY <1>1, <1>4, AddVotes, ZenonT(60) DEF RoundsOK
  <2>. QED BY <1>1, <2>1, ZenonT(60) DEF VotesAdded, RoundsOK, HasProposal, BlockOf
<1>5. ASSUME NEW p \in Proposals, ~HasProposal(p.round), rounds' = addProposal(p)
      PROVE  RoundsOK'
  <2>1. ProposalAdded(rounds', p)
    BY <1>1, <1>5, AddProposal, ZenonT(60) DEF RoundsOK
  <2>2. p.round \in Rounds
    BY ZenonT(60) DEF Proposals
  <2>3. ASSUME NEW r \in Rounds
        PROVE  /\ rounds'[r].proposal # NoProposal => rounds'[r].proposal.round = r
               /\ rounds'[r].result # "none" => rounds'[r].proposal # NoProposal
               /\ rounds'[r].result = "success" => rounds'[r].proposal.block \in ValidBlocks
    <3>1. CASE r = p.round
      <4>1. rounds'[r].proposal = p /\ rounds'[r].result = rounds[r].result
        BY <2>1, <2>2, <3>1, ZenonT(60) DEF ProposalAdded
      <4>2. rounds[r].result = "none"
        BY <1>1, <1>5, <3>1, ZenonT(60) DEF RoundsOK
      <4>. QED BY <4>1, <4>2, <3>1, ZenonT(60)
    <3>2. CASE r # p.round
      BY <1>1, <2>1, <3>2, ZenonT(60) DEF ProposalAdded, RoundsOK, HasProposal, BlockOf
    <3>. QED BY <3>1, <3>2, ZenonT(60)
  <2>4. rounds' \in [Rounds -> RoundStates]
    BY <2>1, ZenonT(60) DEF ProposalAdded
  <2>. QED BY <2>3, <2>4, ZenonT(60) DEF RoundsOK, HasProposal, BlockOf
<1>6. CASE ProcessOwnVote
  <2>1. PICK m \in inbox : m[1] \in Types /\ rounds' = addVotes(m[1], m[3], {m[4]}, m[5])
    BY <1>6, ZenonT(60) DEF ProcessOwnVote
  <2>2. m[3] \in Rounds /\ {m[4]} \in SUBSET Validators /\ m[5] \in Values
    BY <1>1, <2>1, ZenonT(60) DEF QueuesOK, Types
  <2>. QED BY <1>4, <2>1, <2>2, ZenonT(60)
<1>7. CASE ProcessOwnProposal
  <2>1. PICK m \in inbox :
          /\ m[1] = "proposal"
          /\ \/ ~HasProposal(m[3].round) /\ rounds' = addProposal(m[3])
             \/ UNCHANGED rounds
    BY <1>7, ZenonT(60) DEF ProcessOwnProposal
  <2>2. m[3] \in Proposals
    BY <1>1, <2>1, ZenonT(60) DEF QueuesOK, Types
  <2>3. CASE UNCHANGED rounds
    BY <1>1, <2>3, ZenonT(60) DEF RoundsOK, HasProposal, BlockOf
  <2>. QED BY <1>5, <2>1, <2>2, <2>3, ZenonT(60)
<1>8. CASE PeersVote
  <2>1. PICK m \in RemoteVotes : ProcessVotes(m[1], m[2], m[3], m[4])
    BY <1>8, ZenonT(60) DEF PeersVote
  <2>2. m[1] \in SUBSET Validators /\ m[2] \in Types /\ m[3] \in Rounds /\ m[4] \in Values
    BY ConstantsAssumption, ZenonT(60) DEF Remote
  <2>3. rounds' = addVotes(m[2], m[3], m[1], m[4])
    BY <2>1, ZenonT(60) DEF ProcessVotes
  <2>. QED BY <1>4, <2>2, <2>3, ZenonT(60)
<1>9. CASE PeersPropose
  <2>1. PICK p \in RemoteProposals : ProcessProposalOf(p)
    BY <1>9, ZenonT(60) DEF PeersPropose
  <2>2. p \in Proposals /\ ~HasProposal(p.round) /\ rounds' = addProposal(p)
    BY <2>1, ConstantsAssumption, ZenonT(60) DEF ProcessProposalOf
  <2>. QED BY <1>5, <2>2, ZenonT(60)
<1>10. CASE Restart
  <2>1. Len(chain) + 1 \in Nat
    BY <1>1, SMTT(60) DEF RecordsOK
  <2>2. RoundsLoaded(LoadedRounds(Len(chain) + 1), Len(chain) + 1)
    BY <1>1, <2>1, LoadsRounds, ZenonT(60)
  <2>3. rounds' = LoadedRounds(Len(chain) + 1) \/ UNCHANGED rounds
    BY <1>10, ZenonT(60) DEF Restart
  <2>4. CASE rounds' = LoadedRounds(Len(chain) + 1)
    <3>1. RoundsLoaded(rounds', Len(chain) + 1)
      BY <2>2, <2>4, ZenonT(60)
    <3>. QED BY <3>1, ZenonT(60) DEF RoundsLoaded, RoundsOK, HasProposal, BlockOf
  <2>5. CASE UNCHANGED rounds
    BY <1>1, <2>5, ZenonT(60) DEF RoundsOK, HasProposal, BlockOf
  <2>. QED BY <2>3, <2>4, <2>5, ZenonT(60)
<1>11. CASE UNCHANGED rounds
  BY <1>1, <1>11, ZenonT(60) DEF RoundsOK, HasProposal, BlockOf
<1>. QED
  BY <1>2, <1>3, <1>6, <1>7, <1>8, <1>9, <1>10, <1>11, Writers, ZenonT(60)

\* The rule being applied, its round and the ballot it signs keep their types.
LEMMA HandlerStep ==
  ASSUME IInv, [Next]_vars
  PROVE  HandlerOK'
<1>. USE RoundFacts DEF position, flags, disk, history
<1>1. FieldsOK /\ RoundsOK /\ HandlerOK /\ RecordsOK /\ QueuesOK
  BY ZenonT(60) DEF IInv
<1>2. ballot \in Ballots /\ round \in Rounds /\ rounds \in [Rounds -> RoundStates]
  BY <1>1, ZenonT(60) DEF HandlerOK, Ballots, FieldsOK, RoundsOK
<1>3. pc \in RuleNames => unit \in Rounds
  BY <1>1, ZenonT(60) DEF HandlerOK, RuleNames
<1>4. Nil \in Values /\ Blocks \subseteq Values /\ NoBallot \in Ballots
  BY ZenonT(60) DEF Values, NoBallot, Ballots, Types, RuleNames
<1>5. ASSUME ballot' \in Ballots, unit' \in Rounds,
             pc' \in RuleNames \cup {"idle", "vote", "beginRound"}
      PROVE  HandlerOK'
  BY <1>5, ZenonT(60) DEF HandlerOK, Ballots, RuleNames
<1>6. ASSUME NEW type \in Types, NEW x \in Values, NEW next \in RuleNames \cup {"idle"},
             Vote(type, x, next), unit' \in Rounds
      PROVE  HandlerOK'
  <2>1. HandlerVotes(type, x, next)
    BY <1>2, <1>6, VoteSteps, ZenonT(60)
  <2>. QED BY <1>5, <1>6, <2>1, ZenonT(60) DEF HandlerVotes
<1>7. CASE BeginRound
  BY <1>2, <1>5, <1>7, ZenonT(60) DEF BeginRound, RuleNames
<1>8. CASE ProcessProposal
  BY <1>2, <1>3, <1>5, <1>8, RuleGuards, ZenonT(60) DEF ProcessProposal, RuleNames
<1>9. CASE OnProposal
  <2>1. unit \in Rounds /\ HasProposal(unit) /\ unit' = unit
    BY <1>3, <1>9, RuleGuards, ZenonT(60) DEF OnProposal, MayPrevote
  <2>2. PICK x \in PrevoteValues : Vote("prevote", x, "prevotes")
    BY <1>9, ZenonT(60) DEF OnProposal
  <2>3. x \in Values
    BY <1>2, <2>1, PrevoteValuesType, ZenonT(60)
  <2>. QED BY <1>6, <2>1, <2>2, <2>3, ZenonT(60) DEF Types, RuleNames
<1>10. CASE OnMajorityPrevote
  <2>1. unit \in Rounds /\ HasProposal(unit) /\ unit' = unit
    BY <1>3, <1>10, RuleGuards, ZenonT(60) DEF OnMajorityPrevote, MayLock, HasMajority
  <2>2. \/ Vote("precommit", BlockOf(unit), "prevotesAny")
        \/ UNCHANGED ballot /\ pc' = "prevotesAny"
    BY <1>10, ZenonT(60) DEF OnMajorityPrevote
  <2>3. BlockOf(unit) \in Values
    BY <1>2, <1>4, <2>1, PrevoteValuesType, ZenonT(60)
  <2>. QED BY <1>2, <1>5, <1>6, <2>1, <2>2, <2>3, ZenonT(60) DEF Types, RuleNames
<1>11. CASE OnMajorityPrevoteAny
  BY <1>2, <1>3, <1>5, <1>11, RuleGuards, ZenonT(60) DEF OnMajorityPrevoteAny, RuleNames
<1>12. CASE OnMajorityPrevoteNull
  <2>1. unit \in Rounds /\ unit' = unit /\ Vote("precommit", Nil, "precommitsAny")
    BY <1>3, <1>12, RuleGuards, ZenonT(60) DEF OnMajorityPrevoteNull
  <2>. QED BY <1>4, <1>6, <2>1, ZenonT(60) DEF Types, RuleNames
<1>13. CASE OnMajorityPrecommitAny
  BY <1>2, <1>3, <1>5, <1>13, RuleGuards, ZenonT(60) DEF OnMajorityPrecommitAny, RuleNames
<1>14. CASE OnMajorityPrecommit
  <2>1. unit \in Rounds /\ UNCHANGED ballot
    BY <1>3, <1>14, RuleGuards, ZenonT(60) DEF OnMajorityPrecommit
  <2>2. CASE rounds[unit].result = "success"
    <3>1. pc' = "commit" /\ unit' \in ValidBlocks
      BY <1>1, <1>14, <2>1, <2>2, ZenonT(60) DEF OnMajorityPrecommit, RoundsOK
    <3>. QED BY <1>2, <2>1, <3>1, ZenonT(60) DEF HandlerOK, Ballots
  <2>3. CASE rounds[unit].result # "success"
    <3>1. pc' = "minority" /\ unit' = unit
      BY <1>14, <2>3, ZenonT(60) DEF OnMajorityPrecommit
    <3>. QED BY <1>2, <1>5, <2>1, <3>1, ZenonT(60) DEF RuleNames
  <2>. QED BY <2>2, <2>3, ZenonT(60)
<1>15. CASE OnMinorityWithHigherRound
  BY <1>2, <1>3, <1>5, <1>15, RuleGuards, ZenonT(60)
     DEF OnMinorityWithHigherRound, StartRound, EnterRound
<1>16. CASE Return
  BY <1>2, <1>5, <1>16, ZenonT(60) DEF Return
<1>17. CASE CastVote
  <2>1. unit \in Rounds /\ unit' = unit
    BY <1>1, <1>17, ZenonT(60) DEF CastVote, HandlerOK
  <2>2. PICK v \in ballot.voters :
          LET left == ballot.voters \ {v} IN
          IF left = {} THEN pc' = ballot.next /\ ballot' = NoBallot
          ELSE pc' = pc /\ ballot' = [ballot EXCEPT !.voters = left]
    BY <1>17, ZenonT(60) DEF CastVote
  <2>3. CASE pc' = ballot.next /\ ballot' = NoBallot
    <3>1. ballot.next \in RuleNames \cup {"idle"}
      BY <1>2, ZenonT(60) DEF Ballots
    <3>. QED BY <1>4, <1>5, <2>1, <2>3, <3>1, ZenonT(60)
  <2>4. CASE pc' = pc /\ ballot' = [ballot EXCEPT !.voters = ballot.voters \ {v}]
    <3>1. ballot' \in Ballots
      BY <1>2, <2>4, ZenonT(60) DEF Ballots
    <3>2. pc = "vote"
      BY <1>17, ZenonT(60) DEF CastVote
    <3>. QED BY <1>5, <2>1, <2>4, <3>1, <3>2, ZenonT(60)
  <2>. QED BY <2>2, <2>3, <2>4, ZenonT(60)
<1>18. CASE Commit
  <2>1. pc = "commit" /\ pc' = "committed" /\ UNCHANGED <<unit, ballot>>
    BY <1>18, ZenonT(60) DEF Commit
  <2>. QED BY <1>1, <2>1, ZenonT(60) DEF HandlerOK
<1>19. CASE NextBlock
  BY <1>2, <1>5, <1>19, ZenonT(60) DEF NextBlock, EnterRound
<1>20. CASE TakeJob
  <2>1. PICK job \in jobs : \/ Handle(job) \/ HandleCommitState(job) \/ OnTimeoutPropose(job)
                            \/ OnTimeoutPrevote(job) \/ OnTimeoutPrecommit(job)
    BY <1>20, ZenonT(60) DEF TakeJob
  <2>2. pc = "idle" /\ unit \in Rounds
    BY <1>1, <2>1, ZenonT(60) DEF Handle, HandleCommitState, OnTimeoutPropose, OnTimeoutPrevote,
                      OnTimeoutPrecommit, Take, HandlerOK
  <2>3. CASE Handle(job)
    <3>1. job[3] \in Rounds
      BY <1>1, <2>3, ZenonT(60) DEF Handle, QueuesOK, TimerKinds
    <3>. QED BY <1>2, <1>5, <2>2, <2>3, <3>1, ZenonT(60) DEF Handle, RuleNames
  <2>4. CASE HandleCommitState(job)
    <3>1. CASE pc' = "commit" /\ unit' = job[3] /\ job[3] \in ValidBlocks
      BY <1>2, <2>4, <3>1, ZenonT(60) DEF HandleCommitState, HandlerOK, Ballots
    <3>2. CASE UNCHANGED <<pc, unit>>
      BY <1>2, <1>5, <2>2, <2>4, <3>2, ZenonT(60) DEF HandleCommitState
    <3>. QED BY <2>4, <3>1, <3>2, ZenonT(60) DEF HandleCommitState
  <2>5. CASE OnTimeoutPropose(job)
    <3>1. unit' = unit /\ (Vote("prevote", Nil, "idle") \/ UNCHANGED <<pc, ballot>>)
      BY <2>5, ZenonT(60) DEF OnTimeoutPropose
    <3>. QED BY <1>2, <1>4, <1>5, <1>6, <2>2, <3>1, ZenonT(60) DEF Types
  <2>6. CASE OnTimeoutPrevote(job)
    <3>1. unit' = unit /\ (Vote("precommit", Nil, "idle") \/ UNCHANGED <<pc, ballot>>)
      BY <2>6, ZenonT(60) DEF OnTimeoutPrevote
    <3>. QED BY <1>2, <1>4, <1>5, <1>6, <2>2, <3>1, ZenonT(60) DEF Types
  <2>7. CASE OnTimeoutPrecommit(job)
    BY <1>2, <1>5, <2>2, <2>7, ZenonT(60) DEF OnTimeoutPrecommit, StartRound, EnterRound
  <2>. QED BY <2>1, <2>3, <2>4, <2>5, <2>6, <2>7, ZenonT(60)
<1>21. CASE Crash
  BY <1>4, <1>5, <1>21, ZenonT(60) DEF Crash
<1>22. CASE Restart
  <2>1. UNCHANGED <<unit, ballot>> /\ pc' \in {pc, "beginRound"}
    BY <1>22, ZenonT(60) DEF Restart
  <2>2. pc = "idle"
    BY <1>22, ZenonT(60) DEF Restart, IInv, PlaceOK, isRunning
  <2>. QED BY <1>1, <1>2, <1>5, <2>1, <2>2, ZenonT(60) DEF HandlerOK
<1>23. CASE UNCHANGED <<pc, unit, ballot>>
  BY <1>1, <1>23, ZenonT(60) DEF HandlerOK
<1>. QED
  BY <1>7, <1>8, <1>9, <1>10, <1>11, <1>12, <1>13, <1>14, <1>15, <1>16, <1>17, <1>18, <1>19,
     <1>20, <1>21, <1>22, <1>23, Writers, ZenonT(60) DEF Rule

\* What waits for the handler lock, the scheduler and the own messages keep their types.
LEMMA QueuesStep ==
  ASSUME IInv, [Next]_vars
  PROVE  QueuesOK'
<1>. USE RoundFacts DEF position, flags, disk, history
<1>1. FieldsOK /\ RoundsOK /\ HandlerOK /\ RecordsOK /\ QueuesOK /\ ValuesOK
  BY ZenonT(60) DEF IInv
<1>2. blockNumber \in Nat /\ round \in Rounds
  BY <1>1, ZenonT(60) DEF FieldsOK
<1>. DEFINE Timers == TimerKinds \X Nat \X Rounds
            Jobs == (({"round"} \cup TimerKinds) \X Nat \X Rounds)
                    \cup ({"commit"} \X Nat \X Blocks)
            Inbox == ({"proposal"} \X (1..MaxBlockNumber) \X Proposals)
                     \cup (Types \X Nat \X Rounds \X Validators \X Values)
            Proposing == [proposal : Proposals \cup {NoProposal}, due : BOOLEAN]
<1>3. timers \subseteq Timers /\ jobs \subseteq Jobs /\ inbox \subseteq Inbox
      /\ proposing \in Proposing /\ (proposing.due => proposing.proposal # NoProposal)
  BY <1>1, ZenonT(60) DEF QueuesOK
<1>4. timers' \subseteq Timers
  <2>. USE DEF TimerKinds
  <2>1. CASE BeginRound
    BY <1>2, <2>1, SMTT(60) DEF BeginRound, TimersOfRound
  <2>2. CASE OnTimeoutBlockPrepare
    BY <1>2, <1>3, <2>2, SMTT(60) DEF OnTimeoutBlockPrepare
  <2>3. CASE OnMajorityPrevoteAny
    BY <1>2, <1>3, <2>3, SMTT(60) DEF OnMajorityPrevoteAny
  <2>4. CASE OnMajorityPrecommitAny
    BY <1>2, <1>3, <2>4, SMTT(60) DEF OnMajorityPrecommitAny
  <2>5. CASE NextBlock
    BY <2>5, ZenonT(60) DEF NextBlock
  <2>6. CASE TimeoutExpires
    BY <1>3, <2>6, ZenonT(60) DEF TimeoutExpires
  <2>7. CASE Crash
    BY <2>7, ZenonT(60) DEF Crash
  <2>. QED BY <1>3, <2>1, <2>2, <2>3, <2>4, <2>5, <2>6, <2>7, Writers, ZenonT(60)
<1>5. jobs' \subseteq Jobs
  <2>1. CASE TakeJob
    BY <1>3, <2>1, ZenonT(60)
       DEF TakeJob, Handle, HandleCommitState, OnTimeoutPropose, OnTimeoutPrevote,
                      OnTimeoutPrecommit, Take
  <2>2. CASE TimeoutExpires
    BY <1>3, <2>2, SMTT(60) DEF TimeoutExpires
  <2>3. CASE ProcessOwnVote
    <3>1. PICK m \in inbox : m[1] \in Types /\ jobs' = jobs \cup {<<"round", m[2], m[3]>>}
      BY <2>3, ZenonT(60) DEF ProcessOwnVote
    <3>2. m[2] \in Nat /\ m[3] \in Rounds
      BY <1>3, <3>1, ZenonT(60) DEF Types
    <3>. QED BY <1>3, <3>1, <3>2, SMTT(60)
  <2>4. CASE ProcessOwnProposal
    <3>1. PICK m \in inbox :
            /\ m[1] = "proposal"
            /\ UNCHANGED jobs \/ jobs' = jobs \cup {<<"round", blockNumber, m[3].round>>}
      BY <2>4, ZenonT(60) DEF ProcessOwnProposal
    <3>2. m[3].round \in Rounds
      BY <1>3, <3>1, ZenonT(60) DEF Types, Proposals
    <3>. QED BY <1>2, <1>3, <3>1, <3>2, SMTT(60)
  <2>5. CASE PeersVote
    <3>1. PICK m \in RemoteVotes : jobs' = jobs \cup {<<"round", blockNumber, m[3]>>}
      BY <2>5, ZenonT(60) DEF PeersVote, ProcessVotes
    <3>. QED BY <1>2, <1>3, <3>1, ConstantsAssumption, SMTT(60)
  <2>6. CASE PeersPropose
    <3>1. PICK p \in RemoteProposals : jobs' = jobs \cup {<<"round", blockNumber, p.round>>}
      BY <2>6, ZenonT(60) DEF PeersPropose, ProcessProposalOf
    <3>2. p.round \in Rounds
      BY ConstantsAssumption, ZenonT(60) DEF Proposals
    <3>3. <<"round", blockNumber, p.round>> \in Jobs
      BY <1>2, <3>2, SMTT(60)
    <3>. QED BY <1>3, <3>1, <3>3, ZenonT(60)
  <2>7. CASE PeersCommit
    <3>1. PICK c \in Commits : jobs' = jobs \cup {<<"commit", blockNumber, c[2]>>}
      BY <2>7, ZenonT(60) DEF PeersCommit, ProcessCommit
    <3>. QED BY <1>2, <1>3, <3>1, ConstantsAssumption, SMTT(60)
  <2>8. CASE Crash
    BY <2>8, ZenonT(60) DEF Crash
  <2>. QED BY <1>3, <2>1, <2>2, <2>3, <2>4, <2>5, <2>6, <2>7, <2>8, Writers, ZenonT(60)
<1>6. inbox' \subseteq Inbox
  <2>1. CASE SubmitProposal
    <3>1. proposing.proposal \in Proposals /\ proposing.proposal # NoProposal
      BY <1>3, <2>1, ZenonT(60) DEF SubmitProposal
    <3>2. blockNumber \in 1..MaxBlockNumber
      BY <1>2, <3>1, ConstantsAssumption, SMTT(60) DEF IInv, PlaceOK, Pending
    <3>. QED BY <1>3, <2>1, <3>1, <3>2, SMTT(60) DEF SubmitProposal
  <2>2. CASE CastVote
    <3>1. PICK v \in ballot.voters :
            inbox' = inbox \cup {<<ballot.type, blockNumber, round, v, ballot.value>>}
      BY <2>2, ZenonT(60) DEF CastVote
    <3>2. ballot.type \in Types /\ v \in Validators /\ ballot.value \in Values
      BY <1>1, ConstantsAssumption, ZenonT(60) DEF HandlerOK, Ballots
    <3>. QED BY <1>2, <1>3, <3>1, <3>2, SMTT(60)
  <2>3. CASE ProcessOwnVote \/ ProcessOwnProposal \/ Crash
    BY <1>3, <2>3, ZenonT(60) DEF ProcessOwnVote, ProcessOwnProposal, Crash
  <2>. QED BY <1>3, <2>1, <2>2, <2>3, Writers, ZenonT(60)
<1>7. proposing' \in Proposing /\ (proposing'.due => proposing'.proposal # NoProposal)
  <2>1. ASSUME NEW p \in Proposals \cup {NoProposal}, proposing' = Pending(p)
        PROVE  proposing' \in Proposing /\ ~proposing'.due
    BY <2>1, ZenonT(60) DEF Pending
  <2>2. CASE BeginRound
    BY <1>1, <2>1, <2>2, OwnProposalsType, ZenonT(60) DEF BeginRound
  <2>3. CASE OnTimeoutBlockPrepare
    BY <1>3, <2>3, ZenonT(60) DEF OnTimeoutBlockPrepare
  <2>4. CASE SubmitProposal \/ ProposalFails \/ NextBlock \/ Crash
    BY <2>1, <2>4, ZenonT(60) DEF SubmitProposal, ProposalFails, NextBlock, Crash
  <2>. QED BY <1>3, <2>2, <2>3, <2>4, Writers, ZenonT(60)
<1>. QED BY <1>4, <1>5, <1>6, <1>7, ZenonT(60) DEF QueuesOK

-------------------------------------------------------------------------------
(* The store.                                                              *)

\* A step leaves the storage alone, or saves one thing: the state, a proposal or some votes.
LEMMA StoreSteps ==
  ASSUME IInv, [Next]_vars
  PROVE  \/ StoreKept \/ StateStored
         \/ \E p : ProposalStored(p)
         \/ \E type, r, Q, x : MessagesStored(type, r, Q, x)
         \/ Restart /\ UNCHANGED store
<1>. USE RoundFacts DEF position, flags, disk, history
<1>1. FieldsOK /\ HandlerOK /\ RecordsOK /\ PlaceOK /\ QueuesOK /\ VotesAreCast
  BY ZenonT(60) DEF IInv
<1>2. blockNumber \in Nat /\ round \in Rounds /\ blockNumber >= 1 /\ cast \in Histories
  BY <1>1, ZenonT(60) DEF FieldsOK, PlaceOK, RecordsOK
<1>3. ASSUME NEW p \in Proposals, SaveProposal(blockNumber, p), UNCHANGED <<position, chain>>,
             blockNumber <= MaxBlockNumber
      PROVE  ProposalStored(p)
  <2>1. blockNumber \in 1..MaxBlockNumber
    BY <1>2, <1>3, ConstantsAssumption, SMTT(60)
  <2>. QED BY <1>1, <1>2, <1>3, <2>1, SavesProposal, ZenonT(60) DEF ProposalStored
<1>4. ASSUME NEW type \in Types, NEW r \in Rounds, NEW Q \in SUBSET Validators,
             NEW x \in Values, SaveMessages(blockNumber, type, r, Q, x),
             UNCHANGED <<position, chain>>, blockNumber \in 1..MaxBlockNumber,
             Q \X {r} \X {x} \subseteq cast'[type][blockNumber]
      PROVE  MessagesStored(type, r, Q, x)
  BY <1>1, <1>2, <1>4, SavesMessages, ZenonT(60) DEF MessagesStored
<1>5. CASE PositionWriters
  <2>1. FieldsOK'
    BY FieldsStep, ZenonT(60)
  <2>2. CASE NextBlock
    BY <2>2, ZenonT(60) DEF NextBlock, StoreKept
  <2>3. CASE Restart
    BY <2>3, ZenonT(60) DEF Restart
  <2>4. CASE OnProposal \/ OnMajorityPrevote \/ OnMajorityPrevoteNull
             \/ OnMinorityWithHigherRound \/ TakeJob
    <3>1. UNCHANGED <<rounds, cast, chain, inbox, proposed>>
      BY <2>4, ZenonT(60) DEF OnProposal, OnMajorityPrevote, OnMajorityPrevoteNull,
                  OnMinorityWithHigherRound, TakeJob, Handle, HandleCommitState,
                  OnTimeoutPropose, OnTimeoutPrevote, OnTimeoutPrecommit, Take
    <3>2. CASE NextBlock \/ Restart
      BY <2>2, <2>3, <3>2, ZenonT(60)
    <3>. QED BY <2>1, <1>5, <3>1, <3>2, PositionIsStored, ZenonT(60) DEF StateStored, StoreKept
  <2>. QED BY <1>5, <2>2, <2>3, <2>4, ZenonT(60) DEF PositionWriters
<1>6. CASE SubmitProposal
  <2>1. proposing.proposal \in Proposals /\ proposing.proposal # NoProposal
    BY <1>1, <1>6, ZenonT(60) DEF SubmitProposal, QueuesOK
  <2>2. blockNumber <= MaxBlockNumber
    BY <1>1, <1>2, <2>1, ConstantsAssumption, SMTT(60) DEF PlaceOK, Pending
  <2>3. SaveProposal(blockNumber, proposing.proposal) /\ UNCHANGED <<position, chain>>
    BY <1>6, ZenonT(60) DEF SubmitProposal
  <2>. QED BY <1>3, <2>1, <2>2, <2>3, ZenonT(60)
<1>7. CASE CastVote
  <2>1. PICK v \in ballot.voters :
          /\ SaveMessages(blockNumber, ballot.type, round, {v}, ballot.value)
          /\ cast' = castVotes(ballot.type, round, {v}, ballot.value)
    BY <1>7, ZenonT(60) DEF CastVote
  <2>2. ballot.type \in Types /\ {v} \in SUBSET Validators /\ ballot.value \in Values
    BY <1>1, ConstantsAssumption, ZenonT(60) DEF HandlerOK, Ballots
  <2>3. blockNumber \in 1..MaxBlockNumber
    BY <1>1, <1>2, <1>7, ConstantsAssumption, SMTT(60) DEF CastVote, PlaceOK
  <2>4. {v} \X {round} \X {ballot.value} \subseteq cast'[ballot.type][blockNumber]
    <3>1. VotesMade(cast', ballot.type, round, {v}, ballot.value)
      BY <1>2, <2>1, <2>2, <2>3, CastVotes, ZenonT(60)
    <3>. QED BY <2>2, <2>3, <3>1, ZenonT(60) DEF VotesMade
  <2>5. UNCHANGED <<position, chain>>
    BY <1>7, ZenonT(60) DEF CastVote
  <2>. QED BY <1>2, <1>4, <2>1, <2>2, <2>3, <2>4, <2>5, ZenonT(60)
<1>8. CASE ProcessOwnVote
  <2>1. PICK m \in inbox : /\ m[1] \in Types /\ SaveMessages(m[2], m[1], m[3], {m[4]}, m[5])
                           /\ UNCHANGED <<position, chain, cast>>
    BY <1>8, ZenonT(60) DEF ProcessOwnVote
  <2>2. /\ m[2] = blockNumber /\ blockNumber \in 1..MaxBlockNumber
        /\ <<m[4], m[3], m[5]>> \in cast[m[1]][blockNumber]
    BY <1>1, <2>1, ZenonT(60) DEF VotesAreCast
  <2>3. m[3] \in Rounds /\ {m[4]} \in SUBSET Validators /\ m[5] \in Values
    BY <1>1, <2>1, ZenonT(60) DEF QueuesOK, Types
  <2>4. {m[4]} \X {m[3]} \X {m[5]} \subseteq cast'[m[1]][blockNumber]
    BY <2>1, <2>2, SMTT(60)
  <2>. QED BY <1>4, <2>1, <2>2, <2>3, <2>4, ZenonT(60)
<1>9. CASE ProcessOwnProposal
  <2>1. PICK m \in inbox :
          /\ m[1] = "proposal" /\ UNCHANGED <<position, chain>>
          /\ \/ UNCHANGED disk
             \/ m[2] = blockNumber /\ SaveProposal(blockNumber, m[3])
    BY <1>9, ZenonT(60) DEF ProcessOwnProposal
  <2>2. m[2] \in 1..MaxBlockNumber /\ m[3] \in Proposals
    BY <1>1, <2>1, ZenonT(60) DEF QueuesOK, Types
  <2>3. CASE m[2] = blockNumber /\ SaveProposal(blockNumber, m[3])
    BY <1>3, <2>1, <2>2, <2>3, ConstantsAssumption, SMTT(60)
  <2>. QED BY <2>1, <2>3, ZenonT(60) DEF StoreKept
<1>10. CASE PeersVote
  <2>1. PICK m \in RemoteVotes : ProcessVotes(m[1], m[2], m[3], m[4])
    BY <1>10, ZenonT(60) DEF PeersVote
  <2>2. m[1] \in SUBSET Validators /\ m[2] \in Types /\ m[3] \in Rounds /\ m[4] \in Values
    BY ConstantsAssumption, ZenonT(60) DEF Remote
  <2>3. /\ SaveMessages(blockNumber, m[2], m[3], m[1], m[4])
        /\ cast' = castVotes(m[2], m[3], m[1], m[4])
        /\ UNCHANGED <<position, chain>> /\ blockNumber <= MaxBlockNumber
    BY <2>1, ZenonT(60) DEF ProcessVotes, Accepts
  <2>4. blockNumber \in 1..MaxBlockNumber
    BY <1>2, <2>3, ConstantsAssumption, SMTT(60)
  <2>5. m[1] \X {m[3]} \X {m[4]} \subseteq cast'[m[2]][blockNumber]
    <3>1. VotesMade(cast', m[2], m[3], m[1], m[4])
      BY <1>2, <2>2, <2>3, <2>4, CastVotes, ZenonT(60)
    <3>. QED BY <2>2, <2>4, <3>1, ZenonT(60) DEF VotesMade
  <2>. QED BY <1>4, <2>2, <2>3, <2>4, <2>5, ZenonT(60)
<1>11. CASE PeersPropose
  <2>1. PICK p \in RemoteProposals : ProcessProposalOf(p)
    BY <1>11, ZenonT(60) DEF PeersPropose
  <2>2. p \in Proposals /\ SaveProposal(blockNumber, p) /\ UNCHANGED <<position, chain>>
        /\ blockNumber <= MaxBlockNumber
    BY <2>1, ConstantsAssumption, ZenonT(60) DEF ProcessProposalOf, Accepts
  <2>. QED BY <1>3, <2>2, ZenonT(60)
<1>. QED BY <1>5, <1>6, <1>7, <1>8, <1>9, <1>10, <1>11, Writers, ZenonT(60) DEF StoreKept

\* The storage, the chain and the history keep their types.
LEMMA RecordsStep ==
  ASSUME IInv, [Next]_vars
  PROVE  RecordsOK'
<1>. USE RoundFacts DEF position, flags, disk, history
<1>1. FieldsOK /\ HandlerOK /\ RecordsOK /\ PlaceOK /\ QueuesOK
  BY ZenonT(60) DEF IInv
<1>2. store' \in Stores /\ storeNumber' \in Nat
  <2>1. store \in Stores /\ storeNumber \in Nat
    BY <1>1, ZenonT(60) DEF RecordsOK
  <2>2. CASE Restart /\ UNCHANGED store
    BY <2>1, <2>2, ZenonT(60) DEF Restart, Stores, States
  <2>3. CASE StoreKept
    BY <2>1, <2>3, ZenonT(60) DEF StoreKept
  <2>4. CASE StateStored
    BY <2>4, ZenonT(60) DEF StateStored, StateSaved
  <2>5. ASSUME NEW p, ProposalStored(p)
        PROVE  store' \in Stores /\ storeNumber' \in Nat
    BY <2>5, ZenonT(60) DEF ProposalStored, ProposalSaved
  <2>6. ASSUME NEW type, NEW r, NEW Q, NEW x, MessagesStored(type, r, Q, x)
        PROVE  store' \in Stores /\ storeNumber' \in Nat
    BY <2>6, ZenonT(60) DEF MessagesStored, MessagesSaved
  <2>. QED BY <2>2, <2>3, <2>4, <2>5, <2>6, StoreSteps, ZenonT(60)
<1>3. chain' \in Seq(ValidBlocks)
  <2>1. CASE Commit
    <3>1. unit \in ValidBlocks /\ chain' = Append(chain, unit)
      BY <1>1, <2>1, ZenonT(60) DEF Commit, HandlerOK
    <3>. QED BY <1>1, <3>1, SMTT(60) DEF RecordsOK
  <2>2. CASE UNCHANGED chain
    BY <1>1, <2>2, ZenonT(60) DEF RecordsOK
  <2>. QED BY <2>1, <2>2, Writers, ZenonT(60)
<1>4. cast' \in Histories
  BY CastGrows, ZenonT(60)
<1>5. proposed' \subseteq (1..MaxBlockNumber) \X Proposals
  <2>1. CASE SubmitProposal
    <3>1. proposing.proposal \in Proposals /\ proposing.proposal # NoProposal
      BY <1>1, <2>1, ZenonT(60) DEF SubmitProposal, QueuesOK
    <3>2. blockNumber \in 1..MaxBlockNumber
      BY <1>1, <3>1, ConstantsAssumption, SMTT(60) DEF PlaceOK, Pending, FieldsOK
    <3>. QED BY <1>1, <2>1, <3>1, <3>2, SMTT(60) DEF SubmitProposal, RecordsOK
  <2>2. CASE UNCHANGED proposed
    BY <1>1, <2>2, ZenonT(60) DEF RecordsOK
  <2>. QED BY <2>1, <2>2, Writers, ZenonT(60)
<1>6. forgot' \in BOOLEAN /\ crashes' \in Nat
  <2>1. forgot' \in BOOLEAN
    BY <1>1, Writers, ZenonT(60) DEF RecordsOK, Restart
  <2>2. crashes' \in Nat
    <3>1. CASE Crash
      BY <1>1, <3>1, SMTT(60) DEF RecordsOK, Crash
    <3>. QED BY <1>1, <3>1, Writers, ZenonT(60) DEF RecordsOK
  <2>. QED BY <2>1, <2>2, ZenonT(60)
<1>. QED BY <1>2, <1>3, <1>4, <1>5, <1>6, ZenonT(60) DEF RecordsOK

-------------------------------------------------------------------------------
(* The place of the node.                                                  *)

\* A node that has stopped only restarts.
LEMMA StoppedSteps ==
  ASSUME IInv, [Next]_vars, ~isRunning
  PROVE  Restart \/ UNCHANGED vars
<1>1. /\ pc = "idle" /\ jobs = {} /\ timers = {} /\ inbox = {} /\ ~proposing.due
      /\ status \notin {"booting", "up"}
  BY SMTT(60) DEF IInv, PlaceOK, Pending, isRunning
<1>2. ~BeginRound /\ ~OnTimeoutBlockPrepare /\ ~SubmitProposal /\ ~ProposalFails
      /\ ~CastVote /\ ~Commit /\ ~NextBlock /\ ~TakeJob /\ ~TimeoutExpires
      /\ ~ProcessOwnVote /\ ~ProcessOwnProposal /\ ~Booted /\ ~Crash
  BY <1>1, ZenonT(60)
     DEF BeginRound, OnTimeoutBlockPrepare, SubmitProposal, ProposalFails, CastVote,
              Commit, NextBlock, TakeJob, TimeoutExpires, ProcessOwnVote, ProcessOwnProposal,
              Booted, Crash
<1>3. ~Rule
  BY <1>1, RuleGuards, ZenonT(60)
     DEF Rule, ProcessProposal, OnProposal, OnMajorityPrevote, OnMajorityPrevoteAny,
         OnMajorityPrevoteNull, OnMajorityPrecommitAny, OnMajorityPrecommit,
         OnMinorityWithHigherRound, Return, RuleNames
<1>4. ~Peers
  BY <1>1, ZenonT(60) DEF Peers, ProcessVotes, ProcessProposalOf, ProcessCommit, Accepts
<1>. QED BY <1>2, <1>3, <1>4, ZenonT(60) DEF Next, Node

\* A node past the last block number waits, with nothing to do but old proposals.
LEMMA LateSteps ==
  ASSUME IInv, [Next]_vars, isRunning, blockNumber > MaxBlockNumber
  PROVE  Crash \/ UNCHANGED <<blockNumber, chain, pc, timers, proposing>>
<1>. USE DEF position, flags, disk, history
<1>1. /\ pc = "beginRound" /\ timers = {} /\ ~proposing.due /\ status # "down"
      /\ ~(blockNumber <= MaxBlockNumber)
  BY ConstantsAssumption, SMTT(60) DEF IInv, PlaceOK, Pending, isRunning, FieldsOK
<1>2. ~BeginRound /\ ~OnTimeoutBlockPrepare /\ ~SubmitProposal /\ ~ProposalFails
      /\ ~CastVote /\ ~Commit /\ ~NextBlock /\ ~TakeJob /\ ~TimeoutExpires
      /\ ~Booted /\ ~Restart
  BY <1>1, ZenonT(60)
     DEF BeginRound, OnTimeoutBlockPrepare, SubmitProposal, ProposalFails, CastVote,
              Commit, NextBlock, TakeJob, TimeoutExpires, Booted, Restart,
              Handle, HandleCommitState, OnTimeoutPropose, OnTimeoutPrevote,
              OnTimeoutPrecommit, Take
<1>3. ~Rule
  BY <1>1, RuleGuards, ZenonT(60)
     DEF Rule, ProcessProposal, OnProposal, OnMajorityPrevote, OnMajorityPrevoteAny,
         OnMajorityPrevoteNull, OnMajorityPrecommitAny, OnMajorityPrecommit,
         OnMinorityWithHigherRound, Return, RuleNames
<1>4. ~Peers
  BY <1>1, ZenonT(60) DEF Peers, ProcessVotes, ProcessProposalOf, ProcessCommit, Accepts
<1>5. ProcessOwnVote \/ ProcessOwnProposal \/ Crash \/ UNCHANGED vars
  BY <1>2, <1>3, <1>4, ZenonT(60) DEF Next, Node
<1>. QED BY <1>5, ZenonT(60) DEF ProcessOwnVote, ProcessOwnProposal, vars

\* Only Commit ends in "committed", and only NextBlock and Crash lead out of it.
LEMMA HandlerPlaces ==
  ASSUME IInv, [Next]_vars
  PROVE  \/ UNCHANGED pc
         \/ pc # "committed" /\ pc' # "committed"
         \/ Commit \/ NextBlock \/ Crash \/ Restart
<1>. USE DEF position, flags, disk, history
<1>1. HandlerOK
  BY ZenonT(60) DEF IInv
<1>2. CASE BeginRound
  BY <1>2, ZenonT(60) DEF BeginRound
<1>3. CASE Rule
  <2>1. pc \in RuleNames
    BY <1>3, RuleGuards, ZenonT(60)
       DEF Rule, ProcessProposal, OnProposal, OnMajorityPrevote, OnMajorityPrevoteAny,
           OnMajorityPrevoteNull, OnMajorityPrecommitAny, OnMajorityPrecommit,
           OnMinorityWithHigherRound, Return
  <2>2. pc' # "committed"
    BY <1>3, ZenonT(60)
       DEF Rule, ProcessProposal, OnProposal, OnMajorityPrevote, OnMajorityPrevoteAny,
           OnMajorityPrevoteNull, OnMajorityPrecommitAny, OnMajorityPrecommit,
           OnMinorityWithHigherRound, Return, StartRound, EnterRound, Vote
  <2>. QED BY <2>1, <2>2, ZenonT(60) DEF RuleNames
<1>4. CASE CastVote
  <2>1. pc = "vote" /\ pc' \in {pc, ballot.next}
    BY <1>4, ZenonT(60) DEF CastVote
  <2>. QED BY <1>1, <2>1, ZenonT(60) DEF HandlerOK, Ballots, RuleNames
<1>5. CASE TakeJob
  BY <1>5, ZenonT(60) DEF TakeJob, Handle, HandleCommitState, OnTimeoutPropose, OnTimeoutPrevote,
              OnTimeoutPrecommit, Take, StartRound, EnterRound, Vote
<1>. QED BY <1>2, <1>3, <1>4, <1>5, Writers, ZenonT(60)

\* The node works on the block after its chain, and on nothing while it is down.
LEMMA PlaceStep ==
  ASSUME IInv, [Next]_vars
  PROVE  PlaceOK'
<1>. USE DEF position, flags, disk, history
<1>1. PlaceOK /\ FieldsOK /\ RecordsOK /\ HandlerOK
  BY ZenonT(60) DEF IInv
<1>2. Len(chain) \in Nat /\ blockNumber \in Nat /\ MaxBlockNumber \in Nat
  BY <1>1, ConstantsAssumption, SMTT(60) DEF RecordsOK, FieldsOK
<1>3. CASE Commit
  <2>1. /\ pc = "commit" /\ pc' = "committed" /\ blockNumber' = blockNumber
        /\ chain' = Append(chain, unit) /\ status' = status
    BY <1>3, ZenonT(60) DEF Commit
  <2>2. isRunning /\ blockNumber = Len(chain) + 1 /\ blockNumber <= MaxBlockNumber
    BY <1>1, <1>2, <2>1, SMTT(60) DEF PlaceOK
  <2>3. Len(chain') = Len(chain) + 1
    BY <1>1, <2>1, SMTT(60) DEF RecordsOK
  <2>. QED BY <1>2, <2>1, <2>2, <2>3, SMTT(60) DEF PlaceOK, isRunning
<1>4. CASE NextBlock
  <2>1. /\ pc = "committed" /\ pc' = "beginRound" /\ blockNumber' = blockNumber + 1
        /\ timers' = {} /\ proposing' = Pending(NoProposal)
        /\ UNCHANGED <<status, chain>>
    BY <1>4, ZenonT(60) DEF NextBlock, EnterRound
  <2>2. isRunning /\ blockNumber = Len(chain)
    BY <1>1, <1>2, <2>1, ZenonT(60) DEF PlaceOK
  <2>3. Pending(NoProposal)' = Pending(NoProposal)
    BY ZenonT(60) DEF Pending, NoProposal
  <2>. QED BY <1>1, <1>2, <2>1, <2>2, <2>3, SMTT(60) DEF PlaceOK, isRunning
<1>5. CASE Restart
  <2>1. /\ status = "down" /\ UNCHANGED <<chain, jobs, timers, inbox, proposing, commitLock>>
        /\ \/ /\ status' = "booting" /\ pc' = "beginRound" /\ blockNumber' = Len(chain) + 1
           \/ status' = "refused" /\ UNCHANGED <<blockNumber, pc>>
    BY <1>5, ZenonT(60) DEF Restart
  <2>. QED BY <1>1, <1>2, <2>1, SMTT(60) DEF PlaceOK, isRunning
<1>6. CASE Crash
  <2>1. /\ status' = "down" /\ pc' = "idle" /\ jobs' = {} /\ timers' = {} /\ inbox' = {}
        /\ proposing' = Pending(NoProposal) /\ commitLock' = FALSE
        /\ UNCHANGED <<blockNumber, chain>>
    BY <1>6, ZenonT(60) DEF Crash
  <2>. QED BY <1>1, <1>2, <2>1, ZenonT(60) DEF PlaceOK, isRunning
<1>7. CASE ~Commit /\ ~NextBlock /\ ~Restart /\ ~Crash
  <2>1. UNCHANGED chain /\ (UNCHANGED status \/ Booted)
    BY <1>7, Writers, ZenonT(60)
  <2>2. UNCHANGED pc \/ (pc # "committed" /\ pc' # "committed")
    BY <1>7, HandlerPlaces, ZenonT(60)
  <2>3. UNCHANGED blockNumber
    <3>1. FieldsOK'
      BY FieldsStep, ZenonT(60)
    <3>. QED BY <1>7, <3>1, Writers, PositionIsStored, ZenonT(60)
  <2>4. CASE ~isRunning
    <3>1. UNCHANGED vars
      BY <1>7, <2>4, StoppedSteps, ZenonT(60)
    <3>. QED BY <1>1, <3>1, ZenonT(60) DEF vars, PlaceOK, isRunning
  <2>5. CASE isRunning
    <3>1. isRunning'
      BY <2>1, <2>5, ZenonT(60) DEF isRunning, Booted
    <3>2. blockNumber > MaxBlockNumber => UNCHANGED <<pc, timers, proposing>>
      BY <1>7, <2>5, LateSteps, ZenonT(60)
    <3>. QED BY <1>1, <1>2, <2>1, <2>2, <2>3, <2>5, <3>1, <3>2, ZenonT(60) DEF PlaceOK
  <2>. QED BY <2>4, <2>5, ZenonT(60)
<1>. QED BY <1>3, <1>4, <1>5, <1>6, <1>7, ZenonT(60)

-------------------------------------------------------------------------------
(* Votes.                                                                  *)

\* How a step changes the round states: a result, a proposal, votes that were made.  A block
\* number starts with empty ones, and a restart loads them.
ResultSet ==
  /\ \A q \in Rounds : rounds'[q].proposal = rounds[q].proposal
  /\ \A q \in Rounds, t \in Types : rounds'[q][t] = rounds[q][t]
  /\ UNCHANGED <<position, cast, store, storeNumber>>

ProposalComesIn(p) ==
  /\ p \in Proposals /\ ~HasProposal(p.round) /\ CommitLockFree
  /\ ProposalAdded(rounds', p) /\ ProposalStored(p)

VotesAreCounted(type, r, Q, x) ==
  /\ VotesAdded(rounds', type, r, Q, x) /\ MessagesStored(type, r, Q, x)

\* A step leaves the round states alone, or sets a result, adds a proposal or adds votes,
\* unless the node goes to the next block or restarts.
LEMMA RoundSteps ==
  ASSUME IInv, [Next]_vars
  PROVE  \/ UNCHANGED rounds \/ ResultSet
         \/ \E p : ProposalComesIn(p)
         \/ \E type, r, Q, x : VotesAreCounted(type, r, Q, x)
         \/ NextBlock \/ Restart
<1>. USE RoundFacts DEF position, flags, disk, history
<1>1. FieldsOK /\ RoundsOK /\ HandlerOK /\ RecordsOK /\ PlaceOK /\ QueuesOK /\ VotesAreCast
  BY ZenonT(60) DEF IInv
<1>2. /\ blockNumber \in Nat /\ blockNumber >= 1 /\ cast \in Histories
      /\ rounds \in [Rounds -> RoundStates]
  BY <1>1, ZenonT(60) DEF FieldsOK, PlaceOK, RecordsOK, RoundsOK
<1>3. ASSUME NEW p \in Proposals, SaveProposal(blockNumber, p), UNCHANGED <<position, chain>>,
             blockNumber <= MaxBlockNumber, ~HasProposal(p.round), CommitLockFree,
             rounds' = addProposal(p)
      PROVE  ProposalComesIn(p)
  <2>1. blockNumber \in 1..MaxBlockNumber
    BY <1>2, <1>3, ConstantsAssumption, SMTT(60)
  <2>2. ProposalStored(p)
    BY <1>1, <1>2, <1>3, <2>1, SavesProposal, ZenonT(60) DEF ProposalStored
  <2>. QED BY <1>2, <1>3, <2>2, AddProposal, ZenonT(60) DEF ProposalComesIn
<1>4. ASSUME NEW type \in Types, NEW r \in Rounds, NEW Q \in SUBSET Validators,
             NEW x \in Values, SaveMessages(blockNumber, type, r, Q, x),
             UNCHANGED <<position, chain>>, blockNumber \in 1..MaxBlockNumber,
             Q \X {r} \X {x} \subseteq cast'[type][blockNumber],
             rounds' = addVotes(type, r, Q, x)
      PROVE  VotesAreCounted(type, r, Q, x)
  <2>1. MessagesStored(type, r, Q, x)
    BY <1>1, <1>2, <1>4, SavesMessages, ZenonT(60) DEF MessagesStored
  <2>. QED BY <1>2, <1>4, <2>1, AddVotes, ZenonT(60) DEF VotesAreCounted
<1>5. CASE ProcessProposal
  <2>1. unit \in Rounds
    BY <1>1, <1>5, RuleGuards, ZenonT(60) DEF ProcessProposal, HandlerOK, RuleNames
  <2>2. PICK x \in {"success", "failure"} : rounds' = [rounds EXCEPT ![unit].result = x]
    BY <1>5, ZenonT(60) DEF ProcessProposal
  <2>3. \A q \in Rounds : rounds'[q].proposal = rounds[q].proposal
    BY <1>2, <2>1, <2>2, ZenonT(60) DEF RoundStates
  <2>4. \A q \in Rounds, t \in Types : rounds'[q][t] = rounds[q][t]
    BY <1>2, <2>1, <2>2, ZenonT(60) DEF RoundStates, Types
  <2>5. UNCHANGED <<position, cast, store, storeNumber>>
    BY <1>5, ZenonT(60) DEF ProcessProposal
  <2>. QED BY <2>3, <2>4, <2>5, ZenonT(60) DEF ResultSet
<1>6. CASE ProcessOwnVote
  <2>1. PICK m \in inbox : /\ m[1] \in Types /\ SaveMessages(m[2], m[1], m[3], {m[4]}, m[5])
                           /\ rounds' = addVotes(m[1], m[3], {m[4]}, m[5])
                           /\ UNCHANGED <<position, chain, cast>>
    BY <1>6, ZenonT(60) DEF ProcessOwnVote
  <2>2. /\ m[2] = blockNumber /\ blockNumber \in 1..MaxBlockNumber
        /\ <<m[4], m[3], m[5]>> \in cast[m[1]][blockNumber]
    BY <1>1, <2>1, ZenonT(60) DEF VotesAreCast
  <2>3. m[3] \in Rounds /\ {m[4]} \in SUBSET Validators /\ m[5] \in Values
    BY <1>1, <2>1, ZenonT(60) DEF QueuesOK, Types
  <2>4. {m[4]} \X {m[3]} \X {m[5]} \subseteq cast'[m[1]][blockNumber]
    BY <2>1, <2>2, SMTT(60)
  <2>. QED BY <1>4, <2>1, <2>2, <2>3, <2>4, ZenonT(60)
<1>7. CASE ProcessOwnProposal
  <2>1. PICK m \in inbox :
          /\ m[1] = "proposal" /\ CommitLockFree /\ UNCHANGED <<position, chain>>
          /\ \/ UNCHANGED rounds
             \/ /\ m[2] = blockNumber /\ ~HasProposal(m[3].round)
                /\ SaveProposal(blockNumber, m[3]) /\ rounds' = addProposal(m[3])
    BY <1>7, ZenonT(60) DEF ProcessOwnProposal
  <2>2. m[2] \in 1..MaxBlockNumber /\ m[3] \in Proposals
    BY <1>1, <2>1, ZenonT(60) DEF QueuesOK, Types
  <2>3. m[2] = blockNumber => blockNumber <= MaxBlockNumber
    BY <2>2, ConstantsAssumption, SMTT(60)
  <2>. QED BY <1>3, <2>1, <2>2, <2>3, ZenonT(60)
<1>8. CASE PeersVote
  <2>1. PICK m \in RemoteVotes : ProcessVotes(m[1], m[2], m[3], m[4])
    BY <1>8, ZenonT(60) DEF PeersVote
  <2>2. m[1] \in SUBSET Validators /\ m[2] \in Types /\ m[3] \in Rounds /\ m[4] \in Values
    BY ConstantsAssumption, ZenonT(60) DEF Remote
  <2>3. /\ SaveMessages(blockNumber, m[2], m[3], m[1], m[4])
        /\ cast' = castVotes(m[2], m[3], m[1], m[4])
        /\ rounds' = addVotes(m[2], m[3], m[1], m[4])
        /\ UNCHANGED <<position, chain>> /\ blockNumber <= MaxBlockNumber
    BY <2>1, ZenonT(60) DEF ProcessVotes, Accepts
  <2>4. blockNumber \in 1..MaxBlockNumber
    BY <1>2, <2>3, ConstantsAssumption, SMTT(60)
  <2>5. m[1] \X {m[3]} \X {m[4]} \subseteq cast'[m[2]][blockNumber]
    <3>1. VotesMade(cast', m[2], m[3], m[1], m[4])
      BY <1>2, <2>2, <2>3, <2>4, CastVotes, ZenonT(60)
    <3>. QED BY <2>2, <2>4, <3>1, ZenonT(60) DEF VotesMade
  <2>. QED BY <1>4, <2>2, <2>3, <2>4, <2>5, ZenonT(60)
<1>9. CASE PeersPropose
  <2>1. PICK p \in RemoteProposals : ProcessProposalOf(p)
    BY <1>9, ZenonT(60) DEF PeersPropose
  <2>2. /\ p \in Proposals /\ SaveProposal(blockNumber, p) /\ UNCHANGED <<position, chain>>
        /\ blockNumber <= MaxBlockNumber /\ ~HasProposal(p.round) /\ CommitLockFree
        /\ rounds' = addProposal(p)
    BY <2>1, ConstantsAssumption, ZenonT(60) DEF ProcessProposalOf, Accepts
  <2>. QED BY <1>3, <2>2, ZenonT(60)
<1>. QED BY <1>5, <1>6, <1>7, <1>8, <1>9, Writers, ZenonT(60)

\* Every counted vote was made.
LEMMA CountedVotesStep ==
  ASSUME IInv, [Next]_vars,
         NEW r \in Rounds, NEW type \in Types, NEW m \in rounds'[r][type]
  PROVE  blockNumber' \in 1..MaxBlockNumber /\ <<m[1], r, m[2]>> \in cast'[type][blockNumber']
<1>. USE DEF position
<1>1. VotesAreCast /\ RecordsOK /\ PlaceOK /\ RoundsOK
  BY ZenonT(60) DEF IInv
<1>2. ASSUME m \in rounds[r][type], UNCHANGED blockNumber
      PROVE  blockNumber' \in 1..MaxBlockNumber /\ <<m[1], r, m[2]>> \in cast'[type][blockNumber']
  <2>1. blockNumber \in 1..MaxBlockNumber /\ <<m[1], r, m[2]>> \in cast[type][blockNumber]
    BY <1>1, <1>2, ZenonT(60) DEF VotesAreCast
  <2>. QED BY <1>2, <2>1, CastGrows, ZenonT(60)
<1>3. CASE ResultSet
  BY <1>2, <1>3, ZenonT(60) DEF ResultSet
<1>4. ASSUME NEW p, ProposalComesIn(p)
      PROVE  blockNumber' \in 1..MaxBlockNumber /\ <<m[1], r, m[2]>> \in cast'[type][blockNumber']
  BY <1>2, <1>4, ZenonT(60) DEF ProposalComesIn, ProposalAdded, ProposalStored
<1>5. ASSUME NEW t, NEW q, NEW Q, NEW x, VotesAreCounted(t, q, Q, x)
      PROVE  blockNumber' \in 1..MaxBlockNumber /\ <<m[1], r, m[2]>> \in cast'[type][blockNumber']
  <2>1. /\ rounds'[r][type] = IF r = q /\ type = t THEN rounds[r][type] \cup (Q \X {x})
                              ELSE rounds[r][type]
        /\ blockNumber \in 1..MaxBlockNumber /\ UNCHANGED blockNumber
        /\ Q \X {q} \X {x} \subseteq cast'[t][blockNumber]
    BY <1>5, ZenonT(60) DEF VotesAreCounted, VotesAdded, MessagesStored
  <2>2. CASE m \in rounds[r][type]
    BY <1>2, <2>1, <2>2, ZenonT(60)
  <2>3. CASE m \notin rounds[r][type]
    <3>1. r = q /\ type = t /\ m \in Q \X {x}
      BY <2>1, <2>3, ZenonT(60)
    <3>2. <<m[1], q, m[2]>> \in Q \X {q} \X {x}
      BY <3>1, ZenonT(60)
    <3>. QED BY <2>1, <3>1, <3>2, ZenonT(60)
  <2>. QED BY <2>2, <2>3, ZenonT(60)
<1>6. CASE NextBlock
  <2>1. rounds'[r] = EmptyRound
    BY <1>6, ZenonT(60) DEF NextBlock
  <2>2. EmptyRound[type] = {}
    BY SMTT(60) DEF EmptyRound, Types
  <2>. QED BY <2>1, <2>2, ZenonT(60)
<1>7. CASE Restart
  <2>1. \/ rounds' = LoadedRounds(Len(chain) + 1) /\ blockNumber' = Len(chain) + 1
        \/ UNCHANGED <<rounds, blockNumber>>
    BY <1>7, ZenonT(60) DEF Restart
  <2>2. CASE rounds' = LoadedRounds(Len(chain) + 1) /\ blockNumber' = Len(chain) + 1
    <3>1. RoundsLoaded(rounds', blockNumber')
      BY <1>1, <2>2, LoadsRounds, SMTT(60) DEF RecordsOK
    <3>2. m \in Validators \X Values
      BY <3>1, ZenonT(60) DEF RoundsLoaded, RoundStates, Types
    <3>3. <<blockNumber', type, r, m[1], m[2]>> \in store.messages
      BY <3>1, <3>2, SMTT(60) DEF RoundsLoaded
    <3>4. blockNumber' \in 1..MaxBlockNumber /\ <<m[1], r, m[2]>> \in cast[type][blockNumber']
      BY <1>1, <3>3, ZenonT(60) DEF VotesAreCast
    <3>. QED BY <3>4, CastGrows, ZenonT(60)
  <2>. QED BY <1>2, <2>1, <2>2, ZenonT(60)
<1>8. CASE UNCHANGED rounds /\ ~NextBlock /\ ~Restart
  <2>1. FieldsOK'
    BY FieldsStep, ZenonT(60)
  <2>2. UNCHANGED blockNumber
    BY <1>8, <2>1, Writers, PositionIsStored, ZenonT(60)
  <2>. QED BY <1>2, <1>8, <2>2, ZenonT(60)
<1>. QED BY <1>3, <1>4, <1>5, <1>6, <1>7, <1>8, RoundSteps, ZenonT(60)

\* A vote that is counted, queued or stored was cast by its validator.
LEMMA VotesStep ==
  ASSUME IInv, [Next]_vars
  PROVE  VotesAreCast'
<1>. USE DEF position, flags, disk, history
<1>1. VotesAreCast /\ RecordsOK /\ PlaceOK /\ RoundsOK /\ HandlerOK /\ FieldsOK /\ QueuesOK
  BY ZenonT(60) DEF IInv
<1>2. ASSUME NEW s \in store'.messages
      PROVE  s[1] \in 1..MaxBlockNumber /\ <<s[4], s[3], s[5]>> \in cast'[s[2]][s[1]]
  <2>1. ASSUME s \in store.messages
        PROVE  s[1] \in 1..MaxBlockNumber /\ <<s[4], s[3], s[5]>> \in cast'[s[2]][s[1]]
    <3>1. s[1] \in 1..MaxBlockNumber /\ <<s[4], s[3], s[5]>> \in cast[s[2]][s[1]]
      BY <1>1, <2>1, ZenonT(60) DEF VotesAreCast
    <3>2. s[2] \in Types
      BY <1>1, <2>1, ZenonT(60) DEF RecordsOK, Stores
    <3>. QED BY <3>1, <3>2, CastGrows, ZenonT(60)
  <2>2. CASE StoreKept
    BY <2>1, <2>2, ZenonT(60) DEF StoreKept
  <2>3. CASE Restart /\ UNCHANGED store
    BY <2>1, <2>3, ZenonT(60)
  <2>4. CASE StateStored
    BY <2>1, <2>4, ZenonT(60) DEF StateStored, StateSaved
  <2>5. ASSUME NEW p, ProposalStored(p)
        PROVE  s \in store.messages
    BY <2>5, ZenonT(60) DEF ProposalStored, ProposalSaved
  <2>6. ASSUME NEW type, NEW r, NEW Q, NEW x, MessagesStored(type, r, Q, x)
        PROVE  s[1] \in 1..MaxBlockNumber /\ <<s[4], s[3], s[5]>> \in cast'[s[2]][s[1]]
    <3>1. \/ s \in store.messages
          \/ s \in {<<blockNumber, type, r, v, x>> : v \in Q}
      BY <2>6, ZenonT(60) DEF MessagesStored, MessagesSaved
    <3>2. CASE s \in {<<blockNumber, type, r, v, x>> : v \in Q}
      <4>1. PICK v \in Q : s = <<blockNumber, type, r, v, x>>
        BY <3>2, ZenonT(60)
      <4>2. <<v, r, x>> \in cast'[type][blockNumber] /\ blockNumber \in 1..MaxBlockNumber
        BY <2>6, ZenonT(60) DEF MessagesStored
      <4>. QED BY <4>1, <4>2, ZenonT(60)
    <3>. QED BY <2>1, <3>1, <3>2, ZenonT(60)
  <2>. QED BY <2>1, <2>2, <2>3, <2>4, <2>5, <2>6, StoreSteps, ZenonT(60)
<1>3. ASSUME NEW m \in inbox', m[1] \in Types
      PROVE  /\ m[2] = blockNumber' /\ m[2] \in 1..MaxBlockNumber
             /\ pc' # "committed" /\ m[4] \in Local
             /\ <<m[4], m[3], m[5]>> \in cast'[m[1]][blockNumber']
  <2>1. CASE CastVote
    <3>1. PICK v \in ballot.voters :
            /\ inbox' = inbox \cup {<<ballot.type, blockNumber, round, v, ballot.value>>}
            /\ cast' = castVotes(ballot.type, round, {v}, ballot.value)
      BY <2>1, ZenonT(60) DEF CastVote
    <3>2. /\ ballot.type \in Types /\ {v} \in SUBSET Validators /\ ballot.value \in Values
          /\ v \in Local /\ round \in Rounds
      BY <1>1, ConstantsAssumption, ZenonT(60) DEF HandlerOK, Ballots, FieldsOK
    <3>3. pc = "vote" /\ pc' \in {pc, ballot.next} /\ UNCHANGED blockNumber
      BY <2>1, ZenonT(60) DEF CastVote
    <3>4. blockNumber \in 1..MaxBlockNumber
      BY <1>1, <3>3, ConstantsAssumption, SMTT(60) DEF PlaceOK, FieldsOK
    <3>5. VotesMade(cast', ballot.type, round, {v}, ballot.value)
      BY <1>1, <3>1, <3>2, <3>4, CastVotes, ZenonT(60) DEF RecordsOK
    <3>6. <<v, round, ballot.value>> \in cast'[ballot.type][blockNumber]
      BY <3>2, <3>4, <3>5, ZenonT(60) DEF VotesMade
    <3>7. pc' # "committed"
      BY <1>1, <3>3, ZenonT(60) DEF HandlerOK, Ballots, RuleNames
    <3>8. CASE m \in inbox
      BY <1>1, <1>3, <3>3, <3>7, <3>8, CastGrows, SMTT(60) DEF VotesAreCast
    <3>9. CASE m = <<ballot.type, blockNumber, round, v, ballot.value>>
      BY <3>2, <3>3, <3>4, <3>6, <3>7, <3>9, ZenonT(60)
    <3>. QED BY <3>1, <3>8, <3>9, ZenonT(60)
  <2>2. CASE ~CastVote
    <3>1. m \in inbox
      <4>1. CASE SubmitProposal
        BY <1>3, <4>1, SMTT(60) DEF SubmitProposal, Types
      <4>2. CASE ProcessOwnVote \/ ProcessOwnProposal \/ Crash
        BY <4>2, ZenonT(60) DEF ProcessOwnVote, ProcessOwnProposal, Crash
      <4>. QED BY <2>2, <4>1, <4>2, Writers, ZenonT(60)
    <3>2. /\ m[2] = blockNumber /\ m[2] \in 1..MaxBlockNumber
          /\ pc # "committed" /\ m[4] \in Local
          /\ <<m[4], m[3], m[5]>> \in cast[m[1]][blockNumber]
      BY <1>1, <1>3, <3>1, ZenonT(60) DEF VotesAreCast
    <3>3. ~NextBlock /\ ~Restart /\ ~Commit /\ ~Crash
      <4>1. ~NextBlock
        BY <3>2, ZenonT(60) DEF NextBlock
      <4>2. ~Restart
        BY <1>1, <3>1, ZenonT(60) DEF Restart, PlaceOK, isRunning
      <4>3. ~Commit
        BY <1>3, <3>1, ZenonT(60) DEF Commit, Types
      <4>4. ~Crash
        BY ZenonT(60) DEF Crash
      <4>. QED BY <4>1, <4>2, <4>3, <4>4, ZenonT(60)
    <3>4. pc' # "committed"
      BY <3>2, <3>3, HandlerPlaces, ZenonT(60)
    <3>5. UNCHANGED blockNumber
      <4>1. FieldsOK'
        BY FieldsStep, ZenonT(60)
      <4>. QED BY <3>3, <4>1, Writers, PositionIsStored, ZenonT(60)
    <3>6. <<m[4], m[3], m[5]>> \in cast'[m[1]][blockNumber']
      BY <1>3, <3>2, <3>5, CastGrows, ZenonT(60)
    <3>. QED BY <3>2, <3>4, <3>5, <3>6, ZenonT(60)
  <2>. QED BY <2>1, <2>2, ZenonT(60)
<1>. QED BY <1>2, <1>3, CountedVotesStep, ZenonT(60) DEF VotesAreCast

-------------------------------------------------------------------------------
(* The commit.                                                             *)

\* The votes of a round state are votes of the history.
LEMMA CountedVoters ==
  ASSUME IInv, NEW r \in Rounds, NEW type \in Types, NEW x,
         isMajorityOf(VotersOf(rounds[r][type], x))
  PROVE  \/ rounds[r][type] = {} /\ isMajorityOf({})
         \/ /\ blockNumber \in 1..MaxBlockNumber
            /\ isMajorityOf({v \in Validators : <<v, r, x>> \in cast[type][blockNumber]})
<1>. DEFINE made == {v \in Validators : <<v, r, x>> \in cast[type][blockNumber]}
<1>1. CASE rounds[r][type] = {}
  <2>1. VotersOf(rounds[r][type], x) = {}
    BY <1>1, ZenonT(60) DEF VotersOf
  <2>. QED BY <1>1, <2>1, ZenonT(60)
<1>2. CASE rounds[r][type] # {}
  <2>1. blockNumber \in 1..MaxBlockNumber
    BY <1>2, ZenonT(60) DEF IInv, VotesAreCast
  <2>2. VotersOf(rounds[r][type], x) \subseteq made
    BY ZenonT(60) DEF IInv, VotesAreCast, VotersOf
  <2>3. VotersOf(rounds[r][type], x) \in SUBSET Validators /\ made \in SUBSET Validators
    BY ZenonT(60) DEF VotersOf
  <2>4. isMajorityOf(made)
    <3>. HIDE DEF made
    <3>. QED BY <2>2, <2>3, MajorityGrows, ZenonT(60)
  <2>. QED BY <2>1, <2>4, ZenonT(60)
<1>. QED BY <1>1, <1>2, ZenonT(60)

\* The handler that commits was sent there by a rule or by a downloaded commit.
LEMMA CommitPlaces ==
  ASSUME IInv, [Next]_vars, pc' = "commit"
  PROVE  \/ pc = "commit" /\ UNCHANGED <<unit, blockNumber, commitLock>>
         \/ OnMajorityPrecommit
         \/ \E job \in jobs : HandleCommitState(job)
<1>. USE DEF position, flags, disk, history
<1>1. HandlerOK
  BY ZenonT(60) DEF IInv
<1>2. ~Crash /\ ~Restart /\ ~NextBlock /\ ~BeginRound /\ ~Commit /\ ~Return
  BY ZenonT(60)
     DEF Crash, Restart, NextBlock, EnterRound, BeginRound, Commit, Return, IInv, PlaceOK,
     isRunning
<1>3. CASE CastVote
  <2>1. pc = "vote" /\ pc' \in {pc, ballot.next}
    BY <1>3, ZenonT(60) DEF CastVote
  <2>. QED BY <1>1, <2>1, ZenonT(60) DEF HandlerOK, Ballots, RuleNames
<1>4. CASE Rule
  BY <1>2, <1>4, ZenonT(60) DEF Rule, ProcessProposal, OnProposal, OnMajorityPrevote,
     OnMajorityPrevoteAny,
         OnMajorityPrevoteNull, OnMajorityPrecommitAny,
         OnMinorityWithHigherRound, StartRound, EnterRound, Vote
<1>5. CASE TakeJob
  BY <1>5, ZenonT(60) DEF TakeJob, Handle, OnTimeoutPropose, OnTimeoutPrevote,
              OnTimeoutPrecommit, Take, StartRound, EnterRound, Vote
<1>6. CASE UNCHANGED <<pc, unit, ballot>> /\ ~Rule /\ ~TakeJob
  <2>1. FieldsOK'
    BY FieldsStep, ZenonT(60)
  <2>2. UNCHANGED blockNumber
    BY <1>2, <2>1, Writers, PositionIsStored, ZenonT(60)
  <2>3. UNCHANGED commitLock
    BY <1>2, Writers, ZenonT(60)
  <2>. QED BY <1>6, <2>2, <2>3, ZenonT(60)
<1>. QED BY <1>2, <1>3, <1>4, <1>5, <1>6, Writers, ZenonT(60)

\* What waits to be committed has its +2/3 precommits.
LEMMA CommitsStep ==
  ASSUME IInv, [Next]_vars
  PROVE  CommitsOK'
<1>. USE DEF position, flags, disk, history
<1>1. CommitsOK /\ RecordsOK /\ PlaceOK /\ RoundsOK /\ HandlerOK /\ FieldsOK /\ QueuesOK
  BY ZenonT(60) DEF IInv
<1>2. Len(chain) \in Nat /\ blockNumber \in Nat /\ MaxBlockNumber \in Nat
  BY <1>1, ConstantsAssumption, SMTT(60) DEF RecordsOK, FieldsOK
<1>3. CommitsAreJustified'
  <2>1. SUFFICES ASSUME NEW h \in DOMAIN chain', NEW x, x = chain'[h]
                 PROVE  x \in ValidBlocks /\ Decided(h, x)'
    BY ZenonT(60) DEF CommitsAreJustified, Decided, Precommitters
  <2>2. chain' \in Seq(ValidBlocks) /\ Len(chain') <= MaxBlockNumber
    BY RecordsStep, PlaceStep, ZenonT(60) DEF RecordsOK, PlaceOK
  <2>3. x \in ValidBlocks /\ h \in 1..MaxBlockNumber
    BY <1>2, <2>1, <2>2, SMTT(60)
  <2>4. ASSUME h \in DOMAIN chain, x = chain[h]
        PROVE  Decided(h, x)'
    <3>1. Decided(h, x)
      BY <1>1, <2>4, ZenonT(60) DEF CommitsOK, CommitsAreJustified, Decided, Precommitters
    <3>. QED BY <2>3, <3>1, MajoritiesStay, ZenonT(60)
  <2>5. CASE UNCHANGED chain
    BY <2>1, <2>3, <2>4, <2>5, ZenonT(60)
  <2>6. CASE Commit
    <3>1. pc = "commit" /\ chain' = Append(chain, unit) /\ UNCHANGED cast
      BY <2>6, ZenonT(60) DEF Commit
    <3>2. CASE h \in DOMAIN chain
      BY <1>1, <2>1, <2>4, <3>1, <3>2, SMTT(60) DEF RecordsOK
    <3>3. CASE h \notin DOMAIN chain
      <4>1. h = Len(chain) + 1 /\ x = unit
        BY <1>1, <2>1, <3>1, <3>3, SMTT(60) DEF RecordsOK
      <4>2. blockNumber = h
        BY <1>1, <1>2, <3>1, <4>1, ZenonT(60) DEF PlaceOK
      <4>3. Decided(h, x)
        BY <1>1, <3>1, <4>1, <4>2, ZenonT(60) DEF CommitsOK
      <4>. QED BY <2>3, <4>3, MajoritiesStay, ZenonT(60)
    <3>. QED BY <3>2, <3>3, ZenonT(60)
  <2>. QED BY <2>3, <2>5, <2>6, Writers, ZenonT(60)
<1>4. ASSUME pc' = "commit"
      PROVE  Decided(blockNumber, unit)'
  <2>1. ASSUME NEW n \in 1..MaxBlockNumber, NEW x, Decided(n, x), n = blockNumber', x = unit'
        PROVE  Decided(blockNumber, unit)'
    <3>1. Decided(n, x)'
      BY <2>1, MajoritiesStay, ZenonT(60)
    <3>. QED BY <2>1, <3>1, ZenonT(60)
  <2>2. CASE pc = "commit" /\ UNCHANGED <<unit, blockNumber>>
    <3>1. blockNumber \in 1..MaxBlockNumber
      BY <1>1, <1>2, <2>2, ConstantsAssumption, SMTT(60) DEF PlaceOK
    <3>2. Decided(blockNumber, unit)
      BY <1>1, <2>2, ZenonT(60) DEF CommitsOK
    <3>. QED BY <2>1, <2>2, <3>1, <3>2, ZenonT(60)
  <2>3. CASE OnMajorityPrecommit
    <3>1. /\ unit \in Rounds /\ HasMajority(unit, "precommit") /\ unit' = BlockOf(unit)
          /\ UNCHANGED blockNumber
      BY <1>1, <1>4, <2>3, RuleGuards, ZenonT(60)
         DEF OnMajorityPrecommit, MayCommit, HandlerOK, RuleNames
    <3>2. isMajorityOf(VotersOf(rounds[unit]["precommit"], BlockOf(unit)))
      BY <3>1, ZenonT(60) DEF HasMajority, BlockOf
    <3>3. /\ blockNumber \in 1..MaxBlockNumber
          /\ isMajorityOf(Precommitters(blockNumber, unit, BlockOf(unit)))
      BY <3>1, <3>2, CountedVoters, EmptyIsNoMajority, ZenonT(60) DEF Types, Precommitters
    <3>4. Decided(blockNumber, BlockOf(unit))
      BY <3>1, <3>3, ZenonT(60) DEF Decided
    <3>. QED BY <2>1, <3>1, <3>3, <3>4, ZenonT(60)
  <2>4. ASSUME NEW job \in jobs, HandleCommitState(job)
        PROVE  Decided(blockNumber, unit)'
    <3>1. job[1] = "commit" /\ job[2] = blockNumber /\ unit' = job[3] /\ UNCHANGED blockNumber
      BY <1>4, <2>4, ZenonT(60) DEF HandleCommitState, Take
    <3>2. blockNumber \in 1..MaxBlockNumber /\ Decided(blockNumber, job[3])
      BY <1>1, <3>1, ZenonT(60) DEF CommitsOK
    <3>. QED BY <2>1, <3>1, <3>2, ZenonT(60)
  <2>. QED BY <1>4, <2>2, <2>3, <2>4, CommitPlaces, ZenonT(60)
<1>5. ASSUME NEW j \in jobs', j[1] = "commit"
      PROVE  j[2] \in 1..MaxBlockNumber /\ Decided(j[2], j[3])'
  <2>1. ASSUME j \in jobs
        PROVE  j[2] \in 1..MaxBlockNumber /\ Decided(j[2], j[3])'
    <3>1. j[2] \in 1..MaxBlockNumber /\ Decided(j[2], j[3])
      BY <1>1, <1>5, <2>1, ZenonT(60) DEF CommitsOK
    <3>. QED BY <3>1, MajoritiesStay, ZenonT(60)
  <2>2. CASE PeersCommit
    <3>1. PICK c \in Commits : ProcessCommit(c[1], c[2])
      BY <2>2, ZenonT(60) DEF PeersCommit
    <3>2. PICK r \in Rounds, x \in Blocks : r = c[1] /\ x = c[2]
      BY ConstantsAssumption, ZenonT(60)
    <3>3. /\ blockNumber <= MaxBlockNumber
          /\ PeersHaveMajority("precommit", r, x)
          /\ jobs' = jobs \cup {<<"commit", blockNumber, x>>}
          /\ cast' = castVotes("precommit", r, Remote, x)
      BY <3>1, <3>2, ZenonT(60) DEF ProcessCommit
    <3>4. blockNumber \in 1..MaxBlockNumber
      BY <1>1, <1>2, <3>3, SMTT(60) DEF PlaceOK
    <3>5. VotesMade(cast', "precommit", r, Remote, x)
      BY <1>1, <3>3, <3>4, CastVotes, ZenonT(60) DEF RecordsOK, Remote, Types, Values
    <3>6. cast'["precommit"][blockNumber] =
            cast["precommit"][blockNumber] \cup (Remote \X {r} \X {x})
      BY <3>4, <3>5, ZenonT(60) DEF VotesMade, Types
    <3>7. PICK n : n = blockNumber
      BY ZenonT(60)
    <3>. DEFINE shown == Remote \cup OwnVoters("precommit", r, x)
    <3>8. shown \subseteq Precommitters(n, r, x)'
      BY <3>6, <3>7, ConstantsAssumption, ZenonT(60) DEF OwnVoters, Precommitters, Remote
    <3>9. shown \in SUBSET Validators /\ Precommitters(n, r, x)' \in SUBSET Validators
      BY ConstantsAssumption, ZenonT(60) DEF OwnVoters, Precommitters, Remote
    <3>10. isMajorityOf(shown)
      BY <3>3, ZenonT(60) DEF PeersHaveMajority
    <3>11. isMajorityOf(Precommitters(n, r, x)')
      <4>. HIDE DEF shown
      <4>. QED BY <3>8, <3>9, <3>10, MajorityGrows, ZenonT(60)
    <3>12. Decided(n, x)'
      BY <3>11, ZenonT(60) DEF Decided, isMajorityOf
    <3>13. CASE j = <<"commit", blockNumber, x>>
      BY <3>4, <3>7, <3>12, <3>13, ZenonT(60)
    <3>. QED BY <2>1, <3>3, <3>13, ZenonT(60)
  <2>3. CASE ~PeersCommit
    <3>1. TakeJob => j \in jobs
      BY ZenonT(60) DEF TakeJob, Handle, HandleCommitState, OnTimeoutPropose, OnTimeoutPrevote,
             OnTimeoutPrecommit, Take
    <3>2. CASE TimeoutExpires
      <4>1. PICK t \in timers : jobs' = jobs \cup {t}
        BY <3>2, ZenonT(60) DEF TimeoutExpires
      <4>2. t[1] # "commit"
        BY <1>1, ZenonT(60) DEF QueuesOK, TimerKinds
      <4>. QED BY <1>5, <2>1, <4>1, <4>2, ZenonT(60)
    <3>3. CASE ProcessOwnVote \/ ProcessOwnProposal \/ PeersVote \/ PeersPropose
      <4>1. \E n, q : jobs' \subseteq jobs \cup {<<"round", n, q>>}
        BY <3>3, ZenonT(60) DEF ProcessOwnVote, ProcessOwnProposal, PeersVote, PeersPropose,
           ProcessVotes,
                    ProcessProposalOf
      <4>. QED BY <1>5, <2>1, <4>1, SMTT(60)
    <3>4. CASE Crash
      BY <3>4, ZenonT(60) DEF Crash
    <3>. QED BY <2>1, <2>3, <3>1, <3>2, <3>3, <3>4, Writers, ZenonT(60)
  <2>. QED BY <2>2, <2>3, ZenonT(60)
<1>. QED BY <1>3, <1>4, <1>5, ZenonT(60) DEF CommitsOK

\* Once commitLock is taken the rounds have no proposal, so that no rule commits again.
LEMMA CommitLockStep ==
  ASSUME IInv, [Next]_vars
  PROVE  CommitLockOK'
<1>. USE DEF position, flags, disk, history
<1>1. CommitLockOK /\ RecordsOK /\ PlaceOK /\ RoundsOK /\ HandlerOK /\ FieldsOK
  BY ZenonT(60) DEF IInv
<1>2. ASSUME pc' = "commit"
      PROVE  ~commitLock'
  <2>1. CASE pc = "commit" /\ UNCHANGED commitLock
    BY <1>1, <2>1, ZenonT(60) DEF CommitLockOK
  <2>2. CASE OnMajorityPrecommit
    <3>1. unit \in Rounds /\ HasProposal(unit) /\ pc \in RuleNames /\ UNCHANGED commitLock
      BY <1>1, <2>2, RuleGuards, ZenonT(60) DEF OnMajorityPrecommit, MayCommit, HasMajority,
         HandlerOK, RuleNames
    <3>. QED BY <1>1, <3>1, ZenonT(60) DEF CommitLockOK, RuleNames
  <2>3. ASSUME NEW job \in jobs, HandleCommitState(job)
        PROVE  ~commitLock'
    <3>1. pc = "idle" /\ UNCHANGED commitLock
      BY <2>3, ZenonT(60) DEF HandleCommitState, Take
    <3>. QED BY <1>1, <3>1, ZenonT(60) DEF CommitLockOK, RuleNames
  <2>. QED BY <1>2, <2>1, <2>2, <2>3, CommitPlaces, ZenonT(60)
<1>3. ASSUME commitLock', pc' # "committed"
      PROVE  /\ pc' \in RuleNames \cup {"beginRound"} /\ step' = "propose"
             /\ \A r \in Rounds : rounds'[r].proposal = NoProposal
  <2>1. ~Commit /\ ~Crash /\ ~Return
    BY <1>3, ZenonT(60) DEF Commit, Crash, Return
  <2>2. commitLock
    BY <1>3, <2>1, Writers, ZenonT(60)
  <2>3. ~Restart
    BY <1>1, <2>2, ZenonT(60) DEF Restart, PlaceOK, isRunning
  <2>4. CASE pc = "committed"
    <3>1. NextBlock
      BY <1>3, <2>1, <2>3, <2>4, HandlerPlaces, ZenonT(60)
    <3>2. /\ pc' = "beginRound" /\ step' = "propose"
          /\ rounds' = [r \in Rounds |-> EmptyRound]
      BY <3>1, ZenonT(60) DEF NextBlock, EnterRound
    <3>. QED BY <3>2, ZenonT(60) DEF EmptyRound
  <2>5. CASE pc # "committed"
    <3>1. /\ pc \in RuleNames \cup {"beginRound"} /\ step = "propose"
          /\ \A r \in Rounds : ~HasProposal(r)
      BY <1>1, <2>2, <2>5, ZenonT(60) DEF CommitLockOK
    <3>2. ~NextBlock /\ ~TakeJob /\ ~CastVote
      BY <3>1, SMTT(60) DEF NextBlock, TakeJob, Handle, HandleCommitState, OnTimeoutPropose,
                  OnTimeoutPrevote, OnTimeoutPrecommit, Take, CastVote, RuleNames
    <3>3. pc \in RuleNames => unit \in Rounds
      BY <1>1, ZenonT(60) DEF HandlerOK, RuleNames
    <3>4. ~ProcessProposal /\ ~OnProposal /\ ~OnMajorityPrevote /\ ~OnMajorityPrevoteAny
          /\ ~OnMajorityPrevoteNull /\ ~OnMajorityPrecommit
      <4>. USE <3>1, <3>3, RuleGuards
      <4>1. ~ProcessProposal
        BY ZenonT(60) DEF ProcessProposal, MayProcess
      <4>2. ~OnProposal
        BY ZenonT(60) DEF OnProposal, MayPrevote
      <4>3. ~OnMajorityPrevote
        BY ZenonT(60) DEF OnMajorityPrevote, MayLock
      <4>4. ~OnMajorityPrevoteAny
        BY ZenonT(60) DEF OnMajorityPrevoteAny, MaySchedulePrevote
      <4>5. ~OnMajorityPrevoteNull
        BY ZenonT(60) DEF OnMajorityPrevoteNull, MayPrecommitNil
      <4>6. ~OnMajorityPrecommit
        BY ZenonT(60) DEF OnMajorityPrecommit, MayCommit, HasMajority
      <4>. QED BY <4>1, <4>2, <4>3, <4>4, <4>5, <4>6, ZenonT(60)
    <3>5. pc' \in RuleNames \cup {"beginRound"}
      <4>1. CASE BeginRound
        BY <4>1, ZenonT(60) DEF BeginRound, RuleNames
      <4>2. CASE OnMajorityPrecommitAny
        BY <4>2, ZenonT(60) DEF OnMajorityPrecommitAny, RuleNames
      <4>3. CASE OnMinorityWithHigherRound
        BY <4>3, ZenonT(60) DEF OnMinorityWithHigherRound, StartRound, EnterRound
      <4>. QED BY <2>1, <2>3, <3>1, <3>2, <3>4, <4>1, <4>2, <4>3, Writers, ZenonT(60) DEF Rule
    <3>6. step' = "propose"
      <4>1. CASE OnMinorityWithHigherRound
        BY <4>1, ZenonT(60) DEF OnMinorityWithHigherRound, StartRound, EnterRound
      <4>. QED BY <2>3, <3>1, <3>2, <3>4, <4>1, Writers, ZenonT(60) DEF PositionWriters
    <3>7. \A r \in Rounds : rounds'[r].proposal = NoProposal
      <4>1. \A r \in Rounds : rounds[r].proposal = NoProposal
        BY <3>1, ZenonT(60) DEF HasProposal
      <4>2. CASE ResultSet
        BY <4>1, <4>2, ZenonT(60) DEF ResultSet
      <4>3. ASSUME NEW p, ProposalComesIn(p)
            PROVE  FALSE
        BY <2>2, <4>3, ZenonT(60) DEF ProposalComesIn, CommitLockFree
      <4>4. ASSUME NEW type, NEW r, NEW Q, NEW x, VotesAreCounted(type, r, Q, x)
            PROVE  \A q \in Rounds : rounds'[q].proposal = NoProposal
        BY <4>1, <4>4, ZenonT(60) DEF VotesAreCounted, VotesAdded
      <4>. QED BY <2>3, <3>2, <4>1, <4>2, <4>3, <4>4, RoundSteps, ZenonT(60)
    <3>. QED BY <3>5, <3>6, <3>7, ZenonT(60)
  <2>. QED BY <2>4, <2>5, ZenonT(60)
<1>. QED BY <1>2, <1>3, ZenonT(60) DEF CommitLockOK, HasProposal

-------------------------------------------------------------------------------
(* The stored position.                                                    *)

\* The stored state is the one the node is in, for its block number.
LEMMA StoreInStepStep ==
  ASSUME IInv, [Next]_vars
  PROVE  StoreInStep'
<1>1. StoreInStep /\ StoreIsOfOneBlock /\ PlaceOK /\ RecordsOK /\ FieldsOK
  BY ZenonT(60) DEF IInv
<1>2. /\ blockNumber \in Nat /\ blockNumber >= 1 /\ Len(chain) \in Nat /\ storeNumber \in Nat
      /\ store.state \in States /\ store.state.blockNumber \in Nat
  BY <1>1, SMTT(60) DEF PlaceOK, RecordsOK, FieldsOK, Stores, States
<1>3. CASE StateStored
  <2>1. store'.state = State(blockNumber', round', step', lockedRound', validRound')
    BY <1>3, ZenonT(60) DEF StateStored, StateSaved
  <2>2. store'.state.blockNumber = blockNumber' /\ blockNumber' \in Nat
    BY <1>2, <1>3, <2>1, SMTT(60) DEF State, StateStored
  <2>. QED BY <2>1, <2>2, SMTT(60) DEF StoreInStep
<1>4. CASE NextBlock
  <2>1. /\ UNCHANGED store /\ blockNumber' = blockNumber + 1
        /\ AtStart(round', step', lockedRound', validRound')
    BY <1>4, ZenonT(60) DEF NextBlock, EnterRound, AtStart, disk
  <2>. QED BY <1>1, <1>2, <2>1, SMTT(60) DEF StoreInStep, AtStart
<1>5. CASE Restart
  <2>1. UNCHANGED store
    BY <1>5, ZenonT(60) DEF Restart
  <2>2. CASE UNCHANGED position
    BY <1>1, <2>1, <2>2, ZenonT(60) DEF StoreInStep, position, State
  <2>3. CASE /\ blockNumber' = blockNumber + 1
             /\ AtStart(round', step', lockedRound', validRound')
    BY <1>1, <1>2, <2>1, <2>3, SMTT(60) DEF StoreInStep, AtStart
  <2>. QED BY <1>5, <2>2, <2>3, RestartPosition, ZenonT(60)
<1>6. ASSUME UNCHANGED position,
             \/ store'.state = store.state
             \/ blockNumber > storeNumber /\ store'.state = NoState
      PROVE  StoreInStep'
  <2>1. CASE store'.state = store.state
    BY <1>1, <1>6, <2>1, ZenonT(60) DEF StoreInStep, position, State
  <2>2. CASE blockNumber > storeNumber /\ store'.state = NoState
    <3>1. store.state.blockNumber # blockNumber
      BY <1>1, <1>2, <2>2, SMTT(60) DEF StoreIsOfOneBlock
    <3>2. store'.state.blockNumber = 0
      BY <2>2, SMTT(60) DEF NoState, State
    <3>3. /\ AtStart(round', step', lockedRound', validRound') /\ blockNumber' = blockNumber
      BY <1>1, <1>6, <3>1, ZenonT(60) DEF StoreInStep, position, AtStart
    <3>. QED BY <1>2, <3>2, <3>3, SMTT(60) DEF StoreInStep, AtStart
  <2>. QED BY <1>6, <2>1, <2>2, ZenonT(60)
<1>7. CASE UNCHANGED position /\ ~StateStored /\ ~Restart
  <2>1. ASSUME NEW p, ProposalStored(p)
        PROVE  StoreInStep'
    BY <1>6, <1>7, <2>1, ZenonT(60) DEF ProposalStored, ProposalSaved
  <2>2. ASSUME NEW type, NEW r, NEW Q, NEW x, MessagesStored(type, r, Q, x)
        PROVE  StoreInStep'
    BY <1>6, <1>7, <2>2, ZenonT(60) DEF MessagesStored, MessagesSaved
  <2>. QED BY <1>6, <1>7, <2>1, <2>2, StoreSteps, ZenonT(60) DEF StoreKept
<1>. QED BY <1>3, <1>4, <1>5, <1>7, PositionSteps, ZenonT(60)

\* The storage holds records of one block number.
LEMMA OneBlockStep ==
  ASSUME IInv, [Next]_vars
  PROVE  StoreIsOfOneBlock'
<1>1. StoreInStep /\ StoreIsOfOneBlock /\ PlaceOK /\ RecordsOK /\ FieldsOK
  BY ZenonT(60) DEF IInv
<1>2. /\ blockNumber \in Nat /\ blockNumber >= 1 /\ Len(chain) \in Nat /\ storeNumber \in Nat
      /\ store.state \in States /\ store.state.blockNumber \in Nat
      /\ storeNumber <= blockNumber
  BY <1>1, SMTT(60) DEF PlaceOK, RecordsOK, FieldsOK, Stores, States, StoreIsOfOneBlock
<1>3. NoState.blockNumber = 0
  BY ZenonT(60) DEF NoState, State
<1>4. ASSUME UNCHANGED blockNumber, NumberSaved(blockNumber),
             \A s \in store'.messages \cup store'.proposals :
               \/ s[1] = blockNumber
               \/ ~(blockNumber > storeNumber) /\ s \in store.messages \cup store.proposals,
             \/ store'.state.blockNumber = blockNumber
             \/ ~(blockNumber > storeNumber) /\ store'.state = store.state
             \/ store'.state = NoState
      PROVE  StoreIsOfOneBlock'
  <2>1. storeNumber' = blockNumber
    BY <1>2, <1>4, SMTT(60) DEF NumberSaved
  <2>2. \A s \in store'.messages \cup store'.proposals : s[1] = blockNumber
    BY <1>1, <1>2, <1>4, SMTT(60) DEF StoreIsOfOneBlock
  <2>3. /\ store'.state.blockNumber \in {0, storeNumber'}
        /\ store'.state.blockNumber = 0 => store'.state = NoState
    BY <1>1, <1>2, <1>3, <1>4, <2>1, SMTT(60) DEF StoreIsOfOneBlock
  <2>4. NoState' = NoState
    BY ZenonT(60) DEF NoState, State
  <2>. QED BY <1>2, <1>4, <2>1, <2>2, <2>3, <2>4, SMTT(60) DEF StoreIsOfOneBlock
<1>5. CASE StateStored
  <2>1. State(blockNumber', round', step', lockedRound', validRound').blockNumber = blockNumber
    BY <1>5, ZenonT(60) DEF StateStored, State
  <2>2. /\ UNCHANGED blockNumber /\ NumberSaved(blockNumber)
        /\ store'.state.blockNumber = blockNumber
    BY <1>5, <2>1, ZenonT(60) DEF StateStored, StateSaved
  <2>3. \A s \in store'.messages \cup store'.proposals :
          ~(blockNumber > storeNumber) /\ s \in store.messages \cup store.proposals
    BY <1>5, <2>1, ZenonT(60) DEF StateStored, StateSaved
  <2>. QED BY <1>4, <2>2, <2>3, ZenonT(60)
<1>6. ASSUME NEW p, ProposalStored(p)
      PROVE  StoreIsOfOneBlock'
  <2>1. UNCHANGED blockNumber /\ NumberSaved(blockNumber)
    BY <1>6, ZenonT(60) DEF ProposalStored, ProposalSaved, position
  <2>2. \/ ~(blockNumber > storeNumber) /\ store'.state = store.state
        \/ store'.state = NoState
    BY <1>6, ZenonT(60) DEF ProposalStored, ProposalSaved
  <2>3. \A s \in store'.messages \cup store'.proposals :
          \/ s[1] = blockNumber
          \/ ~(blockNumber > storeNumber) /\ s \in store.messages \cup store.proposals
    BY <1>6, SMTT(60) DEF ProposalStored, ProposalSaved
  <2>. QED BY <1>4, <2>1, <2>2, <2>3, ZenonT(60)
<1>7. ASSUME NEW type, NEW r, NEW Q, NEW x, MessagesStored(type, r, Q, x)
      PROVE  StoreIsOfOneBlock'
  <2>1. UNCHANGED blockNumber /\ NumberSaved(blockNumber)
    BY <1>7, ZenonT(60) DEF MessagesStored, MessagesSaved, position
  <2>2. \/ ~(blockNumber > storeNumber) /\ store'.state = store.state
        \/ store'.state = NoState
    BY <1>7, ZenonT(60) DEF MessagesStored, MessagesSaved
  <2>3. \A s \in store'.messages \cup store'.proposals :
          \/ s[1] = blockNumber
          \/ ~(blockNumber > storeNumber) /\ s \in store.messages \cup store.proposals
    BY <1>7, SMTT(60) DEF MessagesStored, MessagesSaved
  <2>. QED BY <1>4, <2>1, <2>2, <2>3, ZenonT(60)
<1>8. CASE Restart
  <2>1. UNCHANGED store /\ storeNumber' = store.state.blockNumber
    BY <1>8, ZenonT(60) DEF Restart
  <2>2. blockNumber' \in {blockNumber, blockNumber + 1}
    BY <1>8, RestartPosition, ZenonT(60) DEF position
  <2>. QED BY <1>1, <1>2, <2>1, <2>2, SMTT(60) DEF StoreIsOfOneBlock, StoreInStep
<1>9. CASE StoreKept /\ ~Restart
  <2>1. blockNumber' \in {blockNumber, blockNumber + 1}
    BY <1>9, PositionSteps, ZenonT(60) DEF NextBlock, position
  <2>. QED BY <1>1, <1>2, <1>9, <2>1, SMTT(60) DEF StoreIsOfOneBlock, StoreKept
<1>. QED BY <1>5, <1>6, <1>7, <1>8, <1>9, StoreSteps, ZenonT(60)

-------------------------------------------------------------------------------
(* The locked and the valid value.                                         *)

\* A proven round state stays proven while its block number lasts.
LEMMA ProvenStays ==
  ASSUME IInv, [Next]_vars, ~NextBlock, ~Restart, NEW r \in Rounds, isProven(rounds[r])
  PROVE  isProven(rounds'[r])
<1>1. RoundsOK /\ rounds[r].proposal # NoProposal
  BY ZenonT(60) DEF IInv, isProven
<1>2. ASSUME rounds'[r].proposal = rounds[r].proposal,
             rounds[r].prevote \subseteq rounds'[r].prevote
      PROVE  isProven(rounds'[r])
  <2>. DEFINE x == rounds[r].proposal.block
  <2>1. /\ VotersOf(rounds[r].prevote, x) \subseteq VotersOf(rounds'[r].prevote, x)
        /\ VotersOf(rounds[r].prevote, x) \in SUBSET Validators
        /\ VotersOf(rounds'[r].prevote, x) \in SUBSET Validators
    BY <1>2, ZenonT(60) DEF VotersOf
  <2>2. isMajorityOf(VotersOf(rounds[r].prevote, x))
    BY ZenonT(60) DEF isProven
  <2>3. isMajorityOf(VotersOf(rounds'[r].prevote, x))
    BY <2>1, <2>2, MajorityGrows, ZenonT(60)
  <2>. QED BY <1>1, <1>2, <2>3, ZenonT(60) DEF isProven
<1>3. CASE UNCHANGED rounds
  BY <1>3, ZenonT(60)
<1>4. CASE ResultSet
  BY <1>2, <1>4, ZenonT(60) DEF ResultSet, Types
<1>5. ASSUME NEW p, ProposalComesIn(p)
      PROVE  isProven(rounds'[r])
  <2>1. r # p.round
    BY <1>1, <1>5, ZenonT(60) DEF ProposalComesIn, HasProposal
  <2>. QED BY <1>2, <1>5, <2>1, ZenonT(60) DEF ProposalComesIn, ProposalAdded, Types
<1>6. ASSUME NEW type, NEW q, NEW Q, NEW x, VotesAreCounted(type, q, Q, x)
      PROVE  isProven(rounds'[r])
  BY <1>2, <1>6, ZenonT(60) DEF VotesAreCounted, VotesAdded, Types
<1>. QED BY <1>3, <1>4, <1>5, <1>6, RoundSteps, ZenonT(60)

\* The locked and the valid value have their proposal and their prevotes.
LEMMA ValuesStep ==
  ASSUME IInv, [Next]_vars
  PROVE  ValuesOK'
<1>. USE DEF position, flags, disk, history
<1>1. ValuesOK /\ FieldsOK /\ HandlerOK
  BY ZenonT(60) DEF IInv
<1>2. SUFFICES ASSUME NEW r \in {lockedRound', validRound'} \ {None}
               PROVE  isProven(rounds'[r])
  BY ZenonT(60) DEF ValuesOK
<1>3. CASE NextBlock
  BY <1>2, <1>3, ZenonT(60) DEF NextBlock
<1>4. CASE Restart
  <2>1. CASE UNCHANGED position /\ UNCHANGED rounds
    BY <1>1, <1>2, <2>1, ZenonT(60) DEF ValuesOK
  <2>2. CASE ~(UNCHANGED position /\ UNCHANGED rounds)
    BY <1>2, <1>4, <2>2, ZenonT(60) DEF Restart
  <2>. QED BY <2>1, <2>2, ZenonT(60)
<1>5. CASE ~NextBlock /\ ~Restart
  <2>1. ASSUME r \in {lockedRound, validRound}
        PROVE  isProven(rounds'[r])
    <3>1. r \in Rounds
      BY <1>1, <1>2, <2>1, ZenonT(60) DEF FieldsOK
    <3>2. isProven(rounds[r])
      BY <1>1, <1>2, <2>1, ZenonT(60) DEF ValuesOK
    <3>. QED BY <1>5, <3>1, <3>2, ProvenStays, ZenonT(60)
  <2>2. CASE OnMajorityPrevote
    <3>1. unit \in Rounds /\ HasMajority(unit, "prevote")
      BY <1>1, <2>2, RuleGuards, ZenonT(60) DEF OnMajorityPrevote, MayLock, HandlerOK, RuleNames
    <3>2. isProven(rounds[unit])
      BY <3>1, ZenonT(60) DEF HasMajority, isProven, HasProposal
    <3>3. r \in {lockedRound, validRound, unit}
      BY <1>2, <2>2, ZenonT(60) DEF OnMajorityPrevote
    <3>. QED BY <1>5, <2>1, <3>1, <3>2, <3>3, ProvenStays, ZenonT(60)
  <2>3. CASE ~OnMajorityPrevote
    <3>1. UNCHANGED <<lockedRound, validRound>>
      <4>1. CASE OnProposal \/ OnMajorityPrevoteNull
        BY <4>1, ZenonT(60) DEF OnProposal, OnMajorityPrevoteNull
      <4>2. CASE OnMinorityWithHigherRound
        BY <4>2, ZenonT(60) DEF OnMinorityWithHigherRound, StartRound
      <4>3. CASE TakeJob
        BY <4>3, ZenonT(60) DEF TakeJob, Handle, HandleCommitState, OnTimeoutPropose,
           OnTimeoutPrevote,
                    OnTimeoutPrecommit, StartRound
      <4>. QED BY <1>5, <2>3, <4>1, <4>2, <4>3, Writers, ZenonT(60) DEF PositionWriters
    <3>. QED BY <1>2, <2>1, <3>1, ZenonT(60)
  <2>. QED BY <2>2, <2>3, ZenonT(60)
<1>. QED BY <1>3, <1>4, <1>5, ZenonT(60)

-------------------------------------------------------------------------------
(* Own votes and own proposals.                                            *)

\* The handler starts to vote as it enters the step of the vote.
LEMMA VotingStarts ==
  ASSUME IInv, [Next]_vars, pc' = "vote"
  PROVE  \/ pc = "vote" /\ UNCHANGED <<ballot, blockNumber, round, step>>
         \/ CastVote
         \/ /\ UNCHANGED <<blockNumber, round, cast>>
            /\ \/ ballot'.type = "prevote" /\ step = "propose" /\ step' = "prevote"
               \/ ballot'.type = "precommit" /\ step = "prevote" /\ step' = "precommit"
<1>. USE DEF position, flags, disk, history
<1>1. HandlerOK /\ FieldsOK /\ RoundsOK /\ PlaceOK
  BY ZenonT(60) DEF IInv
<1>2. ballot \in Ballots /\ rounds \in [Rounds -> RoundStates] /\ Nil \in Values
  BY <1>1, ZenonT(60) DEF HandlerOK, RoundsOK, Values
<1>3. ASSUME NEW type \in Types, NEW x \in Values, NEW next \in RuleNames \cup {"idle"},
             Vote(type, x, next)
      PROVE  ballot'.type = type
  <2>1. HandlerVotes(type, x, next)
    BY <1>2, <1>3, VoteSteps, ZenonT(60)
  <2>2. next # "vote"
    BY ZenonT(60) DEF RuleNames
  <2>. QED BY <2>1, <2>2, ZenonT(60) DEF HandlerVotes
<1>4. pc \in RuleNames => unit \in Rounds
  BY <1>1, ZenonT(60) DEF HandlerOK, RuleNames
<1>5. CASE OnProposal
  <2>1. unit \in Rounds /\ HasProposal(unit) /\ step = "propose"
    BY <1>4, <1>5, RuleGuards, ZenonT(60) DEF OnProposal, MayPrevote
  <2>2. PICK x \in PrevoteValues : Vote("prevote", x, "prevotes")
    BY <1>5, ZenonT(60) DEF OnProposal
  <2>3. ballot'.type = "prevote"
    BY <1>2, <1>3, <2>1, <2>2, PrevoteValuesType, ZenonT(60) DEF Types, RuleNames
  <2>. QED BY <1>5, <2>1, <2>3, ZenonT(60) DEF OnProposal
<1>6. CASE OnMajorityPrevote
  <2>1. unit \in Rounds /\ HasProposal(unit)
    BY <1>4, <1>6, RuleGuards, ZenonT(60) DEF OnMajorityPrevote, MayLock, HasMajority
  <2>2. BlockOf(unit) \in Values
    BY <1>2, <2>1, PrevoteValuesType, ZenonT(60) DEF Values
  <2>3. step = "prevote" /\ step' = "precommit" /\ Vote("precommit", BlockOf(unit), "prevotesAny")
    BY <1>6, ZenonT(60) DEF OnMajorityPrevote
  <2>4. ballot'.type = "precommit"
    BY <1>3, <2>2, <2>3, ZenonT(60) DEF Types, RuleNames
  <2>. QED BY <1>6, <2>3, <2>4, ZenonT(60) DEF OnMajorityPrevote
<1>7. CASE OnMajorityPrevoteNull
  <2>1. step = "prevote"
    BY <1>7, RuleGuards, ZenonT(60) DEF OnMajorityPrevoteNull, MayPrecommitNil
  <2>2. ballot'.type = "precommit"
    BY <1>2, <1>3, <1>7, ZenonT(60) DEF OnMajorityPrevoteNull, Types, RuleNames
  <2>. QED BY <1>7, <2>1, <2>2, ZenonT(60) DEF OnMajorityPrevoteNull
<1>8. CASE TakeJob
  <2>1. PICK job \in jobs : \/ Handle(job) \/ HandleCommitState(job) \/ OnTimeoutPropose(job)
                            \/ OnTimeoutPrevote(job) \/ OnTimeoutPrecommit(job)
    BY <1>8, ZenonT(60) DEF TakeJob
  <2>2. pc = "idle"
    BY <2>1, ZenonT(60) DEF Handle, HandleCommitState, OnTimeoutPropose, OnTimeoutPrevote,
                OnTimeoutPrecommit, Take
  <2>3. CASE OnTimeoutPropose(job)
    <3>1. step = "propose" /\ step' = "prevote" /\ Vote("prevote", Nil, "idle")
          /\ UNCHANGED <<blockNumber, round, cast>>
      BY <2>2, <2>3, ZenonT(60) DEF OnTimeoutPropose, Take
    <3>. QED BY <1>2, <1>3, <3>1, ZenonT(60) DEF Types
  <2>4. CASE OnTimeoutPrevote(job)
    <3>1. step = "prevote" /\ step' = "precommit" /\ Vote("precommit", Nil, "idle")
          /\ UNCHANGED <<blockNumber, round, cast>>
      BY <2>2, <2>4, ZenonT(60) DEF OnTimeoutPrevote, Take
    <3>. QED BY <1>2, <1>3, <3>1, ZenonT(60) DEF Types
  <2>5. CASE Handle(job) \/ HandleCommitState(job) \/ OnTimeoutPrecommit(job)
    BY <2>2, <2>5, ZenonT(60) DEF Handle, HandleCommitState, OnTimeoutPrecommit, StartRound,
       EnterRound
  <2>. QED BY <2>1, <2>3, <2>4, <2>5, ZenonT(60)
<1>9. ~BeginRound /\ ~Commit /\ ~NextBlock /\ ~Crash /\ ~Restart
  BY <1>1, ZenonT(60) DEF BeginRound, Commit, NextBlock, EnterRound, Crash, Restart, PlaceOK,
     isRunning
<1>10. ~ProcessProposal /\ ~OnMajorityPrevoteAny /\ ~OnMajorityPrecommitAny
       /\ ~OnMajorityPrecommit /\ ~OnMinorityWithHigherRound /\ ~Return
  BY ZenonT(60)
     DEF ProcessProposal, OnMajorityPrevoteAny, OnMajorityPrecommitAny, OnMajorityPrecommit,
         OnMinorityWithHigherRound, StartRound, EnterRound, Return
<1>11. CASE ~(OnProposal \/ OnMajorityPrevote \/ OnMajorityPrevoteNull \/ TakeJob \/ CastVote)
  BY <1>9, <1>10, <1>11, Writers, ZenonT(60) DEF Rule, PositionWriters
<1>. QED BY <1>5, <1>6, <1>7, <1>8, <1>11, ZenonT(60)

\* Own votes are not ahead of the step that the node is in, and that it has stored.
LEMMA OwnVotesStep ==
  ASSUME IInv, [Next]_vars
  PROVE  OwnVotesAreBehind'
<1>1. OwnVotesAreBehind /\ HandlerOK /\ FieldsOK /\ RecordsOK /\ PlaceOK
  BY ZenonT(60) DEF IInv
<1>2. ballot \in Ballots
  BY <1>1, ZenonT(60) DEF HandlerOK
<1>3. Advances /\ FieldsOK'
  BY ValuesBehindStep, FieldsStep, ZenonT(60)
<1>4. ASSUME CastVote, pc' = "vote"
      PROVE  /\ pc = "vote" /\ UNCHANGED <<blockNumber, round, step>>
             /\ ballot'.type = ballot.type /\ ballot'.voters \subseteq ballot.voters
  <2>1. PICK v \in ballot.voters :
          LET left == ballot.voters \ {v} IN
          IF left = {} THEN pc' = ballot.next /\ ballot' = NoBallot
          ELSE pc' = pc /\ ballot' = [ballot EXCEPT !.voters = left]
    BY <1>4, ZenonT(60) DEF CastVote
  <2>2. ballot.next # "vote"
    BY <1>2, ZenonT(60) DEF Ballots, RuleNames
  <2>3. ballot' = [ballot EXCEPT !.voters = ballot.voters \ {v}]
    BY <1>4, <2>1, <2>2, ZenonT(60)
  <2>4. ballot'.type = ballot.type /\ ballot'.voters = ballot.voters \ {v}
    BY <1>2, <2>3, ZenonT(60) DEF Ballots
  <2>. QED BY <1>4, <2>4, ZenonT(60) DEF CastVote, position
<1>5. ASSUME pc' = "vote"
      PROVE  /\ ballot'.type = "prevote" => step' = "prevote"
             /\ ballot'.type = "precommit" => step' = "precommit"
  BY <1>1, <1>4, <1>5, VotingStarts, ZenonT(60) DEF OwnVotesAreBehind
<1>6. ASSUME NEW type \in Types, NEW n \in 1..MaxBlockNumber, NEW v \in Local,
             NEW r \in Rounds, NEW x \in Values, <<v, r, x>> \in cast'[type][n]
      PROVE  \/ n < blockNumber'
             \/ n = blockNumber' /\ r < round'
             \/ /\ n = blockNumber' /\ r = round'
                /\ step' = "precommit" \/ (type = "prevote" /\ step' = "prevote")
                /\ ~(pc' = "vote" /\ ballot'.type = type /\ v \in ballot'.voters)
  <2>1. /\ blockNumber \in Int /\ blockNumber' \in Int /\ round \in Int /\ round' \in Int
        /\ n \in Int /\ r \in Int /\ step \in Steps /\ step' \in Steps
    BY <1>1, <1>3, RoundFacts, SMTT(60) DEF FieldsOK
  <2>2. Advances
    BY <1>3, ZenonT(60)
  <2>3. CASE <<v, r, x>> \in cast[type][n]
    <3>1. \/ n < blockNumber
          \/ n = blockNumber /\ r < round
          \/ /\ n = blockNumber /\ r = round
             /\ step = "precommit" \/ (type = "prevote" /\ step = "prevote")
             /\ ~(pc = "vote" /\ ballot.type = type /\ v \in ballot.voters)
      BY <1>1, <1>6, <2>3, ZenonT(60) DEF OwnVotesAreBehind
    <3>2. CASE blockNumber' > blockNumber
      BY <2>1, <3>1, <3>2, SMTT(60)
    <3>3. CASE blockNumber' = blockNumber /\ round' > round
      BY <2>1, <3>1, <3>3, SMTT(60)
    <3>4. CASE /\ blockNumber' = blockNumber /\ round' = round
               /\ StepNumber[step'] >= StepNumber[step]
      <4>1. step = "precommit" => step' = "precommit"
        BY <2>1, <3>4, SMTT(60) DEF StepNumber, Steps
      <4>2. step = "prevote" => step' \in {"prevote", "precommit"}
        BY <2>1, <3>4, SMTT(60) DEF StepNumber, Steps
      <4>3. CASE n < blockNumber \/ (n = blockNumber /\ r < round)
        BY <3>4, <4>3, ZenonT(60)
      <4>4. CASE /\ n = blockNumber /\ r = round
                 /\ step = "precommit" \/ (type = "prevote" /\ step = "prevote")
                 /\ ~(pc = "vote" /\ ballot.type = type /\ v \in ballot.voters)
        <5>1. ~(pc' = "vote" /\ ballot'.type = type /\ v \in ballot'.voters)
          <6>1. SUFFICES ASSUME pc' = "vote", ballot'.type = type, v \in ballot'.voters
                         PROVE  FALSE
            BY ZenonT(60)
          <6>2. CASE pc = "vote" /\ UNCHANGED ballot
            BY <4>4, <6>1, <6>2, ZenonT(60)
          <6>3. CASE CastVote
            BY <1>4, <4>4, <6>1, <6>3, ZenonT(60)
          <6>. QED BY <4>4, <6>1, <6>2, <6>3, VotingStarts, ZenonT(60)
        <5>. QED BY <3>4, <4>1, <4>2, <4>4, <5>1, ZenonT(60)
      <4>. QED BY <3>1, <4>3, <4>4, ZenonT(60)
    <3>. QED BY <2>2, <3>2, <3>3, <3>4, ZenonT(60) DEF Advances
  <2>4. CASE <<v, r, x>> \notin cast[type][n]
    <3>1. PICK t, q, Q, y : VotesComeIn(t, q, Q, y)
      BY <1>6, <2>4, CastSteps, ZenonT(60)
    <3>2. type = t /\ n = blockNumber /\ <<v, r, x>> \in Q \X {q} \X {y}
      BY <1>6, <2>4, <3>1, ZenonT(60) DEF VotesComeIn, VotesMade
    <3>3. v \in Q /\ r = q /\ x = y
      BY <3>2, ZenonT(60)
    <3>4. v \notin Remote
      BY ZenonT(60) DEF Remote
    <3>5. PICK w \in ballot.voters :
            /\ CastVote /\ type = ballot.type /\ r = round /\ Q = {w}
            /\ UNCHANGED <<blockNumber, round, step>>
            /\ pc' = "vote" => ballot' = [ballot EXCEPT !.voters = ballot.voters \ {w}]
      BY <3>1, <3>2, <3>3, <3>4, ZenonT(60) DEF VotesComeIn
    <3>6. step = type
      BY <1>1, <3>5, SMTT(60) DEF CastVote, OwnVotesAreBehind, Types
    <3>7. pc' = "vote" => v \notin ballot'.voters
      BY <1>2, <3>3, <3>5, ZenonT(60) DEF Ballots
    <3>. QED BY <3>2, <3>5, <3>6, <3>7, ZenonT(60) DEF Types
  <2>. QED BY <2>3, <2>4, ZenonT(60)
<1>. QED BY <1>5, <1>6, ZenonT(60) DEF OwnVotesAreBehind

\* An own validator that has voted does not vote again in that round.
LEMMA OneOwnVoteStep ==
  ASSUME IInv, [Next]_vars
  PROVE  OneOwnVote'
<1>1. OneOwnVote /\ OwnVotesAreBehind /\ FieldsOK
  BY ZenonT(60) DEF IInv
<1>2. SUFFICES ASSUME NEW type \in Types, NEW n \in 1..MaxBlockNumber, NEW v \in Local,
                      NEW r \in Rounds, NEW x \in Values, NEW y \in Values,
                      <<v, r, x>> \in cast'[type][n], <<v, r, y>> \in cast'[type][n]
               PROVE  x = y
  BY ZenonT(60) DEF OneOwnVote
<1>3. CASE UNCHANGED cast
  BY <1>1, <1>2, <1>3, ZenonT(60) DEF OneOwnVote
<1>4. ASSUME NEW t, NEW q, NEW Q, NEW z, VotesComeIn(t, q, Q, z)
      PROVE  x = y
  <2>1. ASSUME NEW w \in Values, <<v, r, w>> \in cast'[type][n], <<v, r, w>> \notin cast[type][n]
        PROVE  w = z /\ \A u \in Values : <<v, r, u>> \notin cast[type][n]
    <3>1. type = t /\ n = blockNumber /\ <<v, r, w>> \in Q \X {q} \X {z}
      BY <1>4, <2>1, ZenonT(60) DEF VotesComeIn, VotesMade
    <3>2. v \in Q /\ r = q /\ w = z /\ v \notin Remote
      BY <3>1, ZenonT(60) DEF Remote
    <3>3. CastVote /\ type = ballot.type /\ r = round /\ v \in ballot.voters
      BY <1>4, <3>1, <3>2, ZenonT(60) DEF VotesComeIn
    <3>4. pc = "vote"
      BY <3>3, ZenonT(60) DEF CastVote
    <3>5. blockNumber \in Int /\ round \in Int
      BY <1>1, RoundFacts, SMTT(60) DEF FieldsOK
    <3>6. \A u \in Values : <<v, r, u>> \notin cast[type][n]
      BY <1>1, <3>1, <3>3, <3>4, <3>5, SMTT(60) DEF OwnVotesAreBehind
    <3>. QED BY <3>2, <3>6, ZenonT(60)
  <2>. QED BY <1>1, <1>2, <2>1, ZenonT(60) DEF OneOwnVote
<1>. QED BY <1>3, <1>4, CastSteps, ZenonT(60)

\* A proposal on its way that names an earlier round has the prevotes of that round.
LEMMA OwnProposalsStep ==
  ASSUME IInv, [Next]_vars
  PROVE  OwnProposalsOK'
<1>. USE DEF position, flags, disk, history
<1>1. /\ OwnProposalsOK /\ RecordsOK /\ FieldsOK /\ RoundsOK /\ ValuesOK /\ ValuesAreBehind
      /\ PlaceOK /\ QueuesOK
  BY ZenonT(60) DEF IInv
<1>2. ASSUME NEW p, p = proposing'.proposal, p # NoProposal
      PROVE  blockNumber' \in 1..MaxBlockNumber /\ HasProof(blockNumber, p)'
  <2>1. ASSUME NEW n \in 1..MaxBlockNumber, n = blockNumber, UNCHANGED blockNumber,
               HasProof(n, p)
        PROVE  blockNumber' \in 1..MaxBlockNumber /\ HasProof(blockNumber, p)'
    <3>1. HasProof(n, p)'
      BY <2>1, MajoritiesStay, ZenonT(60)
    <3>. QED BY <2>1, <3>1, ZenonT(60)
  <2>2. CASE BeginRound
    <3>1. /\ step = "propose" /\ blockNumber <= MaxBlockNumber /\ UNCHANGED blockNumber
          /\ p \in OwnProposals
      BY <1>2, <2>2, SMTT(60) DEF BeginRound, Pending
    <3>2. blockNumber \in 1..MaxBlockNumber
      BY <1>1, <3>1, ConstantsAssumption, SMTT(60) DEF PlaceOK, FieldsOK
    <3>3. p.round = round /\ p.validRound = validRound
          /\ (validRound # None => p.block = BlockOf(validRound))
      BY <1>1, <3>1, OwnProposalsType, ZenonT(60)
    <3>4. CASE validRound # None
      <4>1. validRound \in Rounds /\ isProven(rounds[validRound])
        BY <1>1, <3>4, ZenonT(60) DEF ValuesOK, FieldsOK
      <4>2. isMajorityOf(VotersOf(rounds[validRound]["prevote"], BlockOf(validRound)))
        BY <4>1, ZenonT(60) DEF isProven, BlockOf
      <4>3. isMajorityOf(Prevoters(blockNumber, validRound, BlockOf(validRound)))
        BY <4>1, <4>2, CountedVoters, EmptyIsNoMajority, ZenonT(60) DEF Types, Prevoters
      <4>4. validRound < round
        BY <1>1, <3>1, ZenonT(60) DEF ValuesAreBehind
      <4>5. HasProof(blockNumber, p)
        BY <3>3, <3>4, <4>3, <4>4, ZenonT(60) DEF HasProof
      <4>. QED BY <2>1, <3>1, <3>2, <4>5, ZenonT(60)
    <3>5. CASE validRound = None
      BY <2>1, <3>1, <3>2, <3>3, <3>5, ZenonT(60) DEF HasProof
    <3>. QED BY <3>4, <3>5, ZenonT(60)
  <2>3. CASE ~BeginRound
    <3>1. proposing'.proposal = proposing.proposal
      <4>1. CASE OnTimeoutBlockPrepare
        BY <1>1, <4>1, ZenonT(60) DEF OnTimeoutBlockPrepare, QueuesOK
      <4>2. CASE SubmitProposal \/ ProposalFails \/ NextBlock \/ Crash
        BY <1>2, <4>2, SMTT(60) DEF SubmitProposal, ProposalFails, NextBlock, Crash, Pending
      <4>. QED BY <2>3, <4>1, <4>2, Writers, ZenonT(60)
    <3>2. ~NextBlock /\ ~Restart
      <4>1. ~NextBlock
        <5>1. NextBlock => proposing' = Pending(NoProposal)
          BY ZenonT(60) DEF NextBlock
        <5>. QED BY <1>2, <5>1, SMTT(60) DEF Pending
      <4>2. ~Restart
        <5>1. Restart => status = "down"
          BY ZenonT(60) DEF Restart
        <5>2. status = "down" => proposing = Pending(NoProposal)
          BY <1>1, SMTT(60) DEF PlaceOK, isRunning
        <5>. QED BY <1>2, <3>1, <5>1, <5>2, SMTT(60) DEF Pending
      <4>. QED BY <4>1, <4>2, ZenonT(60)
    <3>3. UNCHANGED blockNumber
      BY <3>2, PositionSteps, ZenonT(60)
    <3>4. blockNumber \in 1..MaxBlockNumber /\ HasProof(blockNumber, p)
      BY <1>1, <1>2, <3>1, ZenonT(60) DEF OwnProposalsOK
    <3>. QED BY <2>1, <3>3, <3>4, ZenonT(60)
  <2>. QED BY <2>2, <2>3, ZenonT(60)
<1>3. ASSUME NEW s \in proposed'
      PROVE  HasProof(s[1], s[2])'
  <2>1. CASE s \in proposed
    <3>1. s[1] \in 1..MaxBlockNumber /\ HasProof(s[1], s[2])
      BY <1>1, <2>1, ZenonT(60) DEF OwnProposalsOK, RecordsOK
    <3>. QED BY <3>1, MajoritiesStay, ZenonT(60)
  <2>2. CASE s \notin proposed
    <3>1. SubmitProposal
      BY <1>3, <2>2, Writers, ZenonT(60)
    <3>2. s = <<blockNumber, proposing.proposal>> /\ proposing.proposal # NoProposal
      BY <1>1, <1>3, <2>2, <3>1, ZenonT(60) DEF SubmitProposal, QueuesOK
    <3>3. s[1] \in 1..MaxBlockNumber /\ HasProof(s[1], s[2])
      BY <1>1, <3>2, ZenonT(60) DEF OwnProposalsOK
    <3>. QED BY <3>3, MajoritiesStay, ZenonT(60)
  <2>. QED BY <2>1, <2>2, ZenonT(60)
<1>. QED BY <1>2, <1>3, ZenonT(60) DEF OwnProposalsOK

-------------------------------------------------------------------------------
(* The invariant.                                                          *)

\* Every step of the node, of its peers, a crash and a restart keep it.
LEMMA InvariantIsKept == IInv /\ [Next]_vars => IInv'
<1>. SUFFICES ASSUME IInv, [Next]_vars PROVE IInv'
  BY ZenonT(60)
<1>1. FieldsOK' /\ RoundsOK' /\ HandlerOK' /\ QueuesOK' /\ RecordsOK'
  BY FieldsStep, RoundsStep, HandlerStep, QueuesStep, RecordsStep, ZenonT(60)
<1>2. PlaceOK' /\ VotesAreCast' /\ CommitsOK' /\ CommitLockOK'
  BY PlaceStep, VotesStep, CommitsStep, CommitLockStep, ZenonT(60)
<1>3. StoreInStep' /\ StoreIsOfOneBlock' /\ ValuesAreBehind' /\ ValuesOK'
  BY StoreInStepStep, OneBlockStep, ValuesBehindStep, ValuesStep, ZenonT(60)
<1>4. OwnVotesAreBehind' /\ OneOwnVote' /\ OwnProposalsOK'
  BY OwnVotesStep, OneOwnVoteStep, OwnProposalsStep, ZenonT(60)
<1>5. MajoritiesGrow'
  BY ZenonT(60) DEF IInv, MajoritiesGrow, isMajorityOf, isMajority
<1>. QED BY <1>1, <1>2, <1>3, <1>4, <1>5, ZenonT(60) DEF IInv

===============================================================================
