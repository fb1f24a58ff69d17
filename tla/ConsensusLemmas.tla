--------------------------- MODULE ConsensusLemmas ---------------------------
(***************************************************************************)
(* The inductive invariant of the node of module Consensus, and what the   *)
(* proofs about it need again and again: who writes a variable, what the   *)
(* operators of the model return, where the position goes.  Everything holds *)
(* for any validators, blocks, rounds, block numbers and crashes, and      *)
(* whatever the peers send.                                                *)
(***************************************************************************)
EXTENDS Consensus, TLAPS

-------------------------------------------------------------------------------
(* The inductive invariant.                                                *)

Steps == {"propose", "prevote", "precommit"}

RuleNames == {"process", "proposal", "prevotes", "prevotesAny", "prevotesNull",
              "precommitsAny", "precommits", "minority"}

TimerKinds == {"blockPrepare", "propose", "prevote", "precommit"}

RoundStates ==
  [proposal : Proposals \cup {NoProposal}, result : {"none", "success", "failure"},
   prevote : SUBSET (Validators \X Values), precommit : SUBSET (Validators \X Values)]

States ==
  [blockNumber : Nat, round : Rounds, step : Steps,
   lockedRound : Rounds \cup {None}, validRound : Rounds \cup {None}]

Stores ==
  [state : States, proposals : SUBSET (Nat \X Proposals),
   messages : SUBSET (Nat \X Types \X Rounds \X Validators \X Values)]

Histories == [Types -> [1..MaxBlockNumber -> SUBSET (Validators \X Rounds \X Values)]]
Ballots == [type : Types, value : Values, voters : SUBSET Local, next : RuleNames \cup {"idle"}]
isRunning == status \in {"booting", "up"}

\* The fields of Consensus.
FieldsOK ==
  /\ status \in {"booting", "up", "down", "refused"}
  /\ blockNumber \in Nat /\ round \in Rounds /\ bootRound \in Rounds
  /\ step \in Steps
  /\ lockedRound \in Rounds \cup {None} /\ validRound \in Rounds \cup {None}
  /\ didMajorityPrevote \in BOOLEAN /\ didMajorityPrecommit \in BOOLEAN
  /\ commitLock \in BOOLEAN

\* A processor result is that of the proposal of the round.
RoundsOK ==
  /\ rounds \in [Rounds -> RoundStates]
  /\ \A r \in Rounds :
       /\ HasProposal(r) => rounds[r].proposal.round = r
       /\ rounds[r].result # "none" => HasProposal(r)
       /\ rounds[r].result = "success" => BlockOf(r) \in ValidBlocks

\* The running handler works on a round state, or on the block it commits.
HandlerOK ==
  /\ pc \in RuleNames \cup {"idle", "vote", "beginRound", "commit", "committed"}
  /\ pc \in {"commit", "committed"} => unit \in ValidBlocks
  /\ pc \notin {"commit", "committed"} => unit \in Rounds
  /\ ballot \in Ballots

\* Queues, timers and the pending proposal.
QueuesOK ==
  /\ timers \subseteq TimerKinds \X Nat \X Rounds
  /\ jobs \subseteq (({"round"} \cup TimerKinds) \X Nat \X Rounds)
                    \cup ({"commit"} \X Nat \X Blocks)
  /\ inbox \subseteq ({"proposal"} \X (1..MaxBlockNumber) \X Proposals)
                     \cup (Types \X Nat \X Rounds \X Validators \X Values)
  /\ proposing \in [proposal : Proposals \cup {NoProposal}, due : BOOLEAN]
  /\ proposing.due => proposing.proposal # NoProposal

\* The store and the history.
RecordsOK ==
  /\ store \in Stores /\ storeNumber \in Nat
  /\ chain \in Seq(ValidBlocks)
  /\ cast \in Histories
  /\ proposed \subseteq (1..MaxBlockNumber) \X Proposals
  /\ forgot \in BOOLEAN /\ crashes \in Nat

\* A node works on the block number after its chain; when it has stopped it has nothing to do,
\* nor has it past the last block number.
PlaceOK ==
  /\ blockNumber \in {Len(chain), Len(chain) + 1}
  /\ isRunning => (blockNumber = Len(chain) <=> pc = "committed")
  /\ ~isRunning => /\ pc = "idle" /\ jobs = {} /\ timers = {} /\ inbox = {}
                   /\ proposing = Pending(NoProposal) /\ ~commitLock
  /\ Len(chain) <= MaxBlockNumber /\ blockNumber >= 1
  /\ isRunning /\ blockNumber > MaxBlockNumber =>
       pc = "beginRound" /\ timers = {} /\ proposing = Pending(NoProposal)

\* Every vote a node counts, stores or is about to count was made; its own votes that are not
\* yet counted are of the block number it works on.
VotesAreCast ==
  /\ \A r \in Rounds, type \in Types : \A m \in rounds[r][type] :
       /\ blockNumber \in 1..MaxBlockNumber
       /\ <<m[1], r, m[2]>> \in cast[type][blockNumber]
  /\ \A s \in store.messages :
       /\ s[1] \in 1..MaxBlockNumber
       /\ <<s[4], s[3], s[5]>> \in cast[s[2]][s[1]]
  /\ \A m \in inbox : m[1] \in Types =>
       /\ m[2] = blockNumber /\ m[2] \in 1..MaxBlockNumber
       /\ pc # "committed"
       /\ m[4] \in Local
       /\ <<m[4], m[3], m[5]>> \in cast[m[1]][blockNumber]

Precommitters(n, r, x) == {v \in Validators : <<v, r, x>> \in cast.precommit[n]}

\* Block x has +2/3 precommits of one round of block number n.
Decided(n, x) == \E r \in Rounds : isMajorityOf(Precommitters(n, r, x))

\* What is committed, about to be, or queued to be has +2/3 precommits.
CommitsOK ==
  /\ CommitsAreJustified
  /\ pc = "commit" => Decided(blockNumber, unit)
  /\ \A j \in jobs : j[1] = "commit" =>
       j[2] \in 1..MaxBlockNumber /\ Decided(j[2], j[3])

\* Once the commit lock is taken nothing is proposed, so that no rule commits again.
CommitLockOK ==
  /\ pc = "commit" => ~commitLock
  /\ commitLock /\ pc # "committed" =>
       /\ pc \in RuleNames \cup {"beginRound"}
       /\ step = "propose"
       /\ \A r \in Rounds : ~HasProposal(r)

\* The stored state is the position of the node, or the node is where a block number starts.
StoreInStep ==
  /\ store.state.blockNumber <= blockNumber
  /\ store.state.blockNumber = blockNumber =>
       store.state = State(blockNumber, round, step, lockedRound, validRound)
  /\ store.state.blockNumber # blockNumber =>
       round = 0 /\ step = "propose" /\ lockedRound = None /\ validRound = None

\* The records of the store are of one block number, which the service knows, or has
\* forgotten and takes for 0.
StoreIsOfOneBlock ==
  /\ storeNumber <= blockNumber
  /\ store.state.blockNumber \in {0, storeNumber}
  /\ store.state.blockNumber = 0 => store.state = NoState
  /\ \A s, t \in store.messages \cup store.proposals : s[1] = t[1]
  /\ storeNumber # 0 => \A s \in store.messages \cup store.proposals : s[1] = storeNumber

\* The locked and the valid value are of a round up to the running one, and not of a round
\* whose propose step is still on.
ValuesAreBehind ==
  /\ lockedRound <= round /\ validRound <= round
  /\ step = "propose" => lockedRound < round /\ validRound < round

\* The own votes of the running round are behind its step, and not about to be signed.
OwnVotesAreBehind ==
  /\ pc = "vote" => /\ ballot.type = "prevote" => step = "prevote"
                    /\ ballot.type = "precommit" => step = "precommit"
  /\ \A type \in Types, n \in 1..MaxBlockNumber, v \in Local, r \in Rounds, x \in Values :
       <<v, r, x>> \in cast[type][n] =>
         \/ n < blockNumber
         \/ n = blockNumber /\ r < round
         \/ /\ n = blockNumber /\ r = round
            /\ step = "precommit" \/ (type = "prevote" /\ step = "prevote")
            /\ ~(pc = "vote" /\ ballot.type = type /\ v \in ballot.voters)

\* An own validator has one vote of a kind in a round.
OneOwnVote ==
  \A type \in Types, n \in 1..MaxBlockNumber, v \in Local, r \in Rounds, x, y \in Values :
    <<v, r, x>> \in cast[type][n] /\ <<v, r, y>> \in cast[type][n] => x = y

\* The locked and the valid value are round states with their proposal and its proof.
ValuesOK == \A r \in {lockedRound, validRound} \ {None} : isProven(rounds[r])

Prevoters(n, r, x) == {v \in Validators : <<v, r, x>> \in cast.prevote[n]}

\* A proposal that names a valid round has +2/3 prevotes of that earlier round.
HasProof(n, p) ==
  p.validRound # None =>
    p.validRound < p.round /\ isMajorityOf(Prevoters(n, p.validRound, p.block))

OwnProposalsOK ==
  /\ proposing.proposal # NoProposal =>
       blockNumber \in 1..MaxBlockNumber /\ HasProof(blockNumber, proposing.proposal)
  /\ \A s \in proposed : HasProof(s[1], s[2])

\* +2/3 of the validators are some, and more of them are +2/3 as well.
MajoritiesGrow ==
  /\ ~isMajorityOf({})
  /\ \A S, T \in SUBSET Validators : S \subseteq T /\ isMajorityOf(S) => isMajorityOf(T)

IInv ==
  /\ MajoritiesGrow
  /\ FieldsOK /\ RoundsOK /\ HandlerOK /\ QueuesOK /\ RecordsOK
  /\ PlaceOK /\ VotesAreCast /\ CommitsOK /\ CommitLockOK
  /\ StoreInStep /\ StoreIsOfOneBlock /\ ValuesAreBehind
  /\ ValuesOK /\ OwnVotesAreBehind /\ OneOwnVote /\ OwnProposalsOK

-------------------------------------------------------------------------------
(* Rules, and who writes what.                                             *)

\* A rule of applyRules runs only when its condition holds for the round state at hand.
LEMMA RuleGuards ==
  /\ DOMAIN Stages = RuleNames
  /\ applyRules("process") => MayProcess(unit)
  /\ applyRules("proposal") => MayPrevote(unit)
  /\ applyRules("prevotes") => MayLock(unit)
  /\ applyRules("prevotesAny") => MaySchedulePrevote(unit)
  /\ applyRules("prevotesNull") => MayPrecommitNil(unit)
  /\ applyRules("precommitsAny") => MaySchedulePrecommit(unit)
  /\ applyRules("precommits") => MayCommit(unit)
  /\ applyRules("minority") => MaySkipRound(unit)
  /\ \A stage : applyRules(stage) => pc \in RuleNames
<1>1. DOMAIN Stages = RuleNames
  BY ZenonT(60) DEF Stages, RuleNames
<1>2. applyRules("process") => MayProcess(unit)
  BY ZenonT(60) DEF applyRules, Ahead, Applying
<1>3. applyRules("proposal") => MayPrevote(unit)
  BY ZenonT(60) DEF applyRules, Ahead, Applying
<1>4. applyRules("prevotes") => MayLock(unit)
  BY ZenonT(60) DEF applyRules, Ahead, Applying
<1>5. applyRules("prevotesAny") => MaySchedulePrevote(unit)
  BY ZenonT(60) DEF applyRules, Ahead, Applying
<1>6. applyRules("prevotesNull") => MayPrecommitNil(unit)
  BY ZenonT(60) DEF applyRules, Ahead, Applying
<1>7. applyRules("precommitsAny") => MaySchedulePrecommit(unit)
  BY ZenonT(60) DEF applyRules, Ahead, Applying
<1>8. applyRules("precommits") => MayCommit(unit)
  BY ZenonT(60) DEF applyRules, Ahead, Applying
<1>9. applyRules("minority") => MaySkipRound(unit)
  BY ZenonT(60) DEF applyRules, Ahead, Applying
<1>10. \A stage : applyRules(stage) => pc \in RuleNames
  BY <1>1, ZenonT(60) DEF applyRules
<1>. QED BY <1>1, <1>2, <1>3, <1>4, <1>5, <1>6, <1>7, <1>8, <1>9, <1>10, ZenonT(60)

\* Rounds are numbers, and an undefined round is smaller than all of them.
LEMMA RoundFacts ==
  /\ Rounds \subseteq Nat /\ 0 \in Rounds
  /\ None \in Int /\ None \notin Rounds /\ \A r \in Rounds : None < r
  BY ConstantsAssumption, SMTT(60) DEF Rounds, None

PeersVote == \E m \in RemoteVotes : ProcessVotes(m[1], m[2], m[3], m[4])
PeersPropose == \E p \in RemoteProposals : ProcessProposalOf(p)
PeersCommit == \E c \in Commits : ProcessCommit(c[1], c[2])

\* The steps that write the position, and store it unless the block number changes.
PositionWriters ==
  \/ OnProposal \/ OnMajorityPrevote \/ OnMajorityPrevoteNull \/ OnMinorityWithHigherRound
  \/ TakeJob \/ NextBlock \/ Restart

\* Which steps write which variables.
LEMMA Writers ==
  ASSUME [Next]_vars
  PROVE  /\ UNCHANGED status \/ Booted \/ Crash \/ Restart
         /\ UNCHANGED <<blockNumber, round, step, lockedRound, validRound>> \/ PositionWriters
         /\ \/ UNCHANGED <<didMajorityPrevote, didMajorityPrecommit>>
            \/ OnMajorityPrevote \/ OnMajorityPrecommit \/ OnMinorityWithHigherRound
            \/ TakeJob \/ NextBlock \/ Crash
         /\ \/ UNCHANGED rounds
            \/ ProcessProposal \/ NextBlock \/ ProcessOwnVote \/ ProcessOwnProposal
            \/ PeersVote \/ PeersPropose \/ Restart
         /\ UNCHANGED bootRound \/ NextBlock \/ Restart
         /\ \/ UNCHANGED <<pc, unit, ballot>>
            \/ BeginRound \/ Rule \/ CastVote \/ Commit \/ NextBlock \/ TakeJob
            \/ Crash \/ Restart
         /\ \/ UNCHANGED jobs
            \/ TakeJob \/ TimeoutExpires \/ ProcessOwnVote \/ ProcessOwnProposal
            \/ PeersVote \/ PeersPropose \/ PeersCommit \/ Crash
         /\ \/ UNCHANGED timers
            \/ BeginRound \/ OnTimeoutBlockPrepare \/ OnMajorityPrevoteAny
            \/ OnMajorityPrecommitAny \/ NextBlock \/ TimeoutExpires \/ Crash
         /\ UNCHANGED commitLock \/ Return \/ Commit \/ Crash
         /\ \/ UNCHANGED proposing
            \/ BeginRound \/ OnTimeoutBlockPrepare \/ SubmitProposal \/ ProposalFails
            \/ NextBlock \/ Crash
         /\ \/ UNCHANGED inbox
            \/ SubmitProposal \/ CastVote \/ ProcessOwnVote \/ ProcessOwnProposal \/ Crash
         /\ \/ UNCHANGED <<store, storeNumber>>
            \/ PositionWriters \/ SubmitProposal \/ CastVote
            \/ ProcessOwnVote \/ ProcessOwnProposal \/ PeersVote \/ PeersPropose
         /\ UNCHANGED chain \/ Commit
         /\ UNCHANGED cast \/ CastVote \/ PeersVote \/ PeersPropose \/ PeersCommit
         /\ UNCHANGED proposed \/ SubmitProposal
         /\ UNCHANGED forgot \/ Restart
         /\ UNCHANGED crashes \/ Crash
<1>. USE DEF position, flags, disk, history
<1>1. CASE BeginRound
  BY <1>1, ZenonT(60) DEF BeginRound
<1>2. CASE OnTimeoutBlockPrepare
  BY <1>2, ZenonT(60) DEF OnTimeoutBlockPrepare
<1>3. CASE SubmitProposal
  BY <1>3, ZenonT(60) DEF SubmitProposal
<1>4. CASE ProposalFails
  BY <1>4, ZenonT(60) DEF ProposalFails
<1>5. CASE ProcessProposal
  BY <1>5, ZenonT(60) DEF ProcessProposal, Rule
<1>6. CASE OnProposal
  BY <1>6, ZenonT(60) DEF OnProposal, Rule, PositionWriters
<1>7. CASE OnMajorityPrevote
  BY <1>7, ZenonT(60) DEF OnMajorityPrevote, Rule, PositionWriters
<1>8. CASE OnMajorityPrevoteAny
  BY <1>8, ZenonT(60) DEF OnMajorityPrevoteAny, Rule
<1>9. CASE OnMajorityPrevoteNull
  BY <1>9, ZenonT(60) DEF OnMajorityPrevoteNull, Rule, PositionWriters
<1>10. CASE OnMajorityPrecommitAny
  BY <1>10, ZenonT(60) DEF OnMajorityPrecommitAny, Rule
<1>11. CASE OnMajorityPrecommit
  BY <1>11, ZenonT(60) DEF OnMajorityPrecommit, Rule
<1>12. CASE OnMinorityWithHigherRound
  BY <1>12, ZenonT(60) DEF OnMinorityWithHigherRound, Rule, PositionWriters
<1>13. CASE Return
  BY <1>13, ZenonT(60) DEF Return, Rule
<1>14. CASE CastVote
  BY <1>14, ZenonT(60) DEF CastVote
<1>15. CASE Commit
  BY <1>15, ZenonT(60) DEF Commit
<1>16. CASE NextBlock
  BY <1>16, ZenonT(60) DEF NextBlock, PositionWriters
<1>17. CASE TakeJob
  BY <1>17, ZenonT(60) DEF TakeJob, Take, Handle, HandleCommitState, OnTimeoutPropose,
         OnTimeoutPrevote, OnTimeoutPrecommit, PositionWriters
<1>18. CASE TimeoutExpires
  BY <1>18, ZenonT(60) DEF TimeoutExpires
<1>19. CASE ProcessOwnVote
  BY <1>19, ZenonT(60) DEF ProcessOwnVote
<1>20. CASE ProcessOwnProposal
  BY <1>20, ZenonT(60) DEF ProcessOwnProposal
<1>21. CASE Booted
  BY <1>21, ZenonT(60) DEF Booted
<1>22. CASE PeersVote
  BY <1>22, ZenonT(60) DEF PeersVote, ProcessVotes
<1>23. CASE PeersPropose
  BY <1>23, ZenonT(60) DEF PeersPropose, ProcessProposalOf
<1>24. CASE PeersCommit
  BY <1>24, ZenonT(60) DEF PeersCommit, ProcessCommit
<1>25. CASE Crash
  BY <1>25, ZenonT(60) DEF Crash
<1>26. CASE Restart
  BY <1>26, ZenonT(60) DEF Restart, PositionWriters
<1>27. CASE UNCHANGED vars
  BY <1>27, ZenonT(60) DEF vars
<1>. QED
  BY <1>1, <1>2, <1>3, <1>4, <1>5, <1>6, <1>7, <1>8, <1>9, <1>10, <1>11, <1>12, <1>13, <1>14,
     <1>15, <1>16, <1>17, <1>18, <1>19, <1>20, <1>21, <1>22, <1>23, <1>24, <1>25, <1>26, <1>27,
     ZenonT(60)
     DEF Next, Node, Rule, Peers, PeersVote, PeersPropose, PeersCommit

-------------------------------------------------------------------------------
(* What the operators of the model return.                                 *)

\* A set that contains +2/3 of the validators is one.
LEMMA MajorityGrows ==
  ASSUME IInv, NEW S \in SUBSET Validators, NEW T \in SUBSET Validators,
         S \subseteq T, isMajorityOf(S)
  PROVE  isMajorityOf(T)
  BY ZenonT(60) DEF IInv, MajoritiesGrow

\* No validators are no majority.
LEMMA EmptyIsNoMajority ==
  ASSUME IInv
  PROVE  ~isMajorityOf({})
  BY ZenonT(60) DEF IInv, MajoritiesGrow

\* The round states new are rounds with the votes of Q for x.
VotesAdded(new, type, r, Q, x) ==
  /\ new \in [Rounds -> RoundStates]
  /\ \A q \in Rounds :
       new[q].proposal = rounds[q].proposal /\ new[q].result = rounds[q].result
  /\ \A q \in Rounds, t \in Types :
       new[q][t] = IF q = r /\ t = type THEN rounds[q][t] \cup (Q \X {x}) ELSE rounds[q][t]

\* addPrevote and addPrecommit (RoundState) add the votes of a message to one round and leave
\* the other rounds, the proposal and its result alone.
LEMMA AddVotes ==
  ASSUME rounds \in [Rounds -> RoundStates],
         NEW r \in Rounds, NEW type \in Types, NEW Q \in SUBSET Validators, NEW x \in Values
  PROVE  VotesAdded(addVotes(type, r, Q, x), type, r, Q, x)
<1>1. CASE type = "prevote"
  <2>. DEFINE new == [rounds EXCEPT ![r].prevote = @ \cup (Q \X {x})]
  <2>1. addVotes(type, r, Q, x) = new
    BY <1>1, ZenonT(60) DEF addVotes
  <2>2. new \in [Rounds -> RoundStates]
    BY SMTT(60) DEF RoundStates
  <2>3. \A q \in Rounds :
          /\ new[q].proposal = rounds[q].proposal /\ new[q].result = rounds[q].result
          /\ new[q].precommit = rounds[q].precommit
    BY ZenonT(60) DEF RoundStates
  <2>4. \A q \in Rounds :
          new[q].prevote = IF q = r THEN rounds[q].prevote \cup (Q \X {x})
                           ELSE rounds[q].prevote
    BY ZenonT(60) DEF RoundStates
  <2>. HIDE DEF new
  <2>. QED BY <1>1, <2>1, <2>2, <2>3, <2>4, ZenonT(60) DEF Types, VotesAdded
<1>2. CASE type = "precommit"
  <2>. DEFINE new == [rounds EXCEPT ![r].precommit = @ \cup (Q \X {x})]
  <2>1. addVotes(type, r, Q, x) = new
    BY <1>2, ZenonT(60) DEF addVotes
  <2>2. new \in [Rounds -> RoundStates]
    BY SMTT(60) DEF RoundStates
  <2>3. \A q \in Rounds :
          /\ new[q].proposal = rounds[q].proposal /\ new[q].result = rounds[q].result
          /\ new[q].prevote = rounds[q].prevote
    BY ZenonT(60) DEF RoundStates
  <2>4. \A q \in Rounds :
          new[q].precommit = IF q = r THEN rounds[q].precommit \cup (Q \X {x})
                             ELSE rounds[q].precommit
    BY ZenonT(60) DEF RoundStates
  <2>. HIDE DEF new
  <2>. QED BY <1>2, <2>1, <2>2, <2>3, <2>4, ZenonT(60) DEF Types, VotesAdded
<1>. QED BY <1>1, <1>2, ZenonT(60) DEF Types

\* The round states new are rounds with proposal p.
ProposalAdded(new, p) ==
  /\ new \in [Rounds -> RoundStates]
  /\ \A q \in Rounds :
       /\ new[q].proposal = IF q = p.round THEN p ELSE rounds[q].proposal
       /\ new[q].result = rounds[q].result
  /\ \A q \in Rounds, t \in Types : new[q][t] = rounds[q][t]

\* addProposal (RoundState) gives one round its proposal and leaves all else alone.
LEMMA AddProposal ==
  ASSUME rounds \in [Rounds -> RoundStates], NEW p \in Proposals
  PROVE  ProposalAdded(addProposal(p), p)
  BY SMTT(60) DEF Proposals, RoundStates, Types, addProposal, ProposalAdded

\* The history new is cast with the votes of Q for x.
VotesMade(new, type, r, Q, x) ==
  /\ new \in Histories
  /\ \A t \in Types, n \in 1..MaxBlockNumber :
       new[t][n] = IF t = type /\ n = blockNumber
                   THEN cast[t][n] \cup (Q \X {r} \X {x}) ELSE cast[t][n]

\* Votes that are made are added to the history of their kind and block number only.
LEMMA CastVotes ==
  ASSUME cast \in Histories, blockNumber \in 1..MaxBlockNumber,
         NEW r \in Rounds, NEW type \in Types, NEW Q \in SUBSET Validators, NEW x \in Values
  PROVE  VotesMade(castVotes(type, r, Q, x), type, r, Q, x)
  BY ZenonT(60) DEF castVotes, VotesMade, Histories

\* A write for block number n: what the store holds after it, and the records it keeps.
NumberSaved(n) == storeNumber' = IF n > storeNumber THEN n ELSE storeNumber

StateSaved(s) ==
  /\ store' \in Stores /\ storeNumber' \in Nat /\ NumberSaved(s.blockNumber)
  /\ store'.state = s
  /\ s.blockNumber > storeNumber => store'.proposals = {} /\ store'.messages = {}
  /\ ~(s.blockNumber > storeNumber) =>
       store'.proposals = store.proposals /\ store'.messages = store.messages

ProposalSaved(n, p) ==
  /\ store' \in Stores /\ storeNumber' \in Nat /\ NumberSaved(n)
  /\ n > storeNumber =>
       store'.state = NoState /\ store'.proposals = {<<n, p>>} /\ store'.messages = {}
  /\ ~(n > storeNumber) =>
       /\ store'.state = store.state /\ store'.messages = store.messages
       /\ store'.proposals = {s \in store.proposals : s[2].round # p.round} \cup {<<n, p>>}

MessagesSaved(n, type, r, Q, x) ==
  /\ store' \in Stores /\ storeNumber' \in Nat /\ NumberSaved(n)
  /\ n > storeNumber =>
       /\ store'.state = NoState /\ store'.proposals = {}
       /\ store'.messages = {<<n, type, r, v, x>> : v \in Q}
  /\ ~(n > storeNumber) =>
       /\ store'.state = store.state /\ store'.proposals = store.proposals
       /\ store'.messages =
            {s \in store.messages : ~(s[2] = type /\ s[3] = r /\ s[4] \in Q)}
            \cup {<<n, type, r, v, x>> : v \in Q}

\* What the consensus storage holds before anything is saved.
LEMMA EmptyStoreType == EmptyStore \in Stores /\ NoState \in States
  BY RoundFacts, ZenonT(60) DEF EmptyStore, NoState, State, Stores, States, Steps

\* The storage drops what it holds when it is opened for a later block number, and only then.
LEMMA OpenedStore ==
  ASSUME RecordsOK, NEW n \in Nat
  PROVE  /\ Opened(n) \in Stores
         /\ n > storeNumber => Opened(n) = EmptyStore
         /\ ~(n > storeNumber) => Opened(n) = store
  BY EmptyStoreType, ZenonT(60) DEF Opened, RecordsOK

\* saveState replaces the state and keeps the messages of the same block number.
LEMMA SavesState ==
  ASSUME RecordsOK, NEW s \in States, SaveState(s)
  PROVE  StateSaved(s)
<1>. DEFINE o == Opened(s.blockNumber)
<1>1. s.blockNumber \in Nat /\ storeNumber \in Nat
  BY ZenonT(60) DEF States, RecordsOK
<1>2. o \in Stores /\ store' = [o EXCEPT !.state = s]
  BY <1>1, OpenedStore, ZenonT(60) DEF SaveState
<1>3. NumberSaved(s.blockNumber) /\ storeNumber' \in Nat
  BY <1>1, ZenonT(60) DEF SaveState, StoreNumberAfter, NumberSaved
<1>4. store' \in Stores /\ store'.state = s
      /\ store'.proposals = o.proposals /\ store'.messages = o.messages
  <2>. HIDE DEF o
  <2>. QED BY <1>2, ZenonT(60) DEF Stores
<1>5. EmptyStore.proposals = {} /\ EmptyStore.messages = {}
  BY ZenonT(60) DEF EmptyStore
<1>. QED
  BY <1>1, <1>3, <1>4, <1>5, OpenedStore, ZenonT(60) DEF StateSaved

\* saveProposal replaces the proposal of its round and keeps the others of the block number.
LEMMA SavesProposal ==
  ASSUME RecordsOK, NEW n \in Nat, NEW p \in Proposals, SaveProposal(n, p)
  PROVE  ProposalSaved(n, p)
<1>. DEFINE o == Opened(n)
<1>. DEFINE new == {s \in o.proposals : s[2].round # p.round} \cup {<<n, p>>}
<1>1. storeNumber \in Nat
  BY ZenonT(60) DEF RecordsOK
<1>2. o \in Stores /\ store' = [o EXCEPT !.proposals = new]
  BY OpenedStore, ZenonT(60) DEF SaveProposal
<1>3. NumberSaved(n) /\ storeNumber' \in Nat
  BY <1>1, ZenonT(60) DEF SaveProposal, StoreNumberAfter, NumberSaved
<1>4. new \in SUBSET (Nat \X Proposals)
  <2>1. o.proposals \in SUBSET (Nat \X Proposals)
    BY <1>2, ZenonT(60) DEF Stores
  <2>. HIDE DEF o
  <2>. QED BY <2>1, SMTT(60)
<1>5. store' \in Stores /\ store'.state = o.state
      /\ store'.proposals = new /\ store'.messages = o.messages
  <2>. HIDE DEF o, new
  <2>. QED BY <1>2, <1>4, ZenonT(60) DEF Stores
<1>6. n > storeNumber => new = {<<n, p>>} /\ o.state = NoState /\ o.messages = {}
  BY OpenedStore, SMTT(60) DEF EmptyStore
<1>7. ~(n > storeNumber) => o = store
  BY OpenedStore, ZenonT(60)
<1>. QED
  BY <1>1, <1>3, <1>5, <1>6, <1>7, ZenonT(60) DEF ProposalSaved

\* savePrevote and savePrecommit replace the votes of the same validators, kind and round.
LEMMA SavesMessages ==
  ASSUME RecordsOK, NEW n \in Nat, NEW type \in Types, NEW r \in Rounds,
         NEW Q \in SUBSET Validators, NEW x \in Values, SaveMessages(n, type, r, Q, x)
  PROVE  MessagesSaved(n, type, r, Q, x)
<1>. DEFINE o == Opened(n)
<1>. DEFINE new == {s \in o.messages : ~(s[2] = type /\ s[3] = r /\ s[4] \in Q)}
                   \cup {<<n, type, r, v, x>> : v \in Q}
<1>1. storeNumber \in Nat
  BY ZenonT(60) DEF RecordsOK
<1>2. o \in Stores /\ store' = [o EXCEPT !.messages = new]
  BY OpenedStore, ZenonT(60) DEF SaveMessages
<1>3. NumberSaved(n) /\ storeNumber' \in Nat
  BY <1>1, ZenonT(60) DEF SaveMessages, StoreNumberAfter, NumberSaved
<1>4. new \in SUBSET (Nat \X Types \X Rounds \X Validators \X Values)
  <2>1. o.messages \in SUBSET (Nat \X Types \X Rounds \X Validators \X Values)
    BY <1>2, ZenonT(60) DEF Stores
  <2>. HIDE DEF o
  <2>. QED BY <2>1, SMTT(60)
<1>5. store' \in Stores /\ store'.state = o.state
      /\ store'.messages = new /\ store'.proposals = o.proposals
  <2>. HIDE DEF o, new
  <2>. QED BY <1>2, <1>4, ZenonT(60) DEF Stores
<1>6. n > storeNumber => /\ new = {<<n, type, r, v, x>> : v \in Q}
                         /\ o.state = NoState /\ o.proposals = {}
  BY OpenedStore, SMTT(60) DEF EmptyStore
<1>7. ~(n > storeNumber) => o = store
  BY OpenedStore, ZenonT(60)
<1>. QED
  BY <1>1, <1>3, <1>5, <1>6, <1>7, ZenonT(60) DEF MessagesSaved

\* The round states new are the ones of block number n that the store holds.
RoundsLoaded(new, n) ==
  /\ new \in [Rounds -> RoundStates]
  /\ \A r \in Rounds :
       /\ new[r].result = "none"
       /\ new[r].proposal # NoProposal =>
            new[r].proposal.round = r /\ <<n, new[r].proposal>> \in store.proposals
       /\ new[r].proposal = NoProposal =>
            \A s \in store.proposals : ~(s[1] = n /\ s[2].round = r)
  /\ \A r \in Rounds, type \in Types, v \in Validators, x \in Values :
       <<v, x>> \in new[r][type] <=> <<n, type, r, v, x>> \in store.messages

\* The bootstrapper rebuilds each round state from the stored proposal and votes of the round.
LEMMA LoadsRounds ==
  ASSUME RecordsOK, NEW n \in Nat
  PROVE  RoundsLoaded(LoadedRounds(n), n)
<1>. DEFINE Votes(r, type) == {<<s[4], s[5]>> : s \in {t \in store.messages :
                               t[1] = n /\ t[2] = type /\ t[3] = r}}
<1>. DEFINE found(r) == {s[2] : s \in {t \in store.proposals : t[1] = n /\ t[2].round = r}}
<1>. DEFINE pick(r) == IF found(r) = {} THEN NoProposal ELSE CHOOSE p \in found(r) : TRUE
<1>. DEFINE new == LoadedRounds(n)
<1>1. new = [r \in Rounds |-> [proposal |-> pick(r), result |-> "none",
                               prevote |-> Votes(r, "prevote"),
                               precommit |-> Votes(r, "precommit")]]
  BY ZenonT(60) DEF LoadedRounds
<1>2. /\ store.messages \in SUBSET (Nat \X Types \X Rounds \X Validators \X Values)
      /\ store.proposals \in SUBSET (Nat \X Proposals)
  BY ZenonT(60) DEF RecordsOK, Stores
<1>3. ASSUME NEW r \in Rounds, NEW type \in Types
      PROVE  /\ Votes(r, type) \in SUBSET (Validators \X Values)
             /\ \A v \in Validators, x \in Values :
                  <<v, x>> \in Votes(r, type) <=> <<n, type, r, v, x>> \in store.messages
  BY <1>2, SMTT(60)
<1>4. ASSUME NEW r \in Rounds
      PROVE  /\ pick(r) \in Proposals \cup {NoProposal}
             /\ pick(r) # NoProposal =>
                  pick(r).round = r /\ <<n, pick(r)>> \in store.proposals
             /\ pick(r) = NoProposal =>
                  \A s \in store.proposals : ~(s[1] = n /\ s[2].round = r)
  <2>1. NoProposal \notin Proposals
    BY RoundFacts, ZenonT(60) DEF NoProposal, Proposals
  <2>2. found(r) \subseteq Proposals
    BY <1>2, ZenonT(60)
  <2>3. \A p \in found(r) : p.round = r /\ <<n, p>> \in store.proposals
    BY <1>2, SMTT(60)
  <2>4. CASE found(r) = {}
    BY <2>4, <1>2, ZenonT(60)
  <2>5. CASE found(r) # {}
    <3>1. pick(r) \in found(r)
      BY <2>5, ZenonT(60)
    <3>. QED BY <3>1, <2>1, <2>2, <2>3, ZenonT(60)
  <2>. QED BY <2>4, <2>5, ZenonT(60)
<1>. HIDE DEF Votes, pick, new
<1>5. \A r \in Rounds : /\ new[r].proposal = pick(r) /\ new[r].result = "none"
                        /\ new[r].prevote = Votes(r, "prevote")
                        /\ new[r].precommit = Votes(r, "precommit")
  BY <1>1, ZenonT(60)
<1>6. new \in [Rounds -> RoundStates]
  BY <1>1, <1>3, <1>4, ZenonT(60) DEF RoundStates, Types
<1>7. \A r \in Rounds, type \in Types : new[r][type] = Votes(r, type)
  BY <1>5, ZenonT(60) DEF Types
<1>8. RoundsLoaded(new, n)
  BY <1>3, <1>4, <1>5, <1>6, <1>7, SMTT(60) DEF RoundsLoaded
<1>. QED BY <1>8, ZenonT(60) DEF new

-------------------------------------------------------------------------------
(* The position of the node.                                               *)

\* The fields of Consensus keep their types in every handler, timeout, crash and restart.
LEMMA FieldsStep ==
  ASSUME IInv, [Next]_vars
  PROVE  FieldsOK'
<1>. USE RoundFacts DEF position, flags, disk, history
<1>1. FieldsOK /\ HandlerOK /\ RecordsOK /\ QueuesOK
  BY ZenonT(60) DEF IInv
<1>2. CASE OnProposal
  BY <1>1, <1>2, ZenonT(60) DEF OnProposal, FieldsOK, Steps
<1>3. CASE OnMajorityPrevote
  <2>1. unit = round
    BY <1>3, RuleGuards, ZenonT(60) DEF OnMajorityPrevote, MayLock, isCurrentRoundState
  <2>. QED BY <1>1, <1>3, <2>1, ZenonT(60) DEF OnMajorityPrevote, FieldsOK, Steps
<1>4. CASE OnMajorityPrevoteNull
  BY <1>1, <1>4, ZenonT(60) DEF OnMajorityPrevoteNull, FieldsOK, Steps
<1>5. CASE OnMinorityWithHigherRound
  <2>1. unit \in Rounds
    BY <1>1, <1>5, RuleGuards, ZenonT(60) DEF OnMinorityWithHigherRound, HandlerOK, RuleNames
  <2>. QED BY <1>1, <1>5, <2>1, ZenonT(60)
       DEF OnMinorityWithHigherRound, StartRound, EnterRound, FieldsOK, Steps
<1>6. CASE TakeJob
  <2>1. PICK job \in jobs : \/ Handle(job) \/ HandleCommitState(job) \/ OnTimeoutPropose(job)
                            \/ OnTimeoutPrevote(job) \/ OnTimeoutPrecommit(job)
    BY <1>6, ZenonT(60) DEF TakeJob
  <2>2. CASE Handle(job) \/ HandleCommitState(job)
    BY <1>1, <2>2, ZenonT(60) DEF Handle, HandleCommitState, Take, FieldsOK
  <2>3. CASE OnTimeoutPropose(job) \/ OnTimeoutPrevote(job)
    BY <1>1, <2>3, ZenonT(60) DEF OnTimeoutPropose, OnTimeoutPrevote, Take, FieldsOK, Steps
  <2>4. CASE OnTimeoutPrecommit(job)
    <3>1. round + 1 <= MaxRound => round + 1 \in Rounds
      BY <1>1, ConstantsAssumption, SMTT(60) DEF FieldsOK, Rounds
    <3>. QED BY <1>1, <2>4, <3>1, ZenonT(60)
         DEF OnTimeoutPrecommit, StartRound, EnterRound, Take, FieldsOK, Steps
  <2>. QED BY <2>1, <2>2, <2>3, <2>4, ZenonT(60)
<1>7. CASE NextBlock
  <2>1. /\ blockNumber' = blockNumber + 1 /\ round' = 0 /\ step' = "propose"
        /\ lockedRound' = None /\ validRound' = None /\ bootRound' = 0
        /\ didMajorityPrevote' = FALSE /\ didMajorityPrecommit' = FALSE
        /\ UNCHANGED <<status, commitLock>>
    BY <1>7, ZenonT(60) DEF NextBlock, EnterRound
  <2>2. blockNumber' \in Nat
    BY <1>1, <2>1, SMTT(60) DEF FieldsOK
  <2>. QED BY <1>1, <2>1, <2>2, ZenonT(60) DEF FieldsOK, Steps
<1>8. CASE Restart
  <2>1. store.state \in States /\ Len(chain) \in Nat
    BY <1>1, SMTT(60) DEF RecordsOK, Stores
  <2>2. State(Len(chain) + 1, 0, "propose", None, None) \in States
    BY <2>1, SMTT(60) DEF State, States, Steps
  <2>. DEFINE stored == IF store.state.blockNumber = Len(chain) + 1 THEN store.state
                        ELSE State(Len(chain) + 1, 0, "propose", None, None)
  <2>3. \/ status' = "refused" /\ UNCHANGED <<position, bootRound>>
        \/ /\ status' = "booting" /\ blockNumber' = Len(chain) + 1
           /\ round' = stored.round /\ step' = stored.step /\ bootRound' = stored.round
           /\ lockedRound' = stored.lockedRound /\ validRound' = stored.validRound
    BY <1>8, ZenonT(60) DEF Restart
  <2>4. stored \in States
    BY <2>1, <2>2, ZenonT(60)
  <2>. HIDE DEF stored
  <2>5. /\ stored.round \in Rounds /\ stored.step \in Steps
        /\ stored.lockedRound \in Rounds \cup {None} /\ stored.validRound \in Rounds \cup {None}
    BY <2>4, ZenonT(60) DEF States
  <2>6. Len(chain) + 1 \in Nat
    BY <2>1, SMTT(60)
  <2>7. UNCHANGED <<flags, commitLock>>
    BY <1>8, ZenonT(60) DEF Restart
  <2>. QED BY <1>1, <2>3, <2>5, <2>6, <2>7, ZenonT(60) DEF FieldsOK
<1>9. CASE Booted
  BY <1>1, <1>9, ZenonT(60) DEF Booted, FieldsOK
<1>10. CASE Crash
  BY <1>1, <1>10, ZenonT(60) DEF Crash, FieldsOK
<1>11. CASE OnMajorityPrecommit
  BY <1>1, <1>11, ZenonT(60) DEF OnMajorityPrecommit, FieldsOK
<1>12. CASE Return
  BY <1>1, <1>12, ZenonT(60) DEF Return, FieldsOK
<1>13. CASE Commit
  BY <1>1, <1>13, ZenonT(60) DEF Commit, FieldsOK
<1>14. CASE UNCHANGED <<status, blockNumber, round, step, lockedRound, validRound,
                        didMajorityPrevote, didMajorityPrecommit, bootRound, commitLock>>
  BY <1>1, <1>14, ZenonT(60) DEF FieldsOK
<1>. QED
  BY <1>2, <1>3, <1>4, <1>5, <1>6, <1>7, <1>8, <1>9, <1>10, <1>11, <1>12, <1>13, <1>14,
     Writers, ZenonT(60) DEF PositionWriters

\* A proposal of the node is for its round, with the valid value if there is one.
LEMMA OwnProposalsType ==
  ASSUME FieldsOK, RoundsOK, ValuesOK
  PROVE  \A p \in OwnProposals :
           /\ p \in Proposals /\ p.round = round
           /\ p.validRound = validRound
           /\ validRound # None => p.block = BlockOf(validRound)
<1>1. CASE validRound # None
  <2>1. validRound \in Rounds /\ HasProposal(validRound)
    BY <1>1, ZenonT(60) DEF FieldsOK, ValuesOK, isProven, HasProposal
  <2>2. rounds[validRound].proposal \in Proposals
    BY <2>1, ZenonT(60) DEF RoundsOK, RoundStates, HasProposal
  <2>3. BlockOf(validRound) \in Blocks
    BY <2>2, ZenonT(60) DEF Proposals, BlockOf
  <2>4. SUFFICES ASSUME NEW p, p = [round |-> round, block |-> BlockOf(validRound),
                                    validRound |-> validRound, proven |-> TRUE]
                 PROVE  /\ p \in Proposals /\ p.round = round
                        /\ p.validRound = validRound /\ p.block = BlockOf(validRound)
    BY <1>1, <2>4, ZenonT(60) DEF OwnProposals
  <2>5. round \in Rounds
    BY ZenonT(60) DEF FieldsOK
  <2>. QED BY <2>1, <2>3, <2>4, <2>5, ZenonT(60) DEF Proposals
<1>2. CASE validRound = None
  <2>1. SUFFICES ASSUME NEW x \in ForgedBlocks, NEW p,
                        p = [round |-> round, block |-> x, validRound |-> None,
                             proven |-> FALSE]
                 PROVE  p \in Proposals /\ p.round = round /\ p.validRound = None
    BY <1>2, ZenonT(60) DEF OwnProposals
  <2>2. round \in Rounds /\ x \in Blocks
    BY ConstantsAssumption, ZenonT(60) DEF FieldsOK
  <2>. QED BY <2>1, <2>2, ZenonT(60) DEF Proposals
<1>. QED BY <1>1, <1>2, ZenonT(60)

\* A position that is stored has the type of a stored state.
LEMMA PersistedState ==
  ASSUME IInv, FieldsOK', PersistState
  PROVE  StateSaved(State(blockNumber', round', step', lockedRound', validRound'))
<1>1. State(blockNumber', round', step', lockedRound', validRound') \in States
  BY ZenonT(60) DEF FieldsOK, State, States
<1>. QED BY <1>1, SavesState, ZenonT(60) DEF IInv, PersistState

\* A step that moves the position stores it, except that NextBlock leaves the store alone
\* and Restart reads it.
LEMMA PositionIsStored ==
  ASSUME IInv, [Next]_vars, FieldsOK', PositionWriters
  PROVE  \/ UNCHANGED <<store, storeNumber, blockNumber, round, step, lockedRound, validRound>>
         \/ /\ blockNumber' = blockNumber
            /\ StateSaved(State(blockNumber', round', step', lockedRound', validRound'))
         \/ NextBlock /\ UNCHANGED <<store, storeNumber>>
         \/ Restart /\ UNCHANGED store
<1>. USE DEF position, flags, disk, history
<1>1. CASE PersistState /\ blockNumber' = blockNumber
  BY <1>1, PersistedState, ZenonT(60)
<1>2. CASE OnProposal \/ OnMajorityPrevote \/ OnMajorityPrevoteNull
  BY <1>1, <1>2, ZenonT(60) DEF OnProposal, OnMajorityPrevote, OnMajorityPrevoteNull
<1>3. CASE OnMinorityWithHigherRound
  BY <1>1, <1>3, ZenonT(60) DEF OnMinorityWithHigherRound, StartRound
<1>4. CASE TakeJob
  BY <1>1, <1>4, ZenonT(60) DEF TakeJob, Handle, HandleCommitState, OnTimeoutPropose,
     OnTimeoutPrevote,
                    OnTimeoutPrecommit, StartRound
<1>5. CASE NextBlock
  BY <1>5, ZenonT(60) DEF NextBlock
<1>6. CASE Restart
  BY <1>6, ZenonT(60) DEF Restart
<1>. QED BY <1>2, <1>3, <1>4, <1>5, <1>6, ZenonT(60) DEF PositionWriters

\* How a step writes the store: a state, a proposal, or votes that were made, of the running
\* block number.  A restart only reads its block number again.
StoreKept == UNCHANGED <<store, storeNumber>>

StateStored ==
  /\ StateSaved(State(blockNumber', round', step', lockedRound', validRound'))
  /\ UNCHANGED <<blockNumber, rounds, cast, chain, inbox, proposed>>

ProposalStored(p) ==
  /\ p \in Proposals /\ blockNumber \in 1..MaxBlockNumber
  /\ ProposalSaved(blockNumber, p)
  /\ UNCHANGED <<position, chain>>

MessagesStored(type, r, Q, x) ==
  /\ type \in Types /\ r \in Rounds /\ Q \in SUBSET Validators /\ x \in Values
  /\ blockNumber \in 1..MaxBlockNumber
  /\ MessagesSaved(blockNumber, type, r, Q, x)
  /\ UNCHANGED <<position, chain>>
  /\ Q \X {r} \X {x} \subseteq cast'[type][blockNumber]

AtStart(r, s, locked, valid) == r = 0 /\ s = "propose" /\ locked = None /\ valid = None

\* A restart resumes the position, or starts the block number after the committed one.
LEMMA RestartPosition ==
  ASSUME IInv, Restart
  PROVE  \/ UNCHANGED position
         \/ /\ blockNumber = Len(chain) /\ blockNumber' = blockNumber + 1
            /\ AtStart(round', step', lockedRound', validRound')
<1>1. StoreInStep /\ PlaceOK /\ RecordsOK /\ FieldsOK
  BY ZenonT(60) DEF IInv
<1>2. /\ Len(chain) \in Nat /\ blockNumber \in {Len(chain), Len(chain) + 1}
      /\ store.state \in States
  BY <1>1, SMTT(60) DEF PlaceOK, RecordsOK, Stores
<1>. DEFINE number == Len(chain) + 1
<1>. DEFINE stored == IF store.state.blockNumber = number THEN store.state
                      ELSE State(number, 0, "propose", None, None)
<1>3. \/ UNCHANGED position
      \/ /\ blockNumber' = number /\ round' = stored.round /\ step' = stored.step
         /\ lockedRound' = stored.lockedRound /\ validRound' = stored.validRound
  BY ZenonT(60) DEF Restart
<1>4. CASE store.state.blockNumber = number
  <2>1. blockNumber = number
    BY <1>1, <1>2, <1>4, SMTT(60) DEF StoreInStep
  <2>2. store.state = State(blockNumber, round, step, lockedRound, validRound)
    BY <1>1, <1>4, <2>1, ZenonT(60) DEF StoreInStep
  <2>. QED BY <1>3, <1>4, <2>1, <2>2, SMTT(60) DEF State, position
<1>5. CASE store.state.blockNumber # number
  <2>1. /\ stored.round = 0 /\ stored.step = "propose"
        /\ stored.lockedRound = None /\ stored.validRound = None
    BY <1>5, ZenonT(60) DEF State
  <2>2. CASE blockNumber = number
    <3>1. AtStart(round, step, lockedRound, validRound)
      BY <1>1, <1>5, <2>2, ZenonT(60) DEF StoreInStep, AtStart
    <3>. QED BY <1>3, <2>1, <2>2, <3>1, SMTT(60) DEF AtStart, position
  <2>3. CASE blockNumber = Len(chain)
    BY <1>3, <2>1, <2>3, SMTT(60) DEF AtStart
  <2>. QED BY <1>2, <2>2, <2>3, ZenonT(60)
<1>. QED BY <1>4, <1>5, ZenonT(60)

\* How a step moves the position.
LEMMA PositionSteps ==
  ASSUME IInv, [Next]_vars
  PROVE  \/ UNCHANGED position
         \/ UNCHANGED blockNumber /\ StateStored
         \/ NextBlock
         \/ Restart
<1>1. CASE UNCHANGED <<blockNumber, round, step, lockedRound, validRound>>
  BY <1>1, ZenonT(60) DEF position
<1>2. CASE PositionWriters
  <2>1. FieldsOK'
    BY FieldsStep, ZenonT(60)
  <2>2. CASE OnProposal \/ OnMajorityPrevote \/ OnMajorityPrevoteNull
             \/ OnMinorityWithHigherRound \/ TakeJob
    <3>1. UNCHANGED <<rounds, cast, chain, inbox, proposed>>
      BY <2>2, ZenonT(60) DEF OnProposal, OnMajorityPrevote, OnMajorityPrevoteNull,
                  OnMinorityWithHigherRound, TakeJob, Handle, HandleCommitState,
                  OnTimeoutPropose, OnTimeoutPrevote, OnTimeoutPrecommit, Take,
                  position, flags, disk, history
    <3>. QED BY <1>2, <2>1, <3>1, PositionIsStored, ZenonT(60) DEF StateStored, position
  <2>. QED BY <1>2, <2>2, ZenonT(60) DEF PositionWriters
<1>. QED BY <1>1, <1>2, Writers, ZenonT(60)

-------------------------------------------------------------------------------
(* Progress.                                                               *)

\* The fields move on, within a round, to a later round or to a later block number.
Advances ==
  \/ blockNumber' > blockNumber
  \/ /\ blockNumber' = blockNumber
     /\ lockedRound' >= lockedRound /\ validRound' >= validRound
     /\ \/ round' > round
        \/ round' = round /\ StepNumber[step'] >= StepNumber[step]

\* ... with the values behind them.
LEMMA ValuesBehindStep ==
  ASSUME IInv, [Next]_vars
  PROVE  ValuesAreBehind' /\ Advances
<1>. USE DEF disk, flags, history
<1>1. ValuesAreBehind /\ FieldsOK /\ HandlerOK /\ RecordsOK /\ PlaceOK
  BY ZenonT(60) DEF IInv
<1>2. /\ round \in Int /\ lockedRound \in Int /\ validRound \in Int /\ blockNumber \in Int
      /\ None \in Int /\ None < 0 /\ Rounds \subseteq Int
  BY <1>1, RoundFacts, SMTT(60) DEF FieldsOK
<1>3. /\ StepNumber["propose"] = 0 /\ StepNumber["prevote"] = 1 /\ StepNumber["precommit"] = 2
      /\ StepNumber[step] \in {0, 1, 2}
  BY <1>1, SMTT(60) DEF StepNumber, FieldsOK, Steps
<1>4. ASSUME UNCHANGED position
      PROVE  ValuesAreBehind' /\ Advances
  BY <1>1, <1>2, <1>3, <1>4, SMTT(60) DEF ValuesAreBehind, Advances, position
<1>5. ASSUME UNCHANGED <<blockNumber, round, lockedRound, validRound>>,
             \/ step = "propose" /\ step' = "prevote"
             \/ step = "prevote" /\ step' = "precommit"
      PROVE  ValuesAreBehind' /\ Advances
  BY <1>1, <1>2, <1>3, <1>5, SMTT(60) DEF ValuesAreBehind, Advances
<1>6. ASSUME NEW r \in Rounds, r > round, round' = r, step' = "propose",
             UNCHANGED <<blockNumber, lockedRound, validRound>>
      PROVE  ValuesAreBehind' /\ Advances
  BY <1>1, <1>2, <1>6, SMTT(60) DEF ValuesAreBehind, Advances
<1>7. ASSUME blockNumber' = blockNumber + 1, AtStart(round', step', lockedRound', validRound')
      PROVE  ValuesAreBehind' /\ Advances
  BY <1>2, <1>7, SMTT(60) DEF ValuesAreBehind, Advances, AtStart
<1>8. CASE OnProposal
  <2>1. step = "propose" /\ step' = "prevote"
        /\ UNCHANGED <<blockNumber, round, lockedRound, validRound>>
    BY <1>8, RuleGuards, ZenonT(60) DEF OnProposal, MayPrevote
  <2>. QED BY <1>5, <2>1, ZenonT(60)
<1>9. CASE OnMajorityPrevote
  <2>1. unit = round /\ step # "propose"
    BY <1>9, RuleGuards, ZenonT(60) DEF OnMajorityPrevote, MayLock, isCurrentRoundState
  <2>2. /\ validRound' = round /\ UNCHANGED <<blockNumber, round>>
        /\ \/ step = "prevote" /\ step' = "precommit" /\ lockedRound' = round
           \/ step' = step /\ lockedRound' = lockedRound
    BY <1>9, <2>1, ZenonT(60) DEF OnMajorityPrevote
  <2>. QED BY <1>1, <1>2, <1>3, <2>1, <2>2, SMTT(60) DEF ValuesAreBehind, Advances
<1>10. CASE OnMajorityPrevoteNull
  <2>1. step = "prevote" /\ step' = "precommit"
        /\ UNCHANGED <<blockNumber, round, lockedRound, validRound>>
    BY <1>10, RuleGuards, ZenonT(60) DEF OnMajorityPrevoteNull, MayPrecommitNil
  <2>. QED BY <1>5, <2>1, ZenonT(60)
<1>11. CASE OnMinorityWithHigherRound
  <2>1. unit \in Rounds /\ unit > round
    BY <1>1, <1>11, RuleGuards, ZenonT(60)
       DEF OnMinorityWithHigherRound, MaySkipRound, HandlerOK, RuleNames
  <2>2. round' = unit /\ step' = "propose" /\ UNCHANGED <<blockNumber, lockedRound, validRound>>
    BY <1>11, ZenonT(60) DEF OnMinorityWithHigherRound, StartRound, EnterRound
  <2>. QED BY <1>6, <2>1, <2>2, ZenonT(60)
<1>12. CASE TakeJob
  <2>1. PICK job \in jobs : \/ Handle(job) \/ HandleCommitState(job) \/ OnTimeoutPropose(job)
                            \/ OnTimeoutPrevote(job) \/ OnTimeoutPrecommit(job)
    BY <1>12, ZenonT(60) DEF TakeJob
  <2>2. CASE Handle(job) \/ HandleCommitState(job)
    BY <1>4, <2>2, ZenonT(60) DEF Handle, HandleCommitState
  <2>3. CASE OnTimeoutPropose(job) \/ OnTimeoutPrevote(job)
    BY <1>4, <1>5, <2>3, ZenonT(60) DEF OnTimeoutPropose, OnTimeoutPrevote
  <2>4. CASE OnTimeoutPrecommit(job)
    <3>1. \/ UNCHANGED position
          \/ /\ round + 1 <= MaxRound /\ round' = round + 1 /\ step' = "propose"
             /\ UNCHANGED <<blockNumber, lockedRound, validRound>>
      BY <2>4, ZenonT(60) DEF OnTimeoutPrecommit, StartRound, EnterRound
    <3>2. round + 1 <= MaxRound => round + 1 \in Rounds /\ round + 1 > round
      BY <1>1, ConstantsAssumption, SMTT(60) DEF FieldsOK, Rounds
    <3>. QED BY <1>4, <1>6, <3>1, <3>2, ZenonT(60)
  <2>. QED BY <2>1, <2>2, <2>3, <2>4, ZenonT(60)
<1>13. CASE NextBlock
  BY <1>7, <1>13, ZenonT(60) DEF NextBlock, EnterRound, AtStart
<1>14. CASE Restart
  BY <1>4, <1>7, <1>14, RestartPosition, ZenonT(60)
<1>. QED
  BY <1>4, <1>8, <1>9, <1>10, <1>11, <1>12, <1>13, <1>14, Writers, ZenonT(60)
     DEF PositionWriters, position

-------------------------------------------------------------------------------
(* Votes.                                                                  *)

\* The handler signs the votes of the own validators that have none, or goes on.
HandlerVotes(type, x, next) ==
  /\ ballot' \in Ballots
  /\ \/ pc' = next
     \/ /\ pc' = "vote"
        /\ ballot'.type = type /\ ballot'.value = x /\ ballot'.next = next
        /\ ballot'.voters = {v \in Local : ~HasMessage(round, type, v)}

\* prevote and precommit store the step and leave a ballot for the own validators.
LEMMA VoteSteps ==
  ASSUME ballot \in Ballots, NEW type \in Types, NEW x \in Values,
         NEW next \in RuleNames \cup {"idle"}, Vote(type, x, next)
  PROVE  HandlerVotes(type, x, next)
<1>. DEFINE voters == {v \in Local : ~HasMessage(round, type, v)}
<1>1. CASE voters = {}
  BY <1>1, ZenonT(60) DEF Vote, HandlerVotes
<1>2. CASE voters # {}
  <2>1. /\ pc' = "vote"
        /\ ballot' = [type |-> type, value |-> x, voters |-> voters, next |-> next]
    BY <1>2, ZenonT(60) DEF Vote
  <2>2. voters \in SUBSET Local
    BY ZenonT(60)
  <2>. HIDE DEF voters
  <2>3. /\ ballot' \in Ballots
        /\ ballot'.type = type /\ ballot'.value = x /\ ballot'.next = next
        /\ ballot'.voters = voters
    BY <2>1, <2>2, ZenonT(60) DEF Ballots
  <2>. QED BY <2>1, <2>3, ZenonT(60) DEF HandlerVotes, voters
<1>. QED BY <1>1, <1>2, ZenonT(60)

\* What the rules prevote is a block or nil.
LEMMA PrevoteValuesType ==
  ASSUME rounds \in [Rounds -> RoundStates], unit \in Rounds, HasProposal(unit)
  PROVE  /\ PrevoteValues \subseteq Values
         /\ BlockOf(unit) \in Blocks
<1>1. rounds[unit].proposal \in Proposals
  BY ZenonT(60) DEF HasProposal, RoundStates
<1>2. rounds[unit].proposal.block \in Blocks
  BY <1>1, ZenonT(60) DEF Proposals
<1>. QED BY <1>2, ZenonT(60) DEF PrevoteValues, Values, BlockOf

\* The votes that Q makes in a step are of the running block number: votes of peers, or the
\* one the handler signs.
VotesComeIn(type, r, Q, x) ==
  /\ type \in Types /\ r \in Rounds /\ Q \in SUBSET Validators /\ x \in Values
  /\ blockNumber \in 1..MaxBlockNumber
  /\ VotesMade(cast', type, r, Q, x)
  /\ UNCHANGED <<blockNumber, round, step>>
  /\ \/ Q \subseteq Remote /\ UNCHANGED <<pc, ballot>>
     \/ /\ CastVote /\ type = ballot.type /\ r = round /\ x = ballot.value
        /\ \E v \in ballot.voters : Q = {v} /\ (pc' = "vote" => ballot' =
             [ballot EXCEPT !.voters = ballot.voters \ {v}])

\* A step makes no votes, or votes of one kind, round and value that were not made before.
LEMMA CastSteps ==
  ASSUME IInv, [Next]_vars
  PROVE  UNCHANGED cast \/ \E type, r, Q, x : VotesComeIn(type, r, Q, x)
<1>. USE RoundFacts DEF position, flags, disk, history
<1>1. FieldsOK /\ HandlerOK /\ RecordsOK /\ PlaceOK
  BY ZenonT(60) DEF IInv
<1>2. cast \in Histories /\ blockNumber \in Nat /\ round \in Rounds
  BY <1>1, ZenonT(60) DEF RecordsOK, FieldsOK
<1>3. Remote \in SUBSET Validators /\ Remote \subseteq Remote
  BY ZenonT(60) DEF Remote
<1>4. blockNumber <= MaxBlockNumber => blockNumber \in 1..MaxBlockNumber
  BY <1>1, <1>2, ConstantsAssumption, SMTT(60) DEF PlaceOK
<1>5. ASSUME NEW type \in Types, NEW r \in Rounds, NEW Q \in SUBSET Remote, NEW x \in Values,
             blockNumber \in 1..MaxBlockNumber,
             cast' = castVotes(type, r, Q, x), UNCHANGED <<position, pc, ballot>>
      PROVE  VotesComeIn(type, r, Q, x)
  <2>1. Q \in SUBSET Validators
    BY <1>3, ZenonT(60)
  <2>. QED BY <1>2, <1>5, <2>1, CastVotes, ZenonT(60) DEF VotesComeIn
<1>6. CASE CastVote
  <2>1. PICK v \in ballot.voters :
          /\ cast' = castVotes(ballot.type, round, {v}, ballot.value)
          /\ LET left == ballot.voters \ {v} IN
             IF left = {} THEN pc' = ballot.next /\ ballot' = NoBallot
             ELSE pc' = pc /\ ballot' = [ballot EXCEPT !.voters = left]
    BY <1>6, ZenonT(60) DEF CastVote
  <2>2. /\ ballot.type \in Types /\ {v} \in SUBSET Validators /\ ballot.value \in Values
        /\ ballot.next # "vote"
    BY <1>1, ConstantsAssumption, ZenonT(60) DEF HandlerOK, Ballots, RuleNames
  <2>3. blockNumber \in 1..MaxBlockNumber
    BY <1>1, <1>2, <1>4, <1>6, ConstantsAssumption, SMTT(60) DEF CastVote, PlaceOK
  <2>4. VotesMade(cast', ballot.type, round, {v}, ballot.value)
    BY <1>2, <2>1, <2>2, <2>3, CastVotes, ZenonT(60)
  <2>5. pc' = "vote" => ballot' = [ballot EXCEPT !.voters = ballot.voters \ {v}]
    BY <2>1, <2>2, ZenonT(60)
  <2>6. UNCHANGED <<blockNumber, round, step>>
    BY <1>6, ZenonT(60) DEF CastVote
  <2>7. VotesComeIn(ballot.type, round, {v}, ballot.value)
    BY <1>2, <1>6, <2>2, <2>3, <2>4, <2>5, <2>6, ZenonT(60) DEF VotesComeIn
  <2>. QED BY <2>7, ZenonT(60)
<1>7. CASE PeersVote
  <2>1. PICK m \in RemoteVotes : ProcessVotes(m[1], m[2], m[3], m[4])
    BY <1>7, ZenonT(60) DEF PeersVote
  <2>2. m[1] \in SUBSET Remote /\ m[2] \in Types /\ m[3] \in Rounds /\ m[4] \in Values
    BY ConstantsAssumption, ZenonT(60)
  <2>3. /\ cast' = castVotes(m[2], m[3], m[1], m[4]) /\ UNCHANGED <<position, pc, ballot>>
        /\ blockNumber <= MaxBlockNumber
    BY <2>1, ZenonT(60) DEF ProcessVotes, Accepts
  <2>4. VotesComeIn(m[2], m[3], m[1], m[4])
    BY <1>4, <1>5, <2>2, <2>3, ZenonT(60)
  <2>. QED BY <2>4, ZenonT(60)
<1>8. CASE PeersPropose
  <2>1. PICK p \in RemoteProposals : ProcessProposalOf(p)
    BY <1>8, ZenonT(60) DEF PeersPropose
  <2>2. CASE ~p.proven
    BY <2>1, <2>2, ZenonT(60) DEF ProcessProposalOf
  <2>3. CASE p.proven
    <3>1. p.validRound \in Rounds /\ p.block \in Values
      BY <2>3, ConstantsAssumption, ZenonT(60) DEF Proposals, Values
    <3>2. /\ cast' = castVotes("prevote", p.validRound, Remote, p.block)
          /\ UNCHANGED <<position, pc, ballot>> /\ blockNumber <= MaxBlockNumber
      BY <2>1, <2>3, ZenonT(60) DEF ProcessProposalOf, Accepts
    <3>3. VotesComeIn("prevote", p.validRound, Remote, p.block)
      BY <1>3, <1>4, <1>5, <3>1, <3>2, ZenonT(60) DEF Types
    <3>. QED BY <3>3, ZenonT(60)
  <2>. QED BY <2>2, <2>3, ZenonT(60)
<1>9. CASE PeersCommit
  <2>1. PICK c \in Commits : ProcessCommit(c[1], c[2])
    BY <1>9, ZenonT(60) DEF PeersCommit
  <2>2. c[1] \in Rounds /\ c[2] \in Values
    BY ConstantsAssumption, ZenonT(60) DEF Values
  <2>3. /\ cast' = castVotes("precommit", c[1], Remote, c[2])
        /\ UNCHANGED <<position, pc, ballot>> /\ blockNumber <= MaxBlockNumber
    BY <2>1, ZenonT(60) DEF ProcessCommit
  <2>4. VotesComeIn("precommit", c[1], Remote, c[2])
    BY <1>3, <1>4, <1>5, <2>2, <2>3, ZenonT(60) DEF Types
  <2>. QED BY <2>4, ZenonT(60)
<1>. QED BY <1>6, <1>7, <1>8, <1>9, Writers, ZenonT(60)

\* Votes are only ever added to the history.
LEMMA CastGrows ==
  ASSUME IInv, [Next]_vars
  PROVE  /\ cast' \in Histories
         /\ \A type \in Types, n \in 1..MaxBlockNumber : cast[type][n] \subseteq cast'[type][n]
<1>1. cast \in Histories
  BY ZenonT(60) DEF IInv, RecordsOK
<1>2. ASSUME NEW type, NEW r, NEW Q, NEW x, VotesComeIn(type, r, Q, x)
      PROVE  /\ cast' \in Histories
             /\ \A t \in Types, n \in 1..MaxBlockNumber : cast[t][n] \subseteq cast'[t][n]
  BY <1>2, ZenonT(60) DEF VotesComeIn, VotesMade
<1>. QED BY <1>1, <1>2, CastSteps, ZenonT(60)

\* A decided block stays decided, and a proof stays one.
LEMMA MajoritiesStay ==
  ASSUME IInv, [Next]_vars, NEW n \in 1..MaxBlockNumber
  PROVE  /\ \A x : Decided(n, x) => Decided(n, x)'
         /\ \A p : HasProof(n, p) => HasProof(n, p)'
<1>1. cast.precommit[n] \subseteq cast'.precommit[n] /\ cast.prevote[n] \subseteq cast'.prevote[n]
  BY CastGrows, ZenonT(60) DEF Types
<1>2. ASSUME NEW x, Decided(n, x)
      PROVE  Decided(n, x)'
  <2>1. PICK r \in Rounds : isMajorityOf(Precommitters(n, r, x))
    BY <1>2, ZenonT(60) DEF Decided
  <2>2. /\ Precommitters(n, r, x) \in SUBSET Validators
        /\ Precommitters(n, r, x)' \in SUBSET Validators
        /\ Precommitters(n, r, x) \subseteq Precommitters(n, r, x)'
    BY <1>1, ZenonT(60) DEF Precommitters
  <2>3. isMajorityOf(Precommitters(n, r, x)')
    BY <2>1, <2>2, MajorityGrows, ZenonT(60)
  <2>. QED BY <2>3, ZenonT(60) DEF Decided, isMajorityOf, Precommitters
<1>3. ASSUME NEW p, HasProof(n, p)
      PROVE  HasProof(n, p)'
  <2>1. CASE p.validRound # None
    <3>1. /\ Prevoters(n, p.validRound, p.block) \in SUBSET Validators
          /\ Prevoters(n, p.validRound, p.block)' \in SUBSET Validators
          /\ Prevoters(n, p.validRound, p.block) \subseteq Prevoters(n, p.validRound, p.block)'
      BY <1>1, ZenonT(60) DEF Prevoters
    <3>2. isMajorityOf(Prevoters(n, p.validRound, p.block)')
      BY <1>3, <2>1, <3>1, MajorityGrows, ZenonT(60) DEF HasProof
    <3>. QED BY <1>3, <2>1, <3>2, ZenonT(60) DEF HasProof, isMajorityOf, Prevoters
  <2>2. CASE p.validRound = None
    BY <2>2, ZenonT(60) DEF HasProof
  <2>. QED BY <2>1, <2>2, ZenonT(60)
<1>. QED BY <1>2, <1>3, ZenonT(60)

-------------------------------------------------------------------------------
(* The initial state.                                                      *)

\* A node that starts on an empty store satisfies the invariant.
LEMMA InvariantHolds == MajoritiesGrow /\ Init => IInv
<1>. SUFFICES ASSUME MajoritiesGrow, Init PROVE IInv
  BY ZenonT(60)
<1>. USE ConstantsAssumption, RoundFacts
<1>1. FieldsOK
  BY ZenonT(60) DEF Init, FieldsOK, Steps
<1>2. rounds = [r \in Rounds |-> EmptyRound] /\ EmptyRound \in RoundStates
  BY SMTT(60) DEF Init, EmptyRound, RoundStates
<1>3. \A r \in Rounds : /\ ~HasProposal(r) /\ rounds[r].result = "none"
                        /\ \A type \in Types : rounds[r][type] = {}
  BY <1>2, SMTT(60) DEF EmptyRound, HasProposal, Types
<1>4. RoundsOK
  BY <1>2, <1>3, SMTT(60) DEF RoundsOK
<1>5. HandlerOK
  BY SMTT(60) DEF Init, HandlerOK, Ballots, NoBallot, Types, Values
<1>6. QueuesOK
  BY ZenonT(60) DEF Init, QueuesOK, Pending
<1>7. RecordsOK
  <2>1. /\ store = EmptyStore /\ storeNumber = 0 /\ chain = <<>> /\ proposed = {}
        /\ cast = [type \in Types |-> [n \in 1..MaxBlockNumber |-> {}]]
        /\ crashes = 0 /\ forgot = FALSE
    BY ZenonT(60) DEF Init
  <2>2. cast \in Histories
    BY <2>1, ZenonT(60) DEF Histories
  <2>3. chain \in Seq(ValidBlocks) /\ storeNumber \in Nat /\ crashes \in Nat
    BY <2>1, SMTT(60)
  <2>. QED BY <2>1, <2>2, <2>3, EmptyStoreType, ZenonT(60) DEF RecordsOK
<1>8. PlaceOK
  BY SMTT(60) DEF Init, PlaceOK, isRunning
<1>9. store.messages = {} /\ store.proposals = {} /\ store.state = NoState
  BY SMTT(60) DEF Init, EmptyStore
<1>10. VotesAreCast
  BY <1>3, <1>9, ZenonT(60) DEF Init, VotesAreCast
<1>11. CommitsOK
  BY SMTT(60) DEF Init, CommitsOK, CommitsAreJustified
<1>12. CommitLockOK
  BY ZenonT(60) DEF Init, CommitLockOK
<1>13. StoreInStep
  BY <1>9, SMTT(60) DEF Init, StoreInStep, NoState, State
<1>14. StoreIsOfOneBlock
  BY <1>9, SMTT(60) DEF Init, StoreIsOfOneBlock, NoState, State
<1>15. ValuesAreBehind /\ ValuesOK
  BY SMTT(60) DEF Init, ValuesAreBehind, ValuesOK, None
<1>16. \A type \in Types, n \in 1..MaxBlockNumber : cast[type][n] = {}
  BY ZenonT(60) DEF Init
<1>17. OwnVotesAreBehind /\ OneOwnVote
  BY <1>16, SMTT(60) DEF Init, OwnVotesAreBehind, OneOwnVote
<1>18. OwnProposalsOK
  BY SMTT(60) DEF Init, OwnProposalsOK, Pending
<1>. QED BY <1>1, <1>4, <1>5, <1>6, <1>7, <1>8, <1>10, <1>11, <1>12, <1>13, <1>14,
            <1>15, <1>17, <1>18, ZenonT(60) DEF IInv

===============================================================================
