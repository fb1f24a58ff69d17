------------------------------- MODULE Consensus -------------------------------
(***************************************************************************)
(* One node: class Consensus with its round states, scheduler, message and *)
(* proposal processors, consensus store and bootstrapper, against peers    *)
(* that send any votes, proposals and commits of the sets chosen below.    *)
(*                                                                         *)
(* Handlers run under #handlerLock, one at a time, and are interrupted at  *)
(* their awaits: after a rule of applyRules that applies, after a state is *)
(* stored, after each signed vote, around the commit.  There, messages     *)
(* arrive, own votes get counted, timers fire, and the process may crash.  *)
(* pc is where the running handler waits; an action is the code up to its  *)
(* next await.  Rules that do not apply are passed in no time: the code    *)
(* only yields to the microtask queue between them, and messages are added *)
(* on answers of the signature workers.                                    *)
(*                                                                         *)
(* An assignment of round, step, lock or valid value and the #persistState *)
(* awaited right after it are one step: nothing is signed in between, so a *)
(* crash there equals a crash before.                                      *)
(***************************************************************************)
EXTENDS Majority, Sequences, FiniteSets

CONSTANTS
  Validators,       \* round validators, the same at every block number
  Local,            \* the ones registered in the validators repository of this node
  Nil,              \* blockHash undefined
  Blocks,           \* block hashes
  ValidBlocks,      \* the ones BlockProcessor.process accepts
  EarlyBlocks,      \* the ones whose timestamp may be found to be from the future
  ForgedBlocks,     \* the ones the own forger may build
  proposer,         \* proposer[r]: RoundState.proposer
  RemoteVotes,      \* <<Q, type, r, x>>: votes of the validators Q that arrive together
  RemoteProposals,  \* proposals of peers
  Commits,          \* <<r, x>>: commits the block downloader may bring
  MaxRound,         \* bound on rounds
  MaxBlockNumber,   \* bound on the block numbers that are decided
  MaxCrashes        \* bound on crashes

None == -1          \* an undefined round

Remote == Validators \ Local
Rounds == 0..MaxRound
Values == Blocks \cup {Nil}
Types == {"prevote", "precommit"}

\* validRound # None comes with a lock proof; proven: it verifies.
Proposals == [round : Rounds, block : Blocks, validRound : Rounds \cup {None}, proven : BOOLEAN]

NoProposal == [round |-> None, block |-> Nil, validRound |-> None, proven |-> FALSE]

ASSUME ConstantsAssumption ==
  /\ IsFiniteSet(Validators) /\ Local \subseteq Validators
  /\ Nil \notin Blocks
  /\ ForgedBlocks \subseteq ValidBlocks /\ ValidBlocks \subseteq Blocks
  /\ MaxRound \in Nat /\ MaxBlockNumber \in Nat \ {0} /\ MaxCrashes \in Nat
  /\ proposer \in [Rounds -> Validators]
  /\ RemoteVotes \subseteq (SUBSET Remote) \X Types \X Rounds \X Values
  /\ RemoteProposals \subseteq Proposals
  /\ \A p \in RemoteProposals :
       proposer[p.round] \in Remote /\ (p.proven => p.validRound # None)
  /\ Commits \subseteq Rounds \X Blocks

VARIABLES
  status,       \* "booting" (until p2p starts), "up", "down", "refused" to start
  blockNumber, round, step, lockedRound, validRound,   \* fields of Consensus
  didMajorityPrevote, didMajorityPrecommit,
  rounds,       \* the round states of blockNumber
  bootRound,    \* round of the first message checks at this block number
  pc,           \* where the running handler waits, "idle" when #handlerLock is free
  unit,         \* the round state, or the block, the handler works on
  ballot,       \* the votes the handler is signing
  jobs,         \* callers waiting for #handlerLock
  timers,       \* scheduled timeouts
  commitLock,   \* the commit lock is held exclusively
  proposing,    \* the pending #proposalPromise
  inbox,        \* own votes and proposals in their processors
  store,        \* the consensus store
  storeNumber,  \* #blockNumber of the storage service
  chain,        \* blocks committed to the database
  cast,         \* history: all votes made per type and block number, own ones once stored
  proposed,     \* history: own proposals stored
  forgot,       \* history: a restart found records, but no state that names their block
  crashes

position == <<blockNumber, round, step, lockedRound, validRound>>
flags == <<didMajorityPrevote, didMajorityPrecommit>>
disk == <<store, storeNumber>>
history == <<cast, proposed, forgot, crashes>>
vars == <<status, position, flags, rounds, bootRound, pc, unit, ballot, jobs, timers,
          commitLock, proposing, inbox, disk, chain, history>>

-------------------------------------------------------------------------------
(* Round states.                                                           *)

EmptyRound == [proposal |-> NoProposal, result |-> "none", prevote |-> {}, precommit |-> {}]

HasProposal(r) == rounds[r].proposal # NoProposal
HasMessage(r, type, v) == \E x \in Values : <<v, x>> \in rounds[r][type]

isMajorityOf(S) == isMajority(Cardinality(S), Cardinality(Validators))
isMinorityOf(S) == isMinority(Cardinality(S), Cardinality(Validators))

VotersOf(votes, x) == {v \in Validators : <<v, x>> \in votes}

\* hasMajorityPrevotes, hasMajorityPrecommits; a payload is deserialized as soon as
\* there is a processor result.
HasMajority(r, type) ==
  /\ HasProposal(r) /\ rounds[r].result # "none"
  /\ isMajorityOf(VotersOf(rounds[r][type], rounds[r].proposal.block))

HasMajorityAny(r, type) == isMajorityOf(rounds[r][type])

HasMajorityPrevotesNull(r) == isMajorityOf(VotersOf(rounds[r].prevote, Nil))

HasMinority(r) == \E type \in Types : isMinorityOf(rounds[r][type])

BlockOf(r) == rounds[r].proposal.block

addProposal(p) == [rounds EXCEPT ![p.round].proposal = p]

\* addPrevote, addPrecommit: votes of the validators Q for x.
addVotes(type, r, Q, x) == [rounds EXCEPT ![r][type] = @ \cup (Q \X {x})]

\* History: the votes made, with the ones of the validators Q for x.
castVotes(type, r, Q, x) == [cast EXCEPT ![type][blockNumber] = @ \cup (Q \X {r} \X {x})]

-------------------------------------------------------------------------------
(* The consensus store.                                                    *)

State(number, r, s, locked, valid) ==
  [blockNumber |-> number, round |-> r, step |-> s,
   lockedRound |-> locked, validRound |-> valid]

NoState == State(0, 0, "propose", None, None)

EmptyStore == [state |-> NoState, proposals |-> {}, messages |-> {}]

\* Mutant: every write replaces the stored block.
OpenedAnew(number) == IF number >= storeNumber THEN EmptyStore ELSE store

\* Mutant: the records of the earlier block stay.
OpenedAsIs(number) == store

\* #write: the first write of a later block drops the records of the earlier one.
Opened(number) == IF number > storeNumber THEN EmptyStore ELSE store

StoreNumberAfter(number) ==
  storeNumber' = IF number > storeNumber THEN number ELSE storeNumber

SaveState(state) ==
  /\ store' = [Opened(state.blockNumber) EXCEPT !.state = state]
  /\ StoreNumberAfter(state.blockNumber)

\* Mutant: the proposal is not stored.
SaveNoProposal(number, p) == UNCHANGED disk

\* Records are <<block number, proposal>>; the key is the round, whose proposer is fixed.
SaveProposal(number, p) ==
  /\ store' = [Opened(number) EXCEPT
                 !.proposals = {s \in @ : s[2].round # p.round} \cup {<<number, p>>}]
  /\ StoreNumberAfter(number)

\* Mutant: only own votes are stored.
SaveOwnMessages(number, type, r, Q, x) ==
  /\ store' = [Opened(number) EXCEPT
                 !.messages = @ \cup {<<number, type, r, v, x>> : v \in Q \cap Local}]
  /\ StoreNumberAfter(number)

\* Records are <<block number, type, round, validator, value>>.
SaveMessages(number, type, r, Q, x) ==
  /\ store' = [Opened(number) EXCEPT
                 !.messages = {s \in @ : ~(s[2] = type /\ s[3] = r /\ s[4] \in Q)}
                              \cup {<<number, type, r, v, x>> : v \in Q}]
  /\ StoreNumberAfter(number)

\* Mutant: the state is not stored.
PersistNothing == UNCHANGED disk

\* #persistState, for the fields as just assigned.
PersistState == SaveState(State(blockNumber', round', step', lockedRound', validRound'))

-------------------------------------------------------------------------------
(* The start of a round, and the proposal.                                 *)

\* The scheduler keeps one timer of a kind at a time.
isScheduled(kind) == \E t \in timers : t[1] = kind

Pending(p) == [proposal |-> p, due |-> FALSE]

\* createProposal: the valid value with its lock proof, or a new block.
OwnProposals ==
  IF validRound # None
  THEN {[round |-> round, block |-> BlockOf(validRound),
         validRound |-> validRound, proven |-> TRUE]}
  ELSE {[round |-> round, block |-> x, validRound |-> None, proven |-> FALSE] :
         x \in ForgedBlocks}

\* startRound up to the end of #persistState (round 0 is not stored).
EnterRound(r) ==
  /\ round' = r
  /\ step' = "propose"
  /\ didMajorityPrevote' = FALSE /\ didMajorityPrecommit' = FALSE
  /\ pc' = "beginRound"

StartRound(r) ==
  /\ r <= MaxRound
  /\ EnterRound(r)
  /\ UNCHANGED <<blockNumber, lockedRound, validRound>>
  /\ PersistState

\* Mutant: the timers of the earlier round stay.
TimersOfBothRounds == timers \cup {<<"blockPrepare", blockNumber, round>>}

\* Mutant: a round starts without a timer.
TimersOfNoRound == {}

\* Past the propose step the round has its proposal, or its propose timeout, behind it.
TimersOfRound == IF step = "propose" THEN {<<"blockPrepare", blockNumber, round>>} ELSE {}

\* #beginRound and prepareProposal, and on to applyRules of the new round.  Commits that
\* the downloader holds for the block number (pendingCommits) suppress the proposal.
BeginRound ==
  /\ pc = "beginRound" /\ blockNumber <= MaxBlockNumber
  /\ timers' = TimersOfRound
  /\ \/ /\ step = "propose" /\ ~HasProposal(round) /\ proposer[round] \in Local
        /\ \E p \in OwnProposals : proposing' = Pending(p)
     \/ /\ \/ step # "propose" \/ HasProposal(round) \/ proposer[round] \notin Local
           \/ Commits # {}
        /\ proposing' = Pending(NoProposal)
  /\ pc' = "process" /\ unit' = round
  /\ UNCHANGED <<status, position, flags, rounds, bootRound, ballot, jobs, commitLock,
                 inbox, disk, chain, history>>

\* The block prepare timeout.  It runs outside #handlerLock: also while a handler waits.
OnTimeoutBlockPrepare ==
  \E t \in timers :
    /\ t[1] = "blockPrepare"
    /\ timers' = (timers \ {t}) \cup
         IF isScheduled("propose") THEN {} ELSE {<<"propose", blockNumber, round>>}
    /\ proposing' = IF proposing.proposal = NoProposal THEN proposing
                    ELSE [proposing EXCEPT !.due = TRUE]
    /\ UNCHANGED <<status, position, flags, rounds, bootRound, pc, unit, ballot, jobs,
                   commitLock, inbox, disk, chain, history>>

\* ... once the pending proposal is built: it is stored, then handed to the processor.
SubmitProposal ==
  /\ proposing.due
  /\ SaveProposal(blockNumber, proposing.proposal)
  /\ proposed' = proposed \cup {<<blockNumber, proposing.proposal>>}
  /\ inbox' = inbox \cup {<<"proposal", blockNumber, proposing.proposal>>}
  /\ proposing' = Pending(NoProposal)
  /\ UNCHANGED <<status, position, flags, rounds, bootRound, pc, unit, ballot, jobs,
                 timers, commitLock, chain, cast, forgot, crashes>>

\* ... or building it failed.
ProposalFails ==
  /\ proposing.due /\ round < MaxRound
  /\ proposing' = Pending(NoProposal)
  /\ UNCHANGED <<status, position, flags, rounds, bootRound, pc, unit, ballot, jobs,
                 timers, commitLock, inbox, disk, chain, history>>

-------------------------------------------------------------------------------
(* Votes.                                                                  *)

\* prevote(value), precommit(value): sign for the own validators that have not voted.
\* The handler goes on at next.
Vote(type, x, next) ==
  LET voters == {v \in Local : ~HasMessage(round, type, v)} IN
  IF voters = {} THEN pc' = next /\ UNCHANGED ballot
  ELSE /\ pc' = "vote"
       /\ ballot' = [type |-> type, value |-> x, voters |-> voters, next |-> next]

NoBallot == [type |-> "prevote", value |-> Nil, voters |-> {}, next |-> "idle"]

\* One vote is signed and stored; its processing starts in the background.
CastVote ==
  /\ pc = "vote"
  /\ \E v \in ballot.voters :
       LET type == ballot.type
           left == ballot.voters \ {v}
       IN
       /\ SaveMessages(blockNumber, type, round, {v}, ballot.value)
       /\ cast' = castVotes(type, round, {v}, ballot.value)
       /\ inbox' = inbox \cup {<<type, blockNumber, round, v, ballot.value>>}
       /\ IF left = {} THEN pc' = ballot.next /\ ballot' = NoBallot
          ELSE pc' = pc /\ ballot' = [ballot EXCEPT !.voters = left]
  /\ UNCHANGED <<status, position, flags, rounds, bootRound, unit, jobs, timers,
                 commitLock, proposing, chain, proposed, forgot, crashes>>

-------------------------------------------------------------------------------
(* The rules, in the order of applyRules.                                  *)

isCurrentRoundState(u) == u = round

LockProofVerifies(p) == p.validRound = None \/ (p.proven /\ p.validRound < p.round)

\* #processProposal.
MayProcess(u) == HasProposal(u) /\ rounds[u].result = "none"

\* onProposal, onProposalLocked: at most one of them applies to a proposal.
MayPrevote(u) ==
  /\ step = "propose" /\ isCurrentRoundState(u)
  /\ HasProposal(u) /\ rounds[u].result # "none"
  /\ rounds[u].proposal.validRound < round

\* Mutant: +2/3 prevotes for any value lock the proposal.
MayLockOnAny(u) ==
  /\ HasMajorityAny(u, "prevote") /\ ~didMajorityPrevote
  /\ step # "propose" /\ isCurrentRoundState(u) /\ rounds[u].result = "success"

MayLock(u) ==
  /\ HasMajority(u, "prevote")
  /\ ~didMajorityPrevote
  /\ step # "propose" /\ isCurrentRoundState(u)
  /\ rounds[u].result = "success"

MaySchedulePrevote(u) ==
  /\ step = "prevote" /\ isCurrentRoundState(u) /\ HasMajorityAny(u, "prevote")
  /\ ~isScheduled("prevote")

MayPrecommitNil(u) ==
  step = "prevote" /\ isCurrentRoundState(u) /\ HasMajorityPrevotesNull(u)

MaySchedulePrecommit(u) ==
  /\ isCurrentRoundState(u) /\ HasMajorityAny(u, "precommit")
  /\ ~isScheduled("precommit")

\* A round state of any round of the block number commits.
MayCommit(u) == HasMajority(u, "precommit") /\ ~didMajorityPrecommit

MaySkipRound(u) == u > round /\ HasMinority(u)

\* applyRules: the order of the rules, and the ones that apply to round state u now.
Stages == [process |-> 1, proposal |-> 2, prevotes |-> 3, prevotesAny |-> 4,
           prevotesNull |-> 5, precommitsAny |-> 6, precommits |-> 7, minority |-> 8]

Applying(u) ==
  {stage \in DOMAIN Stages :
     \/ stage = "process" /\ MayProcess(u)
     \/ stage = "proposal" /\ MayPrevote(u)
     \/ stage = "prevotes" /\ MayLock(u)
     \/ stage = "prevotesAny" /\ MaySchedulePrevote(u)
     \/ stage = "prevotesNull" /\ MayPrecommitNil(u)
     \/ stage = "precommitsAny" /\ MaySchedulePrecommit(u)
     \/ stage = "precommits" /\ MayCommit(u)
     \/ stage = "minority" /\ MaySkipRound(u)}

\* The rules that apply at or after the place of the handler.
Ahead == {stage \in Applying(unit) : Stages[stage] >= Stages[pc]}

\* The handler runs on to the first of them.
applyRules(stage) ==
  /\ pc \in DOMAIN Stages
  /\ LET ahead == Ahead IN
     stage \in ahead /\ \A other \in ahead : Stages[stage] <= Stages[other]

ProcessProposal ==
  /\ applyRules("process")
  /\ pc' = "proposal"
  /\ LET p == rounds[unit].proposal IN
     rounds' = [rounds EXCEPT ![unit].result =
                  IF LockProofVerifies(p) /\ p.block \in ValidBlocks
                  THEN "success" ELSE "failure"]
  /\ UNCHANGED <<status, position, flags, bootRound, unit, ballot, jobs, timers,
                 commitLock, proposing, inbox, disk, chain, history>>

\* Mutant: a fresh proposal is prevoted in spite of the lock.
PrevoteValuesUnlocked ==
  IF rounds[unit].result = "success" THEN {rounds[unit].proposal.block} ELSE {Nil}

\* What onProposal (validRound undefined) and onProposalLocked prevote.
PrevoteValues ==
  LET p == rounds[unit].proposal
      allowed == IF p.validRound = None THEN lockedRound = None
                 ELSE \/ lockedRound <= p.validRound
                      \/ lockedRound # None /\ BlockOf(lockedRound) = p.block
  IN (IF allowed /\ rounds[unit].result = "success" THEN {p.block} ELSE {Nil})
     \cup (IF p.validRound = None /\ p.block \in EarlyBlocks THEN {Nil} ELSE {})

OnProposal ==
  /\ applyRules("proposal")
  /\ step' = "prevote"
  /\ UNCHANGED <<blockNumber, round, lockedRound, validRound>>
  /\ PersistState
  /\ \E x \in PrevoteValues : Vote("prevote", x, "prevotes")
  /\ UNCHANGED <<status, flags, rounds, bootRound, unit, jobs, timers, commitLock,
                 proposing, inbox, chain, history>>

OnMajorityPrevote ==
  /\ applyRules("prevotes")
  /\ didMajorityPrevote' = TRUE
  /\ validRound' = unit
  /\ IF step = "prevote"
     THEN /\ lockedRound' = unit
          /\ step' = "precommit"
          /\ Vote("precommit", BlockOf(unit), "prevotesAny")
     ELSE /\ UNCHANGED <<lockedRound, step, ballot>>
          /\ pc' = "prevotesAny"
  /\ UNCHANGED <<blockNumber, round>>
  /\ PersistState
  /\ UNCHANGED <<status, didMajorityPrecommit, rounds, bootRound, unit, jobs, timers,
                 commitLock, proposing, inbox, chain, history>>

OnMajorityPrevoteAny ==
  /\ applyRules("prevotesAny")
  /\ timers' = timers \cup {<<"prevote", blockNumber, round>>}
  /\ pc' = "prevotesNull"
  /\ UNCHANGED <<status, position, flags, rounds, bootRound, unit, ballot, jobs,
                 commitLock, proposing, inbox, disk, chain, history>>

OnMajorityPrevoteNull ==
  /\ applyRules("prevotesNull")
  /\ step' = "precommit"
  /\ UNCHANGED <<blockNumber, round, lockedRound, validRound>>
  /\ PersistState
  /\ Vote("precommit", Nil, "precommitsAny")
  /\ UNCHANGED <<status, flags, rounds, bootRound, unit, jobs, timers, commitLock,
                 proposing, inbox, chain, history>>

OnMajorityPrecommitAny ==
  /\ applyRules("precommitsAny")
  /\ timers' = timers \cup {<<"precommit", blockNumber, round>>}
  /\ pc' = "precommits"
  /\ UNCHANGED <<status, position, flags, rounds, bootRound, unit, ballot, jobs,
                 commitLock, proposing, inbox, disk, chain, history>>

\* Mutant: the processor result is not looked at.
OnAnyMajorityPrecommit ==
  /\ applyRules("precommits")
  /\ didMajorityPrecommit' = TRUE
  /\ pc' = "commit" /\ unit' = BlockOf(unit)
  /\ UNCHANGED <<status, position, didMajorityPrevote, rounds, bootRound, ballot, jobs,
                 timers, commitLock, proposing, inbox, disk, chain, history>>

OnMajorityPrecommit ==
  /\ applyRules("precommits")
  /\ didMajorityPrecommit' = TRUE
  /\ IF rounds[unit].result = "success"
     THEN pc' = "commit" /\ unit' = BlockOf(unit)
     ELSE pc' = "minority" /\ UNCHANGED unit
  /\ UNCHANGED <<status, position, didMajorityPrevote, rounds, bootRound, ballot, jobs,
                 timers, commitLock, proposing, inbox, disk, chain, history>>

OnMinorityWithHigherRound ==
  /\ applyRules("minority")
  /\ StartRound(unit)
  /\ UNCHANGED <<status, rounds, bootRound, unit, ballot, jobs, timers, commitLock,
                 proposing, inbox, chain, history>>

\* The handler returns; a commit releases the commit lock with it.
Return ==
  /\ pc \in DOMAIN Stages /\ Ahead = {}
  /\ pc' = "idle" /\ unit' = 0 /\ commitLock' = FALSE
  /\ UNCHANGED <<status, position, flags, rounds, bootRound, ballot, jobs, timers,
                 proposing, inbox, disk, chain, history>>

-------------------------------------------------------------------------------
(* The commit.                                                             *)

\* The commit lock waits for the processors that hold it: own votes pass their checks
\* when they are cast and are added before the commit runs.  BlockProcessor.commit.
Commit ==
  /\ pc = "commit"
  /\ ~commitLock /\ \A m \in inbox : m[1] = "proposal"
  /\ commitLock' = TRUE
  /\ chain' = Append(chain, unit)
  /\ pc' = "committed"
  /\ UNCHANGED <<status, position, flags, rounds, bootRound, unit, ballot, jobs, timers,
                 proposing, inbox, disk, history>>

\* Mutant: the round states of the committed block are kept.
NextBlockKeepsRounds ==
  /\ pc = "committed"
  /\ blockNumber' = blockNumber + 1
  /\ UNCHANGED rounds
  /\ bootRound' = 0
  /\ lockedRound' = None /\ validRound' = None
  /\ EnterRound(0)
  /\ unit' = 0
  /\ timers' = {} /\ proposing' = Pending(NoProposal)
  /\ UNCHANGED <<status, ballot, jobs, commitLock, inbox, disk, chain, history>>

\* The rest of onMajorityPrecommit: the next block number, in round 0, which nothing is
\* stored for: #beginRound drops timers and proposal before the next await.
NextBlock ==
  /\ pc = "committed"
  /\ blockNumber' = blockNumber + 1
  /\ rounds' = [r \in Rounds |-> EmptyRound]
  /\ bootRound' = 0
  /\ lockedRound' = None /\ validRound' = None
  /\ EnterRound(0)
  /\ unit' = 0
  /\ timers' = {} /\ proposing' = Pending(NoProposal)
  /\ UNCHANGED <<status, ballot, jobs, commitLock, inbox, disk, chain, history>>

-------------------------------------------------------------------------------
(* What waits for #handlerLock.                                            *)

Take(job) ==
  /\ pc = "idle"
  /\ jobs' = jobs \ {job}
  /\ UNCHANGED <<status, rounds, bootRound, timers, commitLock, proposing, inbox, chain,
                 history>>

\* handle: a round state of another block number, or one no rule applies to, is left alone.
Handle(job) ==
  /\ job[1] = "round"
  /\ Take(job)
  /\ IF job[2] = blockNumber /\ Applying(job[3]) # {}
     THEN pc' = "process" /\ unit' = job[3]
     ELSE UNCHANGED <<pc, unit>>
  /\ UNCHANGED <<position, flags, ballot, disk>>

\* handleCommitState, with #processBlock.
HandleCommitState(job) ==
  /\ job[1] = "commit"
  /\ Take(job)
  /\ IF job[2] = blockNumber /\ job[3] \in ValidBlocks
     THEN pc' = "commit" /\ unit' = job[3] ELSE UNCHANGED <<pc, unit>>
  /\ UNCHANGED <<position, flags, ballot, disk>>

OnTimeoutPropose(job) ==
  /\ job[1] = "propose"
  /\ Take(job)
  /\ IF job = <<"propose", blockNumber, round>> /\ step = "propose"
     THEN /\ step' = "prevote"
          /\ UNCHANGED <<blockNumber, round, lockedRound, validRound>>
          /\ PersistState
          /\ Vote("prevote", Nil, "idle")
     ELSE UNCHANGED <<position, disk, pc, ballot>>
  /\ UNCHANGED <<flags, unit>>

OnTimeoutPrevote(job) ==
  /\ job[1] = "prevote"
  /\ Take(job)
  /\ IF job = <<"prevote", blockNumber, round>> /\ step = "prevote"
     THEN /\ step' = "precommit"
          /\ UNCHANGED <<blockNumber, round, lockedRound, validRound>>
          /\ PersistState
          /\ Vote("precommit", Nil, "idle")
     ELSE UNCHANGED <<position, disk, pc, ballot>>
  /\ UNCHANGED <<flags, unit>>

OnTimeoutPrecommit(job) ==
  /\ job[1] = "precommit"
  /\ Take(job)
  /\ IF job = <<"precommit", blockNumber, round>>
     THEN StartRound(round + 1)
     ELSE UNCHANGED <<position, flags, disk, pc>>
  /\ UNCHANGED <<unit, ballot>>

\* A timeout of the last round never expires: stage timeouts grow with the round, and
\* MaxRound stands for the first one that is long enough.
TimeoutExpires ==
  \E t \in timers :
    /\ t[1] # "blockPrepare" /\ t[3] < MaxRound
    /\ timers' = timers \ {t}
    /\ jobs' = jobs \cup {t}
    /\ UNCHANGED <<status, position, flags, rounds, bootRound, pc, unit, ballot,
                   commitLock, proposing, inbox, disk, chain, history>>

-------------------------------------------------------------------------------
(* The processors.  They hold the commit lock together, so none runs from the  *)
(* moment a commit asks for it.                                                *)

CommitLockFree == pc \notin {"commit", "committed"} /\ ~commitLock

\* MessageProcessor.process, for own votes.
ProcessOwnVote ==
  \E m \in inbox :
    LET type == m[1]
        r == m[3]
        v == m[4]
    IN
    /\ type \in Types
    /\ inbox' = inbox \ {m}
    /\ rounds' = addVotes(type, r, {v}, m[5])
    /\ SaveMessages(m[2], type, r, {v}, m[5])
    /\ jobs' = jobs \cup {<<"round", m[2], r>>}
    /\ UNCHANGED <<status, position, flags, bootRound, pc, unit, ballot, timers,
                   commitLock, proposing, chain, history>>

\* ProposalProcessor.process, for the own proposal.
ProcessOwnProposal ==
  /\ CommitLockFree
  /\ \E m \in inbox :
       /\ m[1] = "proposal"
       /\ inbox' = inbox \ {m}
       /\ LET p == m[3] IN
          IF m[2] = blockNumber /\ p.round >= round /\ ~HasProposal(p.round)
          THEN /\ rounds' = addProposal(p)
               /\ SaveProposal(blockNumber, p)
               /\ jobs' = jobs \cup {<<"round", blockNumber, p.round>>}
          ELSE UNCHANGED <<rounds, disk, jobs>>
  /\ UNCHANGED <<status, position, flags, bootRound, pc, unit, ballot, timers,
                 commitLock, proposing, chain, history>>

\* Peers are served once p2p is up.  A message is checked against the round when it
\* arrives and added after its signature is verified, when the round may have moved on:
\* any message from bootRound on may still come in.
Accepts(r) ==
  /\ status = "up" /\ CommitLockFree
  /\ blockNumber <= MaxBlockNumber
  /\ r >= bootRound

\* Votes of validators that have not voted yet; others are duplicates.
ProcessVotes(Q, type, r, x) ==
  /\ Accepts(r)
  /\ \A v \in Q : ~HasMessage(r, type, v)
  /\ rounds' = addVotes(type, r, Q, x)
  /\ SaveMessages(blockNumber, type, r, Q, x)
  /\ jobs' = jobs \cup {<<"round", blockNumber, r>>}
  /\ cast' = castVotes(type, r, Q, x)
  /\ UNCHANGED <<status, position, flags, bootRound, pc, unit, ballot, timers,
                 commitLock, proposing, inbox, chain, proposed, forgot, crashes>>

OwnVoters(type, r, x) == {v \in Local : <<v, r, x>> \in cast[type][blockNumber]}

\* The peers can show +2/3 votes: their own, and the ones this node made.
PeersHaveMajority(type, r, x) == isMajorityOf(Remote \cup OwnVoters(type, r, x))

ProcessProposalOf(p) ==
  /\ Accepts(p.round)
  /\ ~HasProposal(p.round)
  /\ p.proven => PeersHaveMajority("prevote", p.validRound, p.block)
  /\ rounds' = addProposal(p)
  /\ SaveProposal(blockNumber, p)
  /\ jobs' = jobs \cup {<<"round", blockNumber, p.round>>}
  /\ cast' = IF p.proven THEN castVotes("prevote", p.validRound, Remote, p.block) ELSE cast
  /\ UNCHANGED <<status, position, flags, bootRound, pc, unit, ballot, timers,
                 commitLock, proposing, inbox, chain, proposed, forgot, crashes>>

\* The block downloader brings a commit whose proof it has verified; CommitProcessor.process
\* queues it.
ProcessCommit(r, x) ==
  /\ status = "up" /\ blockNumber <= MaxBlockNumber
  /\ <<"commit", blockNumber, x>> \notin jobs
  /\ PeersHaveMajority("precommit", r, x)
  /\ jobs' = jobs \cup {<<"commit", blockNumber, x>>}
  /\ cast' = castVotes("precommit", r, Remote, x)
  /\ UNCHANGED <<status, position, flags, rounds, bootRound, pc, unit, ballot, timers,
                 commitLock, proposing, inbox, disk, chain, proposed, forgot, crashes>>

-------------------------------------------------------------------------------
(* Crash and restart.                                                      *)

\* The process ends at any point: everything but the database and the store is lost.
Crash ==
  /\ status \in {"booting", "up"} /\ crashes < MaxCrashes
  /\ status' = "down" /\ crashes' = crashes + 1
  /\ pc' = "idle" /\ unit' = 0 /\ ballot' = NoBallot
  /\ jobs' = {} /\ timers' = {} /\ inbox' = {} /\ proposing' = Pending(NoProposal)
  /\ commitLock' = FALSE
  /\ didMajorityPrevote' = FALSE /\ didMajorityPrecommit' = FALSE
  /\ UNCHANGED <<position, rounds, bootRound, disk, chain, cast, proposed, forgot>>

\* #loadRounds.
LoadedRounds(number) ==
  [r \in Rounds |->
    LET Loaded(type) == {<<s[4], s[5]>> : s \in {t \in store.messages :
                           t[1] = number /\ t[2] = type /\ t[3] = r}}
        found == {s[2] : s \in {t \in store.proposals : t[1] = number /\ t[2].round = r}}
    IN [proposal |-> IF found = {} THEN NoProposal ELSE CHOOSE p \in found : TRUE,
        result |-> "none",
        prevote |-> Loaded("prevote"), precommit |-> Loaded("precommit")]]

\* #getProvenRoundState: the proposal and its +2/3 prevotes are loaded.
isProven(roundState) ==
  /\ roundState.proposal # NoProposal
  /\ isMajorityOf(VotersOf(roundState.prevote, roundState.proposal.block))

\* The storage service reads its block number, the bootstrapper the store, and run sets
\* the fields, or the bootstrapper refuses to start.
Restart ==
  /\ status = "down"
  /\ LET number == Len(chain) + 1
         loaded == LoadedRounds(number)
         stored == IF store.state.blockNumber = number THEN store.state
                   ELSE State(number, 0, "propose", None, None)
         proven == \A r \in {stored.lockedRound, stored.validRound} \ {None} :
                     isProven(loaded[r])
     IN
     /\ storeNumber' = store.state.blockNumber
     /\ forgot' = (forgot \/ (store.state = NoState /\ store # EmptyStore))
     /\ IF proven
        THEN /\ status' = "booting" /\ pc' = "beginRound"
             /\ rounds' = loaded
             /\ blockNumber' = number
             /\ round' = stored.round /\ step' = stored.step
             /\ lockedRound' = stored.lockedRound /\ validRound' = stored.validRound
             /\ bootRound' = stored.round
        ELSE /\ status' = "refused"
             /\ UNCHANGED <<position, rounds, bootRound, pc>>
  /\ UNCHANGED <<flags, unit, ballot, jobs, timers, commitLock, proposing, inbox, store,
                 chain, cast, proposed, crashes>>

\* run returned: p2p boots.
Booted ==
  /\ status = "booting" /\ pc = "idle"
  /\ status' = "up"
  /\ UNCHANGED <<position, flags, rounds, bootRound, pc, unit, ballot, jobs, timers,
                 commitLock, proposing, inbox, disk, chain, history>>

-------------------------------------------------------------------------------

Init ==
  /\ status = "booting" /\ pc = "beginRound"
  /\ blockNumber = 1 /\ round = 0 /\ step = "propose"
  /\ lockedRound = None /\ validRound = None
  /\ didMajorityPrevote = FALSE /\ didMajorityPrecommit = FALSE
  /\ rounds = [r \in Rounds |-> EmptyRound]
  /\ bootRound = 0
  /\ unit = 0 /\ ballot = NoBallot
  /\ jobs = {} /\ timers = {} /\ commitLock = FALSE
  /\ proposing = Pending(NoProposal)
  /\ inbox = {}
  /\ store = EmptyStore /\ storeNumber = 0
  /\ chain = <<>>
  /\ cast = [type \in Types |-> [n \in 1..MaxBlockNumber |-> {}]] /\ proposed = {}
  /\ forgot = FALSE /\ crashes = 0

Rule ==
  \/ ProcessProposal \/ OnProposal \/ OnMajorityPrevote \/ OnMajorityPrevoteAny
  \/ OnMajorityPrevoteNull \/ OnMajorityPrecommitAny \/ OnMajorityPrecommit
  \/ OnMinorityWithHigherRound \/ Return

TakeJob ==
  \E job \in jobs :
    \/ Handle(job) \/ HandleCommitState(job)
    \/ OnTimeoutPropose(job) \/ OnTimeoutPrevote(job) \/ OnTimeoutPrecommit(job)

Node ==
  \/ BeginRound \/ OnTimeoutBlockPrepare \/ SubmitProposal \/ ProposalFails
  \/ Rule \/ CastVote \/ Commit \/ NextBlock \/ TakeJob \/ TimeoutExpires
  \/ ProcessOwnVote \/ ProcessOwnProposal \/ Booted

Peers ==
  \/ \E m \in RemoteVotes : ProcessVotes(m[1], m[2], m[3], m[4])
  \/ \E p \in RemoteProposals : ProcessProposalOf(p)
  \/ \E c \in Commits : ProcessCommit(c[1], c[2])

Next == Node \/ Peers \/ Crash \/ Restart

Spec == Init /\ [][Next]_vars

\* Scheduling: the event loop and the handler lock let every started handler, timer,
\* promise and background task finish; jobs are served.
Fairness ==
  /\ WF_vars(BeginRound \/ Rule \/ CastVote \/ Commit \/ NextBlock)
  /\ WF_vars(TakeJob)
  /\ WF_vars(OnTimeoutBlockPrepare)
  /\ WF_vars(TimeoutExpires)
  /\ WF_vars(SubmitProposal \/ ProposalFails)
  /\ WF_vars(ProcessOwnVote)
  /\ WF_vars(ProcessOwnProposal)

-------------------------------------------------------------------------------

\* Every variable keeps the type the code gives it.
TypeOK ==
  /\ status \in {"booting", "up", "down", "refused"}
  /\ blockNumber \in Nat /\ round \in Rounds /\ bootRound \in Rounds
  /\ step \in {"propose", "prevote", "precommit"}
  /\ {lockedRound, validRound} \subseteq Rounds \cup {None}
  /\ {didMajorityPrevote, didMajorityPrecommit, commitLock} \subseteq BOOLEAN
  /\ \A r \in Rounds :
       /\ rounds[r].proposal \in Proposals \cup {NoProposal}
       /\ rounds[r].result \in {"none", "success", "failure"}
       /\ \A type \in Types : rounds[r][type] \subseteq Validators \X Values
  /\ pc \in DOMAIN Stages \cup {"idle", "vote", "beginRound", "commit", "committed"}
  /\ unit \in Rounds \cup Blocks
  /\ ballot.voters \subseteq Local
  /\ proposing.proposal \in Proposals \cup {NoProposal}
  /\ storeNumber \in Nat
  /\ chain \in Seq(Blocks)

\* An own validator never signs two different votes of one kind for one round, whatever
\* crashes between the stored step, the signed vote and the stored vote (prevote,
\* precommit, #restoreState).
NoEquivocation ==
  \A type \in Types, n \in 1..MaxBlockNumber, v \in Local, r \in Rounds :
    Cardinality({x \in Values : <<v, r, x>> \in cast[type][n]}) <= 1

\* The node never stores, and so never sends, two different proposals for one round: a
\* proposal that is already stored is found again by prepareProposal, unless a restart
\* did not know the block of the stored records.
OneProposalPerRound ==
  ~forgot => \A s, t \in proposed : s[1] = t[1] /\ s[2].round = t[2].round => s = t

\* A proposal that names a valid round brings +2/3 prevotes of that earlier round for its
\* block, also when the valid value was restored from the store (#createProposal).
OwnProposalsAreProven ==
  \A s \in proposed :
    LET p == s[2] IN
    p.validRound # None =>
      /\ p.validRound < p.round
      /\ isMajorityOf({v \in Validators : <<v, p.validRound, p.block>> \in cast.prevote[s[1]]})

\* The locked and the valid value of a running node are round states that hold their
\* proposal and +2/3 prevotes for it, so that it can re-propose them (aggregatePrevotes).
ValuesAreProven ==
  status \in {"booting", "up"} /\ pc # "committed" =>
    \A r \in {lockedRound, validRound} \ {None} : isProven(rounds[r])

\* A timeout of the running round is scheduled, or its handler is waiting for the lock.
isArmed(kind) == <<kind, blockNumber, round>> \in timers \cup jobs

\* A node that has nothing to do waits for a timeout whenever Algorithm 1 says so: in the
\* propose step always, in the prevote step after +2/3 prevotes, and after +2/3
\* precommits, also after a restart or when a timer fired in the middle of a handler.
StepsTimeOut ==
  /\ status = "up" /\ pc = "idle"
  /\ <<"round", blockNumber, round>> \notin jobs /\ inbox = {}
  => /\ step = "propose" => isArmed("blockPrepare") \/ isArmed("propose")
     /\ step = "prevote" /\ HasMajorityAny(round, "prevote") => isArmed("prevote")
     /\ HasMajorityAny(round, "precommit") => isArmed("precommit")

\* The bootstrapper never finds a stored lock or valid value without its proof, unless an
\* earlier restart did not know the block of the stored records (#getProvenRoundState).
StartsAgain == status = "refused" => forgot

\* bootstrapper.test.ts: "the proof of a stored lock or valid value is always stored with
\* it".
ProofIsStored ==
  store.state.blockNumber = Len(chain) + 1 =>
    \A r \in {store.state.lockedRound, store.state.validRound} \ {None} :
      isProven(LoadedRounds(store.state.blockNumber)[r])

\* Every committed block was accepted by the block processor and has +2/3 precommits of
\* one round of its block number (onMajorityPrecommit, handleCommitState).
CommitsAreJustified ==
  \A h \in DOMAIN chain :
    /\ chain[h] \in ValidBlocks
    /\ \E r \in Rounds :
         isMajorityOf({v \in Validators : <<v, r, chain[h]>> \in cast.precommit[h]})

\* A handler never waits for the commit lock it holds itself: the rules that startRound
\* applies inside the lock find nothing to commit.
CommitLockIsFree == pc = "commit" => ~commitLock

\* The store never mixes records of two block numbers, whose keys do not name the block.
OneBlockInStore ==
  LET numbers == {s[1] : s \in store.messages \cup store.proposals} IN
  /\ Cardinality(numbers) <= 1
  /\ store.state # NoState => numbers \subseteq {store.state.blockNumber}

StepNumber == [propose |-> 0, prevote |-> 1, precommit |-> 2]

\* The position of the node, its lock and its valid value never go back, not even across
\* a restart: a later round, or a later step of the round, stays reached.
PositionNeverRegresses ==
  [][ \/ blockNumber' > blockNumber
      \/ /\ blockNumber' = blockNumber
         /\ lockedRound' >= lockedRound /\ validRound' >= validRound
         /\ \/ round' > round
            \/ round' = round /\ StepNumber[step'] >= StepNumber[step] ]_vars

\* A single validator with growing timeouts decides every block number, whatever timers
\* fired, and whatever proposals failed, in the earlier rounds.
Decides == <>(Len(chain) = MaxBlockNumber)

===============================================================================
