--------------------------- MODULE ConcurrencyProofs ---------------------------
(***************************************************************************)
(* The commit lock, the processors that run under it, the resize gate of   *)
(* the database and the queue of a worker, for any number of calls,        *)
(* messages, threads, processes and requests.                              *)
(***************************************************************************)
EXTENDS Processors, ResizeGate, Subprocess, TLAPS

-------------------------------------------------------------------------------
(* The lock excludes, for any number of calls.                             *)

\* Every step of a call keeps LockInv (runNonExclusive, runExclusive).
LEMMA LockInvStep ==
  ASSUME LockInv, [LockNext]_lockVars
  PROVE  LockInv'
<1>. USE CallsAssumption DEF LockInv, Calls
<1>1. ASSUME NEW c \in Calls, pc[c] \in {"idle", "woken"}, Wait(c)
      PROVE  LockInv'
  BY <1>1, SMTT(60) DEF Wait
<1>2. ASSUME NEW c \in Calls, pc[c] \in {"idle", "woken"}, exclusivePromise = {},
             StartNonExclusive(c)
      PROVE  LockInv'
  BY <1>2, SMTT(60) DEF StartNonExclusive
<1>3. ASSUME NEW c \in Calls, pc[c] \in {"idle", "woken"}, exclusivePromise = {},
             StartExclusive(c)
      PROVE  LockInv'
  BY <1>3, ZenonT(60) DEF StartExclusive
<1>4. ASSUME NEW c \in Calls, Drained(c)
      PROVE  LockInv'
  BY <1>4, ZenonT(60) DEF Drained
<1>5. ASSUME NEW c \in Calls, Settle(c)
      PROVE  LockInv'
  <2>1. CASE c \in Exclusive
    BY <1>5, <2>1, SMTT(60) DEF Settle
  <2>2. CASE c \notin Exclusive
    BY <1>5, <2>2, SMTT(60) DEF Settle
  <2>. QED BY <2>1, <2>2, ZenonT(60)
<1>6. CASE UNCHANGED lockVars
  BY <1>6, SMTT(60) DEF lockVars
<1>. HIDE DEF LockInv
<1>. QED BY <1>1, <1>2, <1>3, <1>4, <1>5, <1>6, SMTT(60) DEF LockNext, Acquire

\* LockInv is inductive: it holds before any call and every step of a call keeps it.
THEOREM LockInvariant == LockSpec => []LockInv
<1>1. LockInit => LockInv
  BY SMTT(60) DEF LockInit, LockInv, Calls
<1>2. LockInv /\ [LockNext]_lockVars => LockInv'
  BY LockInvStep, SMTT(60)
<1>. QED BY <1>1, <1>2, PTL DEF LockSpec

\* While an exclusive callback runs, no other callback of the lock runs (runExclusive,
\* runNonExclusive), however many calls there are.
THEOREM LockExcludes == LockSpec => []Exclusion
<1>1. LockInv => Exclusion
  BY SMTT(60) DEF LockInv, Exclusion, Calls
<1>. QED BY <1>1, LockInvariant, PTL

-------------------------------------------------------------------------------
(* The processors.                                                         *)

\* Callbacks run only under the lock, on top of the invariant of the lock itself.
LiveInv ==
  /\ LockInv
  /\ blockNumber \in Int
  /\ stage \in [NonExclusive -> Stages]
  /\ \A c \in NonExclusive : InCallback(c) => pc[c] = "running"
  /\ RoundStatesAreLive

\* The processors and the consensus use the lock by its own steps only.
LEMMA StepsOfTheLock ==
  ASSUME [Next]_vars
  PROVE  [LockNext]_lockVars
<1>1. ASSUME NEW c \in NonExclusive, CallStep(c)
      PROVE  [LockNext]_lockVars
  BY <1>1, SMTT(60)
     DEF CallStep, Process, Answer, Add, Save, SaveFails, Leave, LockNext, lockVars, Calls
<1>2. ASSUME NEW m \in Messages, HandleProposal(m)
      PROVE  [LockNext]_lockVars
  BY <1>2, SMTT(60) DEF HandleProposal, lockVars
<1>3. ASSUME NEW e \in Exclusive, RequestCommit(e) \/ DrainCommit(e) \/ CommitBlock(e)
      PROVE  [LockNext]_lockVars
  BY <1>3, SMTT(60) DEF RequestCommit, DrainCommit, CommitBlock, LockNext, Calls
<1>4. CASE StartRound \/ Dispose \/ CloseStore
  BY <1>4, SMTT(60) DEF StartRound, Dispose, CloseStore, lockVars
<1>5. CASE UNCHANGED vars
  BY <1>5, ZenonT(60) DEF vars, lockVars
<1>. QED BY <1>1, <1>2, <1>3, <1>4, <1>5, ZenonT(60) DEF Next

\* A step of process keeps LiveInv: the first checks fix the block number, and from then on
\* the call holds the lock.
LEMMA CallKeepsLiveInv ==
  ASSUME LiveInv, LockInv', NEW c \in NonExclusive, CallStep(c)
  PROVE  LiveInv'
<1>. USE DEF LiveInv, InCallback, RoundStatesAreLive, Stages, consensusVars, callVars
<1>1. CASE Process(c)
  <2>1. \A d \in NonExclusive : d # c => pc'[d] = pc[d] /\ stage'[d] = stage[d]
    BY <1>1, SMTT(60) DEF Process, Acquire, Wait, StartNonExclusive, StartExclusive, Check,
                SignatureCheck, Returns, LockInv, Calls
  <2>2. CASE pc'[c] = "running"
    <3>1. Check(c) /\ UNCHANGED <<blockNumber, added>>
      BY <1>1, <2>2, ZenonT(60) DEF Process
    <3>2. /\ stage' \in [NonExclusive -> Stages]
          /\ InCallback(c)' => msg[c].blockNumber = blockNumber
      BY <3>1, ZenonT(60) DEF Check, SignatureCheck, Returns, hasValidBlockNumberAndRound
    <3>. QED BY <2>1, <2>2, <3>1, <3>2, ZenonT(60)
  <2>3. CASE pc'[c] # "running"
    <3>1. UNCHANGED <<stage, blockNumber, added>>
      BY <1>1, <2>3, ZenonT(60) DEF Process
    <3>2. ~InCallback(c)
      BY <1>1, ZenonT(60) DEF Process, Acquire
    <3>. QED BY <2>1, <3>1, <3>2, ZenonT(60)
  <2>. QED BY <2>2, <2>3, ZenonT(60)
<1>2. CASE Answer(c)
  <2>1. UNCHANGED <<pc, blockNumber, added>>
    BY <1>2, ZenonT(60) DEF Answer, lockVars
  <2>2. /\ stage' \in [NonExclusive -> Stages]
        /\ \A d \in NonExclusive : InCallback(d)' => InCallback(d)
    BY <1>2, SMTT(60) DEF Answer, Deliver
  <2>. QED BY <2>1, <2>2, ZenonT(60)
<1>3. CASE Add(c)
  BY <1>3, ZenonT(60) DEF Add, Returns, lockVars
<1>4. CASE Save(c) \/ SaveFails(c)
  BY <1>4, ZenonT(60) DEF Save, SaveFails, Returns, lockVars
<1>5. CASE Leave(c)
  <2>1. \A d \in NonExclusive : d # c => pc'[d] = pc[d]
    BY <1>5, CallsAssumption, SMTT(60) DEF Leave, Settle, LockInv, Calls
  <2>2. UNCHANGED <<stage, blockNumber, added>> /\ ~InCallback(c)
    BY <1>5, ZenonT(60) DEF Leave
  <2>. QED BY <2>1, <2>2, ZenonT(60)
<1>. QED BY <1>1, <1>2, <1>3, <1>4, <1>5, ZenonT(60) DEF CallStep

\* A commit keeps LiveInv: when its callback runs no call of process is in its callback.
LEMMA CommitKeepsLiveInv ==
  ASSUME LiveInv, LockInv', NEW e \in Exclusive,
         RequestCommit(e) \/ DrainCommit(e) \/ CommitBlock(e)
  PROVE  LiveInv'
<1>. USE CallsAssumption
     DEF LiveInv, InCallback, RoundStatesAreLive, consensusVars, callVars, messageVars
<1>1. CASE RequestCommit(e)
  <2>1. \A d \in NonExclusive : pc'[d] = pc[d]
    BY <1>1, SMTT(60)
       DEF RequestCommit, Acquire, Wait, StartNonExclusive, StartExclusive, LockInv, Calls
  <2>. QED BY <1>1, <2>1, ZenonT(60) DEF RequestCommit
<1>2. CASE DrainCommit(e)
  <2>1. \A d \in NonExclusive : pc'[d] = pc[d]
    BY <1>2, ZenonT(60) DEF DrainCommit, Drained, LockInv, Calls
  <2>. QED BY <1>2, <2>1, ZenonT(60) DEF DrainCommit
<1>3. CASE CommitBlock(e)
  <2>1. \A d \in NonExclusive : ~InCallback(d)
    BY <1>3, SMTT(60) DEF CommitBlock, Settle, LockInv
  <2>. QED BY <1>3, <2>1, SMTT(60) DEF CommitBlock
<1>. QED BY <1>1, <1>2, <1>3, ZenonT(60)

\* Every step of a call, of the rules and of a commit keeps LiveInv.
THEOREM LiveInvariant == Spec => []LiveInv
<1>1. Init => LiveInv
  BY SMTT(60) DEF Init, LockInit, LiveInv, LockInv, InCallback, RoundStatesAreLive, Stages, Calls
<1>2. ASSUME LiveInv, [Next]_vars
      PROVE  LiveInv'
  <2>1. LockInv'
    BY <1>2, StepsOfTheLock, LockInvStep, ZenonT(60) DEF LiveInv
  <2>2. CASE (\E m \in Messages : HandleProposal(m)) \/ StartRound \/ Dispose \/ CloseStore
             \/ UNCHANGED vars
    BY <1>2, <2>1, <2>2, ZenonT(60)
       DEF HandleProposal, StartRound, Dispose, CloseStore, vars, LiveInv,
       InCallback, RoundStatesAreLive, consensusVars, callVars, messageVars, lockVars
  <2>. QED BY <1>2, <2>1, <2>2, CallKeepsLiveInv, CommitKeepsLiveInv, SMTT(60) DEF Next
<1>. QED BY <1>1, <1>2, PTL DEF Spec

\* The round state a call looked up is live until the call settles, and the round states
\* hold only messages of the current block number (process, onMajorityPrecommit).
THEOREM RoundStatesStayLive == Spec => []RoundStatesAreLive
<1>1. LiveInv => RoundStatesAreLive
  BY SMTT(60) DEF LiveInv
<1>. QED BY <1>1, LiveInvariant, PTL

\* Conflicting messages of a slot are never both in the round states, however many calls
\* verify them at the same time (the second duplicate check of process).
THEOREM OneMessageIsAdded == Spec => []OneMessagePerSlot
<1>1. Init => OneMessagePerSlot
  BY SMTT(60) DEF Init, OneMessagePerSlot
<1>2. ASSUME OneMessagePerSlot, [Next]_vars
      PROVE  OneMessagePerSlot'
  <2>1. ASSUME NEW c \in NonExclusive, Add(c)
        PROVE  OneMessagePerSlot'
    BY <1>2, <2>1, SMTT(60) DEF Add, OneMessagePerSlot, isDuplicate
  <2>2. ASSUME NEW c \in NonExclusive, CallStep(c), ~Add(c)
        PROVE  UNCHANGED added
    BY <2>2, ZenonT(60) DEF CallStep, Process, Answer, Save, SaveFails, Leave
  <2>3. ASSUME NEW e \in Exclusive, RequestCommit(e) \/ DrainCommit(e) \/ CommitBlock(e)
        PROVE  UNCHANGED added \/ added' = {}
    BY <2>3, ZenonT(60) DEF RequestCommit, DrainCommit, CommitBlock, messageVars
  <2>4. CASE (\E m \in Messages : HandleProposal(m)) \/ StartRound \/ Dispose \/ CloseStore
             \/ UNCHANGED vars
    BY <1>2, <2>4, ZenonT(60)
       DEF HandleProposal, StartRound, Dispose, CloseStore, vars, messageVars,
                OneMessagePerSlot
  <2>5. UNCHANGED added \/ added' = {} => OneMessagePerSlot'
    BY <1>2, ZenonT(60) DEF OneMessagePerSlot
  <2>. QED BY <1>2, <2>1, <2>2, <2>3, <2>4, <2>5, ZenonT(60) DEF Next
<1>. QED BY <1>1, <1>2, PTL DEF Spec

\* Only votes share a verification.
PendingAreVotes == \A m \in DOMAIN pendingMessages : m.type # "proposal"

OwnerInv == PendingAreVotes /\ SharedChecksHaveOwner

\* A step that lets nobody begin or end a verification leaves the owners alone.
LEMMA OwnersKept ==
  ASSUME OwnerInv, UNCHANGED pendingMessages,
         \A d \in NonExclusive :
           stage[d] \in {"verifying", "sharing"} \/ stage'[d] \in {"verifying", "sharing"}
             => stage'[d] = stage[d]
  PROVE  OwnerInv'
<1>1. \A d \in NonExclusive : /\ stage'[d] = "verifying" <=> stage[d] = "verifying"
                              /\ stage'[d] = "sharing" <=> stage[d] = "sharing"
  BY ZenonT(60)
<1>2. \A m \in DOMAIN pendingMessages :
        {c \in NonExclusive : stage'[c] = "sharing" /\ msg[c] = m}
          = {c \in NonExclusive : stage[c] = "sharing" /\ msg[c] = m}
  BY <1>1, ZenonT(60)
<1>. QED BY <1>1, <1>2, SMTT(60) DEF OwnerInv, PendingAreVotes, SharedChecksHaveOwner

\* A call that begins to verify owns the entry it makes, or joins the one there is
\* (#signatureCheck).
LEMMA OwnersCheck ==
  ASSUME OwnerInv, stage \in [NonExclusive -> Stages],
         NEW c \in NonExclusive, ~InCallback(c), SignatureCheck(c)
  PROVE  OwnerInv'
<1>. DEFINE m == msg[c]
<1>1. stage[c] \notin {"verifying", "sharing"}
  BY ZenonT(60) DEF InCallback
<1>2. \A d \in NonExclusive : d # c => stage'[d] = stage[d]
  BY ZenonT(60) DEF SignatureCheck
<1>3. CASE m.type = "proposal"
  <2>1. stage'[c] = "verifying" /\ UNCHANGED pendingMessages
    BY <1>3, ZenonT(60) DEF SignatureCheck
  <2>2. m \notin DOMAIN pendingMessages
    BY <1>3, ZenonT(60) DEF OwnerInv, PendingAreVotes
  <2>3. \A n \in DOMAIN pendingMessages :
          {d \in NonExclusive : stage'[d] = "sharing" /\ msg[d] = n}
            = {d \in NonExclusive : stage[d] = "sharing" /\ msg[d] = n}
    BY <1>1, <1>2, <2>1, ZenonT(60)
  <2>. QED BY <1>1, <1>2, <1>3, <2>1, <2>2, <2>3, SMTT(60)
           DEF OwnerInv, PendingAreVotes, SharedChecksHaveOwner
<1>4. CASE m.type # "proposal" /\ m \in DOMAIN pendingMessages
  <2>1. stage'[c] = "sharing" /\ pendingMessages' = [pendingMessages EXCEPT ![m] = @ \cup {c}]
    BY <1>4, ZenonT(60) DEF SignatureCheck
  <2>2. \A n \in DOMAIN pendingMessages :
          {d \in NonExclusive : stage'[d] = "sharing" /\ msg[d] = n}
            = {d \in NonExclusive : stage[d] = "sharing" /\ msg[d] = n}
              \cup (IF n = m THEN {c} ELSE {})
    BY <1>1, <1>2, <2>1, ZenonT(60)
  <2>3. DOMAIN pendingMessages' = DOMAIN pendingMessages
    BY <2>1, ZenonT(60)
  <2>4. \A n \in DOMAIN pendingMessages :
          pendingMessages'[n] = pendingMessages[n] \cup (IF n = m THEN {c} ELSE {})
    BY <1>4, <2>1, ZenonT(60)
  <2>5. \A d \in NonExclusive : stage'[d] = "verifying" <=> stage[d] = "verifying"
    BY <1>1, <1>2, <2>1, ZenonT(60)
  <2>. QED BY <1>2, <1>4, <2>1, <2>2, <2>3, <2>4, <2>5, SMTT(60)
           DEF OwnerInv, PendingAreVotes, SharedChecksHaveOwner
<1>5. CASE m.type # "proposal" /\ m \notin DOMAIN pendingMessages
  <2>1. /\ stage'[c] = "verifying"
        /\ DOMAIN pendingMessages' = DOMAIN pendingMessages \cup {m}
        /\ pendingMessages'[m] = {}
        /\ \A n \in DOMAIN pendingMessages : pendingMessages'[n] = pendingMessages[n]
    BY <1>5, ZenonT(60) DEF SignatureCheck
  <2>2. \A d \in NonExclusive : msg[d] = m => stage[d] \notin {"verifying", "sharing"}
    BY <1>5, ZenonT(60) DEF OwnerInv, SharedChecksHaveOwner
  <2>3. \A n : {d \in NonExclusive : stage'[d] = "sharing" /\ msg[d] = n}
                 = {d \in NonExclusive : stage[d] = "sharing" /\ msg[d] = n}
    BY <1>1, <1>2, <2>1, ZenonT(60)
  <2>4. \A n \in DOMAIN pendingMessages : n # m /\ n.type # "proposal"
    BY <1>5, ZenonT(60) DEF OwnerInv, PendingAreVotes
  <2>. QED BY <1>2, <1>5, <2>1, <2>2, <2>3, <2>4, SMTT(60)
           DEF OwnerInv, PendingAreVotes, SharedChecksHaveOwner
<1>. QED BY <1>3, <1>4, <1>5, SMTT(60)

\* An answer settles the calls that shared it, and the entry goes (#takePendingMessages).
LEMMA OwnersAnswer ==
  ASSUME OwnerInv, stage \in [NonExclusive -> Stages], NEW c \in NonExclusive, Answer(c)
  PROVE  OwnerInv'
<1>. DEFINE m == msg[c]
<1>1. PICK v \in Verdicts(c) : Deliver(c, v, sharing(c))
  BY ZenonT(60) DEF Answer
<1>2. /\ stage[c] = "verifying" /\ stage'[c] \in {"verified", "settled"}
      /\ \A d \in NonExclusive : d \in sharing(c) /\ d # c => stage'[d] = "settled"
      /\ \A d \in NonExclusive : d \notin sharing(c) /\ d # c => stage'[d] = stage[d]
  BY <1>1, ZenonT(60) DEF Answer, Deliver
<1>3. CASE m.type = "proposal"
  <2>1. /\ DOMAIN pendingMessages' = DOMAIN pendingMessages
        /\ \A n \in DOMAIN pendingMessages : pendingMessages'[n] = pendingMessages[n]
        /\ sharing(c) = {}
    BY <1>3, ZenonT(60) DEF Answer, withoutPending, sharing
  <2>2. m \notin DOMAIN pendingMessages
    BY <1>3, ZenonT(60) DEF OwnerInv, PendingAreVotes
  <2>3. \A n : {d \in NonExclusive : stage'[d] = "sharing" /\ msg[d] = n}
                 = {d \in NonExclusive : stage[d] = "sharing" /\ msg[d] = n}
    BY <1>2, <2>1, ZenonT(60)
  <2>. QED BY <1>2, <2>1, <2>2, <2>3, SMTT(60)
              DEF OwnerInv, PendingAreVotes, SharedChecksHaveOwner
<1>4. CASE m.type # "proposal"
  <2>1. m \in DOMAIN pendingMessages
    BY <1>2, <1>4, ZenonT(60) DEF OwnerInv, SharedChecksHaveOwner
  <2>2. sharing(c) = {d \in NonExclusive : stage[d] = "sharing" /\ msg[d] = m}
    BY <1>4, <2>1, ZenonT(60) DEF OwnerInv, SharedChecksHaveOwner, sharing
  <2>3. /\ DOMAIN pendingMessages' = DOMAIN pendingMessages \ {m}
        /\ \A n \in DOMAIN pendingMessages \ {m} : pendingMessages'[n] = pendingMessages[n]
    BY <1>4, ZenonT(60) DEF Answer, withoutPending
  <2>4. \A d \in NonExclusive : stage[d] = "verifying" /\ msg[d] = m => d = c
    BY <1>2, <2>1, SMTT(60) DEF OwnerInv, SharedChecksHaveOwner
  <2>5. \A d \in NonExclusive : msg[d] = m => stage'[d] \notin {"verifying", "sharing"}
    BY <1>2, <2>2, <2>4, ZenonT(60)
  <2>6. \A d \in NonExclusive : msg[d] # m => stage'[d] = stage[d]
    BY <1>2, <2>2, ZenonT(60)
  <2>7. \A n \in DOMAIN pendingMessages' :
          {d \in NonExclusive : stage'[d] = "sharing" /\ msg[d] = n}
            = {d \in NonExclusive : stage[d] = "sharing" /\ msg[d] = n}
    BY <2>3, <2>6, SMTT(60)
  <2>. QED BY <2>3, <2>5, <2>6, <2>7, SMTT(60)
              DEF OwnerInv, PendingAreVotes, SharedChecksHaveOwner
<1>. QED BY <1>3, <1>4, ZenonT(60)

\* Byte for byte equal votes share one verification: the entry of #pendingMessages lists
\* exactly the calls that wait, and has one call that will answer them.
THEOREM SharedChecksAreAnswered == Spec => []SharedChecksHaveOwner
<1>1. Init => OwnerInv
  BY ZenonT(60) DEF Init, OwnerInv, PendingAreVotes, SharedChecksHaveOwner
<1>2. ASSUME LiveInv, OwnerInv, [Next]_vars
      PROVE  OwnerInv'
  <2>1. stage \in [NonExclusive -> Stages]
    BY <1>2, ZenonT(60) DEF LiveInv
  <2>2. ASSUME NEW c \in NonExclusive, Process(c)
        PROVE  OwnerInv'
    <3>1. ~InCallback(c)
      BY <1>2, <2>2, SMTT(60) DEF Process, Acquire, LiveInv
    <3>2. CASE UNCHANGED <<stage, pendingMessages>>
      BY <1>2, <3>2, OwnersKept, SMTT(60)
    <3>3. CASE UNCHANGED pendingMessages /\ stage' = [stage EXCEPT ![c] = "settled"]
      BY <1>2, <2>1, <3>1, <3>3, OwnersKept, SMTT(60) DEF InCallback
    <3>4. CASE SignatureCheck(c)
      BY <1>2, <2>1, <3>1, <3>4, OwnersCheck, SMTT(60)
    <3>. QED BY <2>2, <3>2, <3>3, <3>4, ZenonT(60) DEF Process, Check, Returns, callVars
  <2>3. ASSUME NEW c \in NonExclusive, Answer(c)
        PROVE  OwnerInv'
    BY <1>2, <2>1, <2>3, OwnersAnswer, ZenonT(60)
  <2>4. ASSUME NEW c \in NonExclusive, Add(c) \/ Save(c) \/ SaveFails(c)
        PROVE  OwnerInv'
    <3>1. UNCHANGED pendingMessages /\ stage[c] \in {"verified", "saving"}
      BY <2>4, ZenonT(60) DEF Add, Save, SaveFails
    <3>2. stage' = [stage EXCEPT ![c] = "settled"] \/ stage' = [stage EXCEPT ![c] = "saving"]
      BY <2>4, ZenonT(60) DEF Add, Save, SaveFails, Returns
    <3>. QED BY <1>2, <2>1, <3>1, <3>2, OwnersKept, ZenonT(60)
  <2>5. ASSUME NEW c \in NonExclusive, Leave(c)
        PROVE  OwnerInv'
    BY <1>2, <2>5, OwnersKept, ZenonT(60) DEF Leave, callVars
  <2>6. CASE (\E m \in Messages : HandleProposal(m)) \/ StartRound \/ Dispose \/ CloseStore
             \/ UNCHANGED vars
    BY <1>2, <2>6, OwnersKept, ZenonT(60)
       DEF HandleProposal, StartRound, Dispose, CloseStore, vars,
       messageVars, callVars
  <2>7. ASSUME NEW e \in Exclusive, RequestCommit(e) \/ DrainCommit(e) \/ CommitBlock(e)
        PROVE  OwnerInv'
    BY <1>2, <2>7, OwnersKept, SMTT(60)
       DEF RequestCommit, DrainCommit, CommitBlock, messageVars, callVars
  <2>. QED BY <1>2, <2>2, <2>3, <2>4, <2>5, <2>6, <2>7, ZenonT(60) DEF Next, CallStep
<1>3. OwnerInv => SharedChecksHaveOwner
  BY ZenonT(60) DEF OwnerInv
<1>. QED BY <1>1, <1>2, <1>3, LiveInvariant, PTL DEF Spec

\* What a call has found out about its message.
VerifiedAreValid ==
  \A c \in NonExclusive :
    /\ InCallback(c) => msg[c].eligible
    /\ stage[c] \in {"verified", "saving"} => msg[c].valid

StoredInv == VerifiedAreValid /\ HandledIsStored

\* A call of process verifies before it adds, and adds and stores before the rules act.
LEMMA CallKeepsStoredInv ==
  ASSUME LiveInv, StoredInv, NEW c \in NonExclusive, CallStep(c)
  PROVE  StoredInv'
<1>1. stage \in [NonExclusive -> Stages]
  BY ZenonT(60) DEF LiveInv
<1>2. CASE Process(c)
  <2>1. UNCHANGED <<added, stored, timers, handled>>
    BY <1>2, ZenonT(60) DEF Process
  <2>2. /\ \A d \in NonExclusive : d # c => stage'[d] = stage[d]
        /\ \/ UNCHANGED stage
           \/ stage'[c] = "settled"
           \/ stage'[c] \in {"verifying", "sharing"} /\ msg[c].eligible
    BY <1>1, <1>2, ZenonT(60) DEF Process, Check, SignatureCheck, Returns, callVars
  <2>. QED BY <2>1, <2>2, SMTT(60) DEF StoredInv, VerifiedAreValid, HandledIsStored, InCallback
<1>3. CASE Answer(c)
  <2>1. UNCHANGED <<added, stored, timers, handled>> /\ stage[c] = "verifying"
    BY <1>3, ZenonT(60) DEF Answer
  <2>2. PICK v \in Verdicts(c) : Deliver(c, v, sharing(c))
    BY <1>3, ZenonT(60) DEF Answer
  <2>3. \A d \in NonExclusive :
          stage'[d] \in {stage[d], "settled"} \/ (d = c /\ stage'[d] = "verified" /\ msg[c].valid)
    BY <2>2, ZenonT(60) DEF Deliver, Verdicts
  <2>. QED BY <2>1, <2>3, ZenonT(60) DEF StoredInv, VerifiedAreValid, HandledIsStored, InCallback
<1>4. CASE Add(c)
  <2>1. msg[c].valid /\ msg[c].eligible
    BY <1>4, ZenonT(60) DEF Add, StoredInv, VerifiedAreValid, InCallback
  <2>2. UNCHANGED <<stored, timers, handled>> /\ added' \subseteq added \cup {msg[c]}
    BY <1>4, ZenonT(60) DEF Add
  <2>3. \A d \in NonExclusive : stage'[d] = stage[d] \/ (d = c /\ stage'[d] \in {"saving", "settled"})
    BY <1>1, <1>4, ZenonT(60) DEF Add, Returns
  <2>. QED BY <2>1, <2>2, <2>3, ZenonT(60)
              DEF StoredInv, VerifiedAreValid, HandledIsStored, InCallback
<1>5. CASE Save(c) \/ SaveFails(c)
  <2>1. msg[c].valid /\ msg[c].eligible
    BY <1>5, ZenonT(60) DEF Save, SaveFails, StoredInv, VerifiedAreValid, InCallback
  <2>2. /\ UNCHANGED added
        /\ \/ UNCHANGED <<stored, timers, handled>>
           \/ /\ stored' = stored \cup {msg[c]}
              /\ handled' \cup timers' \subseteq handled \cup timers \cup {msg[c]}
    BY <1>5, ZenonT(60) DEF Save, SaveFails
  <2>3. \A d \in NonExclusive : stage'[d] \in {stage[d], "settled"}
    BY <1>1, <1>5, ZenonT(60) DEF Save, SaveFails, Returns
  <2>. QED BY <2>1, <2>2, <2>3, ZenonT(60)
              DEF StoredInv, VerifiedAreValid, HandledIsStored, InCallback
<1>6. CASE Leave(c)
  BY <1>6, ZenonT(60)
     DEF Leave, callVars, StoredInv, VerifiedAreValid, HandledIsStored, InCallback
<1>. QED BY <1>2, <1>3, <1>4, <1>5, <1>6, SMTT(60) DEF CallStep

\* The rules act only on verified messages that are stored, so that a restart finds what the
\* node acted on (process, handle).
THEOREM RulesActOnStored == Spec => []HandledIsStored
<1>1. Init => StoredInv
  BY ZenonT(60) DEF Init, StoredInv, VerifiedAreValid, HandledIsStored, InCallback
<1>2. ASSUME LiveInv, StoredInv, [Next]_vars
      PROVE  StoredInv'
  <2>. USE DEF StoredInv, VerifiedAreValid, HandledIsStored, InCallback
  <2>1. CASE \E m \in Messages : HandleProposal(m)
    BY <1>2, <2>1, ZenonT(60) DEF HandleProposal, callVars
  <2>2. CASE StartRound \/ Dispose \/ CloseStore \/ UNCHANGED vars
    BY <1>2, <2>2, ZenonT(60) DEF StartRound, Dispose, CloseStore, vars, messageVars, callVars
  <2>3. ASSUME NEW e \in Exclusive, RequestCommit(e) \/ DrainCommit(e) \/ CommitBlock(e)
        PROVE  StoredInv'
    BY <1>2, <2>3, ZenonT(60) DEF RequestCommit, DrainCommit, CommitBlock, messageVars, callVars
  <2>. HIDE DEF StoredInv, VerifiedAreValid, HandledIsStored, InCallback
  <2>. QED BY <1>2, <2>1, <2>2, <2>3, CallKeepsStoredInv, ZenonT(60) DEF Next
<1>3. StoredInv => HandledIsStored
  BY SMTT(60) DEF StoredInv
<1>. QED BY <1>1, <1>2, <1>3, LiveInvariant, PTL DEF Spec

-------------------------------------------------------------------------------
(* The resize gate keeps transactions and remaps apart, the process that   *)
(* commits always maps the whole file, and a commit runs out of retries    *)
(* only if it is larger than they can make room for.                       *)

(* One unit more, whole units.                                             *)
LEMMA NextMapSizeGrows ==
    ASSUME NEW n \in Nat
    PROVE  /\ NextMapSize(n) \in Nat
           /\ n < NextMapSize(n)
           /\ NextMapSize(n) % Unit = 0
           /\ n % Unit = 0 => NextMapSize(n) = n + Unit
<1>0. Unit \in Nat \ {0}
  BY ResizeGateAssumption, SMTT(60)
<1>1. n \div Unit \in Nat /\ n < (n \div Unit) * Unit + Unit
  BY <1>0, SMTT(60)
<1>2. n % Unit = 0 => (n \div Unit) * Unit = n
  BY <1>0, SMTT(60)
<1>3. \A q \in Nat : (q * Unit + Unit) \in Nat /\ (q * Unit + Unit) % Unit = 0
  BY <1>0, SMTT(60)
<1> QED
  BY <1>0, <1>1, <1>2, <1>3, ZenonT(60) DEF NextMapSize

(* A process opens the environment with whole units that hold the file.    *)
LEMMA OpenedCovers ==
    ASSUME NEW n \in Nat
    PROVE  Opened(n) \in Nat /\ n <= Opened(n) /\ Opened(n) % Unit = 0
<1>0. Unit \in Nat \ {0}
  BY ResizeGateAssumption, SMTT(60)
<1>1. Unit % Unit = 0
  BY <1>0, SMTT(60)
<1>2. NextMapSize(n) \in Nat /\ n < NextMapSize(n) /\ NextMapSize(n) % Unit = 0
  BY NextMapSizeGrows, ZenonT(60)
<1>3. CASE n >= Unit
  BY <1>2, <1>3, SMTT(60) DEF Opened
<1>4. CASE ~(n >= Unit)
  BY <1>0, <1>1, <1>4, SMTT(60) DEF Opened
<1> QED
  BY <1>3, <1>4, SMTT(60)

----------------------------------------------------------------------------
(* A thread that remaps is alone: nobody of its process holds a guard.     *)
RemapIsAlone ==
    \A t, u \in Threads : IsRemapping(t) /\ ProcessOf[u] = ProcessOf[t] =>
        ~HasGuard(u) /\ (IsRemapping(u) => u = t)

(* The resizes the running commit has behind it.                           *)
Resizes ==
    IF at[Committer] \in {"resize", "remap"} THEN attempts[Committer] - 1
                                             ELSE attempts[Committer]

(* The committer's map: whole units, and beyond the file one unit for each *)
(* resize of the running commit.                                           *)
RoomIsMade == map[Core] % Unit = 0 /\ disk + Resizes * Unit <= map[Core]

(* The loop of commit_with_resize_retry.                                   *)
RetriesAreCounted ==
    /\ at[Committer] \in {"idle", "done"} => attempts[Committer] = 0
    /\ at[Committer] \in {"call", "guard", "txn"} => attempts[Committer] <= Retries
    /\ at[Committer] \in {"resize", "remap"} =>
          attempts[Committer] >= 1 /\ grow > (attempts[Committer] - 1) * Unit
    /\ CommitFits

GateInv == GateTypeOK /\ RemapIsAlone /\ RoomIsMade /\ RetriesAreCounted

(* The invariant holds when the environment has been opened.               *)
LEMMA GateInvInit == GateInit => GateInv
<1> SUFFICES ASSUME GateInit PROVE GateInv
  BY ZenonT(60)
<1> USE ResizeGateAssumption
<1>1. disk \in Nat /\ Committer \in Threads
  BY SMTT(60) DEF GateInit, Threads
<1>2. GateTypeOK
  BY <1>1, OpenedCovers, SMTT(60) DEF GateInit, GateTypeOK
<1>3. RemapIsAlone
  BY ZenonT(60) DEF GateInit, RemapIsAlone, IsRemapping
<1>4. Resizes = 0
  BY <1>1, ZenonT(60) DEF GateInit, Resizes
<1>5. RoomIsMade
  BY <1>1, <1>4, OpenedCovers, SMTT(60) DEF GateInit, RoomIsMade
<1>6. RetriesAreCounted
  BY <1>1, ZenonT(60) DEF GateInit, RetriesAreCounted, CommitFits
<1> QED
  BY <1>2, <1>3, <1>5, <1>6, SMTT(60) DEF GateInv

(* A step that only moves a thread's program counter to a place where it   *)
(* holds nothing, or to a guard while nobody remaps, keeps remaps alone.   *)
LEMMA AloneKept ==
    ASSUME GateTypeOK, RemapIsAlone, NEW t \in Threads, NEW s,
           at' = [at EXCEPT ![t] = s], s # "remap",
           s \in {"guard", "txn", "done"} => HasGuard(t) \/ MayRead(t)
    PROVE  RemapIsAlone'
<1> SUFFICES ASSUME NEW v \in Threads, NEW u \in Threads,
                    IsRemapping(v)', ProcessOf[u] = ProcessOf[v]
             PROVE  ~HasGuard(u)' /\ (IsRemapping(u)' => u = v)
  BY ZenonT(60) DEF RemapIsAlone
<1>1. v # t /\ IsRemapping(v)
  BY ZenonT(60) DEF IsRemapping, GateTypeOK
<1>2. ~HasGuard(u) /\ (IsRemapping(u) => u = v)
  BY <1>1, ZenonT(60) DEF RemapIsAlone
<1>3. CASE u # t
  BY <1>2, <1>3, ZenonT(60) DEF GateTypeOK, HasGuard, IsRemapping
<1>4. CASE u = t
  <2>1. ~MayRead(t)
    BY <1>1, <1>4, ZenonT(60) DEF MayRead, Peers, IsRemapping
  <2> QED
    BY <1>2, <1>4, <2>1, ZenonT(60) DEF GateTypeOK, HasGuard, IsRemapping
<1> QED
  BY <1>3, <1>4, ZenonT(60)

(* Every step keeps the invariant.                                         *)
LEMMA GateInvNext == GateInv /\ [GateNext]_gateVars => GateInv'
<1> SUFFICES ASSUME GateInv, [GateNext]_gateVars PROVE GateInv'
  BY SMTT(60)
<1> USE ResizeGateAssumption DEF GateInv
<1>0. /\ Committer \in Threads /\ Readers \subseteq Threads
      /\ Unit \in Nat \ {0} /\ Retries \in Nat
      /\ disk \in Nat /\ grow \in Nat /\ map[Core] \in Nat
      /\ attempts[Committer] \in 0 .. (Retries + 1)
  BY ZenonT(60) DEF Threads, GateTypeOK
<1>a. ASSUME NEW t \in Threads, t # Committer, NEW s,
             at' = [at EXCEPT ![t] = s],
             attempts'[Committer] = attempts[Committer],
             UNCHANGED <<disk, map, grow>>
      PROVE  RoomIsMade' /\ RetriesAreCounted'
  <2>1. at'[Committer] = at[Committer]
    BY <1>a, <1>0, ZenonT(60) DEF GateTypeOK
  <2>2. Resizes' = Resizes
    BY <1>a, <2>1, ZenonT(60) DEF Resizes
  <2> QED
    BY <1>a, <2>1, <2>2, ZenonT(60) DEF RoomIsMade, RetriesAreCounted, CommitFits
<1>1. ASSUME NEW t \in Threads, CallRead(t) PROVE GateInv'
  <2>1. GateTypeOK'
    BY <1>1, SMTT(60) DEF CallRead, GateTypeOK
  <2>2. RemapIsAlone'
    BY <1>1, AloneKept, ZenonT(60) DEF CallRead
  <2> QED
    BY <1>1, <1>a, <2>1, <2>2, ZenonT(60) DEF CallRead
<1>2. ASSUME NEW t \in Threads, CallCommit(t) PROVE GateInv'
  <2>1. grow' \in Nat /\ at'[Committer] = "call" /\ attempts'[Committer] = 0
    BY <1>2, <1>0, SMTT(60) DEF CallCommit, GateTypeOK, RetriesAreCounted
  <2>2. GateTypeOK'
    BY <1>2, <2>1, ZenonT(60) DEF CallCommit, GateTypeOK
  <2>3. RemapIsAlone'
    BY <1>2, AloneKept, ZenonT(60) DEF CallCommit
  <2>4. Resizes = 0 /\ Resizes' = 0
    BY <1>2, <2>1, SMTT(60) DEF CallCommit, Resizes, RetriesAreCounted
  <2>5. RoomIsMade'
    BY <1>2, <2>4, SMTT(60) DEF CallCommit, RoomIsMade
  <2>6. RetriesAreCounted'
    BY <2>1, <1>0, SMTT(60) DEF RetriesAreCounted, CommitFits
  <2> QED
    BY <2>2, <2>3, <2>5, <2>6, SMTT(60)
<1>3. ASSUME NEW t \in Threads, TakeGuard(t) PROVE GateInv'
  <2>1. GateTypeOK'
    BY <1>3, SMTT(60) DEF TakeGuard, GateTypeOK
  <2>2. RemapIsAlone'
    BY <1>3, AloneKept, ZenonT(60) DEF TakeGuard
  <2>3. CASE t = Committer
    <3>1. at'[Committer] = "guard" /\ at[Committer] = "call"
      BY <1>3, <2>3, SMTT(60) DEF TakeGuard, GateTypeOK
    <3>2. Resizes' = Resizes
      BY <1>3, <3>1, ZenonT(60) DEF TakeGuard, Resizes
    <3> QED
      BY <1>3, <2>1, <2>2, <3>1, <3>2, SMTT(60)
         DEF TakeGuard, RoomIsMade, RetriesAreCounted, CommitFits
  <2> QED
    BY <1>3, <1>a, <2>1, <2>2, <2>3, ZenonT(60) DEF TakeGuard
<1>4. ASSUME NEW t \in Threads, OpenRead(t) PROVE GateInv'
  <2>0. t # Committer
    BY <1>4, SMTT(60) DEF OpenRead
  <2>1. GateTypeOK' /\ attempts'[Committer] = attempts[Committer]
    BY <1>4, <1>0, <2>0, SMTT(60) DEF OpenRead, GateTypeOK
  <2>2. RemapIsAlone'
    BY <1>4, AloneKept, ZenonT(60) DEF OpenRead, HasGuard
  <2> QED
    BY <1>4, <1>a, <2>0, <2>1, <2>2, ZenonT(60) DEF OpenRead
<1>5. ASSUME NEW t \in Threads, MapResized(t) PROVE GateInv'
  <2>0. t # Committer
    BY <1>5, SMTT(60) DEF MapResized
  <2>1. GateTypeOK' /\ attempts'[Committer] = attempts[Committer]
    BY <1>5, <1>0, <2>0, SMTT(60) DEF MapResized, GateTypeOK
  <2>2. RemapIsAlone'
    BY <1>5, AloneKept, ZenonT(60) DEF MapResized
  <2> QED
    BY <1>5, <1>a, <2>0, <2>1, <2>2, ZenonT(60) DEF MapResized
<1>6. ASSUME NEW t \in Threads, ReadFails(t) PROVE GateInv'
  <2>1. GateTypeOK'
    BY <1>6, SMTT(60) DEF ReadFails, GateTypeOK
  <2>2. RemapIsAlone'
    BY <1>6, AloneKept, ZenonT(60) DEF ReadFails
  <2> QED
    BY <1>6, <1>a, <2>1, <2>2, ZenonT(60) DEF ReadFails
<1>7. ASSUME NEW t \in Threads, OpenWrite(t) PROVE GateInv'
  <2>1. GateTypeOK'
    BY <1>7, ZenonT(60) DEF OpenWrite, GateTypeOK
  <2>2. RemapIsAlone'
    BY <1>7, AloneKept, ZenonT(60) DEF OpenWrite, HasGuard
  <2>3. at'[Committer] = "txn" /\ at[Committer] = "guard"
    BY <1>7, SMTT(60) DEF OpenWrite, GateTypeOK
  <2>4. Resizes' = Resizes
    BY <1>7, <2>3, SMTT(60) DEF OpenWrite, Resizes
  <2> QED
    BY <1>7, <2>1, <2>2, <2>3, <2>4, ZenonT(60)
       DEF OpenWrite, RoomIsMade, RetriesAreCounted, CommitFits
<1>8. ASSUME NEW t \in Threads, Commit(t) PROVE GateInv'
  <2>1. at'[Committer] = "done" /\ attempts'[Committer] = 0
    BY <1>8, SMTT(60) DEF Commit, GateTypeOK
  <2>2. GateTypeOK'
    <3>1. disk' \in Nat /\ grow' \in Nat
      BY <1>8, <1>0, SMTT(60) DEF Commit
    <3>2. growths' \in [Threads -> Nat]
      BY <1>8, SMTT(60) DEF Commit, GateTypeOK
    <3>3. attempts' \in [Threads -> 0 .. (Retries + 1)]
      BY <1>8, <1>0, SMTT(60) DEF Commit, GateTypeOK
    <3> QED
      BY <1>8, <3>1, <3>2, <3>3, ZenonT(60) DEF Commit, GateTypeOK
  <2>3. RemapIsAlone'
    BY <1>8, AloneKept, ZenonT(60) DEF Commit, HasGuard
  <2>4. Resizes' = 0
    BY <2>1, SMTT(60) DEF Resizes
  <2>5. RoomIsMade'
    BY <1>8, <1>0, <2>4, SMTT(60) DEF Commit, RoomIsMade
  <2>6. RetriesAreCounted'
    BY <2>1, ZenonT(60) DEF RetriesAreCounted, CommitFits
  <2> QED
    BY <2>2, <2>3, <2>5, <2>6, SMTT(60)
<1>9. ASSUME NEW t \in Threads, DbFull(t) PROVE GateInv'
  <2>0. /\ t = Committer /\ at[Committer] = "txn" /\ at'[Committer] = "resize"
        /\ attempts'[Committer] = attempts[Committer] + 1
        /\ attempts[Committer] <= Retries
    BY <1>9, ZenonT(60) DEF DbFull, GateTypeOK, RetriesAreCounted
  <2>1. GateTypeOK'
    BY <1>9, <1>0, <2>0, SMTT(60) DEF DbFull, GateTypeOK
  <2>2. RemapIsAlone'
    BY <1>9, AloneKept, ZenonT(60) DEF DbFull
  <2>3. Resizes = attempts[Committer] /\ Resizes' = attempts[Committer]
    BY <1>0, <2>0, SMTT(60) DEF Resizes
  <2>4. RoomIsMade'
    BY <1>9, <2>3, SMTT(60) DEF DbFull, RoomIsMade
  <2>5. grow > attempts[Committer] * Unit
    <3>1. disk + attempts[Committer] * Unit <= map[Core] /\ disk + grow > map[Core]
      BY <1>9, <2>3, SMTT(60) DEF DbFull, RoomIsMade
    <3>2. attempts[Committer] * Unit \in Nat
      BY <1>0, SMTT(60)
    <3> QED
      BY <1>0, <3>1, <3>2, SMTT(60)
  <2>6. RetriesAreCounted'
    <3>1. attempts'[Committer] - 1 = attempts[Committer] /\ attempts'[Committer] >= 1
      BY <1>0, <2>0, SMTT(60)
    <3>2. grow' = grow
      BY <1>9, ZenonT(60) DEF DbFull
    <3> QED
      BY <2>0, <2>5, <3>1, <3>2, ZenonT(60) DEF RetriesAreCounted, CommitFits
  <2> QED
    BY <2>1, <2>2, <2>4, <2>6, SMTT(60)
<1>10. ASSUME NEW t \in Threads, DropTxn(t) PROVE GateInv'
  <2>1. GateTypeOK'
    BY <1>10, SMTT(60) DEF DropTxn, GateTypeOK
  <2>2. RemapIsAlone'
    BY <1>10, AloneKept, ZenonT(60) DEF DropTxn, HasGuard
  <2> QED
    BY <1>10, <1>a, <2>1, <2>2, ZenonT(60) DEF DropTxn
<1>11. ASSUME NEW t \in Threads, DropGuard(t) PROVE GateInv'
  <2>1. GateTypeOK'
    BY <1>11, SMTT(60) DEF DropGuard, GateTypeOK
  <2>2. RemapIsAlone'
    BY <1>11, AloneKept, ZenonT(60) DEF DropGuard
  <2>3. CASE t = Committer
    <3>1. at'[Committer] = "idle" /\ at[Committer] = "done"
      BY <1>11, <2>3, ZenonT(60) DEF DropGuard, GateTypeOK
    <3>2. Resizes' = Resizes
      BY <1>11, <3>1, ZenonT(60) DEF DropGuard, Resizes
    <3> QED
      BY <1>11, <2>1, <2>2, <3>1, <3>2, SMTT(60)
         DEF DropGuard, RoomIsMade, RetriesAreCounted, CommitFits
  <2> QED
    BY <1>11, <1>a, <2>1, <2>2, <2>3, ZenonT(60) DEF DropGuard
<1>12. ASSUME NEW t \in Threads, TakeGate(t) PROVE GateInv'
  <2>1. GateTypeOK'
    BY <1>12, SMTT(60) DEF TakeGate, GateTypeOK
  <2>2. RemapIsAlone'
    <3> SUFFICES ASSUME NEW v \in Threads, NEW u \in Threads,
                        IsRemapping(v)', ProcessOf[u] = ProcessOf[v]
                 PROVE  ~HasGuard(u)' /\ (IsRemapping(u)' => u = v)
      BY ZenonT(60) DEF RemapIsAlone
    <3>1. \A x \in Threads : ProcessOf[x] = ProcessOf[t] => ~HasGuard(x) /\ ~IsRemapping(x)
      BY <1>12, ZenonT(60) DEF TakeGate, MayRemap, Peers
    <3>2. \A x \in Threads : x # t => at'[x] = at[x]
      BY <1>12, ZenonT(60) DEF TakeGate, GateTypeOK
    <3>3. at'[t] = "remap"
      BY <1>12, ZenonT(60) DEF TakeGate, GateTypeOK
    <3> QED
      BY <3>1, <3>2, <3>3, SMTT(60) DEF RemapIsAlone, HasGuard, IsRemapping
  <2>3. CASE t = Committer
    <3>1. at'[Committer] = "remap" /\ at[Committer] = "resize"
      BY <1>12, <2>3, ZenonT(60) DEF TakeGate, GateTypeOK
    <3>2. Resizes' = Resizes
      BY <1>12, <3>1, ZenonT(60) DEF TakeGate, Resizes
    <3> QED
      BY <1>12, <2>1, <2>2, <3>1, <3>2, ZenonT(60)
         DEF TakeGate, RoomIsMade, RetriesAreCounted, CommitFits
  <2> QED
    BY <1>12, <1>a, <2>1, <2>2, <2>3, ZenonT(60) DEF TakeGate
<1>13. ASSUME NEW t \in Threads, Resize(t) PROVE GateInv'
  <2>0. /\ t = Committer /\ at[Committer] = "remap"
        /\ at'[Committer] = ResizeEnds(Committer)
        /\ ResizeEnds(Committer) \in {"failed", "call"}
        /\ map'[Core] = NextMapSize(map[Core])
    BY <1>13, <1>0, ZenonT(60) DEF Resize, ResizeEnds, GateTypeOK
  <2>1. GateTypeOK'
    BY <1>13, <2>0, <1>0, NextMapSizeGrows, ZenonT(60) DEF Resize, GateTypeOK
  <2>2. RemapIsAlone'
    BY <1>13, <2>0, AloneKept, ZenonT(60) DEF Resize
  <2>3. Resizes = attempts[Committer] - 1 /\ Resizes' = attempts[Committer]
    BY <1>13, <2>0, SMTT(60) DEF Resize, Resizes
  <2>4. map'[Core] = map[Core] + Unit /\ map'[Core] % Unit = 0
    BY <2>0, <1>0, NextMapSizeGrows, ZenonT(60) DEF RoomIsMade
  <2>5. (attempts[Committer] - 1) * Unit + Unit = attempts[Committer] * Unit
    BY <1>0, SMTT(60)
  <2>6. RoomIsMade'
    <3>1. disk + (attempts[Committer] - 1) * Unit <= map[Core]
      BY <2>3, SMTT(60) DEF RoomIsMade
    <3>2. (attempts[Committer] - 1) * Unit \in Int /\ attempts[Committer] * Unit \in Int
      BY <1>0, SMTT(60)
    <3>3. disk + attempts[Committer] * Unit <= map[Core] + Unit
      BY <1>0, <2>5, <3>1, <3>2, SMTT(60)
    <3> QED
      BY <1>13, <2>3, <2>4, <3>3, SMTT(60) DEF Resize, RoomIsMade
  <2>7. CASE attempts[Committer] > Retries
    <3>1. at'[Committer] = "failed"
      BY <2>0, <2>7, ZenonT(60) DEF ResizeEnds
    <3>2. attempts[Committer] - 1 = Retries
      BY <1>0, <2>7, SMTT(60)
    <3>3. grow' > Retries * Unit
      BY <1>13, <2>0, <3>2, ZenonT(60) DEF Resize, RetriesAreCounted
    <3> QED
      BY <2>1, <2>2, <2>6, <3>1, <3>3, ZenonT(60) DEF RetriesAreCounted, CommitFits
  <2>8. CASE ~(attempts[Committer] > Retries)
    <3>1. at'[Committer] = "call"
      BY <2>0, <2>8, ZenonT(60) DEF ResizeEnds
    <3>2. attempts'[Committer] <= Retries
      BY <1>13, <1>0, <2>8, SMTT(60) DEF Resize
    <3> QED
      BY <2>1, <2>2, <2>6, <3>1, <3>2, ZenonT(60) DEF RetriesAreCounted, CommitFits
  <2> QED
    BY <2>7, <2>8, ZenonT(60)
<1>14. ASSUME NEW t \in Threads, Adopt(t) PROVE GateInv'
  <2>0. t # Committer /\ at'[Committer] = at[Committer]
    BY <1>14, <1>0, ZenonT(60) DEF Adopt, GateTypeOK
  <2>1. GateTypeOK'
    BY <1>14, <1>0, NextMapSizeGrows, ZenonT(60) DEF Adopt, GateTypeOK
  <2>2. RemapIsAlone'
    BY <1>14, AloneKept, ZenonT(60) DEF Adopt
  <2>3. Resizes' = Resizes /\ Resizes \in Int
    BY <1>14, <1>0, <2>0, SMTT(60) DEF Adopt, Resizes
  <2>4. map'[Core] = map[Core] \/ (disk >= map[Core] /\ map'[Core] = NextMapSize(disk))
    BY <1>14, <1>0, ZenonT(60) DEF Adopt, GateTypeOK
  <2>5. CASE map'[Core] = map[Core]
    BY <1>14, <2>0, <2>1, <2>2, <2>3, <2>5, ZenonT(60)
       DEF Adopt, RoomIsMade, RetriesAreCounted, CommitFits
  <2>6. CASE disk >= map[Core] /\ map'[Core] = NextMapSize(disk)
    <3>1. map'[Core] \in Nat /\ map[Core] <= map'[Core] /\ map'[Core] % Unit = 0
      <4>1. NextMapSize(disk) \in Nat /\ disk < NextMapSize(disk) /\ NextMapSize(disk) % Unit = 0
        BY <1>0, NextMapSizeGrows, ZenonT(60) DEF GateTypeOK
      <4>2. disk \in Nat /\ map[Core] \in Nat
        BY <1>0, ZenonT(60) DEF GateTypeOK
      <4> QED BY <2>6, <4>1, <4>2, SMTT(60)
    <3>2. Resizes * Unit \in Int
      BY <1>0, <2>3, SMTT(60)
    <3>3. disk + Resizes * Unit <= map'[Core]
      BY <1>0, <3>1, <3>2, SMTT(60) DEF RoomIsMade
    <3> QED
      BY <1>14, <2>0, <2>1, <2>2, <2>3, <3>1, <3>3, ZenonT(60)
         DEF Adopt, RoomIsMade, RetriesAreCounted, CommitFits
  <2> QED
    BY <2>4, <2>5, <2>6, ZenonT(60)
<1>15. ASSUME NEW t \in Threads, Return(t) PROVE GateInv'
  <2>1. GateTypeOK'
    BY <1>15, <1>0, SMTT(60) DEF Return, GateTypeOK
  <2>2. RemapIsAlone'
    BY <1>15, AloneKept, ZenonT(60) DEF Return
  <2>3. CASE t = Committer
    <3>1. at'[Committer] = "idle" /\ attempts'[Committer] = 0
      BY <1>15, <2>3, SMTT(60) DEF Return, GateTypeOK
    <3>2. Resizes' = 0 /\ Resizes \in Nat
      BY <1>0, <1>15, <2>3, <3>1, SMTT(60) DEF Return, Resizes
    <3>3. Resizes * Unit \in Nat
      BY <1>0, <3>2, SMTT(60)
    <3>4. disk <= map[Core]
      BY <1>0, <3>3, SMTT(60) DEF RoomIsMade
    <3> QED
      BY <1>0, <1>15, <2>1, <2>2, <3>1, <3>2, <3>4, SMTT(60)
         DEF Return, RoomIsMade, RetriesAreCounted, CommitFits
  <2>4. CASE t # Committer
    <3>1. attempts'[Committer] = attempts[Committer] /\ grow' = grow
      BY <1>15, <1>0, <2>4, SMTT(60) DEF Return, GateTypeOK
    <3> QED
      BY <1>15, <1>a, <2>1, <2>2, <2>4, <3>1, ZenonT(60) DEF Return
  <2> QED
    BY <2>3, <2>4, ZenonT(60)
<1>16. CASE UNCHANGED gateVars
  BY <1>16, SMTT(60) DEF gateVars, GateTypeOK, RemapIsAlone, HasGuard, IsRemapping, RoomIsMade,
       Resizes, RetriesAreCounted, CommitFits
<1> QED
  BY <1>1, <1>2, <1>3, <1>4, <1>5, <1>6, <1>7, <1>8, <1>9, <1>10, <1>11, <1>12, <1>13,
     <1>14, <1>15, <1>16, ZenonT(60) DEF GateNext, Step

LEMMA GateInvAlways == GateSpec => []GateInv
  BY GateInvInit, GateInvNext, PTL DEF GateSpec

----------------------------------------------------------------------------
(* No transaction of a process is live while one of its threads remaps the *)
(* environment, and no two threads of it remap at once (resize and         *)
(* adopt_grown_map_size against with_read_txn and with_write_txn).         *)
THEOREM RemapIsExclusive == GateSpec => []NoTxnAcrossRemap
<1>1. GateInv => NoTxnAcrossRemap
  BY ZenonT(60) DEF GateInv, RemapIsAlone, NoTxnAcrossRemap, HasGuard, HasTxn, Peers
<1> QED
  BY <1>1, GateInvAlways, PTL

(* The process that commits maps the whole file at all times, so           *)
(* with_write_txn needs no recovery from MapResized.                       *)
THEOREM CommitterMapsFile == GateSpec => []WriterMapsFile
<1>1. GateInv => WriterMapsFile
  <2> SUFFICES ASSUME GateInv PROVE WriterMapsFile
    BY ZenonT(60)
  <2>0. /\ Unit \in Nat /\ disk \in Nat /\ map[Core] \in Nat
        /\ attempts[Committer] \in Nat
    BY ResizeGateAssumption, SMTT(60) DEF GateInv, GateTypeOK, Threads
  <2>1. Resizes \in Nat
    BY <2>0, SMTT(60) DEF GateInv, Resizes, RetriesAreCounted
  <2>2. Resizes * Unit \in Nat
    BY <2>0, <2>1, SMTT(60)
  <2> QED
    BY <2>0, <2>2, SMTT(60) DEF GateInv, RoomIsMade, WriterMapsFile
<1> QED
  BY <1>1, GateInvAlways, PTL

(* commit_with_resize_retry gives up only on a commit that needs more than *)
(* MAX_RESIZE_RETRIES units of new space.                                  *)
THEOREM CommitsFit == GateSpec => []CommitFits
  BY GateInvAlways, PTL DEF GateInv, RetriesAreCounted

\* What a read has behind it: each attempt but the first needs a growth of the file after the
\* map was adopted, and so does giving up.
ReadOK(t) ==
    /\ at[t] \in {"idle", "txn", "done"} => attempts[t] = 0
    /\ attempts[t] <= Retries /\ attempts[t] <= growths[t] + 1
    /\ at[t] \in {"call", "guard"} /\ attempts[t] > 0 /\ disk > map[ProcessOf[t]]
         => attempts[t] <= growths[t]
    /\ at[t] = "failed" => growths[t] >= Retries

ReadInv == \A t \in Readers : ReadOK(t)

\* The types of what ReadOK speaks of.
LEMMA ReadTypes ==
    ASSUME GateInv, NEW t \in Readers
    PROVE  /\ t \in Threads /\ ProcessOf[t] \in Processes /\ t # Committer
           /\ disk \in Nat /\ map[ProcessOf[t]] \in Nat /\ Retries \in Nat /\ grow \in Nat
           /\ attempts[t] \in Nat /\ growths[t] \in Nat
<1>1. Retries \in Nat /\ Retries + 1 \in Nat
  BY ResizeGateAssumption, SMTT(60)
<1>2. attempts[t] \in 0 .. (Retries + 1) /\ t \in Threads /\ t # Committer
  BY ResizeGateAssumption, ZenonT(60) DEF GateInv, GateTypeOK, Threads
<1> QED BY <1>1, <1>2, ResizeGateAssumption, SMTT(60) DEF GateInv, GateTypeOK

\* A step that does not concern a read leaves it alone, unless the file outgrows the map.
LEMMA ReadKept ==
    ASSUME NEW t \in Readers, ReadOK(t),
           at'[t] = at[t], attempts'[t] = attempts[t], growths'[t] = growths[t],
           disk' > map'[ProcessOf[t]] => disk > map[ProcessOf[t]]
    PROVE  ReadOK(t)'
BY SMTT(60) DEF ReadOK

\* Maps only grow, past the file when they are adopted.
LEMMA MapsGrow ==
    ASSUME GateInv, NEW u \in Threads, Resize(u) \/ Adopt(u), NEW t \in Readers
    PROVE  /\ disk' > map'[ProcessOf[t]] => disk > map[ProcessOf[t]]
           /\ Adopt(t) => ~(disk' > map'[ProcessOf[t]])
<1>1. /\ disk \in Nat /\ map \in [Processes -> Nat] /\ Core \in Processes
      /\ ProcessOf[t] \in Processes /\ ProcessOf[u] \in Processes
  BY ResizeGateAssumption, ZenonT(60) DEF GateInv, GateTypeOK, Threads
<1>2. /\ NextMapSize(disk) \in Nat /\ disk < NextMapSize(disk)
      /\ NextMapSize(map[Core]) \in Nat /\ map[Core] < NextMapSize(map[Core])
  BY <1>1, NextMapSizeGrows, ZenonT(60)
<1>3. ASSUME Adopt(t) PROVE ~(disk' > map'[ProcessOf[t]])
  <2>1. /\ disk' = disk
        /\ map' = IF disk >= map[ProcessOf[t]] THEN [map EXCEPT ![ProcessOf[t]] = NextMapSize(disk)]
                  ELSE map
    BY <1>3, ZenonT(60) DEF Adopt
  <2> QED BY <1>1, <1>2, <2>1, SMTT(60)
<1>4. disk' > map'[ProcessOf[t]] => disk > map[ProcessOf[t]]
  <2>1. \/ disk' = disk /\ map' = [map EXCEPT ![Core] = NextMapSize(map[Core])]
        \/ /\ disk' = disk
           /\ map' = IF disk >= map[ProcessOf[u]] THEN [map EXCEPT ![ProcessOf[u]] = NextMapSize(disk)]
                     ELSE map
    BY ZenonT(60) DEF Resize, Adopt
  <2> QED BY <1>1, <1>2, <2>1, SMTT(60)
<1> QED BY <1>3, <1>4, SMTT(60)

\* The steps of a read keep what ReadOK says of it.
LEMMA ReadStep ==
    ASSUME GateInv, NEW t \in Readers, ReadOK(t), CallRead(t) \/ CallCommit(t) \/ Step(t)
    PROVE  ReadOK(t)'
<1>0. /\ t \in Threads /\ ProcessOf[t] \in Processes /\ t # Committer
      /\ disk \in Nat /\ map[ProcessOf[t]] \in Nat /\ Retries \in Nat
      /\ attempts[t] \in Nat /\ growths[t] \in Nat
  BY ReadTypes, ZenonT(60)
<1>1. /\ at \in [Threads -> {"idle", "call", "guard", "txn", "done", "resize", "remap", "failed"}]
      /\ attempts \in [Threads -> 0 .. (Retries + 1)] /\ growths \in [Threads -> Nat]
  BY ZenonT(60) DEF GateInv, GateTypeOK
<1>2. CASE CallRead(t)
  <2>1. /\ at[t] = "idle" /\ at'[t] = "call"
        /\ UNCHANGED <<disk, map, attempts, growths>>
    BY <1>0, <1>1, <1>2, ZenonT(60) DEF CallRead
  <2> QED BY <1>0, <2>1, SMTT(60) DEF ReadOK
<1>3. CASE TakeGuard(t) \/ TakeGate(t)
  <2>1. /\ at[t] \in {"call", "resize"} /\ at'[t] = (IF at[t] = "call" THEN "guard" ELSE "remap")
        /\ UNCHANGED <<disk, map, attempts, growths>>
    BY <1>0, <1>1, <1>3, ZenonT(60) DEF TakeGuard, TakeGate
  <2> QED BY <1>0, <2>1, SMTT(60) DEF ReadOK
<1>4. CASE OpenRead(t) \/ Return(t)
  <2>1. at'[t] \in {"txn", "idle"} /\ attempts'[t] = 0 /\ growths'[t] = 0
    BY <1>0, <1>1, <1>4, ZenonT(60) DEF OpenRead, Return
  <2> QED BY <1>0, <2>1, SMTT(60) DEF ReadOK
<1>5. CASE MapResized(t)
  <2>1. /\ at[t] = "guard" /\ at'[t] = "resize" /\ disk > map[ProcessOf[t]]
        /\ attempts[t] < Retries /\ attempts'[t] = attempts[t] + 1 /\ growths'[t] = growths[t]
    BY <1>0, <1>1, <1>5, ZenonT(60) DEF MapResized
  <2> QED BY <1>0, <2>1, SMTT(60) DEF ReadOK
<1>6. CASE ReadFails(t)
  <2>1. /\ at[t] = "guard" /\ at'[t] = "failed" /\ disk > map[ProcessOf[t]]
        /\ attempts[t] >= Retries /\ UNCHANGED <<attempts, growths>>
    BY <1>0, <1>1, <1>6, ZenonT(60) DEF ReadFails
  <2> QED BY <1>0, <2>1, SMTT(60) DEF ReadOK
<1>7. CASE DropTxn(t) \/ DropGuard(t)
  <2>1. /\ at[t] \in {"txn", "done"} /\ at'[t] \in {"done", "idle"}
        /\ UNCHANGED <<attempts, growths>>
    BY <1>0, <1>1, <1>7, ZenonT(60) DEF DropTxn, DropGuard
  <2> QED BY <1>0, <2>1, SMTT(60) DEF ReadOK
<1>8. CASE Adopt(t)
  <2>1. at[t] = "remap" /\ at'[t] = "call" /\ UNCHANGED <<attempts, growths>>
    BY <1>0, <1>1, <1>8, ZenonT(60) DEF Adopt
  <2>2. ~(disk' > map'[ProcessOf[t]])
    BY <1>0, <1>8, MapsGrow, ZenonT(60)
  <2> QED BY <1>0, <2>1, <2>2, SMTT(60) DEF ReadOK
<1>9. ~(CallCommit(t) \/ OpenWrite(t) \/ Commit(t) \/ DbFull(t) \/ Resize(t))
  BY <1>0, ZenonT(60) DEF CallCommit, OpenWrite, Commit, DbFull, Resize
<1> QED BY <1>2, <1>3, <1>4, <1>5, <1>6, <1>7, <1>8, <1>9, ZenonT(60) DEF Step

\* So do the steps of the other threads: a commit counts as a growth for every read under way.
LEMMA OtherStep ==
    ASSUME GateInv, NEW t \in Readers, ReadOK(t), NEW u \in Threads, u # t,
           CallRead(u) \/ CallCommit(u) \/ Step(u)
    PROVE  ReadOK(t)'
<1>0. /\ t \in Threads /\ ProcessOf[t] \in Processes /\ t # Committer
      /\ disk \in Nat /\ map[ProcessOf[t]] \in Nat /\ Retries \in Nat
      /\ attempts[t] \in Nat /\ growths[t] \in Nat
  BY ReadTypes, ZenonT(60)
<1>1. /\ at \in [Threads -> {"idle", "call", "guard", "txn", "done", "resize", "remap", "failed"}]
      /\ attempts \in [Threads -> 0 .. (Retries + 1)] /\ growths \in [Threads -> Nat]
  BY ZenonT(60) DEF GateInv, GateTypeOK
<1>2. CASE CallRead(u) \/ CallCommit(u) \/ TakeGuard(u) \/ OpenRead(u) \/ MapResized(u)
           \/ ReadFails(u) \/ OpenWrite(u) \/ DbFull(u) \/ DropTxn(u) \/ DropGuard(u)
           \/ TakeGate(u) \/ Return(u)
  <2>1. /\ at'[t] = at[t] /\ attempts'[t] = attempts[t] /\ growths'[t] = growths[t]
        /\ UNCHANGED <<disk, map>>
    BY <1>0, <1>1, <1>2, ZenonT(60) DEF CallRead, CallCommit, TakeGuard, OpenRead, MapResized,
       ReadFails, OpenWrite, DbFull, DropTxn, DropGuard, TakeGate, Return
  <2> QED BY <2>1, ReadKept, ZenonT(60)
<1>3. CASE Resize(u) \/ Adopt(u)
  <2>1. at'[t] = at[t] /\ attempts'[t] = attempts[t] /\ growths'[t] = growths[t]
    BY <1>0, <1>1, <1>3, ZenonT(60) DEF Resize, Adopt
  <2>2. disk' > map'[ProcessOf[t]] => disk > map[ProcessOf[t]]
    BY <1>3, MapsGrow, ZenonT(60)
  <2> QED BY <2>1, <2>2, ReadKept, ZenonT(60)
<1>4. CASE Commit(u)
  <2>1. at'[t] = at[t] /\ attempts'[t] = attempts[t]
    BY <1>0, <1>1, <1>4, ZenonT(60) DEF Commit
  <2>2. growths'[t] = IF IsOpening(t) /\ growths[t] < Retries THEN growths[t] + 1 ELSE growths[t]
    BY <1>0, <1>4, ZenonT(60) DEF Commit
  <2>3. at[t] \in {"call", "guard"} => IsOpening(t)
    BY ZenonT(60) DEF IsOpening
  <2> QED BY <1>0, <2>1, <2>2, <2>3, SMTT(60) DEF ReadOK
<1> QED BY <1>2, <1>3, <1>4, ZenonT(60) DEF Step

\* A read gives up only after the file grew again between each adoption of the grown size and
\* the retry that followed it, for any number of threads, processes and retries (open_read_txn).
THEOREM ReadsGiveUpLate == GateSpec => []ReadsRecover
<1>1. GateInit => ReadInv
  <2> SUFFICES ASSUME GateInit, NEW t \in Readers PROVE ReadOK(t)
    BY ZenonT(60) DEF ReadInv
  <2>1. t \in Threads /\ Retries \in Nat
    BY ResizeGateAssumption, ZenonT(60) DEF Threads
  <2>2. at[t] = "idle" /\ attempts[t] = 0 /\ growths[t] = 0
    BY <2>1, ZenonT(60) DEF GateInit
  <2> QED BY <2>1, <2>2, SMTT(60) DEF ReadOK
<1>2. ASSUME GateInv, ReadInv, [GateNext]_gateVars PROVE ReadInv'
  <2> SUFFICES ASSUME NEW t \in Readers PROVE ReadOK(t)'
    BY ZenonT(60) DEF ReadInv
  <2>1. ReadOK(t)
    BY <1>2, ZenonT(60) DEF ReadInv
  <2>2. CASE UNCHANGED gateVars
    BY <2>1, <2>2, ReadKept, ZenonT(60) DEF gateVars
  <2>3. ASSUME NEW u \in Threads, CallRead(u) \/ CallCommit(u) \/ Step(u) PROVE ReadOK(t)'
    BY <1>2, <2>1, <2>3, ReadStep, OtherStep, ZenonT(60)
  <2> QED BY <1>2, <2>2, <2>3, ZenonT(60) DEF GateNext
<1>3. ReadInv => ReadsRecover
  BY ZenonT(60) DEF ReadInv, ReadOK, ReadsRecover
<1> QED BY <1>1, <1>2, <1>3, GateInvAlways, PTL DEF GateSpec

-------------------------------------------------------------------------------
(* The subprocess.  What has to be added to its invariants is when a drain *)
(* may end: as long as #doDispose waits, or once it has gone on, the calls *)
(* it found are either behind a pending drain promise or settled.          *)

\* The calls that Worker.dispose found are waited for only while its drain is pending; the drain
\* belongs to #doDispose, and its own request comes after it.
EarlyAreDrained ==
  /\ disposal = "idle" => early = {}
  /\ \A c \in early : promise[c] # "none"
  /\ ~draining => early \cap callbacks = {}
  /\ disposal # "drain" => ~draining
  /\ disposal \in {"idle", "drain"} => promise[Last] = "none"

SubprocessInv ==
  /\ SubprocessTypeOK /\ CallbacksArePending /\ DrainHasReason /\ EarlyAreDrained
  /\ EarlyCallsFinish

\* The request of the dispose is a call of its own.
LEMMA LastIsCall == Last \in Ids /\ \A c \in Requests : c # Last /\ c \in Ids
BY SubprocessAssumption, ZenonT(60) DEF Ids

\* Rejecting what is pending keeps the invariant: nothing is waited for any more.
LEMMA RejectLemma ==
  ASSUME SubprocessInv, NEW as \in {"rejected", "cut"}, RejectPending(as),
         as = "cut" => ~draining
  PROVE  /\ promise' \in [Ids -> {"none", "pending"} \cup Settled]
         /\ callbacks' = {} /\ draining' = FALSE
         /\ \A c \in Ids : promise'[c] # "pending"
         /\ \A c \in early : promise'[c] # "cut" /\ promise'[c] # "none"
         /\ promise[Last] = "none" => promise'[Last] = "none"
  <1>1. promise' \in [Ids -> {"none", "pending"} \cup Settled]
    BY ZenonT(60) DEF RejectPending, SubprocessInv, SubprocessTypeOK, Settled
  <1>2. callbacks' = {} /\ draining' = FALSE
    BY ZenonT(60) DEF RejectPending, NotifyDrained
  <1>3. \A c \in Ids : promise'[c] # "pending"
    BY ZenonT(60) DEF RejectPending, SubprocessInv, CallbacksArePending
  <1>4. \A c \in early : promise'[c] # "cut" /\ promise'[c] # "none"
    BY ZenonT(60)
       DEF RejectPending, SubprocessInv, EarlyAreDrained, EarlyCallsFinish, SubprocessTypeOK
  <1>5. promise[Last] = "none" => promise'[Last] = "none"
    BY ZenonT(60) DEF RejectPending, SubprocessInv, CallbacksArePending, Ids
  <1> QED BY <1>1, <1>2, <1>3, <1>4, <1>5, ZenonT(60)

\* The initial state satisfies the invariant.
LEMMA InitInv == SubprocessInit => SubprocessInv
BY LastIsCall, ZenonT(60)
   DEF SubprocessInit, SubprocessInv, SubprocessTypeOK, CallbacksArePending, DrainHasReason,
       EarlyAreDrained, EarlyCallsFinish, Settled

\* Every step preserves it.
LEMMA NextInv == SubprocessInv /\ [SubprocessNext]_subprocessVars => SubprocessInv'
  <1> SUFFICES ASSUME SubprocessInv, [SubprocessNext]_subprocessVars PROVE SubprocessInv'
    BY SMTT(60)
  <1> USE DEF SubprocessInv
  <1>1. ASSUME NEW c \in Ids, SendRequest(c) PROVE SubprocessInv'
    <2>1. CASE Refuse(c)
      BY <1>1, <2>1, LastIsCall, ZenonT(60)
         DEF SendRequest, Refuse, SubprocessTypeOK, CallbacksArePending, DrainHasReason,
         EarlyAreDrained, EarlyCallsFinish, Settled
    <2>2. CASE Post(c)
      BY <1>1, <2>2, LastIsCall, ZenonT(60)
         DEF SendRequest, Post, SubprocessTypeOK, CallbacksArePending, DrainHasReason,
         EarlyAreDrained, EarlyCallsFinish, Settled
    <2>3. CASE PostFails(c)
      BY <1>1, <2>3, LastIsCall, ZenonT(60)
         DEF SendRequest, PostFails, NotifyDrained, SubprocessTypeOK,
         CallbacksArePending, DrainHasReason, EarlyAreDrained, EarlyCallsFinish, Settled
    <2> QED BY <1>1, <2>1, <2>2, <2>3, ZenonT(60) DEF SendRequest
  <1>2. ASSUME NEW c \in Ids, Reply(c) PROVE SubprocessInv'
    BY <1>2, ZenonT(60)
       DEF Reply, SubprocessTypeOK, CallbacksArePending, DrainHasReason, EarlyAreDrained,
       EarlyCallsFinish
  <1>3. ASSUME NEW c \in Ids, OnMessage(c) PROVE SubprocessInv'
    <2>1. promise' \in [Ids -> {"none", "pending"} \cup Settled]
      BY <1>3, ZenonT(60) DEF OnMessage, SubprocessTypeOK, Settled
    <2>2. SubprocessTypeOK'
      BY <1>3, <2>1, ZenonT(60) DEF OnMessage, SubprocessTypeOK, NotifyDrained
    <2>3. CallbacksArePending'
      BY <1>3, <2>1, ZenonT(60) DEF OnMessage, SubprocessTypeOK, CallbacksArePending
    <2>4. DrainHasReason' /\ EarlyAreDrained'
      BY <1>3, LastIsCall, ZenonT(60)
         DEF OnMessage, NotifyDrained, DrainHasReason, EarlyAreDrained,
         SubprocessTypeOK, CallbacksArePending
    <2>5. EarlyCallsFinish'
      BY <1>3, SMTT(60) DEF OnMessage, EarlyCallsFinish, SubprocessTypeOK
    <2> QED BY <2>2, <2>3, <2>4, <2>5, ZenonT(60)
  <1>4. ASSUME NEW c \in Ids, MessageError(c) PROVE SubprocessInv'
    BY <1>4, RejectLemma, ZenonT(60)
       DEF MessageError, SubprocessTypeOK, CallbacksArePending, DrainHasReason,
       EarlyAreDrained, EarlyCallsFinish
  <1>5. CASE WorkerError
    BY <1>5, RejectLemma, ZenonT(60)
       DEF WorkerError, SubprocessTypeOK, CallbacksArePending, DrainHasReason,
       EarlyAreDrained, EarlyCallsFinish
  <1>6. CASE ThreadEnds
    BY <1>6, SMTT(60)
       DEF ThreadEnds, SubprocessTypeOK, CallbacksArePending, DrainHasReason, EarlyAreDrained,
       EarlyCallsFinish
  <1>7. CASE Exit
    <2> DEFINE as == IF disposal = "terminate" THEN "cut" ELSE "rejected"
    <2>1. RejectPending(as) /\ as \in {"rejected", "cut"}
      BY <1>7, SMTT(60) DEF Exit
    <2>2. as = "cut" => ~draining
      BY SMTT(60) DEF EarlyAreDrained
    <2> HIDE DEF as
    <2> QED BY <1>7, <2>1, <2>2, RejectLemma, ZenonT(60)
               DEF Exit, SubprocessTypeOK, CallbacksArePending,
            DrainHasReason, EarlyAreDrained, EarlyCallsFinish
  <1>8. CASE Kill
    BY <1>8, SMTT(60)
       DEF Kill, SubprocessTypeOK, CallbacksArePending, DrainHasReason, EarlyAreDrained,
       EarlyCallsFinish
  <1>9. CASE DisposeWorker
    <2>1. CASE DisposeStarts
      BY <2>1, ZenonT(60)
         DEF DisposeStarts, Drain, SubprocessTypeOK, CallbacksArePending, DrainHasReason,
         EarlyAreDrained, EarlyCallsFinish
    <2>2. CASE DisposeSends
      BY <2>2, LastIsCall, SMTT(60)
         DEF DisposeSends, Refuse, Post, SubprocessTypeOK, CallbacksArePending,
         DrainHasReason, EarlyAreDrained, EarlyCallsFinish, Settled
    <2>3. CASE DisposeEnds
      BY <2>3, SMTT(60) DEF DisposeEnds, SubprocessTypeOK, CallbacksArePending, DrainHasReason,
         EarlyAreDrained, EarlyCallsFinish
    <2> QED BY <1>9, <2>1, <2>2, <2>3, SMTT(60) DEF DisposeWorker
  <1>10. CASE UNCHANGED subprocessVars
    BY <1>10, SMTT(60) DEF subprocessVars, SubprocessTypeOK, CallbacksArePending, DrainHasReason,
       EarlyAreDrained, EarlyCallsFinish
  <1> QED
    BY <1>1, <1>2, <1>3, <1>4, <1>5, <1>6, <1>7, <1>8, <1>9, <1>10, SMTT(60) DEF SubprocessNext

\* The callbacks of the subprocess are the pending promises, for any number of requests.
THEOREM QueueIsExact == SubprocessSpec => []CallbacksArePending
  <1>1. SubprocessInv => CallbacksArePending
    BY SMTT(60) DEF SubprocessInv
  <1> QED BY <1>1, InitInv, NextInv, PTL DEF SubprocessSpec

\* A drain never waits for nothing, so a dispose is not held up for ever by a request that
\* failed (#notifyDrained on every path that empties the map).
THEOREM DrainsHaveReason == SubprocessSpec => []DrainHasReason
  <1>1. SubprocessInv => DrainHasReason
    BY ZenonT(60) DEF SubprocessInv
  <1> QED BY <1>1, InitInv, NextInv, PTL DEF SubprocessSpec

\* No request issued before Worker.dispose is cut off by it, for any number of requests.
THEOREM DisposeIsGraceful == SubprocessSpec => []EarlyCallsFinish
  <1>1. SubprocessInv => EarlyCallsFinish
    BY SMTT(60) DEF SubprocessInv
  <1> QED BY <1>1, InitInv, NextInv, PTL DEF SubprocessSpec

\* A promise settles once, with the first outcome, for any number of requests: a late reply, an
\* error and an exit leave it alone.
THEOREM PromisesSettleOnce == SubprocessSpec => SettledStays
  <1> DEFINE Stays == \A c \in Ids : promise[c] \in Settled => promise'[c] = promise[c]
  <1>1. ASSUME SubprocessInv, [SubprocessNext]_subprocessVars PROVE [Stays]_subprocessVars
    <2> SUFFICES ASSUME NEW c \in Ids, promise[c] \in Settled, SubprocessNext
                 PROVE  promise'[c] = promise[c]
      BY <1>1, ZenonT(60)
    <2>1. c \notin callbacks /\ promise[c] # "none"
      BY <1>1, ZenonT(60) DEF SubprocessInv, CallbacksArePending, Settled
    <2>2. ASSUME NEW d \in Ids, SendRequest(d) \/ Reply(d) \/ OnMessage(d) \/ MessageError(d)
          PROVE  promise'[c] = promise[c]
      BY <1>1, <2>1, <2>2, ZenonT(60)
         DEF SendRequest, Refuse, Post, PostFails, Reply, OnMessage, MessageError,
         RejectPending, SubprocessInv, SubprocessTypeOK
    <2>3. CASE WorkerError \/ ThreadEnds \/ Exit \/ Kill
      BY <2>1, <2>3, ZenonT(60) DEF WorkerError, ThreadEnds, Exit, Kill, RejectPending
    <2>4. CASE DisposeWorker
      <3>1. disposal = "drain" => c # Last
        BY <1>1, <2>1, SMTT(60) DEF SubprocessInv, EarlyAreDrained
      <3> QED BY <1>1, <2>4, <3>1, ZenonT(60)
                 DEF DisposeWorker, DisposeStarts, DisposeSends, DisposeEnds, Refuse,
              Post, SubprocessInv, SubprocessTypeOK
    <2> QED BY <2>2, <2>3, <2>4, ZenonT(60) DEF SubprocessNext
  <1> QED BY <1>1, InitInv, NextInv, PTL DEF SubprocessSpec, SettledStays

================================================================================
