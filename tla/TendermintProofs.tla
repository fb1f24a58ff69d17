--------------------------- MODULE TendermintProofs ---------------------------
(***************************************************************************)
(* Proofs about Tendermint for any set of validators, any rounds and any   *)
(* blocks.  The safety of a block number is Agreement; it is a consequence *)
(* of the inductive invariant IInv, whose step proof is laid out one       *)
(* conjunct per lemma.                                                     *)
(***************************************************************************)
EXTENDS Tendermint, FiniteSetTheorems, TLAPS

-------------------------------------------------------------------------------
(* Majorities.                                                             *)

\* Voters of any vote set are round validators, finitely many of them.
LEMMA VotersFinite ==
  ASSUME NEW S \in SUBSET Validators
  PROVE  /\ IsFiniteSet(S)
         /\ Cardinality(S) \in Nat
         /\ Cardinality(Validators) \in Nat
  BY ConstantsAssumption, FS_Subset, FS_CardinalityType, SMTT(60)

\* isMajority is monotone in the set that is counted.
LEMMA MajorityMonotone ==
  ASSUME NEW S \in SUBSET Validators, NEW T \in SUBSET Validators, S \subseteq T,
         isMajority(Cardinality(S), Cardinality(Validators))
  PROVE  isMajority(Cardinality(T), Cardinality(Validators))
<1>1. Cardinality(S) <= Cardinality(T)
  BY VotersFinite, FS_Subset, SMTT(60)
<1>2. /\ Cardinality(S) \in Nat
      /\ Cardinality(T) \in Nat
      /\ Cardinality(Validators) \in Nat
  BY VotersFinite, SMTT(60)
<1>. QED BY <1>1, <1>2, SMTT(60) DEF isMajority

\* Votes are never withdrawn, so +2/3 votes stay +2/3 votes.
LEMMA HasMajorityMonotone ==
  ASSUME NEW old, NEW new, old \subseteq new, NEW r, NEW x,
         HasMajority(old, r, x)
  PROVE  HasMajority(new, r, x)
<1>1. Voters(old, r, x) \subseteq Voters(new, r, x)
  BY SMTT(60) DEF Voters
<1>2. Voters(old, r, x) \in SUBSET Validators /\ Voters(new, r, x) \in SUBSET Validators
  BY SMTT(60) DEF Voters
<1>. QED BY <1>1, <1>2, MajorityMonotone, SMTT(60) DEF HasMajority

\* Two sets of +2/3 of the round validators share a correct validator when less than
\* a third of the validators are faulty (isMajority, is-majority.ts).
LEMMA MajoritiesIntersect ==
  ASSUME FewFaulty,
         NEW S \in SUBSET Validators, NEW T \in SUBSET Validators,
         isMajority(Cardinality(S), Cardinality(Validators)),
         isMajority(Cardinality(T), Cardinality(Validators))
  PROVE  \E v \in Correct : v \in S /\ v \in T
<1>. DEFINE N == Cardinality(Validators)
            F == Cardinality(Faulty)
<1>1. /\ IsFiniteSet(S) /\ Cardinality(S) \in Nat
      /\ IsFiniteSet(T) /\ Cardinality(T) \in Nat
      /\ IsFiniteSet(Faulty) /\ F \in Nat
      /\ N \in Nat
  BY VotersFinite, ConstantsAssumption, SMTT(60)
<1>2. S \cup T \in SUBSET Validators /\ S \cap T \in SUBSET Validators
  BY SMTT(60)
<1>3. /\ Cardinality(S \cup T) \in Nat
      /\ Cardinality(S \cap T) \in Nat
      /\ IsFiniteSet(S \cap T)
  BY <1>2, VotersFinite, SMTT(60)
<1>4. Cardinality(S \cup T) <= N
  BY <1>2, FS_Subset, ConstantsAssumption, SMTT(60)
<1>5. Cardinality(S \cup T) = Cardinality(S) + Cardinality(T) - Cardinality(S \cap T)
  BY <1>1, FS_Union, SMTT(60)
<1>6. Cardinality(S) * 3 > N * 2 /\ Cardinality(T) * 3 > N * 2 /\ F * 3 < N
  BY SMTT(60) DEF isMajority, FewFaulty
<1>7. Cardinality(S \cap T) > F
  <2>. HIDE DEF N, F
  <2>. QED BY <1>1, <1>3, <1>4, <1>5, <1>6, SMTT(60)
<1>8. ~(S \cap T \subseteq Faulty)
  <2>1. S \cap T \subseteq Faulty => Cardinality(S \cap T) <= F
    BY <1>1, FS_Subset, SMTT(60)
  <2>. QED BY <2>1, <1>7, <1>1, <1>3, SMTT(60)
<1>. QED BY <1>8, SMTT(60) DEF Correct

-------------------------------------------------------------------------------
(* Type correctness.                                                       *)

\* A block number starts with well-typed variables.
LEMMA TypeInit == Init => TypeOK
  BY ConstantsAssumption, ZenonT(60) DEF Init, TypeOK, Votes, Values

\* No step leaves the types.
LEMMA TypeStep ==
  ASSUME TypeOK, [Next]_vars
  PROVE  TypeOK'
<1>. USE ConstantsAssumption DEF TypeOK, Values
<1>1. ASSUME NEW n \in Nodes, NEW r \in Rounds, StartRound(n, r)
      PROVE  TypeOK'
  BY <1>1, SMTT(60) DEF StartRound
<1>2. ASSUME NEW n \in Nodes, EnterPrevote(n)
      PROVE  TypeOK'
  BY <1>2, SMTT(60) DEF EnterPrevote
<1>3. ASSUME NEW n \in Nodes, NEW v \in Correct, NEW x \in Values, Prevote(n, v, x)
      PROVE  TypeOK'
  BY <1>3, SMTT(60) DEF Prevote, Votes, Correct
<1>4. ASSUME NEW n \in Nodes, NEW x \in Blocks, Lock(n, x)
      PROVE  TypeOK'
  BY <1>4, SMTT(60) DEF Lock
<1>5. ASSUME NEW n \in Nodes, EnterPrecommit(n)
      PROVE  TypeOK'
  BY <1>5, SMTT(60) DEF EnterPrecommit
<1>6. ASSUME NEW n \in Nodes, NEW v \in Correct, NEW x \in Values, Precommit(n, v, x)
      PROVE  TypeOK'
  BY <1>6, SMTT(60) DEF Precommit, Votes, Correct
<1>7. ASSUME NEW n \in Nodes, NEW r \in Rounds, NEW x \in Blocks, Decide(n, r, x)
      PROVE  TypeOK'
  BY <1>7, SMTT(60) DEF Decide
<1>8. ASSUME NEW Q \in SUBSET Faulty, NEW r \in Rounds, NEW x \in Values,
             FaultyPrevotes(Q, r, x)
      PROVE  TypeOK'
  BY <1>8, SMTT(60) DEF FaultyPrevotes, Votes
<1>9. ASSUME NEW Q \in SUBSET Faulty, NEW r \in Rounds, NEW x \in Values,
             FaultyPrecommits(Q, r, x)
      PROVE  TypeOK'
  BY <1>9, SMTT(60) DEF FaultyPrecommits, Votes
<1>10. CASE UNCHANGED vars
  BY <1>10, SMTT(60) DEF vars
<1>. QED
  BY <1>1, <1>2, <1>3, <1>4, <1>5, <1>6, <1>7, <1>8, <1>9, <1>10, ZenonT(60)
  DEF Next, NodeStep, FaultyStep

\* The variables of Tendermint always have their declared types.
THEOREM TypeCorrect == Spec => []TypeOK
<1>1. TypeOK /\ [Next]_vars => TypeOK'
  BY TypeStep, ZenonT(60)
<1>. QED BY <1>1, TypeInit, PTL DEF Spec

-------------------------------------------------------------------------------
(* What one step can do.                                                   *)

\* v casts the prevote x in this step: the guard of prevote(value) held and nothing
\* but the prevotes changed.
CastsPrevote(v, r, x) ==
  /\ step[host[v]] = "prevote"
  /\ round[host[v]] = r
  /\ ~HasVoted(prevotes, v, r)
  /\ x = Nil \/ AllowedByLock(host[v], x)
  /\ UNCHANGED <<round, step, lockedRound, lockedValue, precommits>>

\* v casts the precommit x in this step.
CastsPrecommit(v, r, x) ==
  /\ step[host[v]] = "precommit"
  /\ round[host[v]] = r
  /\ ~HasVoted(precommits, v, r)
  /\ x = Nil \/ (lockedRound[host[v]] = r /\ lockedValue[host[v]] = x)
  /\ UNCHANGED <<round, step, lockedRound, lockedValue, prevotes>>

\* How a step may move a node: not at all, to its decision, to a later round, or to the
\* next step of its round.
Moves(m) ==
  \/ round'[m] = round[m] /\ step'[m] = step[m]
  \/ step'[m] = "decided"
  \/ step[m] # "decided" /\ round'[m] > round[m]
  \/ round'[m] = round[m] /\ step[m] = "propose" /\ step'[m] = "prevote"
  \/ round'[m] = round[m] /\ step[m] = "prevote" /\ step'[m] = "precommit"

\* The position of a node only moves forward.
LEMMA PositionMoves ==
  ASSUME TypeOK, [Next]_vars, NEW m \in Nodes
  PROVE  Moves(m)
<1>0. /\ round \in [Nodes -> Rounds]
      /\ step \in [Nodes -> {"propose", "prevote", "precommit", "decided"}]
  BY SMTT(60) DEF TypeOK
<1>1. ASSUME NEW n \in Nodes, NEW r \in Rounds, StartRound(n, r)
      PROVE  Moves(m)
  BY <1>0, <1>1, SMTT(60) DEF StartRound, Moves
<1>2. ASSUME NEW n \in Nodes, EnterPrevote(n) \/ EnterPrecommit(n)
      PROVE  Moves(m)
  BY <1>0, <1>2, SMTT(60) DEF EnterPrevote, EnterPrecommit, Moves
<1>3. ASSUME NEW n \in Nodes, NEW x \in Blocks, Lock(n, x)
      PROVE  Moves(m)
  BY <1>0, <1>3, ZenonT(60) DEF Lock, Moves
<1>4. ASSUME NEW n \in Nodes, NEW r \in Rounds, NEW x \in Blocks, Decide(n, r, x)
      PROVE  Moves(m)
  BY <1>0, <1>4, ZenonT(60) DEF Decide, Moves
<1>5. ASSUME UNCHANGED <<round, step>>
      PROVE  Moves(m)
  BY <1>5, ZenonT(60) DEF Moves
<1>. QED
  BY <1>1, <1>2, <1>3, <1>4, <1>5, SMTT(60)
  DEF Next, NodeStep, FaultyStep, vars, Prevote, Precommit, FaultyPrevotes, FaultyPrecommits

\* A node never comes back to a round it has left.
LEMMA HasLeftStays ==
  ASSUME TypeOK, [Next]_vars, NEW v \in Correct, NEW r \in Rounds, HasLeft(v, r)
  PROVE  HasLeft(v, r)'
<1>1. /\ host[v] \in Nodes /\ r \in Nat
      /\ round[host[v]] \in Nat /\ round'[host[v]] \in Nat
  BY TypeStep, ConstantsAssumption, ZenonT(60) DEF TypeOK, Correct
<1>2. Moves(host[v])
  BY <1>1, PositionMoves, SMTT(60)
<1>. QED BY <1>1, <1>2, SMTT(60) DEF Moves, HasLeft

\* Votes are only added, and a vote of a correct validator only by its node, in its round
\* and step.
LEMMA StepSummary ==
  ASSUME TypeOK, [Next]_vars
  PROVE  /\ prevotes \subseteq prevotes'
         /\ precommits \subseteq precommits'
         /\ \A v \in Correct, r \in Rounds, x \in Values :
              /\ <<v, r, x>> \in prevotes' \ prevotes => CastsPrevote(v, r, x)
              /\ <<v, r, x>> \in precommits' \ precommits => CastsPrecommit(v, r, x)
<1>. DEFINE Summary ==
         /\ prevotes \subseteq prevotes'
         /\ precommits \subseteq precommits'
         /\ \A v \in Correct, r \in Rounds, x \in Values :
              /\ <<v, r, x>> \in prevotes' \ prevotes => CastsPrevote(v, r, x)
              /\ <<v, r, x>> \in precommits' \ precommits => CastsPrecommit(v, r, x)
<1>1. ASSUME NEW n \in Nodes, NEW v \in Correct, NEW x \in Values, Prevote(n, v, x)
      PROVE  Summary
  BY <1>1, SMTT(60) DEF Prevote, Hosted, CastsPrevote
<1>2. ASSUME NEW n \in Nodes, NEW v \in Correct, NEW x \in Values, Precommit(n, v, x)
      PROVE  Summary
  BY <1>2, SMTT(60) DEF Precommit, Hosted, CastsPrecommit
<1>3. ASSUME NEW Q \in SUBSET Faulty, NEW r \in Rounds, NEW x \in Values,
             FaultyPrevotes(Q, r, x) \/ FaultyPrecommits(Q, r, x)
      PROVE  Summary
  BY <1>3, SMTT(60) DEF FaultyPrevotes, FaultyPrecommits, Correct
<1>4. ASSUME UNCHANGED <<prevotes, precommits>>
      PROVE  Summary
  BY <1>4, SMTT(60)
<1>. HIDE DEF Summary
<1>5. Summary
  BY <1>1, <1>2, <1>3, <1>4, SMTT(60)
  DEF Next, NodeStep, FaultyStep, vars, StartRound, EnterPrevote, Lock, EnterPrecommit, Decide
<1>. QED BY <1>5, SMTT(60) DEF Summary

-------------------------------------------------------------------------------
(* The inductive invariant, one conjunct at a time.                        *)

IInv ==
  /\ TypeOK
  /\ VotesBehindStep
  /\ OneVotePerRound
  /\ LocksHaveMajority
  /\ PrecommitsAreLocked
  /\ PrevotesRespectLocks
  /\ MajoritiesAreSafe
  /\ DecisionsHaveMajority

\* Votes stay at or behind the position of their node.
LEMMA VotesBehindStepStep ==
  ASSUME IInv, [Next]_vars
  PROVE  VotesBehindStep'
<1>. SUFFICES ASSUME NEW v \in Correct, NEW r \in Rounds
              PROVE  /\ HasVoted(prevotes', v, r) =>
                          \/ HasLeft(v, r)'
                          \/ /\ round'[host[v]] = r
                             /\ step'[host[v]] \in {"prevote", "precommit"}
                     /\ HasVoted(precommits', v, r) =>
                          \/ HasLeft(v, r)'
                          \/ round'[host[v]] = r /\ step'[host[v]] = "precommit"
  BY SMTT(60) DEF VotesBehindStep, HasVoted
<1>0. TypeOK /\ VotesBehindStep
  BY ZenonT(60) DEF IInv
<1>1. /\ host[v] \in Nodes /\ r \in Nat
      /\ round[host[v]] \in Nat /\ round'[host[v]] \in Nat
  BY <1>0, TypeStep, ConstantsAssumption, ZenonT(60) DEF TypeOK, Correct
<1>2. Moves(host[v])
  BY <1>0, <1>1, PositionMoves, SMTT(60)
<1>3. ASSUME HasVoted(prevotes', v, r)
      PROVE  HasLeft(v, r)' \/ (round'[host[v]] = r /\ step'[host[v]] \in {"prevote", "precommit"})
  <2>1. \/ HasLeft(v, r)
        \/ round[host[v]] = r /\ step[host[v]] \in {"prevote", "precommit"}
    BY <1>0, <1>3, StepSummary, SMTT(60) DEF HasVoted, VotesBehindStep, CastsPrevote
  <2>. QED BY <1>0, <1>1, <1>2, <2>1, HasLeftStays, SMTT(60) DEF Moves, HasLeft
<1>4. ASSUME HasVoted(precommits', v, r)
      PROVE  HasLeft(v, r)' \/ (round'[host[v]] = r /\ step'[host[v]] = "precommit")
  <2>1. HasLeft(v, r) \/ (round[host[v]] = r /\ step[host[v]] = "precommit")
    BY <1>0, <1>4, StepSummary, SMTT(60) DEF HasVoted, VotesBehindStep, CastsPrecommit
  <2>. QED BY <1>0, <1>1, <1>2, <2>1, HasLeftStays, ZenonT(60) DEF Moves, HasLeft
<1>. QED BY <1>3, <1>4, ZenonT(60)

\* A vote is cast only by a validator that has not voted in the round yet.
LEMMA OneVotePerRoundStep ==
  ASSUME IInv, [Next]_vars
  PROVE  OneVotePerRound'
<1>. SUFFICES ASSUME NEW v \in Correct, NEW r \in Rounds, NEW x \in Values, NEW y \in Values
              PROVE  /\ <<v, r, x>> \in prevotes' /\ <<v, r, y>> \in prevotes' => x = y
                     /\ <<v, r, x>> \in precommits' /\ <<v, r, y>> \in precommits' => x = y
  BY ZenonT(60) DEF OneVotePerRound
<1>1. ASSUME NEW n \in Nodes, NEW w \in Correct, NEW z \in Values, Prevote(n, w, z)
      PROVE  /\ <<v, r, x>> \in prevotes' /\ <<v, r, y>> \in prevotes' => x = y
             /\ precommits' = precommits
  BY <1>1, ZenonT(60) DEF IInv, OneVotePerRound, Prevote, HasVoted
<1>2. ASSUME NEW n \in Nodes, NEW w \in Correct, NEW z \in Values, Precommit(n, w, z)
      PROVE  /\ <<v, r, x>> \in precommits' /\ <<v, r, y>> \in precommits' => x = y
             /\ prevotes' = prevotes
  BY <1>2, SMTT(60) DEF IInv, OneVotePerRound, Precommit, HasVoted
<1>3. ASSUME NEW Q \in SUBSET Faulty, NEW q \in Rounds, NEW z \in Values,
             FaultyPrevotes(Q, q, z) \/ FaultyPrecommits(Q, q, z)
      PROVE  /\ <<v, r, x>> \in prevotes' <=> <<v, r, x>> \in prevotes
             /\ <<v, r, y>> \in prevotes' <=> <<v, r, y>> \in prevotes
             /\ <<v, r, x>> \in precommits' <=> <<v, r, x>> \in precommits
             /\ <<v, r, y>> \in precommits' <=> <<v, r, y>> \in precommits
  BY <1>3, SMTT(60) DEF FaultyPrevotes, FaultyPrecommits, Correct
<1>4. /\ <<v, r, x>> \in prevotes /\ <<v, r, y>> \in prevotes => x = y
      /\ <<v, r, x>> \in precommits /\ <<v, r, y>> \in precommits => x = y
  BY ZenonT(60) DEF IInv, OneVotePerRound
<1>5. \/ UNCHANGED <<prevotes, precommits>>
      \/ \E n \in Nodes, w \in Correct, z \in Values : Prevote(n, w, z) \/ Precommit(n, w, z)
      \/ FaultyStep
  BY SMTT(60) DEF Next, NodeStep, vars, StartRound, EnterPrevote, Lock, EnterPrecommit, Decide
<1>6. CASE FaultyStep
  BY <1>3, <1>4, <1>6, ZenonT(60) DEF FaultyStep
<1>. QED BY <1>1, <1>2, <1>4, <1>5, <1>6, SMTT(60)

\* A lock is taken on +2/3 prevotes of the running round, and only in its prevote step.
LEMMA LocksHaveMajorityStep ==
  ASSUME IInv, [Next]_vars
  PROVE  LocksHaveMajority'
<1>. SUFFICES ASSUME NEW m \in Nodes, lockedRound'[m] # None
              PROVE  /\ lockedValue'[m] \in Blocks
                     /\ HasMajority(prevotes', lockedRound'[m], lockedValue'[m])
                     /\ lockedRound'[m] <= round'[m]
                     /\ step'[m] # "precommit" => lockedRound'[m] < round'[m]
  BY ZenonT(60) DEF LocksHaveMajority, HasMajority, Voters
<1>. USE ConstantsAssumption DEF None
<1>0. /\ TypeOK
      /\ prevotes \subseteq prevotes'
      /\ round[m] \in Nat
      /\ lockedRound[m] \in Nat \cup {-1}
      /\ lockedRound[m] # None =>
           /\ lockedValue[m] \in Blocks
           /\ HasMajority(prevotes', lockedRound[m], lockedValue[m])
           /\ lockedRound[m] <= round[m]
           /\ step[m] # "precommit" => lockedRound[m] < round[m]
  BY StepSummary, HasMajorityMonotone, ZenonT(60) DEF IInv, LocksHaveMajority, TypeOK
<1>1. ASSUME NEW n \in Nodes, NEW r \in Rounds, StartRound(n, r)
      PROVE  /\ lockedRound' = lockedRound /\ lockedValue' = lockedValue
             /\ IF m = n THEN round'[m] \in Nat /\ lockedRound[m] < round'[m]
                         ELSE round'[m] = round[m] /\ step'[m] = step[m]
  BY <1>0, <1>1, SMTT(60) DEF StartRound, TypeOK
<1>2. ASSUME NEW n \in Nodes, EnterPrevote(n) \/ EnterPrecommit(n)
      PROVE  /\ UNCHANGED <<lockedRound, lockedValue, round>>
             /\ step[m] = step'[m] \/ step[m] # "precommit"
  BY <1>0, <1>2, SMTT(60) DEF EnterPrevote, EnterPrecommit, TypeOK
<1>3. ASSUME NEW n \in Nodes, NEW x \in Blocks, Lock(n, x)
      PROVE  IF m = n THEN /\ x = lockedValue'[m]
                           /\ HasMajority(prevotes', round[m], x)
                           /\ lockedRound'[m] = round[m] /\ round'[m] = round[m]
                           /\ step'[m] = "precommit"
                      ELSE /\ lockedRound'[m] = lockedRound[m]
                           /\ lockedValue'[m] = lockedValue[m]
                           /\ round'[m] = round[m]
                           /\ step'[m] = step[m]
  BY <1>0, <1>3, SMTT(60) DEF Lock, TypeOK
<1>4. ASSUME NEW n \in Nodes, NEW r \in Rounds, NEW x \in Blocks, Decide(n, r, x)
      PROVE  /\ m # n
             /\ lockedRound'[m] = lockedRound[m]
             /\ lockedValue'[m] = lockedValue[m]
             /\ round'[m] = round[m]
             /\ step'[m] = step[m]
  BY <1>0, <1>4, SMTT(60) DEF Decide, TypeOK
<1>. DEFINE Locked == /\ lockedValue'[m] \in Blocks
                      /\ HasMajority(prevotes', lockedRound'[m], lockedValue'[m])
                      /\ lockedRound'[m] <= round'[m]
                      /\ step'[m] # "precommit" => lockedRound'[m] < round'[m]
<1>5. CASE UNCHANGED <<round, step, lockedRound, lockedValue>>
  BY <1>0, <1>5, ZenonT(60)
<1>6. ASSUME NEW n \in Nodes, NEW r \in Rounds, StartRound(n, r)
      PROVE  Locked
  BY <1>0, <1>1, <1>6, SMTT(60)
<1>7. ASSUME NEW n \in Nodes, EnterPrevote(n) \/ EnterPrecommit(n)
      PROVE  Locked
  BY <1>0, <1>2, <1>7, ZenonT(60)
<1>8. ASSUME NEW n \in Nodes, NEW x \in Blocks, Lock(n, x)
      PROVE  Locked
  BY <1>0, <1>3, <1>8, SMTT(60)
<1>9. ASSUME NEW n \in Nodes, NEW r \in Rounds, NEW x \in Blocks, Decide(n, r, x)
      PROVE  Locked
  BY <1>0, <1>4, <1>9, ZenonT(60)
<1>. HIDE ConstantsAssumption DEF None, Locked
<1>10. UNCHANGED <<round, step, lockedRound, lockedValue>> \/ Locked
  BY <1>6, <1>7, <1>8, <1>9, ZenonT(60)
  DEF Next, NodeStep, FaultyStep, vars, Prevote, Precommit, FaultyPrevotes, FaultyPrecommits
<1>. QED BY <1>5, <1>10, ZenonT(60) DEF Locked

\* A lock is only given up for a lock of a later round, or by deciding.
LEMMA PrecommitsAreLockedStep ==
  ASSUME IInv, [Next]_vars
  PROVE  PrecommitsAreLocked'
<1>. SUFFICES ASSUME NEW v \in Correct, NEW r \in Rounds, NEW x \in Blocks,
                     <<v, r, x>> \in precommits'
              PROVE  /\ HasMajority(prevotes', r, x)
                     /\ \/ step'[host[v]] = "decided"
                        \/ lockedRound'[host[v]] > r
                        \/ lockedRound'[host[v]] = r /\ lockedValue'[host[v]] = x
  BY ZenonT(60) DEF PrecommitsAreLocked, HasMajority, Voters
<1>. DEFINE m == host[v]
<1>. USE ConstantsAssumption DEF None
<1>1. /\ TypeOK /\ m \in Nodes
      /\ r \in Nat /\ round[m] \in Nat /\ lockedRound[m] \in Nat \cup {-1}
      /\ prevotes \subseteq prevotes'
      /\ x \in Values
  BY StepSummary, ZenonT(60) DEF IInv, TypeOK, Correct, Values
<1>2. /\ HasMajority(prevotes, r, x)
      /\ \/ step[m] = "decided"
         \/ lockedRound[m] > r
         \/ lockedRound[m] = r /\ lockedValue[m] = x
  <2>1. CASE <<v, r, x>> \in precommits
    BY <2>1, SMTT(60) DEF IInv, PrecommitsAreLocked
  <2>2. CASE <<v, r, x>> \notin precommits
    <3>1. CastsPrecommit(v, r, x)
      BY <1>1, <2>2, StepSummary, SMTT(60)
    <3>2. lockedRound[m] = r /\ lockedValue[m] = x
      BY <3>1, SMTT(60) DEF CastsPrecommit
    <3>. QED BY <1>1, <3>2, SMTT(60) DEF IInv, LocksHaveMajority
  <2>. QED BY <2>1, <2>2, SMTT(60)
<1>3. HasMajority(prevotes', r, x)
  BY <1>1, <1>2, HasMajorityMonotone, ZenonT(60)
<1>4. ASSUME NEW n \in Nodes, NEW y \in Blocks, Lock(n, y)
      PROVE  \/ UNCHANGED <<step[m], lockedRound[m], lockedValue[m]>>
             \/ /\ step[m] = "prevote"
                /\ lockedRound'[m] = round[m]
                /\ lockedRound[m] # None => lockedRound[m] < round[m]
  BY <1>1, <1>4, SMTT(60) DEF Lock, TypeOK, IInv, LocksHaveMajority
<1>5. CASE \E n \in Nodes, y \in Blocks : Lock(n, y)
  <2>1. \/ UNCHANGED <<step[m], lockedRound[m], lockedValue[m]>>
        \/ /\ step[m] = "prevote"
           /\ lockedRound'[m] = round[m]
           /\ lockedRound[m] # None => lockedRound[m] < round[m]
    BY <1>4, <1>5, ZenonT(60)
  <2>. HIDE DEF m
  <2>2. \/ step'[m] = "decided"
        \/ lockedRound'[m] > r
        \/ lockedRound'[m] = r /\ lockedValue'[m] = x
    BY <1>1, <1>2, <2>1, SMTT(60)
  <2>. QED BY <1>3, <2>2, ZenonT(60) DEF m
<1>6. ASSUME NEW n \in Nodes, NEW q \in Rounds, NEW y \in Blocks, Decide(n, q, y)
      PROVE  UNCHANGED <<step[m], lockedRound[m], lockedValue[m]>> \/ step'[m] = "decided"
  BY <1>1, <1>6, ZenonT(60) DEF Decide, TypeOK
<1>7. ASSUME NEW n \in Nodes,
             (\E q \in Rounds : StartRound(n, q)) \/ EnterPrevote(n) \/ EnterPrecommit(n)
      PROVE  /\ UNCHANGED <<lockedRound, lockedValue>>
             /\ step[m] # "decided" \/ step'[m] = "decided"
  BY <1>1, <1>7, ZenonT(60) DEF StartRound, EnterPrevote, EnterPrecommit, TypeOK
<1>8. CASE \E n \in Nodes, q \in Rounds, y \in Blocks : Decide(n, q, y)
  BY <1>2, <1>3, <1>6, <1>8, ZenonT(60)
<1>9. CASE \E n \in Nodes :
             (\E q \in Rounds : StartRound(n, q)) \/ EnterPrevote(n) \/ EnterPrecommit(n)
  BY <1>2, <1>3, <1>7, <1>9, ZenonT(60)
<1>10. CASE UNCHANGED <<step, lockedRound, lockedValue>>
  BY <1>2, <1>3, <1>10, ZenonT(60)
<1>. QED
  BY <1>5, <1>8, <1>9, <1>10, ZenonT(60)
  DEF Next, NodeStep, FaultyStep, vars, Prevote, Precommit, FaultyPrevotes, FaultyPrecommits

\* The rule of onProposalLocked, at the moment a prevote is cast: whoever precommitted
\* another block knows +2/3 prevotes for the new one from a round in between.
LEMMA PrevoteNeedsMajority ==
  ASSUME IInv, [Next]_vars,
         NEW v \in Correct, NEW r \in Rounds, NEW q \in Rounds,
         NEW x \in Blocks, NEW y \in Blocks,
         <<v, r, x>> \in precommits', <<v, q, y>> \in prevotes', r < q, x # y
  PROVE  \E vr \in Rounds : r <= vr /\ vr < q /\ HasMajority(prevotes, vr, y)
<1>. USE ConstantsAssumption DEF None
<1>. DEFINE m == host[v]
<1>1. /\ TypeOK /\ m \in Nodes
      /\ r \in Nat /\ q \in Nat /\ round[m] \in Nat /\ lockedRound[m] \in Nat \cup {-1}
      /\ x \in Values /\ y \in Values /\ y # Nil
  BY ZenonT(60) DEF IInv, TypeOK, Correct, Values
<1>2. CASE <<v, r, x>> \in precommits /\ <<v, q, y>> \in prevotes
  BY <1>2, SMTT(60) DEF IInv, PrevotesRespectLocks
<1>3. CASE <<v, q, y>> \notin prevotes
  <2>1. CastsPrevote(v, q, y)
    BY <1>1, <1>3, StepSummary, SMTT(60)
  <2>2. /\ step[m] = "prevote" /\ round[m] = q
        /\ AllowedByLock(m, y)
        /\ <<v, r, x>> \in precommits
    BY <1>1, <2>1, SMTT(60) DEF CastsPrevote
  <2>3. lockedRound[m] > r \/ (lockedRound[m] = r /\ lockedValue[m] = x)
    BY <2>2, SMTT(60) DEF IInv, PrecommitsAreLocked
  <2>4. /\ lockedRound[m] # None /\ lockedRound[m] \in Rounds
        /\ HasMajority(prevotes, lockedRound[m], lockedValue[m])
        /\ lockedRound[m] < q
    BY <1>1, <2>2, <2>3, SMTT(60) DEF IInv, LocksHaveMajority, TypeOK
  <2>5. PICK vr \in Rounds : /\ vr < q
                             /\ HasMajority(prevotes, vr, y)
                             /\ lockedRound[m] <= vr \/ lockedValue[m] = y
    BY <2>2, <2>4, ZenonT(60) DEF AllowedByLock
  <2>6. CASE lockedRound[m] <= vr
    <3>. HIDE DEF m
    <3>1. vr \in Nat /\ r <= vr
      <4>1. r \in Nat /\ vr \in Nat /\ lockedRound[m] \in Nat
        BY <1>1, <2>4, ZenonT(60)
      <4>. QED BY <2>3, <2>6, <4>1, SMTT(60)
    <3>. QED BY <2>5, <3>1, ZenonT(60)
  <2>7. CASE lockedValue[m] = y
    <3>. HIDE DEF m
    <3>1. r <= lockedRound[m]
      BY <1>1, <2>3, SMTT(60)
    <3>. QED BY <2>4, <2>7, <3>1, ZenonT(60)
  <2>. QED BY <2>5, <2>6, <2>7, SMTT(60)
<1>4. CASE <<v, r, x>> \notin precommits /\ <<v, q, y>> \in prevotes
  <2>1. CastsPrecommit(v, r, x)
    BY <1>1, <1>4, StepSummary, SMTT(60)
  <2>2. step[m] = "precommit" /\ round[m] = r
    BY <2>1, SMTT(60) DEF CastsPrecommit
  <2>3. HasLeft(v, q) \/ round[m] = q
    BY <1>1, <1>4, ZenonT(60) DEF IInv, VotesBehindStep, HasVoted
  <2>. QED BY <1>1, <2>2, <2>3, SMTT(60) DEF HasLeft
<1>. QED BY <1>2, <1>3, <1>4, ZenonT(60)

\* A prevote past a precommit keeps its justification: votes are never withdrawn.
LEMMA PrevotesRespectLocksStep ==
  ASSUME IInv, [Next]_vars
  PROVE  PrevotesRespectLocks'
<1>. SUFFICES ASSUME NEW v \in Correct, NEW r \in Rounds, NEW q \in Rounds,
                     NEW x \in Blocks, NEW y \in Blocks,
                     <<v, r, x>> \in precommits', <<v, q, y>> \in prevotes', r < q, x # y
              PROVE  \E vr \in Rounds : r <= vr /\ vr < q /\ HasMajority(prevotes', vr, y)
  BY SMTT(60) DEF PrevotesRespectLocks, HasMajority, Voters
<1>1. PICK vr \in Rounds : r <= vr /\ vr < q /\ HasMajority(prevotes, vr, y)
  BY PrevoteNeedsMajority, SMTT(60)
<1>2. HasMajority(prevotes', vr, y)
  BY <1>1, StepSummary, HasMajorityMonotone, SMTT(60) DEF IInv
<1>. QED BY <1>1, <1>2, ZenonT(60)

\* One round never has +2/3 prevotes for two blocks: the two majorities would share a
\* correct validator, which votes once.
LEMMA OneMajorityPerRound ==
  ASSUME FewFaulty, OneVotePerRound, NEW r \in Rounds, NEW x \in Blocks, NEW y \in Blocks
  PROVE  /\ HasMajority(prevotes, r, x) /\ HasMajority(prevotes, r, y) => x = y
         /\ HasMajority(precommits, r, x) /\ HasMajority(precommits, r, y) => x = y
<1>1. ASSUME NEW votes,
             \A v \in Correct, z, w \in Values :
               <<v, r, z>> \in votes /\ <<v, r, w>> \in votes => z = w,
             HasMajority(votes, r, x), HasMajority(votes, r, y)
      PROVE  x = y
  <2>1. Voters(votes, r, x) \in SUBSET Validators /\ Voters(votes, r, y) \in SUBSET Validators
    BY ZenonT(60) DEF Voters
  <2>2. PICK v \in Correct : v \in Voters(votes, r, x) /\ v \in Voters(votes, r, y)
    BY <1>1, <2>1, MajoritiesIntersect, ZenonT(60) DEF HasMajority
  <2>. QED BY <1>1, <2>2, ZenonT(60) DEF Voters, Values
<1>. QED BY <1>1, SMTT(60) DEF OneVotePerRound

\* Whoever can no longer precommit never can again.
LEMMA MayPrecommitShrinks ==
  ASSUME IInv, [Next]_vars, NEW r \in Rounds, NEW x \in Blocks
  PROVE  MayPrecommit(r, x)' \subseteq MayPrecommit(r, x)
<1>. SUFFICES ASSUME NEW v \in Correct, <<v, r, x>> \in precommits' \/ ~(HasLeft(v, r)')
              PROVE  <<v, r, x>> \in precommits \/ ~HasLeft(v, r)
  BY SMTT(60) DEF MayPrecommit, Correct
<1>1. CASE ~(HasLeft(v, r)')
  BY <1>1, HasLeftStays, ZenonT(60) DEF IInv
<1>2. CASE <<v, r, x>> \in precommits' \ precommits
  <2>1. CastsPrecommit(v, r, x)
    BY <1>2, StepSummary, SMTT(60) DEF IInv, Values
  <2>2. host[v] \in Nodes /\ r \in Nat
    BY ConstantsAssumption, SMTT(60) DEF Correct
  <2>. QED BY <2>1, <2>2, SMTT(60) DEF CastsPrecommit, HasLeft
<1>. QED BY <1>1, <1>2, ZenonT(60)

\* +2/3 prevotes for y in round q close every earlier round for other blocks: a correct
\* validator among them that could still help x there would have precommitted x, and
\* then needed +2/3 prevotes for y from a round before q.
LEMMA MajoritiesAreSafeStep ==
  ASSUME FewFaulty, IInv, [Next]_vars,
         VotesBehindStep', OneVotePerRound', PrecommitsAreLocked'
  PROVE  MajoritiesAreSafe'
<1>. SUFFICES ASSUME NEW r \in Rounds, NEW q \in Rounds, NEW x \in Blocks, NEW y \in Blocks,
                     r < q, x # y, HasMajority(prevotes', q, y),
                     isMajority(Cardinality(MayPrecommit(r, x)'), Cardinality(Validators))
              PROVE  FALSE
  BY ZenonT(60) DEF MajoritiesAreSafe, HasMajority, Voters
<1>1. /\ MayPrecommit(r, x)' \in SUBSET Validators
      /\ MayPrecommit(r, x) \in SUBSET Validators
      /\ Voters(prevotes', q, y) \in SUBSET Validators
  BY ZenonT(60) DEF MayPrecommit, Voters
<1>2. isMajority(Cardinality(MayPrecommit(r, x)), Cardinality(Validators))
  BY <1>1, MayPrecommitShrinks, MajorityMonotone, ZenonT(60)
<1>3. PICK w \in Correct : w \in MayPrecommit(r, x)' /\ w \in Voters(prevotes', q, y)
  BY <1>1, MajoritiesIntersect, SMTT(60) DEF HasMajority
<1>4. <<w, q, y>> \in prevotes'
  BY <1>3, ZenonT(60) DEF Voters
<1>5. HasLeft(w, r)'
  <2>1. HasLeft(w, q)' \/ round'[host[w]] = q
    BY <1>4, ZenonT(60) DEF VotesBehindStep, HasVoted, Values
  <2>2. host[w] \in Nodes /\ r \in Nat /\ q \in Nat
    BY ConstantsAssumption, ZenonT(60) DEF Correct
  <2>3. round'[host[w]] \in Nat
    <3>1. TypeOK'
      BY TypeStep, SMTT(60) DEF IInv
    <3>. QED BY <2>2, <3>1, ConstantsAssumption, ZenonT(60) DEF TypeOK
  <2>. QED BY <2>1, <2>2, <2>3, SMTT(60) DEF HasLeft
<1>6. <<w, r, x>> \in precommits'
  BY <1>3, <1>5, SMTT(60) DEF MayPrecommit, Correct
<1>7. PICK vr \in Rounds : r <= vr /\ vr < q /\ HasMajority(prevotes, vr, y)
  BY <1>4, <1>6, PrevoteNeedsMajority, SMTT(60)
<1>8. CASE vr = r
  <2>1. HasMajority(prevotes', r, x)
    BY <1>6, SMTT(60) DEF PrecommitsAreLocked, HasMajority, Voters
  <2>2. HasMajority(prevotes', r, y)
    BY <1>7, <1>8, StepSummary, HasMajorityMonotone, SMTT(60) DEF IInv
  <2>3. /\ Voters(prevotes', r, x) \in SUBSET Validators
        /\ Voters(prevotes', r, y) \in SUBSET Validators
    BY ZenonT(60) DEF Voters
  <2>4. PICK u \in Correct : u \in Voters(prevotes', r, x) /\ u \in Voters(prevotes', r, y)
    BY <2>1, <2>2, <2>3, MajoritiesIntersect, ZenonT(60) DEF HasMajority
  <2>. QED BY <2>4, SMTT(60) DEF Voters, OneVotePerRound, Values
<1>9. CASE vr # r
  <2>1. r < vr
    BY <1>7, <1>9, ConstantsAssumption, SMTT(60)
  <2>. QED BY <1>2, <1>7, <2>1, ZenonT(60) DEF IInv, MajoritiesAreSafe
<1>. QED BY <1>8, <1>9, ZenonT(60)

\* A decision is a block with +2/3 precommits, which stay.
LEMMA DecisionsHaveMajorityStep ==
  ASSUME IInv, [Next]_vars
  PROVE  DecisionsHaveMajority'
<1>. SUFFICES ASSUME NEW m \in Nodes, decision'[m] # Nil
              PROVE  /\ decision'[m] \in Blocks
                     /\ \E r \in Rounds : HasMajority(precommits', r, decision'[m])
  BY ZenonT(60) DEF DecisionsHaveMajority, HasMajority, Voters
<1>1. TypeOK /\ precommits \subseteq precommits'
  BY StepSummary, ZenonT(60) DEF IInv
<1>2. CASE decision'[m] = decision[m]
  BY <1>1, <1>2, HasMajorityMonotone, ZenonT(60) DEF IInv, DecisionsHaveMajority
<1>3. ASSUME NEW n \in Nodes, NEW r \in Rounds, NEW x \in Blocks, Decide(n, r, x)
      PROVE  \/ decision'[m] = decision[m]
             \/ decision'[m] = x /\ HasMajority(precommits', r, x)
  BY <1>1, <1>3, ZenonT(60) DEF Decide, TypeOK
<1>4. CASE \E n \in Nodes, r \in Rounds, x \in Blocks : Decide(n, r, x)
  BY <1>2, <1>3, <1>4, SMTT(60)
<1>. QED
  BY <1>2, <1>4, SMTT(60)
  DEF Next, NodeStep, FaultyStep, vars, StartRound, EnterPrevote, Prevote, Lock,
      EnterPrecommit, Precommit, FaultyPrevotes, FaultyPrecommits

-------------------------------------------------------------------------------
(* The theorems.                                                           *)

\* IInv is inductive when less than a third of the validators are faulty.
THEOREM InvariantHolds == FewFaulty => (Spec => []IInv)
<1>. SUFFICES ASSUME FewFaulty PROVE Spec => []IInv
  BY SMTT(60)
<1>1. Init => IInv
  <2>. SUFFICES ASSUME Init PROVE IInv
    BY SMTT(60)
  <2>1. TypeOK
    BY TypeInit, ZenonT(60)
  <2>2. \A v \in Correct, r \in Rounds, x \in Values :
          <<v, r, x>> \notin prevotes /\ <<v, r, x>> \notin precommits
    BY ConstantsAssumption, ZenonT(60) DEF Init, Correct
  <2>3. VotesBehindStep /\ OneVotePerRound
    BY <2>2, ZenonT(60) DEF VotesBehindStep, OneVotePerRound, HasVoted
  <2>4. PrecommitsAreLocked /\ PrevotesRespectLocks
    BY <2>2, SMTT(60) DEF PrecommitsAreLocked, PrevotesRespectLocks, Values
  <2>5. LocksHaveMajority /\ DecisionsHaveMajority
    BY SMTT(60) DEF Init, LocksHaveMajority, DecisionsHaveMajority
  <2>6. ASSUME NEW q \in Rounds, NEW y \in Blocks, HasMajority(prevotes, q, y)
        PROVE  FALSE
    <3>1. Voters(prevotes, q, y) \in SUBSET Validators
      BY SMTT(60) DEF Voters
    <3>2. PICK v \in Correct : v \in Voters(prevotes, q, y)
      BY <2>6, <3>1, MajoritiesIntersect, SMTT(60) DEF HasMajority
    <3>. QED BY <2>2, <3>2, SMTT(60) DEF Voters, Values
  <2>7. MajoritiesAreSafe
    BY <2>6, SMTT(60) DEF MajoritiesAreSafe
  <2>. QED BY <2>1, <2>3, <2>4, <2>5, <2>7, SMTT(60) DEF IInv
<1>2. IInv /\ [Next]_vars => IInv'
  <2>. SUFFICES ASSUME IInv, [Next]_vars PROVE IInv'
    BY SMTT(60)
  <2>1. TypeOK'
    BY TypeStep, SMTT(60) DEF IInv
  <2>2. /\ VotesBehindStep' /\ OneVotePerRound'
        /\ LocksHaveMajority' /\ PrecommitsAreLocked'
        /\ PrevotesRespectLocks' /\ DecisionsHaveMajority'
    BY VotesBehindStepStep, OneVotePerRoundStep, LocksHaveMajorityStep,
       PrecommitsAreLockedStep, PrevotesRespectLocksStep, DecisionsHaveMajorityStep, SMTT(60)
  <2>3. MajoritiesAreSafe'
    BY <2>2, MajoritiesAreSafeStep, ZenonT(60)
  <2>. QED BY <2>1, <2>2, <2>3, SMTT(60) DEF IInv
<1>. QED BY <1>1, <1>2, PTL DEF Spec

\* Two +2/3 sets of precommits at one block number are for one block, whatever their
\* rounds: the later round's block had +2/3 prevotes, which closes the earlier round.
LEMMA OneDecidable ==
  ASSUME FewFaulty, IInv, NEW r \in Rounds, NEW q \in Rounds,
         NEW x \in Blocks, NEW y \in Blocks,
         HasMajority(precommits, r, x), HasMajority(precommits, q, y), r < q
  PROVE  x = y
<1>1. /\ Voters(precommits, q, y) \in SUBSET Validators
      /\ Voters(precommits, r, x) \in SUBSET Validators
      /\ MayPrecommit(r, x) \in SUBSET Validators
      /\ Voters(precommits, r, x) \subseteq MayPrecommit(r, x)
  BY ZenonT(60) DEF Voters, MayPrecommit
<1>2. PICK v \in Correct : v \in Voters(precommits, q, y)
  BY <1>1, MajoritiesIntersect, ZenonT(60) DEF HasMajority
<1>3. HasMajority(prevotes, q, y)
  BY <1>2, ZenonT(60) DEF IInv, PrecommitsAreLocked, Voters
<1>4. isMajority(Cardinality(MayPrecommit(r, x)), Cardinality(Validators))
  BY <1>1, MajorityMonotone, SMTT(60) DEF HasMajority
<1>. QED BY <1>3, <1>4, ZenonT(60) DEF IInv, MajoritiesAreSafe

\* No fork: with less than a third of the validators faulty, correct nodes never commit
\* different blocks at one block number (onMajorityPrecommit).
THEOREM NoFork == FewFaulty => (Spec => []Agreement)
<1>. SUFFICES ASSUME FewFaulty PROVE Spec => []Agreement
  BY SMTT(60)
<1>1. IInv => Agreement
  <2>. SUFFICES ASSUME IInv, NEW m \in Nodes, NEW n \in Nodes,
                       decision[m] # Nil, decision[n] # Nil
                PROVE  decision[m] = decision[n]
    BY SMTT(60) DEF Agreement
  <2>1. PICK r \in Rounds : HasMajority(precommits, r, decision[m])
    BY SMTT(60) DEF IInv, DecisionsHaveMajority
  <2>2. PICK q \in Rounds : HasMajority(precommits, q, decision[n])
    BY SMTT(60) DEF IInv, DecisionsHaveMajority
  <2>3. decision[m] \in Blocks /\ decision[n] \in Blocks
    BY ZenonT(60) DEF IInv, DecisionsHaveMajority
  <2>4. CASE r = q
    BY <2>1, <2>2, <2>3, <2>4, OneMajorityPerRound, ZenonT(60) DEF IInv
  <2>5. CASE r < q
    BY <2>1, <2>2, <2>3, <2>5, OneDecidable, ZenonT(60)
  <2>6. CASE q < r
    BY <2>1, <2>2, <2>3, <2>6, OneDecidable, ZenonT(60)
  <2>7. r = q \/ r < q \/ q < r
    BY ConstantsAssumption, SMTT(60)
  <2>. QED BY <2>4, <2>5, <2>6, <2>7, SMTT(60)
<1>. QED BY <1>1, InvariantHolds, PTL

\* A correct validator never signs two different votes of one kind in one round.
THEOREM NoDoubleVote == FewFaulty => (Spec => []OneVotePerRound)
<1>1. IInv => OneVotePerRound
  BY SMTT(60) DEF IInv
<1>. QED BY <1>1, InvariantHolds, PTL

\* A correct validator prevotes against its precommit only on a newer +2/3 of prevotes.
THEOREM LocksAreRespected == FewFaulty => (Spec => []PrevotesRespectLocks)
<1>1. IInv => PrevotesRespectLocks
  BY SMTT(60) DEF IInv
<1>. QED BY <1>1, InvariantHolds, PTL

===============================================================================
