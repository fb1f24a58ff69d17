---------------------------- MODULE ConsensusV1 -----------------------------
(***************************************************************************)
(* The consensus contract: validators register, update their BLS key and   *)
(* resign; accounts vote with their whole balance; at the end of a block   *)
(* the owner (the node) refreshes the votes of the accounts the block      *)
(* touched and, at the end of a round, selects the validators of the next. *)
(*                                                                         *)
(* An address is a positive number (the contract compares addresses),      *)
(* address(0) is Zero.  A call that reverts changes nothing, so reverts    *)
(* are guards; Solidity's checked subtraction would revert as well, and    *)
(* the type invariant shows that it never has to.  Account balances and    *)
(* the accounts a block touched belong to the EVM and are external.        *)
(***************************************************************************)
EXTENDS Integers, Sequences, FiniteSets, FiniteSetsExt, Functions

CONSTANTS
    Addresses,     \* the accounts: positive numbers
    Candidates,    \* the accounts that may register as validators
    Imported,      \* the accounts the owner may import as validators
    Voters,        \* the accounts that may vote
    Payers,        \* the accounts that may send value
    Refusing,      \* the accounts whose code refuses value sent to them
    Keys,          \* BLS public keys
    NoKey,         \* the empty blsPublicKey
    Fees,          \* the registration fees of the milestones
    Supply,        \* what each account has to start with
    MaxN,          \* bound: the largest number of round validators
    MaxRounds      \* bound: the number of rounds

Zero == 0

ASSUME ConsensusV1Assumption ==
    /\ Addresses \subseteq Nat \ {Zero} /\ IsFiniteSet(Addresses)
    /\ Candidates \subseteq Addresses /\ Imported \subseteq Addresses /\ Voters \subseteq Addresses
    /\ Payers \subseteq Addresses /\ Refusing \subseteq Addresses
    /\ NoKey \notin Keys /\ Fees \subseteq Nat
    /\ Supply \in [Addresses -> Nat] /\ MaxN \in Nat /\ MaxRounds \in Nat

VARIABLES
    data,             \* _validatorsData: fee, isResigned, blsPublicKey
    tally,            \* _validatorsData: voteBalance, votersCount
    registered,       \* _hasValidator: the addresses it holds for
    usedKeys,         \* _blsPublicKeys
    active,           \* _activeValidators
    index,            \* _activeValidatorIndex, counted from 0
    resignedCount,    \* _resignedValidatorsCount
    votes,            \* _voters, _votersHead, _votersTail, _votersCount
    list,             \* _roundValidatorsMap, _roundValidatorsHead, _roundValidatorsCount
    roundValidators,  \* _roundValidators
    minValidators,    \* _minValidators
    fee,              \* _fee
    rounds,           \* _rounds
    balance,          \* the balance of every account
    held,             \* the balance of the contract
    touched           \* the accounts whose balance changed since updateVoters

validatorVars == <<data, tally, registered, usedKeys, active, index, resignedCount>>
roundVars == <<list, roundValidators, minValidators, rounds>>
consensusV1Vars == <<validatorVars, votes, roundVars, fee, balance, held, touched>>

Slots == Addresses \cup {Zero}

NoVote == [validator |-> Zero, balance |-> 0, prev |-> Zero, next |-> Zero]

ValidatorData(paid, resigned, key) ==
    [fee |-> paid, isResigned |-> resigned, blsPublicKey |-> key]

NoVotes == [voteBalance |-> 0, votersCount |-> 0]

(* initialize                                                              *)
ConsensusV1Init ==
    /\ data = [a \in Addresses |-> ValidatorData(0, FALSE, NoKey)]
    /\ tally = [a \in Addresses |-> NoVotes]
    /\ registered = {} /\ usedKeys = {} /\ resignedCount = 0
    /\ active = <<>> /\ index = [a \in Addresses |-> 0]
    /\ votes = [of |-> [a \in Slots |-> NoVote], head |-> Zero, tail |-> Zero, count |-> 0]
    /\ list = [map |-> [a \in Slots |-> Zero], head |-> Zero, count |-> 0]
    /\ roundValidators = <<>> /\ minValidators = 1 /\ rounds = <<>>
    /\ fee \in Fees
    /\ balance = Supply /\ held = 0 /\ touched = {}

----------------------------------------------------------------------------
(* The active validators: an array, and the index of each in it.           *)
isActiveValidator(a) == index[a] < Len(active) /\ active[index[a] + 1] = a

addActiveValidator(a) ==
    /\ active' = Append(active, a)
    /\ index' = [index EXCEPT ![a] = Len(active)]

(* The last one takes the place of the removed one: pop().                 *)
lastActive == active[Len(active)]

withoutActive(a) == SubSeq([active EXCEPT ![index[a] + 1] = lastActive], 1, Len(active) - 1)

removeWithoutReindex(a) ==
    IF isActiveValidator(a)
    THEN /\ active' = withoutActive(a)
         /\ index' = [index EXCEPT ![a] = 0]
    ELSE UNCHANGED <<active, index>>

removeActiveValidator(a) ==
    IF isActiveValidator(a)
    THEN /\ active' = withoutActive(a)
         /\ index' = [index EXCEPT ![lastActive] = index[a], ![a] = 0]
    ELSE UNCHANGED <<active, index>>

canBecomeActive(d) == ~d.isResigned /\ d.blsPublicKey # NoKey

----------------------------------------------------------------------------
(* The import of an older chain, before the first round.                   *)
addValidator(a, isResigned) ==
    /\ rounds = <<>> /\ a \notin registered
    /\ data' = [data EXCEPT ![a] = ValidatorData(0, isResigned, NoKey)]
    /\ tally' = [tally EXCEPT ![a] = NoVotes]
    /\ registered' = registered \cup {a}
    /\ resignedCount' = IF isResigned THEN resignedCount + 1 ELSE resignedCount
    /\ UNCHANGED <<usedKeys, active, index, votes, roundVars, fee, balance, held, touched>>

registerValidator(a, key) ==
    /\ balance[a] >= fee
    /\ a \notin registered /\ key \notin usedKeys
    /\ usedKeys' = usedKeys \cup {key}
    /\ registered' = registered \cup {a}
    /\ data' = [data EXCEPT ![a] = ValidatorData(fee, FALSE, key)]
    /\ tally' = [tally EXCEPT ![a] = NoVotes]
    /\ addActiveValidator(a)
    /\ balance' = [balance EXCEPT ![a] = @ - fee]
    /\ held' = held + fee
    /\ touched' = touched \cup {a}
    /\ UNCHANGED <<resignedCount, votes, roundVars, fee>>

updateValidator(a, key) ==
    /\ a \in registered /\ key \notin usedKeys
    /\ usedKeys' = usedKeys \cup {key}
    /\ data' = [data EXCEPT ![a].blsPublicKey = key]
    /\ IF canBecomeActive(data'[a]) /\ ~isActiveValidator(a)
       THEN addActiveValidator(a)
       ELSE UNCHANGED <<active, index>>
    /\ UNCHANGED <<tally, registered, resignedCount, votes, roundVars, fee, balance, held, touched>>

(* Resigning refunds the fee that was paid, not the current one; a refund  *)
(* that is refused reverts the resignation.  All the rest is done when the *)
(* value is sent, so what the receiver calls is a step of its own.         *)
refundCurrentFee(a) == fee

refund(a) == data[a].fee

mayResign == Len(active) > minValidators

resignValidator(a) ==
    /\ a \in registered /\ ~data[a].isResigned /\ mayResign
    /\ refund(a) > 0 => a \notin Refusing
    /\ data' = [data EXCEPT ![a].isResigned = TRUE]
    /\ resignedCount' = resignedCount + 1
    /\ removeActiveValidator(a)
    /\ balance' = [balance EXCEPT ![a] = @ + refund(a)]
    /\ held' = held - refund(a)
    /\ touched' = touched \cup {a}
    /\ UNCHANGED <<tally, registered, usedKeys, votes, roundVars, fee>>

setFee(f) ==
    /\ f # fee
    /\ fee' = f
    /\ UNCHANGED <<validatorVars, votes, roundVars, balance, held, touched>>

----------------------------------------------------------------------------
(* The voters: a doubly linked list in the order of the votes.             *)
Relink(of, p, x, q, y) == [of EXCEPT ![p].next = x, ![q].prev = y]

Linked(V, a, validator, b) ==
    LET of == [V.of EXCEPT ![a] = [validator |-> validator, balance |-> b,
                                   prev |-> Zero, next |-> Zero]]
    IN  IF V.head = Zero
        THEN [of |-> of, head |-> a, tail |-> a, count |-> V.count + 1]
        ELSE [of |-> Relink(of, V.tail, a, a, V.tail),
              head |-> V.head, tail |-> a, count |-> V.count + 1]

(* What _unvote leaves of the list: the four cases, then delete.           *)
UnlinkedForward(V, a) ==
    LET voter == V.of[a]
        of == IF V.head = V.tail THEN V.of
              ELSE IF V.tail = a THEN [V.of EXCEPT ![voter.prev].next = Zero]
              ELSE IF V.head = a THEN [V.of EXCEPT ![voter.next].prev = Zero]
              ELSE [V.of EXCEPT ![voter.prev].next = voter.next]
    IN  [of |-> [of EXCEPT ![a] = NoVote],
         head |-> IF V.head = V.tail THEN Zero
                  ELSE IF V.tail # a /\ V.head = a THEN voter.next ELSE V.head,
         tail |-> IF V.head = V.tail THEN Zero ELSE IF V.tail = a THEN voter.prev ELSE V.tail,
         count |-> V.count - 1]

Unlinked(V, a) ==
    LET voter == V.of[a]
        of == IF V.head = V.tail THEN V.of
              ELSE IF V.tail = a THEN [V.of EXCEPT ![voter.prev].next = Zero]
              ELSE IF V.head = a THEN [V.of EXCEPT ![voter.next].prev = Zero]
              ELSE Relink(V.of, voter.prev, voter.next, voter.next, voter.prev)
    IN  [of |-> [of EXCEPT ![a] = NoVote],
         head |-> IF V.head = V.tail THEN Zero
                  ELSE IF V.tail # a /\ V.head = a THEN voter.next ELSE V.head,
         tail |-> IF V.head = V.tail THEN Zero ELSE IF V.tail = a THEN voter.prev ELSE V.tail,
         count |-> V.count - 1]

(* The vote balances: a vote counts with the balance it was given with.    *)
Counted(d, validator, b) ==
    [d EXCEPT ![validator].voteBalance = @ + b, ![validator].votersCount = @ + 1]

UncountedNow(d, a) ==
    [d EXCEPT ![votes.of[a].validator].voteBalance = @ - balance[a],
              ![votes.of[a].validator].votersCount = @ - 1]

Uncounted(d, a) ==
    [d EXCEPT ![votes.of[a].validator].voteBalance = @ - votes.of[a].balance,
              ![votes.of[a].validator].votersCount = @ - 1]

(* _addVote: a vote of the import, for any registered validator.           *)
addVote(a, v) ==
    /\ rounds = <<>> /\ v \in registered /\ votes.of[a].validator = Zero
    /\ votes' = Linked(votes, a, v, balance[a])
    /\ tally' = Counted(tally, v, balance[a])
    /\ UNCHANGED <<data, registered, usedKeys, active, index, resignedCount, roundVars, fee,
                   balance, held, touched>>

vote(a, v) ==
    /\ v \in registered /\ canBecomeActive(data[v]) /\ votes.of[a].validator # v
    /\ IF votes.of[a].validator # Zero
       THEN /\ votes' = Linked(Unlinked(votes, a), a, v, balance[a])
            /\ tally' = Counted(Uncounted(tally, a), v, balance[a])
       ELSE /\ votes' = Linked(votes, a, v, balance[a])
            /\ tally' = Counted(tally, v, balance[a])
    /\ touched' = touched \cup {a}
    /\ UNCHANGED <<data, registered, usedKeys, active, index, resignedCount, roundVars, fee,
                   balance, held>>

unvote(a) ==
    /\ votes.of[a].validator # Zero
    /\ votes' = Unlinked(votes, a)
    /\ tally' = Uncounted(tally, a)
    /\ touched' = touched \cup {a}
    /\ UNCHANGED <<data, registered, usedKeys, active, index, resignedCount, roundVars, fee,
                   balance, held>>

(* _updateVoter moves the vote balance by what the balance moved; updateVoters *)
(* does so for every account it is given, whether it votes or not.         *)
Moved(v, as) ==
    LET Difference(a) == balance[a] - votes.of[a].balance
    IN  MapThenSumSet(Difference, {a \in as : votes.of[a].validator = v})

updateVoters(as) ==
    /\ tally' = [v \in Addresses |-> [tally[v] EXCEPT !.voteBalance = @ + Moved(v, as)]]
    /\ votes' = [votes EXCEPT !.of = [a \in Slots |->
                    IF a \in as /\ votes.of[a].validator # Zero
                    THEN [votes.of[a] EXCEPT !.balance = balance[a]] ELSE votes.of[a]]]
    /\ touched' = touched \ as
    /\ UNCHANGED <<data, registered, usedKeys, active, index, resignedCount, roundVars, fee,
                   balance, held>>

----------------------------------------------------------------------------
(* The selection: a singly linked list, the weakest validator at its head. *)
isGreaterOrEqual(a, b) == tally[a].voteBalance >= tally[b].voteBalance

isGreater(a, b) ==
    \/ tally[a].voteBalance > tally[b].voteBalance
    \/ tally[a].voteBalance = tally[b].voteBalance /\ a < b

insertHead(L, a) == [map |-> [L.map EXCEPT ![a] = L.head], head |-> a, count |-> L.count + 1]

insertAfter(L, p, a) ==
    [L EXCEPT !.map = [@ EXCEPT ![a] = L.map[p], ![p] = a], !.count = @ + 1]

(* _insertValidator walks to the last one that is not greater; when the    *)
(* list is too long, its head goes.                                        *)
insertValidator(L, a, top) ==
    LET previous[p \in Addresses] ==
            IF L.map[p] = Zero \/ isGreater(L.map[p], a) THEN p ELSE previous[L.map[p]]
        inserted == IF isGreater(L.head, a) THEN insertHead(L, a)
                    ELSE insertAfter(L, previous[L.head], a)
    IN  IF inserted.count > top
        THEN [map |-> [inserted.map EXCEPT ![inserted.head] = Zero],
              head |-> inserted.map[inserted.head], count |-> inserted.count - 1]
        ELSE inserted

(* The list from its head.                                                 *)
Chain(map, head) ==
    LET from[a \in Slots] == IF a = Zero THEN <<>> ELSE <<a>> \o from[map[a]]
    IN  from[head]

deleteRoundValidators(L) ==
    [map |-> [a \in Slots |-> IF \E i \in DOMAIN Chain(L.map, L.head) : Chain(L.map, L.head)[i] = a
                              THEN Zero ELSE L.map[a]],
     head |-> Zero, count |-> 0]

Selected(n) ==
    LET Consider(L, a) ==
            IF ~canBecomeActive(data[a]) THEN L
            ELSE IF L.head = Zero THEN [L EXCEPT !.head = a, !.count = 1]
            ELSE IF L.count < n \/ isGreater(a, L.head) THEN insertValidator(L, a, n)
            ELSE L
        considered[i \in 0..Len(active)] ==
            IF i = 0 THEN deleteRoundValidators(list)
            ELSE Consider(considered[i - 1], active[i])
    IN  considered[Len(active)]

(* The slots are shuffled by prevrandao: any order.                        *)
calculateRoundValidators(n) ==
    /\ n > 0 /\ touched = {}
    /\ LET L == Selected(n)
           sorted == Chain(L.map, L.head)
       IN  /\ L.count >= n
           /\ list' = L
           /\ \E p \in Bijection(1..n, 1..n) :
                  LET shuffled == [i \in 1..n |-> sorted[p[i]]]
                  IN  /\ roundValidators' = shuffled
                      /\ rounds' = Append(rounds, [i \in 1..n |->
                             [addr |-> shuffled[i], voteBalance |-> tally[shuffled[i]].voteBalance]])
    /\ minValidators' = n
    /\ UNCHANGED <<validatorVars, votes, fee, balance, held, touched>>

(* getVotes: a page of the list that starts after a voter.                 *)
getVotes(a, count) ==
    LET from == Chain([b \in Slots |-> votes.of[b].next],
                      IF a = Zero THEN votes.head ELSE votes.of[a].next)
    IN  SubSeq(from, 1, IF Len(from) < count THEN Len(from) ELSE count)

(* AsyncVotesIterator: page after page, until one is empty.                *)
AllVotes(size) ==
    LET from[a \in Slots] == LET page == getVotes(a, size)
                             IN  IF page = <<>> THEN <<>> ELSE page \o from[page[Len(page)]]
    IN  from[Zero]

----------------------------------------------------------------------------
(* The rest of a block: value moves between accounts.                      *)
Transfer(a, b) ==
    /\ a # b /\ balance[a] > 0
    /\ balance' = [balance EXCEPT ![a] = @ - 1, ![b] = @ + 1]
    /\ touched' = touched \cup {a, b}
    /\ UNCHANGED <<validatorVars, votes, roundVars, fee, held>>

ConsensusV1Next ==
    \/ \E a \in Imported, isResigned \in BOOLEAN : addValidator(a, isResigned)
    \/ \E a \in Candidates, key \in Keys : registerValidator(a, key)
    \/ \E a \in Candidates, key \in Keys : updateValidator(a, key)
    \/ \E a \in Candidates : resignValidator(a)
    \/ \E f \in Fees : setFee(f)
    \/ \E a \in Voters, v \in Candidates \cup Imported : addVote(a, v)
    \/ \E a \in Voters, v \in Candidates \cup Imported : vote(a, v)
    \/ \E a \in Voters : unvote(a)
    \/ touched # {} /\ updateVoters(touched)
    \/ Len(rounds) < MaxRounds /\ \E n \in 1..MaxN : calculateRoundValidators(n)
    \/ \E a \in Payers, b \in Addresses : Transfer(a, b)

ConsensusV1Spec == ConsensusV1Init /\ [][ConsensusV1Next]_consensusV1Vars

----------------------------------------------------------------------------
(* A validator is in _activeValidators, once and under its index, exactly  *)
(* when it is registered, has a BLS key and has not resigned, whatever the *)
(* order of registrations, updates and removals (ConsensusV1.sol:600).     *)
ActiveIsExact ==
    /\ \A i \in DOMAIN active : index[active[i]] = i - 1
    /\ \A a \in Addresses :
          (\E i \in DOMAIN active : active[i] = a) <=> a \in registered /\ canBecomeActive(data[a])

(* The links of a list spell the sequence s, which has every voter once.   *)
Spells(V, s) ==
    /\ \A i, j \in 1..V.count : s[i] = s[j] => i = j
    /\ \A a \in Addresses : V.of[a].validator # Zero <=> \E i \in 1..V.count : s[i] = a
    /\ V.head = IF V.count = 0 THEN Zero ELSE s[1]
    /\ V.tail = IF V.count = 0 THEN Zero ELSE s[V.count]
    /\ \A i \in 1..V.count :
          /\ V.of[s[i]].prev = IF i = 1 THEN Zero ELSE s[i - 1]
          /\ V.of[s[i]].next = IF i = V.count THEN Zero ELSE s[i + 1]

(* The voters form one list, whatever the order in which votes are given,  *)
(* changed and withdrawn: no vote is lost to getVotes and none is listed   *)
(* twice (ConsensusV1.sol:636).                                            *)
VotesFormList == \E s \in [1..votes.count -> Addresses] : Spells(votes, s)

VotersOf(v) == {a \in Addresses : votes.of[a].validator = v}

(* A validator's vote balance and votersCount are the sum and the number   *)
(* of the votes recorded for it; reading the votes in pages, as the node   *)
(* does after a restore, finds every voter once, also when the last page   *)
(* is full or empty (ConsensusV1.sol:670, votes-iterator.ts:27).           *)
VotesAddUp ==
    /\ \A v \in Addresses :
          LET Recorded(a) == votes.of[a].balance
          IN  /\ tally[v].voteBalance = MapThenSumSet(Recorded, VotersOf(v))
              /\ tally[v].votersCount = Cardinality(VotersOf(v))
    /\ \A size \in 1..2 :
          /\ Len(AllVotes(size)) = votes.count
          /\ Range(AllVotes(size)) = {a \in Addresses : votes.of[a].validator # Zero}

(* The contract holds exactly the fees it may still have to refund: a      *)
(* resignation never fails for lack of funds, although the fee may have    *)
(* changed since the registration; the resigned are counted; and after the *)
(* first round enough active validators stay for another one of its size,  *)
(* so the node's calculateRoundValidators does not revert                  *)
(* (ConsensusV1.sol:260).                                                  *)
ResignationsAreSafe ==
    LET Owed(a) == data[a].fee
    IN  /\ held = MapThenSumSet(Owed, {a \in registered : ~data[a].isResigned})
        /\ resignedCount = Cardinality({a \in registered : data[a].isResigned})
        /\ rounds # <<>> => Len(active) >= minValidators

(* No two validators have the same BLS key (ConsensusV1.sol:689).          *)
KeysAreUnique ==
    \A a, b \in registered :
        data[a].blsPublicKey = data[b].blsPublicKey /\ data[a].blsPublicKey # NoKey => a = b

Beats(a, b) ==
    \/ tally[a].voteBalance > tally[b].voteBalance
    \/ tally[a].voteBalance = tally[b].voteBalance /\ a < b

(* The n greatest of the active validators, by vote balance and then by    *)
(* the smaller address.                                                    *)
Top(n) ==
    {a \in registered : canBecomeActive(data[a]) /\
        Cardinality({b \in registered : canBecomeActive(data[b]) /\ Beats(b, a)}) < n}

(* A new round has n different validators, the greatest ones, each with    *)
(* the balances its voters have at that moment (ConsensusV1.sol:331).      *)
RoundsAreTheTop ==
    [][Len(rounds') > Len(rounds) =>
        LET round == rounds'[Len(rounds')]
            Now(a) == balance[a]
        IN  /\ {round[i].addr : i \in DOMAIN round} = Top(Len(round))
            /\ Len(round) = minValidators'
            /\ \A i \in DOMAIN round :
                  round[i].voteBalance = MapThenSumSet(Now, VotersOf(round[i].addr))
      ]_consensusV1Vars

=============================================================================
