------------------------- MODULE ConsensusV1Proofs --------------------------
(***************************************************************************)
(* What holds of the contract for any set of accounts, keys and fees: the  *)
(* active validators and their indexes agree, BLS keys are never shared,   *)
(* and the voters' links form one list.                                    *)
(***************************************************************************)
EXTENDS ConsensusV1, TLAPS

Data == [fee : Nat, isResigned : BOOLEAN, blsPublicKey : Keys \cup {NoKey}]

(* What the active validators need: the types of the state they depend on, *)
(* the property itself, and that a key in use is a used key.               *)
ActiveInv ==
    /\ data \in [Addresses -> Data] /\ registered \subseteq Addresses /\ usedKeys \subseteq Keys
    /\ fee \in Nat /\ active \in Seq(Addresses) /\ index \in [Addresses -> Nat]
    /\ ActiveIsExact
    /\ \A a \in registered : data[a].blsPublicKey # NoKey => data[a].blsPublicKey \in usedKeys
    /\ KeysAreUnique

\* Nobody is registered at first.
LEMMA ActiveInit == ConsensusV1Init => ActiveInv
  <1> SUFFICES ASSUME ConsensusV1Init PROVE ActiveInv
    BY SMTT(60)
  <1>1. fee \in Nat
    BY ConsensusV1Assumption, SMTT(60) DEF ConsensusV1Init
  <1>2. data \in [Addresses -> Data]
    BY SMTT(60) DEF ConsensusV1Init, ValidatorData, Data
  <1>3. active \in Seq(Addresses) /\ DOMAIN active = {} /\ index \in [Addresses -> Nat]
    BY SMTT(60) DEF ConsensusV1Init
  <1>4. ActiveIsExact
    BY <1>3, SMTT(60) DEF ConsensusV1Init, ActiveIsExact
  <1>5. registered = {} /\ usedKeys = {}
    BY SMTT(60) DEF ConsensusV1Init
  <1> QED BY <1>1, <1>2, <1>3, <1>4, <1>5, SMTT(60) DEF ActiveInv, KeysAreUnique

\* An active validator is recognised by its index.
LEMMA ActiveKnown ==
  ASSUME ActiveInv, NEW a \in Addresses
  PROVE  isActiveValidator(a) <=> \E i \in DOMAIN active : active[i] = a
  <1>1. ASSUME isActiveValidator(a) PROVE \E i \in DOMAIN active : active[i] = a
    <2>1. index[a] + 1 \in DOMAIN active
      BY <1>1, SMTT(60) DEF isActiveValidator, ActiveInv
    <2> QED BY <1>1, <2>1, SMTT(60) DEF isActiveValidator
  <1>2. ASSUME NEW i \in DOMAIN active, active[i] = a PROVE isActiveValidator(a)
    <2>1. index[a] = i - 1 /\ i \in 1..Len(active)
      BY <1>2, SMTT(60) DEF ActiveInv, ActiveIsExact
    <2> QED BY <1>2, <2>1, SMTT(60) DEF isActiveValidator, ActiveInv
  <1> QED BY <1>1, <1>2, SMTT(60)

\* Appending one that was not there keeps the indexes right.
LEMMA AddedActive ==
  ASSUME ActiveInv, NEW a \in Addresses, addActiveValidator(a),
         ~ \E i \in DOMAIN active : active[i] = a
  PROVE  /\ active' \in Seq(Addresses) /\ index' \in [Addresses -> Nat]
         /\ \A i \in DOMAIN active' : index'[active'[i]] = i - 1
         /\ \A b \in Addresses : (\E i \in DOMAIN active' : active'[i] = b)
                                   <=> b = a \/ \E i \in DOMAIN active : active[i] = b
  <1>1. active' \in Seq(Addresses) /\ index' \in [Addresses -> Nat]
    BY SMTT(60) DEF addActiveValidator, ActiveInv
  <1>2. /\ DOMAIN active = 1..Len(active) /\ DOMAIN active' = 1..(Len(active) + 1)
        /\ Len(active) \in Nat
        /\ active'[Len(active) + 1] = a
        /\ \A i \in 1..Len(active) : active'[i] = active[i] /\ active[i] \in Addresses
    BY SMTT(60) DEF addActiveValidator, ActiveInv
  <1>3. \A i \in 1..Len(active) : index'[active[i]] = i - 1
    BY <1>2, ZenonT(60) DEF addActiveValidator, ActiveInv, ActiveIsExact
  <1>4. index'[a] = Len(active)
    BY SMTT(60) DEF addActiveValidator, ActiveInv
  <1>5. \A i \in 1..(Len(active) + 1) : i = Len(active) + 1 \/ i \in 1..Len(active)
    BY <1>2, SMTT(60)
  <1>6. \A i \in DOMAIN active' : index'[active'[i]] = i - 1
    BY <1>2, <1>3, <1>4, <1>5, SMTT(60)
  <1>7. \A b \in Addresses : (\E i \in DOMAIN active' : active'[i] = b)
                               <=> b = a \/ \E i \in DOMAIN active : active[i] = b
    BY <1>2, <1>5, SMTT(60)
  <1> QED BY <1>1, <1>6, <1>7, ZenonT(60)

\* Removing one moves the last one into its place, with its index.
LEMMA RemovedActive ==
  ASSUME ActiveInv, NEW a \in Addresses, removeActiveValidator(a)
  PROVE  /\ active' \in Seq(Addresses) /\ index' \in [Addresses -> Nat]
         /\ \A i \in DOMAIN active' : index'[active'[i]] = i - 1
         /\ \A b \in Addresses : (\E i \in DOMAIN active' : active'[i] = b)
                                   <=> b # a /\ \E i \in DOMAIN active : active[i] = b
  <1>1. CASE ~isActiveValidator(a)
    BY <1>1, ActiveKnown, ZenonT(60) DEF removeActiveValidator, ActiveInv, ActiveIsExact
  <1>2. CASE isActiveValidator(a)
    <2> DEFINE n == Len(active)
               k == index[a] + 1
               moved == [active EXCEPT ![k] = active[n]]
    <2>1. /\ n \in Nat /\ k \in 1..n /\ active[k] = a /\ n > 0 /\ index[a] = k - 1
          /\ DOMAIN active = 1..n /\ \A i \in 1..n : active[i] \in Addresses
      BY <1>2, SMTT(60) DEF isActiveValidator, ActiveInv
    <2>0. \A i \in 1..n : index[active[i]] = i - 1
      BY <2>1, ZenonT(60) DEF ActiveInv, ActiveIsExact
    <2>2. \A i, j \in 1..n : active[i] = active[j] => i = j
      <3> HIDE DEF n, k, moved
      <3> SUFFICES ASSUME NEW i \in 1..n, NEW j \in 1..n, active[i] = active[j] PROVE i = j
        BY ZenonT(60)
      <3>1. i - 1 = j - 1
        BY <2>0, ZenonT(60)
      <3>2. i \in Nat /\ j \in Nat
        BY <2>1, SMTT(60)
      <3> QED BY <3>1, <3>2, SMTT(60)
    <2>3. moved \in Seq(Addresses) /\ Len(moved) = n
      BY <2>1, SMTT(60) DEF ActiveInv
    <2>4. active' = SubSeq(moved, 1, n - 1)
      BY <1>2, <2>3, ZenonT(60) DEF removeActiveValidator, withoutActive, lastActive
    <2>5. index' = [index EXCEPT ![active[n]] = index[a], ![a] = 0]
      BY <1>2, SMTT(60) DEF removeActiveValidator, lastActive
    <2>d. DOMAIN moved = 1..n /\ \A i \in 1..n : moved[i] = IF i = k THEN active[n] ELSE active[i]
      BY <2>1, ZenonT(60)
    <2> HIDE DEF n, k, moved
    <2>6. /\ active' \in Seq(Addresses) /\ DOMAIN active' = 1..(n - 1)
          /\ \A i \in 1..(n - 1) : active'[i] = moved[i]
      BY <2>1, <2>3, <2>4, SMTT(60)
    <2>7. index' \in [Addresses -> Nat]
      BY <2>1, <2>5, ZenonT(60) DEF ActiveInv
    <2>8. \A i \in 1..(n - 1) : active'[i] = IF i = k THEN active[n] ELSE active[i]
      BY <2>1, <2>6, <2>d, SMTT(60)
    <2>9. \A i \in 1..(n - 1) : index'[active'[i]] = i - 1
      <3> SUFFICES ASSUME NEW i \in 1..(n - 1) PROVE index'[active'[i]] = i - 1
        BY ZenonT(60)
      <3>1. CASE i = k
        <4>1. active[n] # a
          BY <2>1, <2>2, <3>1, SMTT(60)
        <4> QED BY <2>1, <2>5, <2>8, <3>1, <4>1, SMTT(60) DEF ActiveInv
      <3>2. CASE i # k
        <4>1. active[i] # a /\ active[i] # active[n]
          BY <2>1, <2>2, <3>2, SMTT(60)
        <4> QED BY <2>0, <2>1, <2>5, <2>8, <3>2, <4>1, SMTT(60) DEF ActiveInv
      <3> QED BY <3>1, <3>2, ZenonT(60)
    <2>10. \A b \in Addresses : (\E i \in 1..(n - 1) : active'[i] = b)
                                  <=> b # a /\ \E i \in 1..n : active[i] = b
      <3> SUFFICES ASSUME NEW b \in Addresses
                   PROVE  (\E i \in 1..(n - 1) : active'[i] = b)
                             <=> b # a /\ \E i \in 1..n : active[i] = b
        BY SMTT(60)
      <3>1. ASSUME NEW i \in 1..(n - 1), active'[i] = b
            PROVE  b # a /\ \E j \in 1..n : active[j] = b
        BY <2>1, <2>2, <2>8, <3>1, SMTT(60)
      <3>2. ASSUME NEW i \in 1..n, active[i] = b, b # a
            PROVE  \E j \in 1..(n - 1) : active'[j] = b
        <4>1. CASE i = n
          <5>1. k # n /\ k \in 1..(n - 1)
            BY <2>1, <3>2, <4>1, SMTT(60)
          <5> QED BY <2>8, <3>2, <4>1, <5>1, ZenonT(60)
        <4>2. CASE i # n
          <5>1. i \in 1..(n - 1) /\ i # k
            BY <2>1, <3>2, <4>2, SMTT(60)
          <5> QED BY <2>8, <3>2, <5>1, ZenonT(60)
        <4> QED BY <4>1, <4>2, ZenonT(60)
      <3> QED BY <3>1, <3>2, ZenonT(60)
    <2> QED BY <2>1, <2>6, <2>7, <2>9, <2>10, ZenonT(60)
  <1> QED BY <1>1, <1>2, ZenonT(60)

\* A key that was not used goes to one validator, the others keep theirs.
LEMMA KeysKept ==
  ASSUME ActiveInv, NEW a \in Addresses, NEW key,
         registered' = registered \cup {a},
         \A b \in Addresses : b # a => data'[b].blsPublicKey = data[b].blsPublicKey,
         data'[a].blsPublicKey = key,
         \/ key \notin usedKeys /\ usedKeys' = usedKeys \cup {key}
         \/ a \in registered /\ key = data[a].blsPublicKey /\ usedKeys' = usedKeys
  PROVE  /\ KeysAreUnique'
         /\ \A b \in registered' :
                data'[b].blsPublicKey # NoKey => data'[b].blsPublicKey \in usedKeys'
  <1>1. \A b \in registered' : b = a \/ b \in registered
    BY SMTT(60)
  <1>2. \A b \in registered : b \in Addresses
    BY SMTT(60) DEF ActiveInv
  <1>3. \A b \in registered' :
            data'[b].blsPublicKey # NoKey => data'[b].blsPublicKey \in usedKeys'
    BY <1>1, <1>2, ZenonT(60) DEF ActiveInv
  <1>4. ASSUME NEW b \in registered', NEW c \in registered',
               data'[b].blsPublicKey = data'[c].blsPublicKey, data'[b].blsPublicKey # NoKey
        PROVE  b = c
    <2>1. CASE key \notin usedKeys
      BY <1>1, <1>2, <1>4, <2>1, ZenonT(60) DEF ActiveInv, KeysAreUnique
    <2>2. CASE a \in registered /\ key = data[a].blsPublicKey
      BY <1>1, <1>2, <1>4, <2>2, SMTT(60) DEF ActiveInv, KeysAreUnique
    <2> QED BY <2>1, <2>2, SMTT(60)
  <1>5. KeysAreUnique'
    BY <1>4, SMTT(60) DEF KeysAreUnique
  <1> QED BY <1>3, <1>5, ZenonT(60)

\* Every step keeps the active validators exact.
LEMMA ActiveNext == ActiveInv /\ [ConsensusV1Next]_consensusV1Vars => ActiveInv'
  <1> SUFFICES ASSUME ActiveInv, [ConsensusV1Next]_consensusV1Vars PROVE ActiveInv'
    BY ZenonT(60)
  <1>1. ASSUME UNCHANGED <<data, registered, usedKeys, active, index>>, fee' \in Nat
        PROVE  ActiveInv'
    BY <1>1, ZenonT(60) DEF ActiveInv, ActiveIsExact, KeysAreUnique, canBecomeActive
  <1>2. ASSUME NEW a \in Imported, NEW r \in BOOLEAN, addValidator(a, r) PROVE ActiveInv'
    <2>1. a \in Addresses /\ a \notin registered
      BY <1>2, ConsensusV1Assumption, SMTT(60) DEF addValidator
    <2>2. /\ data' \in [Addresses -> Data] /\ data'[a].blsPublicKey = NoKey
          /\ \A b \in Addresses : b # a => data'[b] = data[b]
      BY <1>2, <2>1, SMTT(60) DEF addValidator, ValidatorData, Data, ActiveInv
    <2> QED BY <1>2, <2>1, <2>2, SMTT(60)
            DEF addValidator, ActiveInv, ActiveIsExact, KeysAreUnique, canBecomeActive
  <1>3. ASSUME NEW a \in Candidates, NEW key \in Keys, registerValidator(a, key) PROVE ActiveInv'
    <2>1. a \in Addresses /\ a \notin registered /\ key # NoKey
      BY <1>3, ConsensusV1Assumption, SMTT(60) DEF registerValidator
    <2>2. /\ data' \in [Addresses -> Data] /\ data'[a].blsPublicKey = key /\ ~data'[a].isResigned
          /\ \A b \in Addresses : b # a => data'[b] = data[b]
      BY <1>3, <2>1, SMTT(60) DEF registerValidator, ValidatorData, Data, ActiveInv
    <2>3. ~ \E i \in DOMAIN active : active[i] = a
      BY <2>1, SMTT(60) DEF ActiveInv, ActiveIsExact
    <2>4. addActiveValidator(a)
      BY <1>3, SMTT(60) DEF registerValidator
    <2>5. registered' = registered \cup {a} /\ usedKeys' = usedKeys \cup {key} /\ fee' = fee
          /\ key \notin usedKeys
      BY <1>3, SMTT(60) DEF registerValidator
    <2>6. ActiveIsExact'
      BY <2>1, <2>2, <2>3, <2>4, <2>5, AddedActive, ZenonT(60)
         DEF ActiveIsExact, ActiveInv, canBecomeActive
    <2>7. KeysAreUnique' /\ \A b \in registered' :
              data'[b].blsPublicKey # NoKey => data'[b].blsPublicKey \in usedKeys'
      BY <2>1, <2>2, <2>5, KeysKept, SMTT(60)
    <2> QED BY <2>1, <2>2, <2>3, <2>4, <2>5, <2>6, <2>7, AddedActive, ZenonT(60) DEF ActiveInv
  <1>4. ASSUME NEW a \in Candidates, NEW key \in Keys, updateValidator(a, key) PROVE ActiveInv'
    <2>1. a \in Addresses /\ a \in registered /\ key # NoKey /\ key \notin usedKeys
      BY <1>4, ConsensusV1Assumption, SMTT(60) DEF updateValidator
    <2>2. /\ data' \in [Addresses -> Data] /\ data'[a].blsPublicKey = key
          /\ data'[a].isResigned = data[a].isResigned
          /\ \A b \in Addresses : b # a => data'[b] = data[b]
      BY <1>4, <2>1, ZenonT(60) DEF updateValidator, Data, ActiveInv
    <2>3. registered' = registered /\ usedKeys' = usedKeys \cup {key} /\ fee' = fee
      BY <1>4, SMTT(60) DEF updateValidator
    <2>4. KeysAreUnique' /\ \A b \in registered' :
              data'[b].blsPublicKey # NoKey => data'[b].blsPublicKey \in usedKeys'
      <3>1. registered' = registered \cup {a}
        BY <2>1, <2>3, SMTT(60)
      <3> QED BY <2>1, <2>2, <2>3, <3>1, KeysKept, SMTT(60)
    <2>5. CASE canBecomeActive(data'[a]) /\ ~isActiveValidator(a)
      <3>1. addActiveValidator(a)
        BY <1>4, <2>5, SMTT(60) DEF updateValidator
      <3>2. ~ \E i \in DOMAIN active : active[i] = a
        BY <2>1, <2>5, ActiveKnown, SMTT(60)
      <3>4. ASSUME NEW b \in Addresses
            PROVE  (\E i \in DOMAIN active' : active'[i] = b)
                      <=> b \in registered' /\ canBecomeActive(data'[b])
        <4>1. (\E i \in DOMAIN active' : active'[i] = b)
                  <=> b = a \/ \E i \in DOMAIN active : active[i] = b
          BY <2>1, <3>1, <3>2, AddedActive, SMTT(60)
        <4>2. (\E i \in DOMAIN active : active[i] = b) <=> b \in registered /\ canBecomeActive(data[b])
          BY ZenonT(60) DEF ActiveInv, ActiveIsExact
        <4> QED BY <2>1, <2>2, <2>3, <2>5, <4>1, <4>2, ZenonT(60)
      <3>3. ActiveIsExact'
        BY <2>1, <3>1, <3>2, <3>4, AddedActive, ZenonT(60) DEF ActiveIsExact
      <3> QED BY <2>1, <2>2, <2>3, <2>4, <3>1, <3>2, <3>3, AddedActive, ZenonT(60) DEF ActiveInv
    <2>6. CASE ~(canBecomeActive(data'[a]) /\ ~isActiveValidator(a))
      <3>1. UNCHANGED <<active, index>>
        BY <1>4, <2>6, ZenonT(60) DEF updateValidator
      <3>2. (\E i \in DOMAIN active : active[i] = a) <=> canBecomeActive(data'[a])
        BY <2>1, <2>2, <2>6, ActiveKnown, ZenonT(60) DEF ActiveInv, ActiveIsExact, canBecomeActive
      <3>3. ActiveIsExact'
        BY <2>1, <2>2, <2>3, <3>1, <3>2, SMTT(60) DEF ActiveIsExact, ActiveInv, canBecomeActive
      <3> QED BY <2>2, <2>3, <2>4, <3>1, <3>3, SMTT(60) DEF ActiveInv
    <2> QED BY <2>5, <2>6, SMTT(60)
  <1>5. ASSUME NEW a \in Candidates, resignValidator(a) PROVE ActiveInv'
    <2>1. a \in Addresses /\ a \in registered
      BY <1>5, ConsensusV1Assumption, ZenonT(60) DEF resignValidator
    <2>2. /\ data' \in [Addresses -> Data] /\ data'[a].blsPublicKey = data[a].blsPublicKey
          /\ data'[a].isResigned
          /\ \A b \in Addresses : b # a => data'[b] = data[b]
      BY <1>5, <2>1, ZenonT(60) DEF resignValidator, Data, ActiveInv
    <2>3. registered' = registered /\ usedKeys' = usedKeys /\ fee' = fee /\ removeActiveValidator(a)
      BY <1>5, SMTT(60) DEF resignValidator
    <2>6. ASSUME NEW b \in Addresses
          PROVE  (\E i \in DOMAIN active' : active'[i] = b)
                    <=> b \in registered' /\ canBecomeActive(data'[b])
      <3>1. (\E i \in DOMAIN active' : active'[i] = b)
                <=> b # a /\ \E i \in DOMAIN active : active[i] = b
        BY <2>1, <2>3, RemovedActive, SMTT(60)
      <3>2. (\E i \in DOMAIN active : active[i] = b) <=> b \in registered /\ canBecomeActive(data[b])
        BY SMTT(60) DEF ActiveInv, ActiveIsExact
      <3>3. ~canBecomeActive(data'[a])
        BY <2>2, SMTT(60) DEF canBecomeActive
      <3> QED BY <2>2, <2>3, <3>1, <3>2, <3>3, SMTT(60)
    <2>4. ActiveIsExact'
      BY <2>1, <2>3, <2>6, RemovedActive, ZenonT(60) DEF ActiveIsExact
    <2>5. KeysAreUnique' /\ \A b \in registered' :
              data'[b].blsPublicKey # NoKey => data'[b].blsPublicKey \in usedKeys'
      <3>1. registered' = registered \cup {a}
        BY <2>1, <2>3, ZenonT(60)
      <3> QED BY <2>1, <2>2, <2>3, <3>1, KeysKept, ZenonT(60)
    <2> QED BY <2>1, <2>2, <2>3, <2>4, <2>5, RemovedActive, ZenonT(60) DEF ActiveInv
  <1>6. ASSUME NEW f \in Fees, setFee(f) PROVE ActiveInv'
    BY <1>1, <1>6, ConsensusV1Assumption, ZenonT(60) DEF setFee, validatorVars
  <1>7. ASSUME NEW a, NEW v, addVote(a, v) \/ vote(a, v) \/ unvote(a) PROVE ActiveInv'
    BY <1>1, <1>7, SMTT(60) DEF addVote, vote, unvote, ActiveInv
  <1>8. ASSUME updateVoters(touched) PROVE ActiveInv'
    BY <1>1, <1>8, ZenonT(60) DEF updateVoters, ActiveInv
  <1>9. ASSUME NEW n, calculateRoundValidators(n) PROVE ActiveInv'
    BY <1>1, <1>9, ZenonT(60) DEF calculateRoundValidators, validatorVars, ActiveInv
  <1>10. ASSUME NEW a, NEW b, Transfer(a, b) PROVE ActiveInv'
    BY <1>1, <1>10, ZenonT(60) DEF Transfer, validatorVars, ActiveInv
  <1>11. CASE UNCHANGED consensusV1Vars
    BY <1>1, <1>11, SMTT(60) DEF consensusV1Vars, validatorVars, ActiveInv
  <1> QED BY <1>2, <1>3, <1>4, <1>5, <1>6, <1>7, <1>8, <1>9, <1>10, <1>11, SMTT(60)
             DEF ConsensusV1Next

\* _activeValidators and _activeValidatorIndex agree with what the validators are (ConsensusV1.sol:600).
THEOREM ActiveValidatorsAreExact == ConsensusV1Spec => []ActiveIsExact
  <1>1. ActiveInv => ActiveIsExact
    BY ZenonT(60) DEF ActiveInv
  <1> QED BY ActiveInit, ActiveNext, <1>1, PTL DEF ConsensusV1Spec

\* A BLS key is never in the hands of two validators (ConsensusV1.sol:689).
THEOREM BlsKeysAreUnique == ConsensusV1Spec => []KeysAreUnique
  <1>1. ActiveInv => KeysAreUnique
    BY ZenonT(60) DEF ActiveInv
  <1> QED BY ActiveInit, ActiveNext, <1>1, PTL DEF ConsensusV1Spec

----------------------------------------------------------------------------
Vote == [validator : Slots, balance : Int, prev : Slots, next : Slots]

VoteList == [of : [Slots -> Vote], head : Slots, tail : Slots, count : Nat]

\* What changing the links of two different votes leaves.
LEMMA Relinked ==
  ASSUME NEW f \in [Slots -> Vote], NEW p \in Slots, NEW q \in Slots, p # q,
         NEW x \in Slots, NEW y \in Slots
  PROVE  LET g == Relink(f, p, x, q, y)
         IN  /\ g \in [Slots -> Vote]
             /\ g[p].next = x /\ g[p].prev = f[p].prev /\ g[p].validator = f[p].validator
             /\ g[q].prev = y /\ g[q].next = f[q].next /\ g[q].validator = f[q].validator
             /\ \A c \in Slots : c # p /\ c # q => g[c] = f[c]
  <1> DEFINE g == Relink(f, p, x, q, y)
  <1>1. f[p] \in Vote /\ f[q] \in Vote
    BY SMTT(60)
  <1>2. [f[p] EXCEPT !.next = x] \in Vote /\ [f[q] EXCEPT !.prev = y] \in Vote
    BY <1>1, SMTT(60) DEF Vote
  <1>3. /\ [f[p] EXCEPT !.next = x].next = x
        /\ [f[p] EXCEPT !.next = x].prev = f[p].prev
        /\ [f[p] EXCEPT !.next = x].validator = f[p].validator
        /\ [f[q] EXCEPT !.prev = y].prev = y
        /\ [f[q] EXCEPT !.prev = y].next = f[q].next
        /\ [f[q] EXCEPT !.prev = y].validator = f[q].validator
    BY <1>1, SMTT(60) DEF Vote
  <1>4. /\ g[p] = [f[p] EXCEPT !.next = x] /\ g[q] = [f[q] EXCEPT !.prev = y]
        /\ \A c \in Slots : c # p /\ c # q => g[c] = f[c]
    BY SMTT(60) DEF Relink
  <1>5. g \in [Slots -> Vote]
    BY <1>2, ZenonT(60) DEF Relink
  <1> QED BY <1>3, <1>4, <1>5, ZenonT(60)

\* A vote of an account that has none goes to the end of the list.
LEMMA LinkedSpells ==
  ASSUME NEW V \in VoteList, NEW s \in [1..V.count -> Addresses], Spells(V, s),
         NEW a \in Addresses, V.of[a].validator = Zero, NEW v \in Addresses, NEW b \in Int
  PROVE  /\ Linked(V, a, v, b) \in VoteList
         /\ \E t \in [1..Linked(V, a, v, b).count -> Addresses] : Spells(Linked(V, a, v, b), t)
  <1> DEFINE W == Linked(V, a, v, b)
             n == V.count
             t == [i \in 1..(n + 1) |-> IF i = n + 1 THEN a ELSE s[i]]
             o == [validator |-> v, balance |-> b, prev |-> Zero, next |-> Zero]
             of == [V.of EXCEPT ![a] = o]
  <1>1. /\ n \in Nat /\ Zero \notin Addresses /\ Addresses \subseteq Slots /\ Zero \in Slots
        /\ a \in Slots /\ V.of \in [Slots -> Vote] /\ V.head \in Slots /\ V.tail \in Slots
    BY ConsensusV1Assumption, ZenonT(60) DEF VoteList, Slots
  <1>2. /\ \A i \in 1..n : s[i] \in Addresses /\ s[i] # a
        /\ \A i, j \in 1..n : s[i] = s[j] => i = j
    BY <1>1, SMTT(60) DEF Spells
  <1>3. o \in Vote /\ of \in [Slots -> Vote] /\ of[a] = o
        /\ \A c \in Slots : c # a => of[c] = V.of[c]
    BY <1>1, SMTT(60) DEF Vote, Slots
  <1>4. t \in [1..(n + 1) -> Addresses] /\ t[n + 1] = a /\ \A i \in 1..n : t[i] = s[i]
    BY <1>1, <1>2, SMTT(60)
  <1>5. \A i \in 1..(n + 1) : i = n + 1 \/ i \in 1..n
    BY <1>1, SMTT(60)
  <1>6. V.head = Zero <=> n = 0
    BY <1>1, <1>2, SMTT(60) DEF Spells
  <1>7. \A i, j \in 1..(n + 1) : t[i] = t[j] => i = j
    BY <1>1, <1>2, <1>4, <1>5, ZenonT(60)
  <1>8. CASE n = 0
    <2>1. W = [of |-> of, head |-> a, tail |-> a, count |-> n + 1]
      BY <1>6, <1>8, ZenonT(60) DEF Linked
    <2>2. W \in VoteList
      BY <1>1, <1>3, <2>1, SMTT(60) DEF VoteList
    <2>3. \A c \in Addresses : W.of[c].validator # Zero <=> \E i \in 1..(n + 1) : t[i] = c
      BY <1>1, <1>3, <1>4, <1>5, <1>8, <2>1, SMTT(60) DEF Spells
    <2>4. W.count = 1 /\ n + 1 = 1 /\ W.of = of /\ W.head = a /\ W.tail = a /\ t[1] = a
      BY <1>4, <1>8, <2>1, SMTT(60)
    <2>5. of[a].prev = Zero /\ of[a].next = Zero /\ \A i \in 1..1 : i = 1
      BY <1>3, SMTT(60)
    <2>6. Spells(W, t)
      <3> HIDE DEF W, t, of, n
      <3> QED BY <1>7, <2>3, <2>4, <2>5, SMTT(60) DEF Spells
    <2> QED BY <1>4, <2>1, <2>2, <2>6, SMTT(60)
  <1>9. CASE n # 0
    <2>0. V.tail = s[n] /\ V.head = s[1] /\ n \in 1..n /\ 1 \in 1..n /\ s[n] \in Addresses
          /\ s[n] \in Slots /\ s[n] # a
      BY <1>1, <1>2, <1>9, SMTT(60) DEF Spells
    <2> DEFINE off == Relink(of, V.tail, a, a, V.tail)
    <2>1. W = [of |-> off, head |-> V.head, tail |-> a, count |-> n + 1]
      BY <1>6, <1>9, ZenonT(60) DEF Linked
    <2>2. /\ off \in [Slots -> Vote]
          /\ off[a].prev = s[n] /\ off[a].next = Zero /\ off[a].validator = v
          /\ off[s[n]].next = a /\ off[s[n]].prev = V.of[s[n]].prev
          /\ off[s[n]].validator = V.of[s[n]].validator
          /\ \A c \in Slots : c # a /\ c # s[n] => off[c] = V.of[c]
      <3>1. of[s[n]] = V.of[s[n]] /\ V.of[s[n]] \in Vote
        BY <1>1, <1>3, <2>0, ZenonT(60)
      <3>2. /\ of[a].next = Zero /\ of[a].validator = v
        BY <1>3, SMTT(60)
      <3> HIDE DEF of
      <3>3. /\ off \in [Slots -> Vote]
            /\ off[V.tail].next = a /\ off[V.tail].prev = of[V.tail].prev
            /\ off[V.tail].validator = of[V.tail].validator
            /\ off[a].prev = V.tail /\ off[a].next = of[a].next /\ off[a].validator = of[a].validator
            /\ \A c \in Slots : c # V.tail /\ c # a => off[c] = of[c]
        <4>1. V.tail \in Slots /\ V.tail # a /\ of \in [Slots -> Vote] /\ a \in Slots
          BY <1>1, <1>3, <2>0, ZenonT(60)
        <4> QED BY <4>1, Relinked, SMTT(60)
      <3> HIDE DEF off
      <3> QED BY <1>3, <2>0, <3>1, <3>2, <3>3, ZenonT(60)
    <2> HIDE DEF off, of, t, W, n
    <2>3. W \in VoteList
      BY <1>1, <2>1, <2>2, SMTT(60) DEF VoteList
    <2>4. \A i \in 1..n : V.of[s[i]].validator # Zero
      BY <1>2, ZenonT(60) DEF Spells, n
    <2>5. \A c \in Addresses : off[c].validator # Zero <=> \E i \in 1..(n + 1) : t[i] = c
      <3> SUFFICES ASSUME NEW c \in Addresses
                   PROVE  off[c].validator # Zero <=> \E i \in 1..(n + 1) : t[i] = c
        BY ZenonT(60)
      <3>1. CASE c = a
        BY <1>1, <1>4, <2>2, <3>1, SMTT(60)
      <3>2. CASE c = s[n]
        BY <1>1, <1>4, <2>0, <2>2, <2>4, <3>2, SMTT(60)
      <3>3. CASE c # a /\ c # s[n]
        <4>1. off[c] = V.of[c]
          BY <1>1, <2>2, <3>3, ZenonT(60)
        <4>2. V.of[c].validator # Zero <=> \E i \in 1..n : s[i] = c
          BY ZenonT(60) DEF Spells, n
        <4> QED BY <1>1, <1>4, <1>5, <3>3, <4>1, <4>2, SMTT(60)
      <3> QED BY <3>1, <3>2, <3>3, ZenonT(60)
    <2>6. ASSUME NEW i \in 1..(n + 1)
          PROVE  /\ off[t[i]].prev = IF i = 1 THEN Zero ELSE t[i - 1]
                 /\ off[t[i]].next = IF i = n + 1 THEN Zero ELSE t[i + 1]
      <3>0. \A j \in 1..n : /\ V.of[s[j]].prev = IF j = 1 THEN Zero ELSE s[j - 1]
                            /\ V.of[s[j]].next = IF j = n THEN Zero ELSE s[j + 1]
        BY ZenonT(60) DEF Spells, n
      <3>1. CASE i = n + 1
        BY <1>1, <1>4, <1>9, <2>0, <2>2, <3>1, SMTT(60)
      <3>2. CASE i = n
        BY <1>1, <1>4, <2>0, <2>2, <3>0, <3>2, SMTT(60)
      <3>3. CASE i \in 1..n /\ i # n
        <4>1. s[i] # s[n] /\ s[i] # a /\ s[i] \in Slots
          BY <1>1, <1>2, <2>0, <3>3, ZenonT(60)
        <4>2. off[s[i]] = V.of[s[i]] /\ t[i] = s[i]
          BY <1>4, <2>2, <3>3, <4>1, ZenonT(60)
        <4>3. i + 1 \in 1..n /\ (i # 1 => i - 1 \in 1..n) /\ i # n + 1
          BY <1>1, <3>3, SMTT(60)
        <4> QED BY <1>4, <3>0, <3>3, <4>2, <4>3, SMTT(60)
      <3> QED BY <1>5, <3>1, <3>2, <3>3, ZenonT(60)
    <2>7. W.of = off /\ W.head = t[1] /\ W.tail = t[n + 1] /\ W.count = n + 1 /\ n + 1 # 0
      BY <1>1, <1>4, <2>0, <2>1, SMTT(60)
    <2>8. Spells(W, t)
      BY <1>7, <2>5, <2>6, <2>7, SMTT(60) DEF Spells
    <2> QED BY <1>4, <2>3, <2>7, <2>8, ZenonT(60) DEF W
  <1> QED BY <1>8, <1>9, ZenonT(60)

\* A vote that is withdrawn leaves the list, wherever it was.
LEMMA UnlinkedSpells ==
  ASSUME NEW V \in VoteList, NEW s \in [1..V.count -> Addresses], Spells(V, s),
         NEW a \in Addresses, V.of[a].validator # Zero
  PROVE  LET W == Unlinked(V, a)
         IN  /\ W \in VoteList /\ W.of[a].validator = Zero
             /\ \E t \in [1..W.count -> Addresses] : Spells(W, t)
  <1> DEFINE W == Unlinked(V, a)
             n == V.count
  <1>1. /\ n \in Nat /\ Zero \notin Addresses /\ Addresses \subseteq Slots /\ Zero \in Slots
        /\ a \in Slots /\ V.of \in [Slots -> Vote] /\ V.head \in Slots /\ V.tail \in Slots
        /\ V.of[a] \in Vote /\ V.of[a].prev \in Slots /\ V.of[a].next \in Slots
    BY ConsensusV1Assumption, ZenonT(60) DEF VoteList, Slots, Vote
  <1>2. PICK k \in 1..n : s[k] = a
    BY SMTT(60) DEF Spells
  <1>3. /\ \A i \in 1..n : s[i] \in Addresses /\ s[i] \in Slots
        /\ \A i, j \in 1..n : s[i] = s[j] => i = j
        /\ \A c \in Addresses : V.of[c].validator # Zero <=> \E i \in 1..n : s[i] = c
        /\ V.head = s[1] /\ V.tail = s[n] /\ 1 \in 1..n /\ n \in 1..n
        /\ \A i \in 1..n : /\ V.of[s[i]].prev = IF i = 1 THEN Zero ELSE s[i - 1]
                           /\ V.of[s[i]].next = IF i = n THEN Zero ELSE s[i + 1]
    BY <1>1, <1>2, SMTT(60) DEF Spells
  <1> DEFINE t == [i \in 1..(n - 1) |-> IF i < k THEN s[i] ELSE s[i + 1]]
             of == IF V.head = V.tail THEN V.of
                   ELSE IF V.tail = a THEN [V.of EXCEPT ![V.of[a].prev].next = Zero]
                   ELSE IF V.head = a THEN [V.of EXCEPT ![V.of[a].next].prev = Zero]
                   ELSE Relink(V.of, V.of[a].prev, V.of[a].next, V.of[a].next, V.of[a].prev)
             before == V.of[a].prev
             after == V.of[a].next
  <1>4. /\ V.head = V.tail <=> n = 1
        /\ V.tail = a <=> k = n
        /\ V.head = a <=> k = 1
    BY <1>1, <1>2, <1>3, SMTT(60)
  <1>5. before = (IF k = 1 THEN Zero ELSE s[k - 1]) /\ after = (IF k = n THEN Zero ELSE s[k + 1])
    BY <1>2, <1>3
  \* Whatever the case, the neighbours are linked to each other and nothing else changes., ZenonT(60)
  <1>6. /\ of \in [Slots -> Vote]
        /\ \A c \in Slots : of[c].validator = V.of[c].validator
        /\ k # 1 => of[s[k - 1]].next = after
        /\ k # n => of[s[k + 1]].prev = before
        /\ \A c \in Slots : (k = 1 \/ c # s[k - 1]) => of[c].next = V.of[c].next
        /\ \A c \in Slots : (k = n \/ c # s[k + 1]) => of[c].prev = V.of[c].prev
    <2>1. CASE n = 1
      <3>1. of = V.of /\ k = 1 /\ k = n
        BY <1>1, <1>2, <1>4, <2>1, SMTT(60)
      <3> QED BY <1>1, <3>1, ZenonT(60)
    <2>2. CASE n # 1 /\ k = n
      <3>1. of = [V.of EXCEPT ![before].next = Zero] /\ k # 1 /\ after = Zero
        BY <1>1, <1>2, <1>4, <1>5, <2>2, ZenonT(60)
      <3>2. before = s[k - 1] /\ before \in Slots /\ V.of[before] \in Vote
        BY <1>1, <1>5, <3>1, ZenonT(60)
      <3> HIDE DEF of, before, after, t
      <3>3. /\ [V.of[before] EXCEPT !.next = Zero] \in Vote
            /\ [V.of[before] EXCEPT !.next = Zero].next = Zero
            /\ [V.of[before] EXCEPT !.next = Zero].prev = V.of[before].prev
            /\ [V.of[before] EXCEPT !.next = Zero].validator = V.of[before].validator
        BY <1>1, <3>2, ZenonT(60) DEF Vote
      <3>4. /\ of[before] = [V.of[before] EXCEPT !.next = Zero]
            /\ \A c \in Slots : c # before => of[c] = V.of[c]
        BY <1>1, <3>1, <3>2, SMTT(60)
      <3>5. of \in [Slots -> Vote]
        BY <1>1, <3>1, <3>2, <3>3, SMTT(60)
      <3> QED BY <2>2, <3>1, <3>2, <3>3, <3>4, <3>5, ZenonT(60)
    <2>3. CASE n # 1 /\ k # n /\ k = 1
      <3>1. of = [V.of EXCEPT ![after].prev = Zero] /\ before = Zero
        BY <1>1, <1>2, <1>4, <1>5, <2>3, ZenonT(60)
      <3>2. after = s[k + 1] /\ after \in Slots /\ V.of[after] \in Vote
        BY <1>1, <1>5, <2>3, ZenonT(60)
      <3> HIDE DEF of, before, after, t
      <3>3. /\ [V.of[after] EXCEPT !.prev = Zero] \in Vote
            /\ [V.of[after] EXCEPT !.prev = Zero].prev = Zero
            /\ [V.of[after] EXCEPT !.prev = Zero].next = V.of[after].next
            /\ [V.of[after] EXCEPT !.prev = Zero].validator = V.of[after].validator
        BY <1>1, <3>2, ZenonT(60) DEF Vote
      <3>4. /\ of[after] = [V.of[after] EXCEPT !.prev = Zero]
            /\ \A c \in Slots : c # after => of[c] = V.of[c]
        BY <1>1, <3>1, <3>2, SMTT(60)
      <3>5. of \in [Slots -> Vote]
        BY <1>1, <3>1, <3>2, <3>3, SMTT(60)
      <3> QED BY <2>3, <3>1, <3>2, <3>3, <3>4, <3>5, SMTT(60)
    <2>4. CASE k # n /\ k # 1
      <3>1. of = Relink(V.of, before, after, after, before)
        BY <1>1, <1>2, <1>4, <2>4, SMTT(60)
      <3>2. before = s[k - 1] /\ after = s[k + 1] /\ before \in Slots /\ after \in Slots
        BY <1>1, <1>5, <2>4, ZenonT(60)
      <3>3. before # after
        BY <1>1, <1>2, <1>3, <2>4, <3>2, SMTT(60)
      <3> HIDE DEF of, before, after, t
      <3>4. LET g == Relink(V.of, before, after, after, before)
            IN  /\ g \in [Slots -> Vote]
                /\ g[before].next = after /\ g[before].prev = V.of[before].prev
                /\ g[before].validator = V.of[before].validator
                /\ g[after].prev = before /\ g[after].next = V.of[after].next
                /\ g[after].validator = V.of[after].validator
                /\ \A c \in Slots : c # before /\ c # after => g[c] = V.of[c]
        <4>1. V.of \in [Slots -> Vote] /\ before \in Slots /\ after \in Slots /\ before # after
          BY <1>1, <3>2, <3>3, ZenonT(60)
        <4> QED BY <4>1, Relinked, SMTT(60)
      <3> QED BY <2>4, <3>1, <3>2, <3>4, ZenonT(60)
    <2> QED BY <2>1, <2>2, <2>3, <2>4, ZenonT(60)
  <1>7. W = [of |-> [of EXCEPT ![a] = NoVote],
             head |-> IF V.head = V.tail THEN Zero ELSE IF V.tail # a /\ V.head = a THEN after ELSE V.head,
             tail |-> IF V.head = V.tail THEN Zero ELSE IF V.tail = a THEN before ELSE V.tail,
             count |-> n - 1]
    BY ZenonT(60) DEF Unlinked
  <1> DEFINE off == [of EXCEPT ![a] = NoVote]
  <1> HIDE DEF of
  <1>8. /\ off \in [Slots -> Vote] /\ off[a].validator = Zero
        /\ \A c \in Slots : c # a => off[c] = of[c]
    <2>1. NoVote \in Vote
      BY <1>1, SMTT(60) DEF NoVote, Vote
    <2> QED BY <1>1, <1>6, <2>1, ZenonT(60) DEF NoVote
  <1> HIDE DEF off, W, t
  <1>9. W.of = off /\ W.count = n - 1 /\ W \in VoteList
    BY <1>1, <1>2, <1>7, <1>8, SMTT(60) DEF VoteList, off
  <1>10. /\ t \in [1..(n - 1) -> Addresses]
         /\ \A i \in 1..(n - 1) : t[i] = IF i < k THEN s[i] ELSE s[i + 1]
         /\ \A i \in 1..(n - 1) : t[i] # a
    BY <1>1, <1>2, <1>3, SMTT(60) DEF t
  <1>11. \A i, j \in 1..(n - 1) : t[i] = t[j] => i = j
    BY <1>1, <1>2, <1>3, <1>10, SMTT(60)
  <1>12. \A c \in Addresses : off[c].validator # Zero <=> \E i \in 1..(n - 1) : t[i] = c
    <2> SUFFICES ASSUME NEW c \in Addresses, c # a
                 PROVE  V.of[c].validator # Zero <=> \E i \in 1..(n - 1) : t[i] = c
      BY <1>1, <1>6, <1>8, <1>10, SMTT(60)
    <2>1. ASSUME NEW i \in 1..n, s[i] = c PROVE \E j \in 1..(n - 1) : t[j] = c
      <3>1. CASE i < k
        BY <1>1, <1>2, <1>10, <2>1, <3>1, SMTT(60)
      <3>2. CASE i > k
        <4>1. i - 1 \in 1..(n - 1) /\ ~(i - 1 < k) /\ (i - 1) + 1 = i
          BY <1>1, <1>2, <3>2, SMTT(60)
        <4> QED BY <1>10, <2>1, <4>1, ZenonT(60)
      <3> QED BY <1>1, <1>2, <2>1, <3>1, <3>2, SMTT(60)
    <2>2. ASSUME NEW j \in 1..(n - 1), t[j] = c PROVE \E i \in 1..n : s[i] = c
      BY <1>1, <1>10, <2>2, SMTT(60)
    <2> QED BY <1>3, <2>1, <2>2, SMTT(60)
  <1>13. ASSUME NEW i \in 1..(n - 1)
         PROVE  /\ off[t[i]].prev = IF i = 1 THEN Zero ELSE t[i - 1]
                /\ off[t[i]].next = IF i = n - 1 THEN Zero ELSE t[i + 1]
    <2>0. t[i] \in Slots /\ off[t[i]] = of[t[i]]
      BY <1>1, <1>8, <1>10, ZenonT(60)
    <2>1. CASE i < k
      <3>1. t[i] = s[i] /\ i \in 1..n /\ i # n /\ s[i] \in Slots
        BY <1>1, <1>2, <1>3, <1>10, <2>1, SMTT(60)
      <3>2. of[s[i]].prev = IF i = 1 THEN Zero ELSE s[i - 1]
        <4>1. k = n \/ s[i] # s[k + 1]
          BY <1>1, <1>2, <1>3, <2>1, <3>1, SMTT(60)
        <4> QED BY <1>3, <1>6, <3>1, <4>1, SMTT(60)
      <3>3. i # 1 => t[i - 1] = s[i - 1]
        BY <1>1, <1>2, <1>10, <2>1, SMTT(60)
      <3>4. CASE i + 1 < k
        <4>1. s[i] # s[k - 1] /\ i # n - 1
          BY <1>1, <1>2, <1>3, <3>1, <3>4, SMTT(60)
        <4>2. of[s[i]].next = s[i + 1]
          BY <1>3, <1>6, <3>1, <4>1, ZenonT(60)
        <4>3. t[i + 1] = s[i + 1]
          BY <1>1, <1>2, <1>10, <3>4, <4>1, SMTT(60)
        <4> QED BY <2>0, <3>1, <3>2, <3>3, <4>1, <4>2, <4>3, ZenonT(60)
      <3>5. CASE i + 1 = k
        <4>1. k # 1 /\ i = k - 1
          BY <1>2, <3>1, <3>5, SMTT(60)
        <4>2. of[s[i]].next = after
          BY <1>6, <4>1, ZenonT(60)
        <4>3. i = n - 1 <=> k = n
          BY <1>1, <1>2, <4>1, SMTT(60)
        <4>4. i # n - 1 => t[i + 1] = s[k + 1]
          <5>1. i # n - 1 => i + 1 \in 1..(n - 1) /\ ~(i + 1 < k) /\ (i + 1) + 1 = k + 1
            BY <1>1, <1>2, <3>1, <3>5, SMTT(60)
          <5> QED BY <1>10, <5>1, ZenonT(60)
        <4> HIDE DEF after, before
        <4> QED BY <1>5, <2>0, <3>1, <3>2, <3>3, <4>2, <4>3, <4>4, SMTT(60)
      <3> QED BY <1>1, <1>2, <2>1, <3>4, <3>5, SMTT(60)
    <2>2. CASE ~(i < k)
      <3>1. t[i] = s[i + 1] /\ i + 1 \in 1..n /\ i + 1 # 1 /\ s[i + 1] \in Slots /\ i \in 1..n
        BY <1>1, <1>2, <1>3, <1>10, <2>2, SMTT(60)
      <3>2. of[s[i + 1]].next = IF i + 1 = n THEN Zero ELSE s[(i + 1) + 1]
        <4>1. k = 1 \/ s[i + 1] # s[k - 1]
          BY <1>1, <1>2, <1>3, <2>2, <3>1, SMTT(60)
        <4> QED BY <1>3, <1>6, <3>1, <4>1, SMTT(60)
      <3>3. i # n - 1 => t[i + 1] = s[(i + 1) + 1]
        <4>1. i # n - 1 => i + 1 \in 1..(n - 1) /\ ~(i + 1 < k)
          BY <1>1, <1>2, <2>2, <3>1, SMTT(60)
        <4> QED BY <1>10, <4>1, ZenonT(60)
      <3>4. i = n - 1 <=> i + 1 = n
        BY <1>1, SMTT(60)
      <3>5. CASE i = k
        <4>1. k # n
          BY <1>1, <3>5, SMTT(60)
        <4>2. of[s[i + 1]].prev = before
          BY <1>6, <3>5, <4>1, ZenonT(60)
        <4>3. i # 1 => t[i - 1] = s[k - 1]
          BY <1>1, <1>2, <1>10, <3>5, SMTT(60)
        <4> HIDE DEF after, before
        <4> QED BY <1>5, <2>0, <3>1, <3>2, <3>3, <3>4, <3>5, <4>2, <4>3, ZenonT(60)
      <3>6. CASE i # k
        <4>1. (k = n \/ s[i + 1] # s[k + 1]) /\ i # 1
          BY <1>1, <1>2, <1>3, <2>2, <3>1, <3>6, SMTT(60)
        <4>2. of[s[i + 1]].prev = s[(i + 1) - 1]
          BY <1>3, <1>6, <3>1, <4>1, ZenonT(60)
        <4>3. t[i - 1] = s[i] /\ (i + 1) - 1 = i
          BY <1>1, <1>2, <1>10, <2>2, <3>6, <4>1, SMTT(60)
        <4> QED BY <2>0, <3>1, <3>2, <3>3, <3>4, <4>1, <4>2, <4>3, ZenonT(60)
      <3> QED BY <3>5, <3>6, ZenonT(60)
    <2> QED BY <2>1, <2>2, ZenonT(60)
  <1>14. W.head = (IF n = 1 THEN Zero ELSE IF k # n /\ k = 1 THEN after ELSE V.head)
         /\ W.tail = (IF n = 1 THEN Zero ELSE IF k = n THEN before ELSE V.tail)
    BY <1>4, <1>7, ZenonT(60)
  <1> HIDE DEF after, before
  <1>15. W.head = IF n - 1 = 0 THEN Zero ELSE t[1]
    <2>1. CASE n = 1
      BY <1>14, <2>1, SMTT(60)
    <2>2. CASE n # 1
      <3>1. 1 \in 1..(n - 1) /\ n - 1 # 0
        BY <1>1, <1>3, <2>2, SMTT(60)
      <3>2. t[1] = IF 1 < k THEN s[1] ELSE s[2]
        BY <1>10, <3>1, SMTT(60)
      <3>3. CASE k = 1
        BY <1>5, <1>14, <2>2, <3>1, <3>2, <3>3, SMTT(60)
      <3>4. CASE k # 1
        <4>1. 1 < k
          BY <1>1, <1>2, <3>4, SMTT(60)
        <4> QED BY <1>3, <1>14, <2>2, <3>1, <3>2, <3>4, <4>1, ZenonT(60)
      <3> QED BY <3>3, <3>4, ZenonT(60)
    <2> QED BY <2>1, <2>2, ZenonT(60)
  <1>16. W.tail = IF n - 1 = 0 THEN Zero ELSE t[n - 1]
    <2>1. CASE n = 1
      BY <1>14, <2>1, SMTT(60)
    <2>2. CASE n # 1
      <3>1. n - 1 \in 1..(n - 1) /\ n - 1 # 0 /\ (n - 1) + 1 = n
        BY <1>1, <1>3, <2>2, SMTT(60)
      <3>2. t[n - 1] = IF n - 1 < k THEN s[n - 1] ELSE s[n]
        BY <1>10, <3>1, ZenonT(60)
      <3>3. CASE k = n
        <4>1. n - 1 < k /\ k # 1
          BY <1>1, <2>2, <3>3, SMTT(60)
        <4> QED BY <1>5, <1>14, <2>2, <3>1, <3>2, <3>3, <4>1, ZenonT(60)
      <3>4. CASE k # n
        <4>1. ~(n - 1 < k)
          BY <1>1, <1>2, <3>4, SMTT(60)
        <4> QED BY <1>3, <1>14, <2>2, <3>1, <3>2, <3>4, <4>1, ZenonT(60)
      <3> QED BY <3>3, <3>4, ZenonT(60)
    <2> QED BY <2>1, <2>2, ZenonT(60)
  <1>17. Spells(W, t)
    BY <1>9, <1>11, <1>12, <1>13, <1>15, <1>16, SMTT(60) DEF Spells
  <1> QED BY <1>8, <1>9, <1>10, <1>17, ZenonT(60) DEF W

(* What the list of votes needs besides: the types of what goes into it.   *)
VotesInv ==
    /\ ActiveInv
    /\ balance \in [Addresses -> Int] /\ touched \subseteq Addresses
    /\ votes \in VoteList
    /\ VotesFormList

\* Nobody votes at first.
LEMMA VotesInit == ConsensusV1Init => VotesInv
  <1> SUFFICES ASSUME ConsensusV1Init PROVE VotesInv
    BY SMTT(60)
  <1>1. balance \in [Addresses -> Int] /\ touched \subseteq Addresses
    BY ConsensusV1Assumption, SMTT(60) DEF ConsensusV1Init
  <1>2. NoVote \in Vote
    BY SMTT(60) DEF NoVote, Vote, Slots
  <1>3. votes \in VoteList
    BY <1>2, SMTT(60) DEF ConsensusV1Init, VoteList, Slots
  <1>4. PICK s \in [1..0 -> Addresses] : TRUE
    <2>1. [i \in 1..0 |-> Zero] \in [1..0 -> Addresses]
      BY SMTT(60)
    <2> QED BY <2>1, ZenonT(60)
  <1>5. votes.count = 0 /\ votes.head = Zero /\ votes.tail = Zero
    BY SMTT(60) DEF ConsensusV1Init
  <1>6. \A a \in Addresses : votes.of[a].validator = Zero
    BY SMTT(60) DEF ConsensusV1Init, NoVote, Slots
  <1>7. Spells(votes, s)
    BY <1>5, <1>6, SMTT(60) DEF Spells
  <1>8. VotesFormList
    BY <1>4, <1>5, <1>7, ZenonT(60) DEF VotesFormList
  <1> QED BY ActiveInit, <1>1, <1>3, <1>8, ZenonT(60) DEF VotesInv

\* Every step keeps the voters in one list.
LEMMA VotesNext == VotesInv /\ [ConsensusV1Next]_consensusV1Vars => VotesInv'
  <1> SUFFICES ASSUME VotesInv, [ConsensusV1Next]_consensusV1Vars PROVE VotesInv'
    BY SMTT(60)
  <1>0. ActiveInv'
    BY ActiveNext, SMTT(60) DEF VotesInv
  <1>1. ASSUME votes' = votes, balance' \in [Addresses -> Int], touched' \subseteq Addresses
        PROVE  VotesInv'
    <2>1. \A s : Spells(votes, s) => Spells(votes', s)
      BY <1>1, SMTT(60)
    <2>2. VotesFormList'
      BY <1>1, <2>1, SMTT(60) DEF VotesInv, VotesFormList
    <2> QED BY <1>0, <1>1, <2>2, SMTT(60) DEF VotesInv
  <1>2. PICK s \in [1..votes.count -> Addresses] : Spells(votes, s)
    BY SMTT(60) DEF VotesInv, VotesFormList
  <1>3. ASSUME NEW a \in Imported, NEW r \in BOOLEAN, addValidator(a, r) PROVE VotesInv'
    BY <1>1, <1>3, ZenonT(60) DEF addValidator, VotesInv
  <1>4. ASSUME NEW a \in Candidates, NEW key \in Keys, registerValidator(a, key) PROVE VotesInv'
    <2>1. fee \in Int /\ a \in Addresses
      BY ConsensusV1Assumption, SMTT(60) DEF VotesInv, ActiveInv
    <2>2. balance' \in [Addresses -> Int] /\ touched' \subseteq Addresses
      BY <1>4, <2>1, SMTT(60) DEF registerValidator, VotesInv
    <2>3. votes' = votes
      BY <1>4, SMTT(60) DEF registerValidator
    <2> QED BY <1>1, <2>2, <2>3, ZenonT(60)
  <1>5. ASSUME NEW a \in Candidates, NEW key \in Keys, updateValidator(a, key) PROVE VotesInv'
    BY <1>1, <1>5, ZenonT(60) DEF updateValidator, VotesInv
  <1>6. ASSUME NEW a \in Candidates, resignValidator(a) PROVE VotesInv'
    <2>1. data[a].fee \in Nat
      BY ConsensusV1Assumption, SMTT(60) DEF VotesInv, ActiveInv, Data
    <2>2. balance' \in [Addresses -> Int] /\ touched' \subseteq Addresses
      BY <1>6, <2>1, ConsensusV1Assumption, SMTT(60) DEF resignValidator, refund, VotesInv
    <2>3. votes' = votes
      BY <1>6, SMTT(60) DEF resignValidator
    <2> QED BY <1>1, <2>2, <2>3, ZenonT(60)
  <1>7. ASSUME NEW f \in Fees, setFee(f) PROVE VotesInv'
    BY <1>1, <1>7, ZenonT(60) DEF setFee, VotesInv
  <1>8. ASSUME NEW a \in Voters, NEW v \in Candidates \cup Imported, addVote(a, v) PROVE VotesInv'
    <2>1. a \in Addresses /\ v \in Addresses /\ balance[a] \in Int /\ votes.of[a].validator = Zero
      BY <1>8, ConsensusV1Assumption, ZenonT(60) DEF addVote, VotesInv
    <2>2. votes' = Linked(votes, a, v, balance[a]) /\ balance' = balance
      BY <1>8, ZenonT(60) DEF addVote
    <2>3. votes' \in VoteList /\ VotesFormList'
      BY <1>2, <2>1, <2>2, LinkedSpells, ZenonT(60) DEF VotesInv, VotesFormList
    <2>4. touched' = touched
      BY <1>8, ZenonT(60) DEF addVote
    <2> QED BY <1>0, <2>2, <2>3, <2>4, ZenonT(60) DEF VotesInv
  <1>9. ASSUME NEW a \in Voters, NEW v \in Candidates \cup Imported, vote(a, v) PROVE VotesInv'
    <2>1. a \in Addresses /\ v \in Addresses /\ balance[a] \in Int /\ balance' = balance
          /\ touched' \subseteq Addresses
      BY <1>9, ConsensusV1Assumption, ZenonT(60) DEF vote, VotesInv
    <2>2. CASE votes.of[a].validator = Zero
      <3>1. votes' = Linked(votes, a, v, balance[a])
        BY <1>9, <2>2, ZenonT(60) DEF vote
      <3>2. votes' \in VoteList /\ VotesFormList'
        BY <1>2, <2>1, <2>2, <3>1, LinkedSpells, ZenonT(60) DEF VotesInv, VotesFormList
      <3> QED BY <1>0, <2>1, <3>2, ZenonT(60) DEF VotesInv
    <2>3. CASE votes.of[a].validator # Zero
      <3> DEFINE W == Unlinked(votes, a)
      <3>1. votes' = Linked(W, a, v, balance[a])
        BY <1>9, <2>3, ZenonT(60) DEF vote
      <3>2. /\ W \in VoteList /\ W.of[a].validator = Zero
            /\ \E t \in [1..W.count -> Addresses] : Spells(W, t)
        BY <1>2, <2>1, <2>3, UnlinkedSpells, ZenonT(60) DEF VotesInv
      <3> HIDE DEF W
      <3>3. votes' \in VoteList /\ VotesFormList'
        BY <2>1, <3>1, <3>2, LinkedSpells, ZenonT(60) DEF VotesFormList
      <3> QED BY <1>0, <2>1, <3>3, SMTT(60) DEF VotesInv
    <2> QED BY <2>2, <2>3, ZenonT(60)
  <1>10. ASSUME NEW a \in Voters, unvote(a) PROVE VotesInv'
    <2>1. a \in Addresses /\ balance' = balance /\ votes.of[a].validator # Zero
          /\ votes' = Unlinked(votes, a) /\ touched' \subseteq Addresses
      BY <1>10, ConsensusV1Assumption, ZenonT(60) DEF unvote, VotesInv
    <2>2. votes' \in VoteList /\ VotesFormList'
      BY <1>2, <2>1, UnlinkedSpells, SMTT(60) DEF VotesInv, VotesFormList
    <2> QED BY <1>0, <2>1, <2>2, ZenonT(60) DEF VotesInv
  <1>11. ASSUME updateVoters(touched) PROVE VotesInv'
    <2> DEFINE of == [a \in Slots |-> IF a \in touched /\ votes.of[a].validator # Zero
                                     THEN [votes.of[a] EXCEPT !.balance = balance[a]] ELSE votes.of[a]]
    <2>1. votes' = [votes EXCEPT !.of = of] /\ balance' = balance /\ touched' \subseteq Addresses
      BY <1>11, ZenonT(60) DEF updateVoters, VotesInv
    <2>2. votes.of \in [Slots -> Vote]
      BY SMTT(60) DEF VotesInv, VoteList
    <2>3. ASSUME NEW a \in Slots
          PROVE  /\ of[a] \in Vote /\ of[a].validator = votes.of[a].validator
                 /\ of[a].prev = votes.of[a].prev /\ of[a].next = votes.of[a].next
      <3>1. CASE a \in touched /\ votes.of[a].validator # Zero
        <4>1. balance[a] \in Int
          BY <3>1, ZenonT(60) DEF VotesInv
        <4>2. votes.of[a] \in Vote
          BY <2>2, SMTT(60)
        <4>3. of[a] = [votes.of[a] EXCEPT !.balance = balance[a]]
          BY <3>1, SMTT(60)
        <4> HIDE DEF of
        <4> QED BY <4>1, <4>2, <4>3, ZenonT(60) DEF Vote
      <3>2. CASE ~(a \in touched /\ votes.of[a].validator # Zero)
        BY <2>2, <3>2, SMTT(60)
      <3> QED BY <3>1, <3>2, SMTT(60)
    <2>4. of \in [Slots -> Vote]
      BY <2>3, SMTT(60)
    <2> HIDE DEF of
    <2>5. votes' \in VoteList /\ votes'.of = of /\ votes'.count = votes.count
          /\ votes'.head = votes.head /\ votes'.tail = votes.tail
      BY <2>1, <2>4, ZenonT(60) DEF VotesInv, VoteList
    <2>6. Addresses \subseteq Slots /\ \A i \in 1..votes.count : s[i] \in Slots
      BY ZenonT(60) DEF Slots
    <2>7. Spells(votes', s)
      BY <1>2, <2>3, <2>5, <2>6, SMTT(60) DEF Spells
    <2>8. VotesFormList'
      BY <2>5, <2>7, ZenonT(60) DEF VotesFormList
    <2> QED BY <1>0, <2>1, <2>5, <2>8, SMTT(60) DEF VotesInv
  <1>12. ASSUME NEW n, calculateRoundValidators(n) PROVE VotesInv'
    BY <1>1, <1>12, ZenonT(60) DEF calculateRoundValidators, VotesInv
  <1>13. ASSUME NEW a \in Payers, NEW b \in Addresses, Transfer(a, b) PROVE VotesInv'
    <2>1. balance' \in [Addresses -> Int] /\ touched' \subseteq Addresses
      BY <1>13, ConsensusV1Assumption, SMTT(60) DEF Transfer, VotesInv
    <2>2. votes' = votes
      BY <1>13, SMTT(60) DEF Transfer
    <2> QED BY <1>1, <2>1, <2>2, ZenonT(60)
  <1>14. CASE UNCHANGED consensusV1Vars
    BY <1>1, <1>14, ZenonT(60) DEF consensusV1Vars, VotesInv
  <1> QED BY <1>3, <1>4, <1>5, <1>6, <1>7, <1>8, <1>9, <1>10, <1>11, <1>12, <1>13, <1>14, SMTT(60)
          DEF ConsensusV1Next

\* The voters form one list, with every voter in it once (ConsensusV1.sol:636).
THEOREM VotersFormOneList == ConsensusV1Spec => []VotesFormList
  <1>1. VotesInv => VotesFormList
    BY SMTT(60) DEF VotesInv
  <1> QED BY VotesInit, VotesNext, <1>1, PTL DEF ConsensusV1Spec
=============================================================================
