-------------------------------- MODULE Evm --------------------------------
(***************************************************************************)
(* The state a node's EVM instance keeps while it executes a block: the    *)
(* pending commit of packages/evm/bindings and the state commit of         *)
(* packages/evm/core.  A pending commit overlays the committed database    *)
(* with a cache (what the next transaction reads), collects transitions    *)
(* (what the commit will write), and remembers which legacy cold wallets   *)
(* it merged.  state_root builds the change set out of it, commit writes   *)
(* that change set and forgets every other pending commit.                 *)
(*                                                                         *)
(* An account is a balance, a nonce and the vote weight the consensus      *)
(* contract holds for it.  Of the contract's own storage there is what the *)
(* last block of a round writes: the fee of the next milestone (named by   *)
(* the block number it starts at) and the weights the next validators are  *)
(* chosen by.  A transaction moves value, burns gas, pays the generator,   *)
(* and logs something unless it reverts; a bloom is the set of             *)
(* transactions whose logs are in it.  revm itself, which decides whether a transaction is     *)
(* valid and what it does, is outside the repository: Invalid and Executed *)
(* keep what the callers rely on (a nonce, a balance and a gas check, then *)
(* the transfer or a revert that still pays for gas).                      *)
(***************************************************************************)
EXTENDS Integers, Sequences, SequencesExt

CONSTANTS
    Accounts,      \* addresses
    Txs,           \* the transactions: from, to, nonce, value, gasLimit,
                   \* gasUsed, gasPrice, reverts
    Legacy,        \* balance of the legacy cold wallet of each account
    Generator,     \* the block's validator address (the beneficiary)
    Reward,        \* milestone.reward
    MaxGasLimit,   \* milestone.block.maxGasLimit
    RoundLength    \* milestone.roundValidators: blocks in a round

\* What a module that sets the constants has to assume.
EvmAssumption ==
    /\ Generator \in Accounts
    /\ Legacy \in [Accounts -> Nat]
    /\ Reward \in Nat /\ MaxGasLimit \in Nat /\ RoundLength \in Nat \ {0}
    /\ \A t \in Txs : t.gasUsed <= t.gasLimit

EmptyMap == [a \in {} |-> 0]

(* What prepare_next_commit inserts: PendingCommit with the defaults.      *)
PendingCommit == [cache |-> EmptyMap, transitions |-> EmptyMap,
                  merged |-> EmptyMap, round |-> <<>>, results |-> {}, built |-> FALSE,
                  change |-> [accounts |-> EmptyMap, merged |-> {}, round |-> <<>>],
                  receipts |-> {}]

Overlay(f, g) == [a \in DOMAIN f \cup DOMAIN g |-> IF a \in DOMAIN g THEN g[a] ELSE f[a]]

(* Reading through the cache: an account that is not there is loaded from  *)
(* the committed database.                                                 *)
Load(cache, db, as) == Overlay([a \in as |-> db.accounts[a]], cache)

Restricted(f, as) == [a \in DOMAIN f \cap as |-> f[a]]

----------------------------------------------------------------------------
(* state_commit::apply_rewards: balances are increased in the cache and    *)
(* the accounts become transitions.                                        *)
apply_rewards(p, db, a, amount) ==
    LET cache == [Load(p.cache, db, {a}) EXCEPT ![a].balance = @ + amount]
    IN  [p EXCEPT !.cache = cache,
                  !.transitions = Overlay(@, Restricted(cache, {a}))]

(* revm's validation of a transaction against the account it loads.        *)
Invalid(t, account) ==
    \/ t.nonce # account.nonce
    \/ account.balance < t.value + t.gasLimit * t.gasPrice
    \/ t.gasLimit > MaxGasLimit

(* revm's execution: gas is paid to the beneficiary whatever happens, the  *)
(* value moves unless the call reverts.                                    *)
Executed(accounts, t) ==
    LET fee == t.gasUsed * t.gasPrice
        sent == IF t.reverts THEN 0 ELSE t.value
        paid == [accounts EXCEPT ![t.from].balance = @ - fee - sent,
                                 ![t.from].nonce = @ + 1]
        moved == [paid EXCEPT ![t.to].balance = @ + sent]
    IN  [moved EXCEPT ![Generator].balance = @ + fee]

(* transact_write: the cache is lent to revm.  On success the cache comes  *)
(* back with the new state and the changed accounts become transitions; on *)
(* an error it comes back as it was, with the sender loaded.               *)
TakenAway(p, db, t) == [p EXCEPT !.cache = EmptyMap]

HandedBack(p, db, t) == [p EXCEPT !.cache = Load(@, db, {t.from})]

transact_write(p, db, t) ==
    LET touched == {t.from, t.to, Generator}
        cache == Load(p.cache, db, touched)
    IN  IF Invalid(t, cache[t.from])
        THEN [ok |-> FALSE, pending |-> HandedBack(p, db, t)]
        ELSE [ok |-> TRUE,
              pending |-> [p EXCEPT
                  !.cache = Executed(cache, t),
                  !.transitions = Overlay(@, Restricted(Executed(cache, t), touched)),
                  !.results = @ \cup {t}]]

(* A legacy cold wallet is merged before the sender's first transaction,   *)
(* so that the transaction can spend it.  A wallet that does not exist or  *)
(* was merged by a committed block is remembered as looked up.             *)
MergeLegacy(p, db, t) ==
    IF t.from \in DOMAIN p.merged THEN p
    ELSE IF Legacy[t.from] > 0 /\ t.from \notin db.merged
         THEN [apply_rewards(p, db, t.from, Legacy[t.from])
                  EXCEPT !.merged = Overlay(@, [a \in {t.from} |-> TRUE])]
         ELSE [p EXCEPT !.merged = Overlay(@, [a \in {t.from} |-> FALSE])]

Merges(p, db, t) == t.from \notin DOMAIN p.merged /\ Legacy[t.from] > 0 /\ t.from \notin db.merged

(* After a failure the pending commit of before the merge is put back, if  *)
(* there was one; otherwise only transact_write's own restoration counts.  *)
Restored(p, db, t, failed) == IF Merges(p, db, t) THEN p ELSE failed

(* EvmInner::process of a transaction of block number n.                   *)
process(p, db, n, t) ==
    IF n <= db.number THEN [ok |-> FALSE, pending |-> p]
    ELSE LET done == transact_write(MergeLegacy(p, db, t), db, t)
         IN  IF done.ok THEN done
             ELSE [ok |-> FALSE, pending |-> Restored(p, db, t, done.pending)]

----------------------------------------------------------------------------
(* updateVoters of the consensus contract: the vote weight of every        *)
(* account handed to it becomes the account's balance.                     *)
updateVoters(p, voters) ==
    LET cache == [a \in DOMAIN p.cache |->
                    IF a \in voters THEN [p.cache[a] EXCEPT !.vote = p.cache[a].balance]
                                    ELSE p.cache[a]]
    IN  [p EXCEPT !.cache = cache,
                  !.transitions = Overlay(@, Restricted(cache,
                      {a \in voters : cache[a] # p.cache[a]}))]

(* update_rewards_and_votes: the block reward is applied first, then every *)
(* account in the cache is a voter.                                        *)
update_rewards_and_votes(p, db) ==
    LET rewarded == apply_rewards(p, db, Generator, Reward)
    IN  updateVoters(rewarded, DOMAIN rewarded.cache)

(* RoundCalculator.isNewRound.                                             *)
isNewRound(n) == n % RoundLength = 1 % RoundLength

(* update_validator_registration_fee and calculate_round_validators: two   *)
(* calls of the consensus contract, which reads through the cache.         *)
RoundEnd(p, db, n) ==
    [p EXCEPT !.round = <<[fee |-> n + 1,
                           weights |-> [a \in Accounts |->
                                           Load(p.cache, db, Accounts)[a].vote]]>>]

(* What follows the transactions of block n.                               *)
EndOfBlock(p, db, n) ==
    LET voted == update_rewards_and_votes(p, db)
    IN  IF isNewRound(n + 1) THEN RoundEnd(voted, db, n) ELSE voted

(* build_commit: the change set is what differs from the committed state,  *)
(* and the cache, the transitions and the rest are taken out.  state_root  *)
(* keeps the result, and hashes the change set.                            *)
build_commit(p, db) ==
    [PendingCommit EXCEPT
        !.built = TRUE,
        !.change = [accounts |-> Restricted(p.transitions,
                                   {a \in DOMAIN p.transitions :
                                        p.transitions[a] # db.accounts[a]}),
                    merged |-> {a \in DOMAIN p.merged : p.merged[a]},
                    round |-> p.round],
        !.receipts = p.results]

state_root(p, db) == IF p.built THEN p ELSE build_commit(p, db)

(* logs_bloom::calculate, before or after build_commit took the results.   *)
logs_bloom(p) == {t \in IF p.built THEN p.receipts ELSE p.results : ~t.reverts}

(* commit_to_db: one write transaction with the accounts, the storage and  *)
(* the merged legacy wallets.                                              *)
commit_change_set(db, change) ==
    [number |-> db.number + 1,
     accounts |-> Overlay(db.accounts, change.accounts),
     merged |-> db.merged \cup change.merged,
     round |-> IF change.round = <<>> THEN db.round ELSE change.round]

----------------------------------------------------------------------------
(* The reference: a block executed on plain accounts, with no cache, no    *)
(* transitions and no snapshots.  A transaction that is not valid there    *)
(* makes the block invalid.                                                *)
RefMerged(s, t) ==
    IF Legacy[t.from] > 0 /\ t.from \notin s.merged
    THEN [s EXCEPT !.accounts[t.from].balance = @ + Legacy[t.from],
                   !.merged = @ \cup {t.from}]
    ELSE s

RefValid(s, t) == s.ok /\ ~Invalid(t, RefMerged(s, t).accounts[t.from])

RefStep(s, t) ==
    IF RefValid(s, t)
    THEN LET m == RefMerged(s, t)
         IN  [m EXCEPT !.accounts = Executed(@, t),
                       !.gasUsed = @ + t.gasUsed,
                       !.fee = @ + t.gasUsed * t.gasPrice]
    ELSE [s EXCEPT !.ok = FALSE]

RefRun(db, txs) ==
    FoldLeft(RefStep, [ok |-> TRUE, accounts |-> db.accounts, merged |-> db.merged,
                       gasUsed |-> 0, fee |-> 0], txs)

(* The end of block n: the reward, and every account's vote weight is its  *)
(* balance; the last block of a round fixes the weights of the next.       *)
RefEnd(s, n) ==
    LET rewarded == [s.accounts EXCEPT ![Generator].balance = @ + Reward]
    IN  [accounts |-> [a \in Accounts |-> [rewarded[a] EXCEPT !.vote = rewarded[a].balance]],
         merged |-> s.merged,
         round |-> IF isNewRound(n + 1)
                   THEN <<[fee |-> n + 1, weights |-> [a \in Accounts |-> rewarded[a].balance]]>>
                   ELSE <<>>]

(* The header of an honest execution of txs on db.                         *)
RefHeader(db, txs) ==
    LET s == RefRun(db, txs)
        e == RefEnd(s, db.number + 1)
    IN  [gasUsed |-> s.gasUsed, fee |-> s.fee,
         root |-> [accounts |-> Restricted(e.accounts,
                       {a \in Accounts : e.accounts[a] # db.accounts[a]}),
                   merged |-> e.merged \ db.merged, round |-> e.round],
         bloom |-> {t \in Range(txs) : ~t.reverts}]
=============================================================================
