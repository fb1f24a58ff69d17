------------------------------ MODULE Forging ------------------------------
(***************************************************************************)
(* Making a block and checking it.  TransactionForger (packages/forger)    *)
(* executes pool transactions on an EVM instance of its own; it runs       *)
(* outside the consensus handlers, so a block can be committed while it    *)
(* works.  BlockProcessor (packages/processor) executes proposed blocks on *)
(* the node's instance, each under its own commit key, and compares gas,   *)
(* fee, state root and logs bloom with the header; the decided block's     *)
(* pending commit becomes the committed state.                             *)
(*                                                                         *)
(* A block is [number, txs, chained, gasUsed, fee, root, bloom].  Its hash *)
(* is the block itself, and so is its commit key.  The header's state root *)
(* is the change set it hashes.  Of the BlockVerifier's handlers two speak *)
(* of what is in the block, the gas limit and duplicate transactions;      *)
(* `chained' is what the others say of the rest of the header (parent,     *)
(* number, round, proposer, timestamp, reward, size, version ...).         *)
(***************************************************************************)
EXTENDS Evm, FiniteSets, FiniteSetsExt, TLC

CONSTANTS
    MinGas,        \* the 21000 gas of a plain transfer
    InitialState,  \* accounts at the start
    MaxNumber,     \* bound: blocks committed
    MaxBlocks,     \* bound: blocks known when another one is made
    MaxLength      \* bound: transactions in another validator's block

\* What a module that sets the constants has to assume.
ForgingAssumption ==
    /\ MinGas \in Nat /\ MaxNumber \in Nat /\ MaxBlocks \in Nat /\ MaxLength \in Nat
    /\ InitialState \in [Accounts -> [balance : Nat, nonce : Nat, vote : Nat]]

VARIABLES
    db,        \* committed state, shared by the instances
    pool,      \* transactions in the pool
    forger,    \* the TransactionForger at work
    blocks,    \* blocks known for the next number
    pending,   \* pending commits of the node's instance, by commit key
    results,   \* BlockProcessor's verdict on each processed block
    removed,   \* transactions the forger had removed, with the prefix they
               \* failed behind
    decided    \* the last block committed (its record only)
vars == <<db, pool, forger, blocks, pending, results, removed, decided>>

Idle == [stage |-> "idle", number |-> 0, pending |-> PendingCommit,
         queue |-> <<>>, gasLeft |-> MaxGasLimit, gasUsed |-> 0, fee |-> 0,
         txs |-> <<>>, failed |-> {}]

(* A pool holds one transaction of a sender for a nonce.                   *)
FullPools ==
    {ps \in SUBSET Txs :
        \A t \in Txs : \E u \in ps : \A w \in ps :
            w.from = t.from /\ w.nonce = t.nonce <=> w = u}

ForgingInit ==
    /\ db = [number |-> 0, accounts |-> InitialState, merged |-> {}, round |-> <<>>]
    /\ pool \in FullPools
    /\ forger = Idle
    /\ blocks = {}
    /\ pending = EmptyMap
    /\ results = EmptyMap
    /\ removed = {}
    /\ decided = <<>>

(* Query.getFromHighestPriority: a sender's transactions in the order of   *)
(* their nonces; of the senders' first ones the highest price leads.       *)
PoolOrders ==
    {q \in SetToSeqs(pool) :
        \A i, j \in DOMAIN q : i < j =>
            /\ q[i].from = q[j].from => q[i].nonce < q[j].nonce
            /\ (\A k \in i..(j - 1) : q[k].from # q[j].from) => q[i].gasPrice >= q[j].gasPrice}

(* RemoveTransactionHandler: the transaction, if it is in the pool still,  *)
(* and the sender's later ones.                                            *)
PoolWithout(t) ==
    IF t \in pool THEN {u \in pool : u.from = t.from => u.nonce < t.nonce} ELSE pool

(* BlockForger.forgeBlock and getTransactions up to the loop: a new        *)
(* forger, its own instance, prepareNextCommit.                            *)
ForgeBlock ==
    /\ forger.stage = "idle"
    /\ db.number < MaxNumber
    /\ Cardinality(blocks) < MaxBlocks
    /\ \E q \in PoolOrders :
          forger' = [Idle EXCEPT !.stage = "txs", !.number = db.number + 1, !.queue = q]
    /\ UNCHANGED <<db, pool, blocks, pending, results, removed, decided>>

(* #processTransaction.  A transaction whose gas limit does not fit into   *)
(* the remaining space is executed behind a snapshot, and rolled back when *)
(* the gas it used does not fit either.  After a failure the transaction   *)
(* is removed from the pool and the sender is skipped.                     *)
Rollback(before, after) == before

GasLeft(f, t) == f.gasLeft - t.gasUsed

ProcessTransaction(f, t) ==
    LET done == process(f.pending, db, f.number, t)
        left == GasLeft(f, t)
        snapshot == f.gasLeft < t.gasLimit
    IN  IF ~done.ok
        THEN [f EXCEPT !.pending = IF snapshot THEN f.pending ELSE done.pending,
                       !.failed = @ \cup {t.from}]
        ELSE IF left < 0
        THEN [f EXCEPT !.pending = Rollback(f.pending, done.pending), !.gasLeft = left]
        ELSE [f EXCEPT !.pending = done.pending,
                       !.gasLeft = left,
                       !.gasUsed = @ + t.gasUsed,
                       !.fee = @ + t.gasUsed * t.gasPrice,
                       !.txs = Append(@, t)]

Shifted(f) == [f EXCEPT !.queue = Tail(@)]

(* The loop of #processTransactions over the pool's transactions.          *)
ForgeTransaction ==
    /\ forger.stage = "txs" /\ forger.queue # <<>>
    /\ LET t == Head(forger.queue)
           f == Shifted(forger)
       IN  IF t.from \in forger.failed
           THEN forger' = f /\ UNCHANGED <<pool, removed>>
           ELSE IF forger.gasLeft < MinGas
           THEN forger' = [f EXCEPT !.stage = "rewards"] /\ UNCHANGED <<pool, removed>>
           ELSE /\ forger' = ProcessTransaction(f, t)
                /\ pool' = IF t.from \in forger'.failed THEN PoolWithout(t) ELSE pool
                /\ removed' = IF t.from \in forger'.failed /\ forger.number > db.number
                              THEN removed \cup {<<forger.txs, t>>} ELSE removed
    /\ UNCHANGED <<db, blocks, pending, results, decided>>

(* The time limit of the block preparation, or the end of the batch.       *)
ForgeTransactionsEnd ==
    /\ forger.stage = "txs"
    /\ forger' = [forger EXCEPT !.stage = "rewards"]
    /\ UNCHANGED <<db, pool, blocks, pending, results, removed, decided>>

ForgeRewards ==
    /\ forger.stage = "rewards"
    /\ forger' = [forger EXCEPT !.stage = "root",
                                !.pending = EndOfBlock(@, db, forger.number)]
    /\ UNCHANGED <<db, pool, blocks, pending, results, removed, decided>>

(* logsBloom, stateRoot, #makeBlock.  Consensus drops a block whose number *)
(* has been committed meanwhile.                                           *)
ForgeEnd ==
    /\ forger.stage = "root"
    /\ LET f == forger
           block == [number |-> f.number, txs |-> f.txs, chained |-> TRUE,
                     gasUsed |-> f.gasUsed, fee |-> f.fee, bloom |-> logs_bloom(f.pending),
                     root |-> state_root(f.pending, db).change]
       IN  blocks' = IF f.number > db.number THEN blocks \cup {block} ELSE blocks
    /\ forger' = Idle
    /\ UNCHANGED <<db, pool, pending, results, removed, decided>>

(* Another validator's block.  Its transactions fail when executed, or its *)
(* header states too little or too much gas or fee, another state root,    *)
(* another bloom, another parent, or (one variant) what is right.          *)
Tampered(block) ==
    {block, [block EXCEPT !.chained = FALSE],
     [block EXCEPT !.gasUsed = @ - 1], [block EXCEPT !.gasUsed = @ + 1],
     [block EXCEPT !.fee = @ - 1], [block EXCEPT !.fee = @ + 1],
     [block EXCEPT !.root = PendingCommit.change],
     [block EXCEPT !.bloom = IF @ = {} THEN Txs ELSE {}]}

Propose ==
    /\ db.number < MaxNumber
    /\ Cardinality(blocks) < MaxBlocks
    /\ \E txs \in SeqOf(Txs, MaxLength) :
          LET block == [number |-> db.number + 1, txs |-> txs, chained |-> TRUE]
                          @@ RefHeader(db, txs)
          IN  \E b \in IF RefRun(db, txs).ok THEN Tampered(block) ELSE {block} :
                  blocks' = blocks \cup {b}
    /\ UNCHANGED <<db, pool, forger, pending, results, removed, decided>>

----------------------------------------------------------------------------
(* BlockProcessor.process: every transaction, with #consumeGas and         *)
(* #consumeFee after it; the first failure ends the block.                 *)
ConsumesWithin(block, s, t) ==
    /\ s.gasUsed + t.gasUsed <= block.gasUsed
    /\ s.fee + t.gasUsed * t.gasPrice <= block.fee

ProcessOne(block, s, t) ==
    LET done == process(s.pending, db, block.number, t)
    IN  IF ~s.ok THEN s
        ELSE IF ~done.ok THEN [s EXCEPT !.ok = FALSE, !.pending = done.pending]
        ELSE IF ~ConsumesWithin(block, s, t)
        THEN [s EXCEPT !.ok = FALSE, !.pending = done.pending]
        ELSE [s EXCEPT !.pending = done.pending,
                       !.gasUsed = @ + t.gasUsed,
                       !.fee = @ + t.gasUsed * t.gasPrice]

(* #verifyConsumedAllGas and #verifyTotalFee.                              *)
ConsumedAll(block, s) == s.ok /\ s.gasUsed = block.gasUsed /\ s.fee = block.fee

(* BlockVerifier.verify.                                                   *)
Verified(block) ==
    block.chained /\ block.gasUsed <= MaxGasLimit /\ IsInjective(block.txs)

PrepareNextCommit(block) == PendingCommit

ProcessBlock(block) ==
    LET Step(s, t) == ProcessOne(block, s, t)
        run == FoldLeft(Step, [ok |-> TRUE, pending |-> PrepareNextCommit(block),
                               gasUsed |-> 0, fee |-> 0], block.txs)
        rooted == state_root(EndOfBlock(run.pending, db, block.number), db)
    IN  IF ~ConsumedAll(block, run) THEN [ok |-> FALSE, pending |-> run.pending]
        ELSE [ok |-> rooted.change = block.root /\ logs_bloom(rooted) = block.bloom,
              pending |-> rooted]

Process ==
    /\ \E block \in blocks :
          IF Verified(block)
          THEN LET done == ProcessBlock(block)
               IN  /\ pending' = Overlay(pending, [b \in {block} |-> done.pending])
                   /\ results' = Overlay(results, [b \in {block} |-> done.ok])
          ELSE /\ results' = Overlay(results, [b \in {block} |-> FALSE])
               /\ UNCHANGED pending
    /\ UNCHANGED <<db, pool, forger, blocks, removed, decided>>

(* EvmInner::commit of the decided block: its pending commit is taken, the *)
(* others are dropped.  Consensus clears the round states, and the pool    *)
(* drops the transactions whose nonce has been used.                       *)
WriteCommitOfNumber(block) ==
    LET key == CHOOSE b \in DOMAIN pending : b.number = block.number
    IN  commit_change_set(db, state_root(pending[key], db).change)

WriteCommit(block) == commit_change_set(db, state_root(pending[block], db).change)

Commit ==
    /\ \E block \in DOMAIN results :
          /\ results[block]
          /\ db' = WriteCommit(block)
          /\ decided' = <<block>>
    /\ pool' = {t \in pool : t.nonce >= db'.accounts[t.from].nonce}
    /\ pending' = EmptyMap
    /\ results' = EmptyMap
    /\ blocks' = {}
    /\ removed' = {}
    /\ UNCHANGED forger

ForgingNext ==
    \/ ForgeBlock \/ ForgeTransaction \/ ForgeTransactionsEnd \/ ForgeRewards
    \/ ForgeEnd \/ Propose \/ Process \/ Commit

ForgingSpec == ForgingInit /\ [][ForgingNext]_vars

----------------------------------------------------------------------------
Account == [balance : Nat, nonce : Nat, vote : Nat]

(* The shape of the state.  The forger's gas adds up: what is used and     *)
(* what is left make the block's limit, unless the last transaction did    *)
(* not fit (gasLeft below zero ends the loop).                             *)
ForgingTypeOK ==
    /\ db.number \in 0..MaxNumber
    /\ db.accounts \in [Accounts -> Account]
    /\ db.merged \subseteq Accounts
    /\ pool \subseteq Txs
    /\ forger.stage \in {"idle", "txs", "rewards", "root"}
    /\ forger.gasLeft >= 0 => forger.gasLeft + forger.gasUsed = MaxGasLimit
    /\ forger.gasUsed <= MaxGasLimit
    /\ DOMAIN pending \subseteq DOMAIN results /\ DOMAIN results \subseteq blocks

(* The block the forger makes is the one an honest re-execution accepts:   *)
(* with failed, skipped and rolled back transactions in between, gas, fee, *)
(* state root and bloom are those of the included transactions alone, and  *)
(* they respect the block's gas limit.  (comment at                        *)
(* evm/bindings/src/lib.rs:1274, transaction-forger.ts:153)                *)
ForgedReplays ==
    forger.stage = "root" /\ forger.number > db.number =>
        /\ RefRun(db, forger.txs).ok
        /\ RefHeader(db, forger.txs) =
              [gasUsed |-> forger.gasUsed, fee |-> forger.fee,
               bloom |-> logs_bloom(forger.pending),
               root |-> state_root(forger.pending, db).change]
        /\ forger.gasUsed <= MaxGasLimit

(* BlockProcessor accepts exactly the blocks that follow the last one,     *)
(* whose transactions all execute within the gas limit and whose header is *)
(* the one of an honest execution, whatever was processed before and       *)
(* however often (block-processor.ts:61).                                  *)
ResultsAreExact ==
    \A block \in DOMAIN results :
        results[block] <=>
            /\ block.chained
            /\ RefRun(db, block.txs).ok
            /\ RefRun(db, block.txs).gasUsed <= MaxGasLimit
            /\ RefHeader(db, block.txs) =
                  [gasUsed |-> block.gasUsed, fee |-> block.fee,
                   bloom |-> block.bloom, root |-> block.root]

(* A transaction the forger removes from the pool really cannot follow the *)
(* transactions collected before it (transaction-forger.ts:235), as long   *)
(* as the block is not overtaken by a commit.                              *)
RemovedAreUnusable ==
    \A r \in removed : ~RefRun(db, Append(r[1], r[2])).ok

(* No value appears or disappears: committed balances and the legacy       *)
(* wallets not merged yet add up to the initial supply and one reward per  *)
(* block.  A wallet merged twice, or by a transaction that failed, breaks  *)
(* it (lib.rs:794, db.rs:1212).                                            *)
SupplyIsConserved ==
    LET Supply(accounts, merged) ==
            MapThenSumSet(LAMBDA a : accounts[a].balance
                                       + (IF a \in merged THEN 0 ELSE Legacy[a]), Accounts)
    IN  Supply(db.accounts, db.merged) = Supply(InitialState, {}) + db.number * Reward

(* The consensus contract's vote weight of every account is its committed  *)
(* balance: only accounts in the cache are handed to updateVoters, after   *)
(* the reward (lib.rs:350).                                                *)
VotesFollowBalances ==
    \A a \in Accounts : db.accounts[a].vote = db.accounts[a].balance

(* Committing a block makes the state an honest execution of that block's  *)
(* transactions on the parent state, whatever other blocks of the number   *)
(* were executed beside it (lib.rs:894, take_pending_commit).              *)
CommitsExecution ==
    db' # db =>
        LET block == decided'[1]
            s == RefRun(db, block.txs)
            end == RefEnd(s, block.number)
        IN  /\ s.ok
            /\ db' = [number |-> db.number + 1, accounts |-> end.accounts, merged |-> end.merged,
                      round |-> IF end.round = <<>> THEN db.round ELSE end.round]
            /\ block.number = db'.number
=============================================================================
