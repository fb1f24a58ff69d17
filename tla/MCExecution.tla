------------------------------ MODULE MCExecution ------------------------------
(***************************************************************************)
(* What happens to transactions: they are pooled, forged into a block and  *)
(* executed.  Five instances, one of which moves in a behaviour: the pool  *)
(* with one call of addTransaction at a time and many transactions; with   *)
(* blocks enough for transactions to grow old, and credits; with two calls *)
(* at a time, of one sender or of two; with two calls of one sender and a  *)
(* block; and the forger with the block processor and the EVM.             *)
(*                                                                         *)
(* Pool: s has two transactions, a dearer replacement of each (the first   *)
(* so costly that the second cannot follow it), and one that preverifying  *)
(* refuses; u has one, of the lowest price.  Forger: a has a balance and   *)
(* two transactions; b lives off a legacy wallet: its first transaction    *)
(* needs it, its second overspends.  A round has two blocks.               *)
(***************************************************************************)
EXTENDS Naturals, Sequences, FiniteSets, TLC

TwoSenders == {"s", "u"}

PoolTx(from, nonce, price, cost, valid) ==
  [from |-> from, nonce |-> nonce, price |-> price, cost |-> cost, valid |-> valid]

PlainTxs == {PoolTx("s", 0, 2, 1, TRUE), PoolTx("s", 1, 2, 1, TRUE), PoolTx("u", 0, 1, 1, TRUE)}

CrossTxs == PlainTxs \cup {PoolTx("s", 0, 3, 3, TRUE)}

TxsOfS == {t \in CrossTxs : t.from = "s"}

MoreTxs == CrossTxs \cup {PoolTx("s", 1, 3, 2, TRUE), PoolTx("s", 0, 4, 1, FALSE)}

EqualBalance == [x \in TwoSenders |-> 3]
OneCall == {"x"}
TwoCalls == {"x", "y"}

Transaction(from, to, nonce, value, gasLimit, gasUsed, reverts) ==
  [from |-> from, to |-> to, nonce |-> nonce, value |-> value,
   gasLimit |-> gasLimit, gasUsed |-> gasUsed, gasPrice |-> 1, reverts |-> reverts]

ThreeAccounts == {"a", "b", "v"}

BlockTxs ==
  {Transaction("a", "b", 0, 1, 2, 1, FALSE), Transaction("a", "a", 1, 1, 3, 3, TRUE),
   Transaction("b", "a", 0, 1, 2, 1, FALSE), Transaction("b", "a", 0, 4, 1, 1, FALSE)}

LegacyOfB == [x \in ThreeAccounts |-> IF x = "b" THEN 3 ELSE 0]

FundedA ==
  [x \in ThreeAccounts |-> LET n == IF x = "a" THEN 5 ELSE 0
                           IN  [balance |-> n, nonce |-> 0, vote |-> n]]

VARIABLES
  part,  \* the component that moves
  x1, x2, x3, x4, x5, x6, x7, x8, x9, x10   \* its variables, in the order of its module

OneByOne == INSTANCE TransactionPool WITH
  Senders <- TwoSenders, Balance <- EqualBalance, maxTransactionsPerSender <- 2,
  allowedSenders <- {}, maxTransactionAge <- 2, Txs <- MoreTxs, Calls <- OneCall,
  maxTransactionsInPool <- 2, MaxNumber <- 1, MaxCredit <- 0, MaxRemovals <- 1, MaxRestarts <- 1,
  mps <- x1, map <- x2, storage <- x3, flows <- x4, chain <- x5, number <- x6, removals <- x7,
  restarts <- x8, overlapped <- x9, credited <- x10

Aging == INSTANCE TransactionPool WITH
  Senders <- TwoSenders, Balance <- EqualBalance, maxTransactionsPerSender <- 1,
  allowedSenders <- {"s"}, maxTransactionAge <- 2, Txs <- PlainTxs, Calls <- OneCall,
  maxTransactionsInPool <- 2, MaxNumber <- 2, MaxCredit <- 1, MaxRemovals <- 0, MaxRestarts <- 1,
  mps <- x1, map <- x2, storage <- x3, flows <- x4, chain <- x5, number <- x6, removals <- x7,
  restarts <- x8, overlapped <- x9, credited <- x10

AtOnce == INSTANCE TransactionPool WITH
  Senders <- TwoSenders, Balance <- EqualBalance, maxTransactionsPerSender <- 2,
  allowedSenders <- {}, maxTransactionAge <- 2, Txs <- CrossTxs, Calls <- TwoCalls,
  maxTransactionsInPool <- 1, MaxNumber <- 0, MaxCredit <- 0, MaxRemovals <- 0, MaxRestarts <- 0,
  mps <- x1, map <- x2, storage <- x3, flows <- x4, chain <- x5, number <- x6, removals <- x7,
  restarts <- x8, overlapped <- x9, credited <- x10

BesideBlock == INSTANCE TransactionPool WITH
  Senders <- TwoSenders, Balance <- EqualBalance, maxTransactionsPerSender <- 2,
  allowedSenders <- {}, maxTransactionAge <- 2, Txs <- TxsOfS, Calls <- TwoCalls,
  maxTransactionsInPool <- 2, MaxNumber <- 1, MaxCredit <- 0, MaxRemovals <- 0, MaxRestarts <- 0,
  mps <- x1, map <- x2, storage <- x3, flows <- x4, chain <- x5, number <- x6, removals <- x7,
  restarts <- x8, overlapped <- x9, credited <- x10

Making == INSTANCE Forging WITH
  Accounts <- ThreeAccounts, Txs <- BlockTxs, Legacy <- LegacyOfB, Generator <- "v",
  Reward <- 2, MaxGasLimit <- 4, RoundLength <- 2, MinGas <- 1, InitialState <- FundedA,
  MaxNumber <- 2, MaxBlocks <- 1, MaxLength <- 2, db <- x1, pool <- x2, forger <- x3, blocks <- x4,
  pending <- x5, results <- x6, removed <- x7, decided <- x8

allExecution == <<part, x1, x2, x3, x4, x5, x6, x7, x8, x9, x10>>

Unused(v) == v = 0

ExecutionInit ==
  \/ /\ part = "pool" /\ OneByOne!PoolInit
  \/ /\ part = "aging" /\ Aging!PoolInit
  \/ /\ part = "calls" /\ AtOnce!PoolInit
  \/ /\ part = "commits" /\ BesideBlock!PoolInit
  \/ /\ part = "forging" /\ Making!ForgingInit
     /\ Unused(x9) /\ Unused(x10)

ExecutionNext ==
  \/ /\ part = "pool" /\ OneByOne!PoolNext
     /\ UNCHANGED <<part>>
  \/ /\ part = "aging" /\ Aging!PoolNext
     /\ UNCHANGED <<part>>
  \/ /\ part = "calls" /\ AtOnce!PoolNext
     /\ UNCHANGED <<part>>
  \/ /\ part = "commits" /\ BesideBlock!PoolNext
     /\ UNCHANGED <<part>>
  \/ /\ part = "forging" /\ Making!ForgingNext
     /\ UNCHANGED <<part, x9, x10>>

ExecutionSpec == ExecutionInit /\ [][ExecutionNext]_allExecution

ASSUME ExecutionAssumption ==
  /\ OneByOne!PoolAssumption /\ Aging!PoolAssumption /\ AtOnce!PoolAssumption /\ BesideBlock!PoolAssumption
  /\ Making!EvmAssumption /\ Making!ForgingAssumption

-------------------------------------------------------------------------------

\* When no call is at work a sender's stored transactions are those in its mempool, and its
\* wallet is the committed one with these applied, without a gap in the nonces: nothing is lost
\* or kept by replacing, re-adding after a block, cleaning up or restarting.  A block never
\* costs a sender the transaction that is next, unless it cannot be paid any more.  The pool
\* exceeds its limit by no more than the calls that checked it at the same time, and a commit
\* holds the pool alone (Service, SenderMempool.reAddTransactions, SenderState).
\* Two exceptions.  The wallet's balance is lower than that when blocks without a transaction
\* of the sender have credited it.  And of a sender one of whose calls was disturbed in one of
\* the ways that TransactionPool!Disturbed names (a list that changes between a check and the
\* change it allows, a stored transaction removed before it is in the mempool, a mempool
\* overwritten by another one of the sender), only the last two claims are made, until the
\* pool is rebuilt from the storage.
PoolIsExact ==
  /\ part = "pool" =>
       /\ OneByOne!PoolTypeOK
       /\ OneByOne!PoolIsStored /\ OneByOne!WalletIsExact /\ OneByOne!NextIsKept
       /\ OneByOne!PoolIsBounded /\ OneByOne!CommitIsAlone
  /\ part = "aging" =>
       /\ Aging!PoolTypeOK
       /\ Aging!PoolIsStored /\ Aging!WalletIsExact /\ Aging!NextIsKept
       /\ Aging!PoolIsBounded /\ Aging!CommitIsAlone
  /\ part = "calls" =>
       /\ AtOnce!PoolTypeOK
       /\ AtOnce!PoolIsStored /\ AtOnce!WalletIsExact /\ AtOnce!NextIsKept
       /\ AtOnce!PoolIsBounded /\ AtOnce!CommitIsAlone
  /\ part = "commits" =>
       /\ BesideBlock!PoolTypeOK
       /\ BesideBlock!PoolIsStored /\ BesideBlock!WalletIsExact /\ BesideBlock!NextIsKept
       /\ BesideBlock!PoolIsBounded /\ BesideBlock!CommitIsAlone

\* The block the forger makes is the one an honest re-execution accepts, with failed, skipped
\* and rolled back transactions in between; BlockProcessor accepts exactly the blocks that
\* pass the verifiers, whose transactions all execute within the gas limit, and whose gas, fee,
\* state root and logs bloom are those of an honest execution, whatever was processed before; a
\* transaction the forger removes from the pool cannot follow the ones collected before it,
\* unless a commit has overtaken its block.
BlocksReplay ==
  part = "forging" =>
    /\ Making!ForgingTypeOK
    /\ Making!ForgedReplays /\ Making!ResultsAreExact /\ Making!RemovedAreUnusable

\* Committing a block makes the state an honest execution of the decided block's transactions
\* on the parent state, whatever other blocks of its number are pending (take_pending_commit):
\* balances and unmerged legacy wallets add up to the supply and one reward per block, the vote
\* weight of every account is its balance (update_rewards_and_votes), and the last block of a
\* round fixes the weights of the next one after its reward (calculate_round_validators).
CommitIsExecution ==
  [][part = "forging" =>
       /\ Making!CommitsExecution
       /\ Making!SupplyIsConserved' /\ Making!VotesFollowBalances']_allExecution

================================================================================
