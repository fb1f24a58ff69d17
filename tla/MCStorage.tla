------------------------------- MODULE MCStorage -------------------------------
(***************************************************************************)
(* What a node keeps of the chain: the commit of a block to LMDB and       *)
(* Postgres (twice, with and without a limit on sync attempts), the        *)
(* wallets table against the contracts, the account history, and the       *)
(* milestones with their calculators.  One of them moves in a behaviour.   *)
(*                                                                         *)
(* Wallets: two users, a contract that calls for them, two names that can  *)
(* be registered among names that break one rule each.  History: two       *)
(* accounts, a window of two blocks.  Milestones: genesis at height 1,     *)
(* milestones at the first two heights and at up to three of the next      *)
(* seven, each with one to three validators or without the key.            *)
(***************************************************************************)
EXTENDS Naturals, Sequences, FiniteSets, TLC

CONSTANTS u, w, proxy, v1, v2, a, b, none

TwoUsers == {u, w}
OneProxy == {proxy}
TwoValidators == {v1, v2}
SomeNames == {<<"a">>, <<"a", "_", "a">>, <<>>, <<"_", "a">>, <<"a", "_">>,
              <<"A">>, <<"a", "_", "_", "a">>, <<"a", "a", "a", "a", "a">>}
OddNames == {<<"_", "a", "_">>}
TwoHashes == 1..2

TwoAccounts == {a, b}
SomeBalances == 0..2
Symmetry == Permutations(TwoAccounts)

Counts == {none} \cup 1..3
HeightSets == {s \in SUBSET (3..9) : Cardinality(s) <= 3}

AllConfigs ==
  UNION {{[h \in {1, 2} \cup s |-> IF h = 1 THEN 0 ELSE IF h = 2 THEN v ELSE f[h]]
            : v \in 1..3, f \in [s -> Counts]} : s \in HeightSets}

\* An entry sets the value that is already in force: see AcceptedHaveRounds.
SetsAgain(config) ==
  \E h, k \in DOMAIN config :
    /\ h < k /\ config[h] # none /\ config[h] = config[k]
    /\ \A l \in DOMAIN config : h < l /\ l < k => config[l] = none

SomeConfigs == {config \in AllConfigs : ~SetsAgain(config)}
SomeTimeouts == {2, 3}
SomeIncreases == {0, 1, 3}
SixRounds == 0..5

VARIABLES
  part,  \* the component that moves
  x1, x2, x3, x4, x5, x6, x7, x8, x9, x10, x11, x12   \* its variables, in the order of its module

Pipeline == INSTANCE CommitPipeline WITH
  RoundSize <- 2, MaxBlock <- 5, MaxRound <- 1, MaxAttempts <- 0, MaxLost <- 1, evm <- x1,
  pg <- x2, pc <- x3, unit <- x4, store <- x5, db <- x6, vset <- x7, tasks <- x8,
  failed <- x9, queue <- x10, job <- x11, lost <- x12

Attempts == INSTANCE CommitPipeline WITH
  RoundSize <- 2, MaxBlock <- 3, MaxRound <- 0, MaxAttempts <- 2, MaxLost <- 1, evm <- x1,
  pg <- x2, pc <- x3, unit <- x4, store <- x5, db <- x6, vset <- x7, tasks <- x8,
  failed <- x9, queue <- x10, job <- x11, lost <- x12

Wallets == INSTANCE WalletMirror WITH
  Users <- TwoUsers, Proxies <- OneProxy, Validators <- TwoValidators, Names <- SomeNames,
  AddedNames <- OddNames, Owner <- u, MaxNameLength <- 4, Hashes <- TwoHashes,
  MaxBlocks <- 2, MaxTxs <- 2, usernames <- x1, exists <- x2, votes <- x3, touched <- x4,
  results <- x5, chain <- x6, api <- x7, unseen <- x8, proxied <- x9

History == INSTANCE AccountHistory WITH
  Addresses <- TwoAccounts, Balances <- SomeBalances, Capacity <- 2, First <- 1,
  MaxNumber <- 4, number <- x1, accounts <- x2, history <- x3, past <- x4, call <- x5

Calculators == INSTANCE Milestones WITH
  Genesis <- 1, Configs <- SomeConfigs, NoKey <- none, MaxHeight <- 12, BlockTime <- 8,
  Timeouts <- SomeTimeouts, Increases <- SomeIncreases, Rounds <- SixRounds, RoundLimit <- 4,
  raw <- x1, milestones <- x2, index <- x3, answer <- x4

allStorage == <<part, x1, x2, x3, x4, x5, x6, x7, x8, x9, x10, x11, x12>>

Unused(v) == v = 0

StorageInit ==
  \/ /\ part = "pipeline" /\ Pipeline!PipelineInit
  \/ /\ part = "attempts" /\ Attempts!PipelineInit
  \/ /\ part = "wallets" /\ Wallets!WalletInit
     /\ Unused(x10) /\ Unused(x11) /\ Unused(x12)
  \/ /\ part = "history" /\ History!HistoryInit
     /\ Unused(x6) /\ Unused(x7) /\ Unused(x8) /\ Unused(x9) /\ Unused(x10) /\ Unused(x11)
        /\ Unused(x12)
  \/ /\ part = "milestones" /\ Calculators!MilestonesInit
     /\ Unused(x5) /\ Unused(x6) /\ Unused(x7) /\ Unused(x8) /\ Unused(x9) /\ Unused(x10) /\
        Unused(x11) /\ Unused(x12)

StorageNext ==
  \/ /\ part = "pipeline" /\ Pipeline!PipelineNext
     /\ UNCHANGED <<part>>
  \/ /\ part = "attempts" /\ Attempts!PipelineNext
     /\ UNCHANGED <<part>>
  \/ /\ part = "wallets" /\ Wallets!WalletNext
     /\ UNCHANGED <<part, x10, x11, x12>>
  \/ /\ part = "history" /\ History!HistoryNext
     /\ UNCHANGED <<part, x6, x7, x8, x9, x10, x11, x12>>
  \/ /\ part = "milestones" /\ Calculators!MilestonesNext
     /\ UNCHANGED <<part, x5, x6, x7, x8, x9, x10, x11, x12>>
  \* The bounds on blocks and transactions end a behaviour.
  \/ part = "wallets" /\ UNCHANGED allStorage

StorageSpec == StorageInit /\ [][StorageNext]_allStorage

ASSUME StorageAssumption ==
  /\ Pipeline!CommitPipelineAssumption /\ Attempts!CommitPipelineAssumption
  /\ Wallets!WalletMirrorAssumption /\ History!AccountHistoryAssumption

-------------------------------------------------------------------------------

\* Between two blocks, also after any stop and restart, the state store and the database
\* service hold the number and the total round of the EVM database, and the validator set the
\* round of the next block; Postgres and the queue of api-sync together hold every block of the
\* EVM database and no other, with the rounds that start after them; and a restore that was cut
\* short is never taken for a finished one (bootstrapper.ts, #resetDatabaseIfNecessary).
StoresAgree ==
  part = "pipeline" =>
    /\ Pipeline!PipelineTypeOK
    /\ Pipeline!StoresAgree /\ Pipeline!ApiIsComplete
    /\ Pipeline!RoundsAreComplete /\ Pipeline!RestoreIsFinished

\* api-sync: the supply Postgres reports is that of the block it reports: no retry, stop or
\* abandoned block adds a reward twice or out of order, with and without maxSyncAttempts; and
\* as long as no acknowledgement of Postgres was lost, the blocks the validators are credited
\* with are the blocks stored.
ApiTotalsAreExact ==
  /\ part = "pipeline" => Pipeline!SupplyIsExact /\ Pipeline!ProducedIsExact
  /\ part = "attempts" => Attempts!SupplyIsExact

\* UsernamesV1 and api-sync: a name has one holder and, when a user registered it, obeys every
\* rule of _verifyUsername; between blocks the wallets table tells what the contracts hold,
\* after upserts and restores in any order, except for events the synchronisation could not see.
WalletsFollowContracts ==
  part = "wallets" =>
    /\ Wallets!NamesHaveOneHolder /\ Wallets!RegisteredObeyRules
    /\ Wallets!WalletsFollowContracts

\* AccountHistory: exactly the last Capacity blocks are kept; a historical read is refused only
\* for a block that has left the window, and answers with the account after its block, with one
\* exception: an account that the window's blocks up to the asked one left alone, and a later
\* one changed before the second read of get_account_info, is answered as of the newest block.
HistoryIsExact ==
  part = "history" =>
    /\ History!WindowIsExact /\ History!AnswersAreOfTheirBlock /\ History!RefusedAreOld

\* Configuration: getMilestone returns the milestone of its height, wherever the cursor was
\* left; calculateRound agrees with counting the rounds block by block, and never throws on a
\* configuration that setConfig accepted, unless an entry sets the number of validators that is
\* already in force; the minimal timestamp of a round leaves time for the timeouts of the
\* earlier rounds, no more and no less.
MilestonesAreExact ==
  part = "milestones" =>
    /\ Calculators!MilestoneIsCurrent
    /\ Calculators!RoundsAreExact /\ Calculators!AcceptedHaveRounds
    /\ Calculators!TimestampsFollowTimeouts

================================================================================
