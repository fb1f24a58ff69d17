-------------------------- MODULE AccountHistory --------------------------
(***************************************************************************)
(* The account history of the EVM database: every commit records the       *)
(* accounts it changed under its block number, entries that leave a window *)
(* of the last Capacity blocks are deleted (core/src/historical.rs, called *)
(* by commit_to_db of core/src/db.rs), and get_account_info of a past      *)
(* block reads the history first and, if the account is in none of the     *)
(* entries up to that block, falls back to the current state               *)
(* (bindings/src/lib.rs).  The two reads are two transactions: a commit of *)
(* another process may come between them.                                  *)
(*                                                                         *)
(* An account is a number; 0 is AccountInfo::default(), what a missing or  *)
(* a destroyed account reads as.                                           *)
(***************************************************************************)
EXTENDS Integers, FiniteSets, FiniteSetsExt, Functions

CONSTANTS
    Addresses,
    Balances,       \* what an account may hold
    Capacity,       \* history_size
    First,          \* the genesis block's number
    MaxNumber       \* bound: the last block

\* What a module that sets the constants has to assume.
AccountHistoryAssumption ==
    /\ Capacity \in Nat \ {0} /\ First \in Nat /\ MaxNumber \in Nat
    /\ 0 \in Balances /\ Balances \subseteq Nat

VARIABLES
    number,         \* the last committed block
    accounts,       \* the accounts table
    history,        \* the accounts_history table
    past,           \* ghost: the accounts after each block
    call            \* a running or answered get_account_info

historyVars == <<number, accounts, history, past, call>>

NoCall == [stage |-> "none"]

HistoryInit ==
    /\ number = First - 1
    /\ accounts = [a \in Addresses |-> 0]
    /\ history = <<>>
    /\ past = <<>>
    /\ call = NoCall

(* AccountHistory::insert: when the table is full the entries that are     *)
(* Capacity or more blocks old go; the subtraction saturates at zero.      *)
SaturatingSub(a, b) == IF a > b THEN a - b ELSE 0

Kept(h, n) ==
    IF Cardinality(DOMAIN h) >= Capacity
    THEN {m \in DOMAIN h : m > SaturatingSub(n, Capacity)}
    ELSE DOMAIN h

Insert(h, n, changed) ==
    [m \in Kept(h, n) \cup {n} |-> IF m = n THEN changed ELSE h[m]]

(* get_by_block_and_address: from the newest entry up to the block to the  *)
(* oldest, the first that has the account.  Without one, missing_fallback  *)
(* says whether there was any entry to look at.                            *)
Visible(h, n) == {m \in DOMAIN h : m <= n}

Having(h, n, a) == {m \in Visible(h, n) : a \in DOMAIN h[m]}

OldestHaving(h, n, a) == Min(Having(h, n, a))

NewestHaving(h, n, a) == Max(Having(h, n, a))

GetByBlockAndAddress(h, n, a) ==
    IF Having(h, n, a) # {} THEN [kind |-> "found", value |-> h[NewestHaving(h, n, a)][a]]
    ELSE IF Visible(h, n) # {} THEN [kind |-> "fallback", value |-> 0]
    ELSE [kind |-> "none", value |-> 0]

----------------------------------------------------------------------------
(* commit_to_db of the next block: the changed accounts are written and    *)
(* recorded in one write transaction; a destroyed one is recorded with the *)
(* defaults.                                                               *)
Commit ==
    /\ number < MaxNumber
    /\ \E changed \in UNION {[as -> Balances] : as \in SUBSET Addresses} :
        LET n == number + 1
            new == [a \in Addresses |-> IF a \in DOMAIN changed THEN changed[a]
                                                                ELSE accounts[a]]
        IN  /\ n \notin DOMAIN history
            /\ number' = n
            /\ accounts' = new
            /\ history' = Insert(history, n, changed)
            /\ past' = [m \in DOMAIN past \cup {n} |-> IF m = n THEN new ELSE past[m]]
    /\ UNCHANGED call

(* get_account_info of a past block: the first read.                       *)
GetHistorical ==
    /\ call.stage = "none"
    /\ number >= First
    /\ \E a \in Addresses, n \in First .. number :
        LET r == GetByBlockAndAddress(history, n, a)
        IN  call' = [stage |-> IF r.kind = "fallback" THEN "fallback" ELSE "answered",
                     address |-> a, at |-> n, seen |-> number, head |-> number,
                     kind |-> r.kind, value |-> r.value]
    /\ UNCHANGED <<number, accounts, history, past>>

(* The fallback: basic_ref of the current state, in a second transaction.  *)
Fallback ==
    /\ call.stage = "fallback"
    /\ call' = [call EXCEPT !.stage = "answered", !.value = accounts[call.address],
                            !.head = number]
    /\ UNCHANGED <<number, accounts, history, past>>

(* The caller has its answer.                                              *)
Answer ==
    /\ call.stage = "answered"
    /\ call' = NoCall
    /\ UNCHANGED <<number, accounts, history, past>>

HistoryNext == Commit \/ GetHistorical \/ Fallback \/ Answer

HistorySpec == HistoryInit /\ [][HistoryNext]_historyVars

----------------------------------------------------------------------------
(* The history holds exactly the last Capacity blocks: none is deleted too *)
(* early, none stays (AccountHistory::insert).                             *)
WindowIsExact ==
    DOMAIN history = {m \in First .. number : m > number - Capacity}

(* A block of the range changes the account.                               *)
ChangesIn(a, range) ==
    \E m \in range : past[m][a] # IF m = First THEN 0 ELSE past[m - 1][a]

(* The answer to get_account_info of a past block is the account after     *)
(* that block, even when a block is committed between the two reads.       *)
(* Except when the blocks of the window up to that block left the account  *)
(* alone, as seen by the first read, and a later one, up to the second     *)
(* read, changed it: the fallback then answers with the account after the  *)
(* newest block.                                                           *)
AnswersAreOfTheirBlock ==
    call.stage = "answered" /\ call.kind # "none" =>
        \/ call.value = past[call.at][call.address]
        \/ /\ ~ChangesIn(call.address, {m \in First .. call.at : m > call.seen - Capacity})
           /\ ChangesIn(call.address, call.at + 1 .. call.head)
           /\ call.value = past[call.head][call.address]

(* A block is refused (answered with the defaults) only if it has left the *)
(* window (lib.rs:438).                                                    *)
RefusedAreOld ==
    call.stage = "answered" /\ call.kind = "none" => call.at <= call.seen - Capacity

===========================================================================
