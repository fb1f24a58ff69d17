-------------------------- MODULE TransactionPool --------------------------
(***************************************************************************)
(* The transaction pool of packages/transaction-pool-service, as it runs   *)
(* in the pool's worker thread: Service (storage, limits, commits and      *)
(* restarts), Mempool (one SenderMempool per address), SenderMempool (the  *)
(* sender's transactions in nonce order) and SenderState (a wallet, read   *)
(* from the EVM, to which the pooled transactions are applied).            *)
(*                                                                         *)
(* Calls of Service.addTransaction run next to each other: each is a flow  *)
(* that is suspended while a wallet is read from the EVM, while it waits   *)
(* for the sender's lock, while a transaction is preverified and between   *)
(* the removals of a clean-up.  commit and reAddTransactions hold the      *)
(* service's lock exclusively, so they run when no addTransaction does;    *)
(* nobody waits for the reAddTransactions of a new milestone.  The         *)
(* forger's removeTransaction takes no lock.                               *)
(*                                                                         *)
(* A transaction is [from, nonce, price, cost, valid]: cost is value and   *)
(* fee, valid what preverifying says.  What a block gives to an account    *)
(* (a received value, the generator's reward, the fee that was not used)   *)
(* is a number.  Rebroadcasting, events and logging are left out.          *)
(***************************************************************************)
EXTENDS Integers, Sequences, FiniteSets, FiniteSetsExt, SequencesExt, Functions

CONSTANTS
    Senders, Txs,
    Balance,                   \* the senders' balance at the start
    Calls,                     \* addTransaction calls at one time
    maxTransactionsInPool, maxTransactionsPerSender, maxTransactionAge, allowedSenders,
    MaxNumber, MaxCredit, MaxRemovals, MaxRestarts    \* bounds

\* What a module that sets the constants has to assume.
PoolAssumption ==
    /\ Balance \in [Senders -> Nat]
    /\ maxTransactionsInPool >= 1 /\ maxTransactionsPerSender >= 1 /\ maxTransactionAge >= 1
    /\ {"commit", "start"} \cap Calls = {}

VARIABLES
    mps,         \* the SenderMempool objects, by identity
    map,         \* Mempool.#senderMempools: sender -> identity, 0 for none
    storage,     \* the sqlite table, in the order of n: [tx, number]
    flows,       \* the calls at work; "commit" and "start" are the exclusive ones
    chain,       \* committed state: block number, nonce and balance by sender
    number,      \* the worker's stateStore.getBlockNumber()
    removals, restarts,        \* counted against the bounds
    overlapped,  \* history: senders one of whose calls another call has disturbed,
                 \* since the pool was last rebuilt (Disturbed)
    credited     \* history: senders whose balance blocks without a transaction of
                 \* theirs have raised since their wallet was read
vars == <<mps, map, storage, flows, chain, number, removals, restarts, overlapped, credited>>

Ids == 1..(Cardinality(Senders) + Cardinality(Calls))

Free == [txs |-> <<>>, nonce |-> 0, balance |-> 0, locked |-> FALSE, concurrency |-> 0]

NoTx == [from |-> "none", nonce |-> 0, price |-> 0, cost |-> 0, valid |-> FALSE]

(* A call: what it does next, the transaction and the mempool it works on, *)
(* the transactions it still has to add to that mempool (todo), the ones   *)
(* it could not (removed), what comes after (queue).                       *)
NoFlow == [kind |-> "none", stage |-> "none", tx |-> NoTx, mp |-> 0, todo |-> <<>>,
           removed |-> {}, old |-> NoTx, index |-> 0, queue |-> <<>>]

PoolInit ==
    /\ mps = [i \in Ids |-> Free]
    /\ map = [s \in Senders |-> 0]
    /\ storage = <<>>
    /\ flows = [c \in Calls \cup {"commit", "start"} |-> NoFlow]
    /\ chain = [number |-> 0, nonce |-> [s \in Senders |-> 0], balance |-> Balance]
    /\ number = 0
    /\ removals = 0 /\ restarts = 0
    /\ overlapped = {} /\ credited = {}

(* The pool's data as one value, for the operations that follow.           *)
Pool == [mps |-> mps, map |-> map, storage |-> storage]

Of(p, s) == IF p.map[s] = 0 THEN <<>> ELSE p.mps[p.map[s]].txs

Stored(rows) == {rows[i].tx : i \in DOMAIN rows}

(* What a call still has to put into a mempool.                            *)
ToAdd(f) ==
    (IF f.stage \in {"none", "end", "fail"} THEN {} ELSE {f.tx}) \cup
    (IF f.stage = "old" THEN {} ELSE ToSet(f.todo)) \cup
    (IF f.kind = "start" THEN ToSet(f.queue) ELSE {})

(* The senders for whom making the pool p, a step of the call c, disturbs  *)
(* a call, as only the service's and the sender's lock keep calls apart:   *)
(* - their list changes while another call is between its check of the     *)
(*   wallet and its change of the list, which for a replacement takes no   *)
(*   lock;                                                                 *)
(* - the storage loses a transaction that a call is still to put into the  *)
(*   mempool (the clean-up of a re-adding may take its own);               *)
(* - their mempool is overwritten in the map by another one.               *)
Disturbed(c, p) ==
    {s \in Senders :
       \/ /\ Of(p, s) # Of(Pool, s)
          /\ \E d \in DOMAIN flows \ {c} :
                flows[d].stage \in {"verify", "replace"} /\ flows[d].tx.from = s
       \/ \E d \in DOMAIN flows : \E t \in ToAdd(flows[d]) :
             t.from = s /\ t \in Stored(storage) \ Stored(p.storage)
       \/ map[s] # 0 /\ p.map[s] \notin {0, map[s]}}

Put(c, p) ==
    /\ mps' = p.mps /\ map' = p.map /\ storage' = p.storage
    /\ overlapped' = overlapped \cup Disturbed(c, p)

getPoolSize(p) == MapThenSumSet(LAMBDA s : Len(Of(p, s)), Senders)

(* Mempool.#removeDisposableMempool.  A call that re-adds transactions may *)
(* still have the mempool.                                                 *)
Disposed(p, s) ==
    LET i == p.map[s]
        held == \E c \in DOMAIN flows : flows[c].mp = i /\ flows[c].stage \in {"enter", "replace"}
    IN  IF i # 0 /\ p.mps[i].txs = <<>> /\ p.mps[i].concurrency = 0
        THEN [p EXCEPT !.map[s] = 0, !.mps[i] = IF held THEN @ ELSE Free] ELSE p

CostOf(txs) == FoldLeft(LAMBDA sum, t : sum + t.cost, 0, txs)

(* SenderState.revert of the transactions from index on, and their removal *)
(* from the list.                                                          *)
Spliced(mp, index) ==
    LET gone == SubSeq(mp.txs, index, Len(mp.txs))
    IN  [mp EXCEPT !.txs = SubSeq(@, 1, index - 1),
                   !.nonce = @ - Len(gone),
                   !.balance = @ + CostOf(gone)]

IndexOf(txs, P(_)) ==
    LET is == {i \in DOMAIN txs : P(txs[i])} IN IF is = {} THEN 0 ELSE Min(is)

(* Mempool.removeTransaction: with the transaction go the sender's later   *)
(* ones.  Returns what was removed too.                                    *)
RemovedWith(p, t) ==
    LET txs == Of(p, t.from)
        i == IndexOf(txs, LAMBDA x : x = t)
    IN  IF i = 0 THEN {} ELSE {txs[j] : j \in i..Len(txs)}

removeTransaction(p, t) ==
    IF RemovedWith(p, t) = {} THEN p
    ELSE LET id == p.map[t.from]
             i == IndexOf(p.mps[id].txs, LAMBDA x : x = t)
         IN  Disposed([p EXCEPT !.mps[id] = Spliced(@, i)], t.from)

Forget(p, ts) == [p EXCEPT !.storage = SelectSeq(@, LAMBDA row : row.tx \notin ts)]

ForgetOnly(p, t) == Forget(removeTransaction(p, t), {t})

(* A removal as Service and RemoveTransactionHandler make it: from the     *)
(* mempool, and everything that went from the storage.                     *)
Drop(p, t) == Forget(removeTransaction(p, t), RemovedWith(p, t) \cup {t})

(* storage.getOldTransactions of the expired block number.                 *)
getOldTransactions(p) ==
    LET rows == SelectSeq(p.storage, LAMBDA row : row.number <= number - maxTransactionAge)
    IN  Reverse([i \in DOMAIN rows |-> rows[i].tx])

(* getFromLowestPriority().first(): among the latest transactions of each  *)
(* sender one of the lowest gas price.                                     *)
Lowest(p) ==
    LET latest == {Last(Of(p, s)) : s \in {x \in Senders : Of(p, x) # <<>>}}
    IN  {t \in latest : \A u \in latest : t.price <= u.price}

DropLowest(p, t) == Forget(removeTransaction(p, t), RemovedWith(p, t))

----------------------------------------------------------------------------
(* SenderState.#validateTransaction: the nonce and the balance against the *)
(* wallet.                                                                 *)
Applies(mp, t) == mp.nonce = t.nonce /\ mp.balance >= t.cost

(* What becomes of a call once its current transaction is settled.         *)
Advanced(f) ==
    IF f.todo # <<>> THEN [f EXCEPT !.tx = Head(f.todo), !.todo = Tail(@), !.stage = "enter"]
    ELSE [f EXCEPT !.stage = "end"]

(* SenderMempool.addTransaction up to the lock.                            *)
Enter(p, f) ==
    [pool |-> [p EXCEPT !.mps[f.mp].concurrency = @ + 1],
     flow |-> [f EXCEPT !.stage = "lock"]]

(* SenderMempool.replaceTransaction up to its first await: the suffix of   *)
(* transactions with this nonce or a higher one, the price check, then     *)
(* either the replacement in place or the re-adding of the suffix.         *)
Replace(p, f) ==
    LET mp == p.mps[f.mp]
        t == f.tx
        below == {i \in DOMAIN mp.txs : mp.txs[i].nonce < t.nonce}
        from == IF below = {} THEN 1 ELSE Max(below) + 1
        old == mp.txs[from]
        index == IndexOf(mp.txs, LAMBDA x : x.nonce = t.nonce)
    IN  IF from > Len(mp.txs) THEN Enter(p, f)
        ELSE IF old.nonce # t.nonce THEN [pool |-> p, flow |-> [f EXCEPT !.stage = "fail"]]
        ELSE IF t.price <= old.price THEN Enter(p, f)
        ELSE IF mp.balance + old.cost >= t.cost
        THEN [pool |-> p, flow |-> [f EXCEPT !.stage = "replace", !.old = old, !.index = index]]
        ELSE Enter([p EXCEPT !.mps[f.mp] = Spliced(@, index)],
                   [f EXCEPT !.todo = SubSeq(mp.txs, index + 1, Len(mp.txs)),
                             !.removed = {old}, !.old = old])

(* Mempool.addTransaction once the sender's mempool is there.              *)
AddTo(p, f) ==
    IF f.tx.nonce <= p.mps[f.mp].nonce THEN Replace(p, f) ELSE Enter(p, f)

(* Mempool.addTransaction from the start: without a mempool of the sender  *)
(* one is created, which reads the wallet from the EVM.                    *)
Lookup(p, f) ==
    IF p.map[f.tx.from] = 0 THEN [pool |-> p, flow |-> [f EXCEPT !.stage = "create"]]
    ELSE AddTo(p, [f EXCEPT !.mp = p.map[f.tx.from]])

(* Service.#addTransactionToMempool: a full pool is cleaned up first; when *)
(* it stays full the lowest priority has to give way.                      *)
IsFull(p) == getPoolSize(p) >= maxTransactionsInPool

CleanUp(p, f) == [f EXCEPT !.stage = "old", !.todo = getOldTransactions(p)]

AddToMempool(p, f) ==
    IF IsFull(p) THEN [pool |-> p, flow |-> CleanUp(p, f)] ELSE Lookup(p, f)

Settle(c, r) == Put(c, r.pool) /\ flows' = [flows EXCEPT ![c] = r.flow]

Others == <<chain, number, removals, restarts, credited>>

(* Service.addTransaction: the storage first, then the mempool.            *)
AddTransaction(c) ==
    /\ flows[c].kind = "none"
    /\ flows["commit"].kind = "none" /\ flows["start"].kind = "none"
    /\ \E t \in Txs \ Stored(storage) :
          LET p == [Pool EXCEPT !.storage = Append(@, [tx |-> t, number |-> number])]
          IN  Settle(c, AddToMempool(p, [NoFlow EXCEPT !.kind = "add", !.tx = t]))
    /\ UNCHANGED Others

(* #removeOldTransactions, one after the other, and what comes next: as    *)
(* long as the pool is too large one of the lowest priority is picked,     *)
(* then a commit is done and an addTransaction looks at the size again.    *)
Picked(f, stage, t) == [f EXCEPT !.stage = stage, !.old = t]

Tidied(p, f) ==
    IF getPoolSize(p) > maxTransactionsInPool
    THEN {[pool |-> p, flow |-> Picked(f, "lowest", t)] : t \in Lowest(p)}
    ELSE IF f.kind = "commit" THEN {[pool |-> p, flow |-> NoFlow]}
    ELSE IF IsFull(p) THEN {[pool |-> p, flow |-> Picked(f, "compare", t)] : t \in Lowest(p)}
    ELSE {Lookup(p, f)}

RemoveOld(c) ==
    /\ flows[c].stage = "old"
    /\ LET f == flows[c]
       IN  IF f.todo = <<>> THEN \E r \in Tidied(Pool, f) : Settle(c, r)
           ELSE Settle(c, [pool |-> Drop(Pool, Head(f.todo)), flow |-> [f EXCEPT !.todo = Tail(@)]])
    /\ UNCHANGED Others

RemoveLowest(c) ==
    /\ flows[c].stage = "lowest"
    /\ LET f == flows[c]
       IN  \E r \in Tidied(DropLowest(Pool, f.old), Picked(f, "old", NoTx)) : Settle(c, r)
    /\ UNCHANGED Others

(* The pool is still full: the new transaction has to be worth more than   *)
(* the lowest, then the lowest of that moment gives way.                   *)
Compare(c) ==
    /\ flows[c].stage = "compare"
    /\ LET f == flows[c]
       IN  IF f.tx.price <= f.old.price
           THEN Settle(c, [pool |-> Pool, flow |-> Picked(f, "fail", NoTx)])
           ELSE IF getPoolSize(Pool) = 0
           THEN Settle(c, Lookup(Pool, Picked(f, "none", NoTx)))
           ELSE \E t \in Lowest(Pool) : Settle(c, [pool |-> Pool, flow |-> Picked(f, "last", t)])
    /\ UNCHANGED Others

GiveWay(c) ==
    /\ flows[c].stage = "last"
    /\ LET f == flows[c]
       IN  Settle(c, Lookup(DropLowest(Pool, f.old), Picked(f, "none", NoTx)))
    /\ UNCHANGED Others

(* createSenderMempool: the wallet is read, then the new mempool is put    *)
(* into the map, whatever is there by now.                                 *)
InUse == Range(map) \cup {flows[c].mp : c \in DOMAIN flows}

CreateRead(c) ==
    /\ flows[c].stage = "create"
    /\ LET id == Min(Ids \ InUse)
           s == flows[c].tx.from
       IN  /\ mps' = [mps EXCEPT ![id] = [Free EXCEPT !.nonce = chain.nonce[s],
                                                      !.balance = chain.balance[s]]]
           /\ flows' = [flows EXCEPT ![c].stage = "created", ![c].mp = id]
           /\ credited' = credited \ {s}
    /\ UNCHANGED <<map, storage, chain, number, removals, restarts, overlapped>>

Created(c) ==
    /\ flows[c].stage = "created"
    /\ LET p == [Pool EXCEPT !.map[flows[c].tx.from] = flows[c].mp]
       IN  Settle(c, AddTo(p, flows[c]))
    /\ UNCHANGED Others

(* The next transaction of a replacement or of a commit enters the sender's *)
(* mempool.                                                                *)
EnterNext(c) ==
    /\ flows[c].stage = "enter"
    /\ Settle(c, Enter(Pool, flows[c]))
    /\ UNCHANGED Others

(* A transaction that could not be added: a new one fails its call, one    *)
(* that is added again is among the removed.                               *)
Rejected(f) ==
    IF f.kind = "commit" \/ f.old # NoTx
    THEN Advanced([f EXCEPT !.removed = @ \cup {f.tx}])
    ELSE [f EXCEPT !.stage = "fail"]

Leave(mp) == [mp EXCEPT !.concurrency = @ - 1, !.locked = FALSE]

(* The sender's lock is taken: the limit, then SenderState.apply up to     *)
(* preverifying.                                                           *)
Exceeds(mp, t) == Len(mp.txs) >= maxTransactionsPerSender /\ t.from \notin allowedSenders

TakeLock(c) ==
    /\ flows[c].stage = "lock"
    /\ LET f == flows[c]
           mp == mps[f.mp]
       IN  /\ ~mp.locked
           /\ IF Exceeds(mp, f.tx) \/ ~Applies(mp, f.tx)
              THEN Settle(c, [pool |-> [Pool EXCEPT !.mps[f.mp] = Leave(mp)], flow |-> Rejected(f)])
              ELSE Settle(c, [pool |-> [Pool EXCEPT !.mps[f.mp].locked = TRUE],
                              flow |-> [f EXCEPT !.stage = "verify"]])
    /\ UNCHANGED Others

(* Preverified: the wallet is charged and the transaction is in.           *)
Applied(mp, t) == [Leave(mp) EXCEPT !.nonce = @ + 1, !.balance = @ - t.cost,
                                    !.txs = Append(@, t)]

Verified(c) ==
    /\ flows[c].stage = "verify"
    /\ LET f == flows[c]
       IN  IF f.tx.valid
           THEN Settle(c, [pool |-> [Pool EXCEPT !.mps[f.mp] = Applied(@, f.tx)],
                           flow |-> Advanced(f)])
           ELSE Settle(c, [pool |-> [Pool EXCEPT !.mps[f.mp] = Leave(@)], flow |-> Rejected(f)])
    /\ UNCHANGED Others

(* SenderState.replace after preverifying, and what follows it: the wallet *)
(* is charged the difference, then the list is checked and changed.        *)
InPlace(mp, f) == f.index \in DOMAIN mp.txs /\ mp.txs[f.index].nonce = f.old.nonce

Charged(mp, f) == [mp EXCEPT !.balance = @ + f.old.cost - f.tx.cost]

Replaced(c) ==
    /\ flows[c].stage = "replace"
    /\ LET f == flows[c]
           charged == Charged(mps[f.mp], f)
       IN  IF ~f.tx.valid
           THEN Settle(c, [pool |-> Pool, flow |-> [f EXCEPT !.stage = "fail"]])
           ELSE IF ~InPlace(mps[f.mp], f)
           THEN Settle(c, [pool |-> [Pool EXCEPT !.mps[f.mp] = charged],
                           flow |-> [f EXCEPT !.stage = "fail"]])
           ELSE Settle(c, [pool |-> [Pool EXCEPT !.mps[f.mp] = [charged EXCEPT !.txs[f.index] = f.tx]],
                           flow |-> [f EXCEPT !.stage = "end", !.removed = {f.old}]])
    /\ UNCHANGED Others

(* The end of addTransaction, or of one transaction of reAddTransactions:  *)
(* an empty mempool is disposed; a failed transaction leaves the storage,  *)
(* and so do the overwritten ones.                                         *)
NextStored(f) ==
    IF f.queue = <<>> THEN NoFlow
    ELSE [NoFlow EXCEPT !.kind = "start", !.stage = "next", !.queue = f.queue]

AddEnds(c) ==
    /\ flows[c].kind \in {"add", "start"} /\ flows[c].stage \in {"end", "fail"}
    /\ LET f == flows[c]
           gone == IF f.stage = "fail" THEN {f.tx} ELSE f.removed
       IN  Settle(c, [pool |-> Forget(Disposed(Pool, f.tx.from), gone), flow |-> NextStored(f)])
    /\ UNCHANGED Others

----------------------------------------------------------------------------
(* A block is committed by the node: it moves the nonces and balances of   *)
(* its senders, and may raise the balance of anyone.  CommitHandler: the   *)
(* pool is told of the senders only, and the node waits for its commit;    *)
(* at a new milestone all is added again, and nobody waits for that (one   *)
(* such re-adding at a time is followed).                                  *)
Block ==
    /\ flows["commit"].kind = "none"
    /\ chain.number = number /\ chain.number < MaxNumber
    /\ \E ts \in SUBSET Txs, credit \in [Senders -> 0..MaxCredit] :
          LET senders == {t.from : t \in ts}
              spent(s) == MapThenSumSet(LAMBDA t : t.cost, {t \in ts : t.from = s})
          IN  /\ \A t \in ts : t.nonce = chain.nonce[t.from] /\ t.cost <= chain.balance[t.from]
              /\ \A t, u \in ts : t.from = u.from => t = u
              /\ chain' = [number |-> chain.number + 1,
                           nonce |-> [s \in Senders |->
                              chain.nonce[s] + IF s \in senders THEN 1 ELSE 0],
                           balance |-> [s \in Senders |->
                              chain.balance[s] - spent(s) + credit[s]]]
              /\ credited' = credited \cup {s \in Senders \ senders : credit[s] > 0}
              /\ \/ \E queue \in SetToSeqs(senders) :
                       flows' = [flows EXCEPT !["commit"] =
                            [NoFlow EXCEPT !.kind = "commit", !.stage = "wait", !.queue = queue]]
                 \/ /\ flows["start"].kind = "none"
                    /\ flows' = [flows EXCEPT !["start"] =
                                   [NoFlow EXCEPT !.kind = "start", !.stage = "wait"]]
    /\ number' = number + 1
    /\ UNCHANGED <<mps, map, storage, removals, restarts, overlapped>>

(* runExclusive: the calls at work end first, and an earlier re-adding.    *)
CommitWaits(f) == (\A c \in Calls : flows[c].kind = "none") /\ flows["start"].kind = "none"

CommitStarts ==
    /\ flows["commit"].stage = "wait"
    /\ CommitWaits(flows["commit"])
    /\ flows' = [flows EXCEPT !["commit"].stage = "sender"]
    /\ UNCHANGED <<mps, map, storage, overlapped>> /\ UNCHANGED Others

(* Mempool.reAddTransactions, one sender after the other.                  *)
NextSender ==
    /\ flows["commit"].kind = "commit" /\ flows["commit"].stage = "sender"
    /\ flows["commit"].queue # <<>>
    /\ LET f == flows["commit"]
           s == Head(f.queue)
       IN  flows' = [flows EXCEPT !["commit"] =
               IF map[s] = 0 THEN [f EXCEPT !.queue = Tail(@)]
               ELSE [f EXCEPT !.stage = "reset", !.mp = map[s]]]
    /\ UNCHANGED <<mps, map, storage, overlapped>> /\ UNCHANGED Others

(* SenderState.reset has read the wallet, and the transactions are taken   *)
(* out to be added again.                                                  *)
Reset(mp, s) == [mp EXCEPT !.nonce = chain.nonce[s], !.balance = chain.balance[s], !.txs = <<>>]

ResetSender ==
    /\ flows["commit"].stage = "reset"
    /\ LET f == flows["commit"]
           s == Head(f.queue)
       IN  /\ Settle("commit", [pool |-> [Pool EXCEPT !.mps[f.mp] = Reset(@, s)],
                                flow |-> Advanced([f EXCEPT !.todo = mps[f.mp].txs])])
           /\ credited' = credited \ {s}
    /\ UNCHANGED <<chain, number, removals, restarts>>

SenderEnds ==
    /\ flows["commit"].kind = "commit" /\ flows["commit"].stage = "end"
    /\ LET f == flows["commit"]
       IN  Settle("commit", [pool |-> Disposed(Pool, Head(f.queue)),
                             flow |-> [f EXCEPT !.stage = "sender", !.queue = Tail(@),
                                                !.mp = 0, !.tx = NoTx]])
    /\ UNCHANGED Others

(* The removed transactions leave the storage, then #cleanUp.              *)
CommitCleansUp ==
    /\ flows["commit"].kind = "commit" /\ flows["commit"].stage = "sender"
    /\ flows["commit"].queue = <<>>
    /\ LET p == Forget(Pool, flows["commit"].removed)
       IN  Settle("commit", [pool |-> p, flow |-> CleanUp(p, flows["commit"])])
    /\ UNCHANGED Others

----------------------------------------------------------------------------
(* A start after the process died at any step: only the storage is left.   *)
Restart ==
    /\ restarts < MaxRestarts
    /\ restarts' = restarts + 1
    /\ mps' = [i \in Ids |-> Free]
    /\ map' = [s \in Senders |-> 0]
    /\ number' = chain.number
    /\ flows' = [c \in DOMAIN flows |->
                   IF c = "start" THEN [NoFlow EXCEPT !.kind = "start", !.stage = "wait"] ELSE NoFlow]
    /\ overlapped' = {} /\ credited' = {}
    /\ UNCHANGED <<storage, chain, removals>>

(* Service.reAddTransactions, at a start or a new milestone: the mempools  *)
(* are flushed and the stored transactions that are not too old are added  *)
(* again.                                                                  *)
ReAddStarts ==
    /\ flows["start"].stage = "wait"
    /\ \A c \in Calls : flows[c].kind = "none"
    /\ mps' = [i \in Ids |-> Free]
    /\ map' = [s \in Senders |-> 0]
    /\ storage' = SelectSeq(storage, LAMBDA row : row.number > number - maxTransactionAge)
    /\ flows' = [flows EXCEPT !["start"] =
                   NextStored([@ EXCEPT !.queue = [i \in DOMAIN storage' |-> storage'[i].tx]])]
    /\ overlapped' = {} /\ credited' = {}
    /\ UNCHANGED <<chain, number, removals, restarts>>

ReAddNext ==
    /\ flows["start"].stage = "next"
    /\ LET f == flows["start"]
       IN  Settle("start", AddToMempool(Pool, [f EXCEPT !.tx = Head(f.queue), !.queue = Tail(@)]))
    /\ UNCHANGED Others

(* RemoveTransactionHandler, for a transaction the forger could not use.   *)
RemoveTransaction ==
    /\ removals < MaxRemovals
    /\ removals' = removals + 1
    /\ \E t \in Txs : Put("forger", Drop(Pool, t))
    /\ UNCHANGED <<flows, chain, number, restarts, credited>>

CallStep(c) ==
    \/ RemoveOld(c) \/ RemoveLowest(c) \/ Compare(c) \/ GiveWay(c)
    \/ CreateRead(c) \/ Created(c) \/ EnterNext(c) \/ TakeLock(c)
    \/ Verified(c) \/ Replaced(c) \/ AddEnds(c)

CommitStep ==
    \/ CommitStarts \/ NextSender \/ ResetSender \/ SenderEnds \/ CommitCleansUp
    \/ ReAddStarts \/ ReAddNext

PoolNext ==
    \/ \E c \in Calls : AddTransaction(c)
    \/ \E c \in DOMAIN flows : CallStep(c)
    \/ Block \/ CommitStep \/ Restart \/ RemoveTransaction

PoolSpec == PoolInit /\ [][PoolNext]_vars

----------------------------------------------------------------------------
AtRest == \A c \in DOMAIN flows : flows[c].kind = "none"

Working(i) == {c \in DOMAIN flows : flows[c].mp = i /\ flows[c].stage \in {"lock", "verify"}}

(* The shape of the state.  A mempool's concurrency counter is the number  *)
(* of calls inside its addTransaction, and its lock is held by exactly the *)
(* one that is preverifying.                                               *)
PoolTypeOK ==
    /\ Stored(storage) \subseteq Txs
    /\ Cardinality(Stored(storage)) = Len(storage)
    /\ \A s \in Senders : map[s] \in {0} \cup Ids
    /\ \A c \in DOMAIN flows : flows[c].mp \in {0} \cup Ids
    /\ \A i \in Ids :
          /\ mps[i].concurrency = Cardinality(Working(i))
          /\ mps[i].locked <=> \E c \in Working(i) : flows[c].stage = "verify"
          /\ Cardinality({c \in Working(i) : flows[c].stage = "verify"}) <= 1

(* When no call is at work a sender's stored transactions are those in its *)
(* mempool: nothing is lost or kept by replacing, re-adding after a block, *)
(* cleaning up or restarting (service.ts:81, :104, :139, mempool.ts:42).   *)
(* Excepted are the senders one of whose calls another one disturbed, in   *)
(* one of the three ways of Disturbed, until the pool is rebuilt.          *)
PoolIsStored ==
    AtRest => \A s \in Senders \ overlapped :
        {t \in Stored(storage) : t.from = s} = ToSet(Of(Pool, s))

(* When no call is at work a sender's wallet is the committed one with the *)
(* pooled transactions applied: their nonces follow the committed nonce    *)
(* without a gap, and together they can be paid (sender-state.ts:54, :61,  *)
(* :89, sender-mempool.ts:84).  Its balance is lower, never higher, when a *)
(* block without a transaction of the sender has credited it: the pool is  *)
(* told of the senders of a block only (worker.ts:84).  Excepted are the   *)
(* senders one of whose calls another one disturbed.                       *)
WalletIsExact ==
    AtRest => \A s \in Senders \ overlapped : map[s] # 0 =>
        LET mp == mps[map[s]]
            left == chain.balance[s] - CostOf(mp.txs)
        IN  /\ mp.nonce = chain.nonce[s] + Len(mp.txs)
            /\ IF s \in credited THEN mp.balance < left ELSE mp.balance = left
            /\ mp.balance >= 0
            /\ \A i \in DOMAIN mp.txs : mp.txs[i].nonce = chain.nonce[s] + i - 1

(* A block never costs a sender the transaction that is next: re-adding    *)
(* drops one that has the committed nonce only when the sender cannot pay  *)
(* for it any more (sender-mempool.ts:157).  Excepted are the senders one  *)
(* of whose calls another one disturbed.                                   *)
NextIsKept ==
    flows["commit"].kind = "commit" =>
        \A t \in flows["commit"].removed :
            t.nonce = chain.nonce[t.from] /\ t.from \notin overlapped =>
                t.cost > chain.balance[t.from]

(* The pool exceeds its limit by no more than the calls that checked it at *)
(* the same time (service.ts:266), and a sender never has more than its    *)
(* own limit (sender-mempool.ts:55), unless it is an allowed one.          *)
PoolIsBounded ==
    /\ getPoolSize(Pool) <= maxTransactionsInPool + Cardinality(Calls) - 1
    /\ \A s \in Senders \ allowedSenders : Len(Of(Pool, s)) <= maxTransactionsPerSender

(* A commit or a re-adding holds the pool alone: while it works, no call   *)
(* of addTransaction does, and not the other of the two (service.ts:82,    *)
(* :140).                                                                  *)
CommitIsAlone ==
    \A x \in {"commit", "start"} : flows[x].stage \notin {"none", "wait"} =>
        \A c \in Calls \cup {"commit", "start"} : c # x => flows[c].stage \in {"none", "wait"}

(* A call, or the commit, is at work.                                      *)
IsAtWork(c) == flows[c].kind # "none"

=============================================================================
