---------------------------- MODULE ResizeGate ----------------------------
(***************************************************************************)
(* The LMDB environment of the EVM state, shared by the threads of several *)
(* processes (packages/evm/core/src/db.rs).  Each process maps the file    *)
(* with a size of its own and guards the mapping by a read/write lock, the *)
(* resize gate: a transaction lives under the read side, a remap needs the *)
(* write side.  One thread of one process commits; when the map is full it *)
(* resizes and tries again (state_commit.rs).  A reader whose process maps *)
(* less than the file holds adopts the grown size and tries again.         *)
(*                                                                         *)
(* Sizes are counted in pages.  LMDB is outside the repository: a write    *)
(* transaction that needs more pages than its process maps fails with      *)
(* MapFull, a read transaction of a process that maps less than the last   *)
(* committed page fails with MapResized.  std::sync::RwLock is outside it  *)
(* too: it lets a reader in when no writer holds or awaits the lock.       *)
(***************************************************************************)
EXTENDS Integers, FiniteSets

CONSTANTS
    Processes,      \* the processes that opened the environment
    Core,           \* the one that commits blocks
    Committer,      \* its thread that does
    Readers,        \* the threads that read
    ProcessOf,      \* the process of each thread
    Unit,           \* MAP_SIZE_UNIT, in pages
    Retries,        \* MAX_RESIZE_RETRIES and MAX_READ_RESIZE_RETRIES
    Growths,        \* how many pages a commit may add
    MaxDisk         \* bound: pages of the file

Threads == Readers \cup {Committer}

ASSUME ResizeGateAssumption ==
    /\ Core \in Processes /\ Committer \notin Readers
    /\ ProcessOf \in [Threads -> Processes] /\ ProcessOf[Committer] = Core
    /\ Unit \in Nat \ {0} /\ Retries \in Nat /\ MaxDisk \in Nat
    /\ Growths \subseteq Nat

VARIABLES
    disk,           \* pages of the file
    map,            \* pages each process maps
    at,             \* where each thread is
    attempts,       \* the loop counter of each thread's call
    grow,           \* pages the running commit needs
    growths         \* ghost: growths of the file since each reader's call began,
                    \* counted up to Retries

gateVars == <<disk, map, at, attempts, grow, growths>>

(* A thread holds the read side from "guard" to the drop of its guard, has *)
(* a transaction in "txn", and holds the write side in "remap".            *)
HasTxn(t) == at[t] = "txn"
HasGuard(t) == at[t] \in {"guard", "txn", "done"}
IsRemapping(t) == at[t] = "remap"
IsOpening(t) == t \in Readers /\ at[t] \in {"call", "guard", "resize", "remap"}
Peers(t) == {u \in Threads : ProcessOf[u] = ProcessOf[t]}

(* next_map_size                                                           *)
NextMapSize(n) == (n \div Unit) * Unit + Unit

(* Every process opens the environment with one unit, grown past the file  *)
(* when the file is as large (PersistentDB::new, new_with_env).            *)
Opened(size) == IF size >= Unit THEN NextMapSize(size) ELSE Unit

GateInit ==
    /\ disk \in 0 .. (Unit + 1)
    /\ map = [p \in Processes |-> Opened(disk)]
    /\ at = [t \in Threads |-> "idle"]
    /\ attempts = [t \in Threads |-> 0]
    /\ grow = 0
    /\ growths = [t \in Threads |-> 0]

(* RwLock::read: no thread of the process remaps or waits to.              *)
MayRead(t) == \A u \in Peers(t) : at[u] \notin {"remap", "resize"}

(* RwLock::write: nobody of the process holds either side.                 *)
MayRemapAnyTime(t) == \A u \in Peers(t) : ~IsRemapping(u)

MayRemap(t) == \A u \in Peers(t) : ~HasGuard(u) /\ ~IsRemapping(u)

----------------------------------------------------------------------------
(* A call of with_read_txn or TxnDatabaseReader::new begins.               *)
CallRead(t) ==
    /\ t \in Readers
    /\ at[t] = "idle"
    /\ at' = [at EXCEPT ![t] = "call"]
    /\ UNCHANGED <<disk, map, attempts, grow, growths>>

(* A commit begins (commit_to_db of state_commit.rs).                      *)
CallCommit(t) ==
    /\ t = Committer
    /\ at[t] = "idle"
    /\ \E g \in Growths :
        /\ disk + g <= MaxDisk
        /\ grow' = g
    /\ at' = [at EXCEPT ![t] = "call"]
    /\ UNCHANGED <<disk, map, attempts, growths>>

(* resize_lock.read() of open_read_txn and with_write_txn.                 *)
TakeGuard(t) ==
    /\ at[t] = "call"
    /\ MayRead(t)
    /\ at' = [at EXCEPT ![t] = "guard"]
    /\ UNCHANGED <<disk, map, attempts, grow, growths>>

(* env.read_txn: the transaction reads the file as it is now.              *)
OpenRead(t) ==
    /\ t \in Readers
    /\ at[t] = "guard"
    /\ disk <= map[ProcessOf[t]]
    /\ at' = [at EXCEPT ![t] = "txn"]
    /\ attempts' = [attempts EXCEPT ![t] = 0]
    /\ growths' = [growths EXCEPT ![t] = 0]
    /\ UNCHANGED <<disk, map, grow>>

(* The map is too small: the guard is dropped and the grown size adopted,  *)
(* as long as there are attempts left.                                     *)
MapResized(t) ==
    /\ t \in Readers
    /\ at[t] = "guard"
    /\ disk > map[ProcessOf[t]]
    /\ attempts[t] < Retries
    /\ attempts' = [attempts EXCEPT ![t] = @ + 1]
    /\ at' = [at EXCEPT ![t] = "resize"]
    /\ UNCHANGED <<disk, map, grow, growths>>

ReadFails(t) ==
    /\ t \in Readers
    /\ at[t] = "guard"
    /\ disk > map[ProcessOf[t]]
    /\ attempts[t] >= Retries
    /\ at' = [at EXCEPT ![t] = "failed"]
    /\ UNCHANGED <<disk, map, attempts, grow, growths>>

(* env.write_txn: it never meets MapResized, see WriterMapsFile.           *)
OpenWrite(t) ==
    /\ t = Committer
    /\ at[t] = "guard"
    /\ at' = [at EXCEPT ![t] = "txn"]
    /\ UNCHANGED <<disk, map, attempts, grow, growths>>

(* The write transaction commits, and the file grows for everyone.         *)
Commit(t) ==
    /\ t = Committer
    /\ at[t] = "txn"
    /\ disk + grow <= map[Core]
    /\ disk' = disk + grow
    /\ at' = [at EXCEPT ![t] = "done"]
    /\ growths' = [u \in Threads |-> IF IsOpening(u) /\ growths[u] < Retries
                                      THEN growths[u] + 1 ELSE growths[u]]
    /\ grow' = 0
    /\ attempts' = [attempts EXCEPT ![t] = 0]
    /\ UNCHANGED map

(* MapFull: transaction and guard are dropped, then commit_with_resize_    *)
(* retry resizes.                                                          *)
DbFull(t) ==
    /\ t = Committer
    /\ at[t] = "txn"
    /\ disk + grow > map[Core]
    /\ attempts' = [attempts EXCEPT ![t] = @ + 1]
    /\ at' = [at EXCEPT ![t] = "resize"]
    /\ UNCHANGED <<disk, map, grow, growths>>

(* A read is over: the transaction is dropped, then its guard.             *)
DropTxn(t) ==
    /\ t \in Readers
    /\ at[t] = "txn"
    /\ at' = [at EXCEPT ![t] = "done"]
    /\ UNCHANGED <<disk, map, attempts, grow, growths>>

DropGuard(t) ==
    /\ at[t] = "done"
    /\ at' = [at EXCEPT ![t] = "idle"]
    /\ UNCHANGED <<disk, map, attempts, grow, growths>>

(* resize_lock.write() of resize and adopt_grown_map_size.                 *)
TakeGate(t) ==
    /\ at[t] = "resize"
    /\ MayRemap(t)
    /\ at' = [at EXCEPT ![t] = "remap"]
    /\ UNCHANGED <<disk, map, attempts, grow, growths>>

(* resize: one unit more than the committer maps now.  The loop is         *)
(* 0..=MAX_RESIZE_RETRIES, so the last resize is not followed by a try.    *)
ResizeEndsEarly(t) == IF attempts[t] >= Retries THEN "failed" ELSE "call"

ResizeEnds(t) == IF attempts[t] > Retries THEN "failed" ELSE "call"

Resize(t) ==
    /\ t = Committer
    /\ at[t] = "remap"
    /\ map' = [map EXCEPT ![Core] = NextMapSize(@)]
    /\ at' = [at EXCEPT ![t] = ResizeEnds(t)]
    /\ UNCHANGED <<disk, attempts, grow, growths>>

(* adopt_grown_map_size: resized only if the file outgrew the map, so the  *)
(* second of two racing readers changes nothing.                           *)
Adopt(t) ==
    /\ t \in Readers
    /\ at[t] = "remap"
    /\ LET p == ProcessOf[t]
       IN  map' = IF disk >= map[p] THEN [map EXCEPT ![p] = NextMapSize(disk)] ELSE map
    /\ at' = [at EXCEPT ![t] = "call"]
    /\ UNCHANGED <<disk, attempts, grow, growths>>

(* A caller that got an error is free to call again.                       *)
Return(t) ==
    /\ at[t] = "failed"
    /\ at' = [at EXCEPT ![t] = "idle"]
    /\ attempts' = [attempts EXCEPT ![t] = 0]
    /\ growths' = [growths EXCEPT ![t] = 0]
    /\ grow' = IF t = Committer THEN 0 ELSE grow
    /\ UNCHANGED <<disk, map>>

Step(t) ==
    \/ TakeGuard(t) \/ OpenRead(t) \/ MapResized(t) \/ ReadFails(t)
    \/ OpenWrite(t) \/ Commit(t) \/ DbFull(t) \/ DropTxn(t) \/ DropGuard(t)
    \/ TakeGate(t) \/ Resize(t) \/ Adopt(t) \/ Return(t)

GateNext == \E t \in Threads : CallRead(t) \/ CallCommit(t) \/ Step(t)

GateSpec == GateInit /\ [][GateNext]_gateVars

----------------------------------------------------------------------------
(* The types of the variables.                                             *)
GateTypeOK ==
    /\ disk \in Nat
    /\ map \in [Processes -> Nat]
    /\ at \in [Threads -> {"idle", "call", "guard", "txn", "done", "resize",
                           "remap", "failed"}]
    /\ attempts \in [Threads -> 0 .. (Retries + 1)]
    /\ grow \in Nat
    /\ growths \in [Threads -> Nat]

(* No transaction is live in a process while a thread of it remaps the     *)
(* environment ("a concurrent resize munmaps the map, so no txn may be     *)
(* live across it", db.rs:1408).                                           *)
NoTxnAcrossRemap ==
    \A t \in Threads : IsRemapping(t) =>
        \A u \in Peers(t) : ~HasTxn(u) /\ (IsRemapping(u) => u = t)

(* The process that commits always maps the whole file, so its write       *)
(* transactions need no recovery from MapResized (the argument of          *)
(* db.rs:1443-1450).                                                       *)
WriterMapsFile == disk <= map[Core]

(* A read gives up only after the file grew again between each adoption of *)
(* the grown size and the retry that followed it (open_read_txn,           *)
(* db.rs:1428): one growth is always recovered from.                       *)
ReadsRecover ==
    \A t \in Readers : at[t] = "failed" => growths[t] >= Retries

(* A commit fails for lack of space only if it needs more than the retries *)
(* can add: Retries units beyond the first try (commit_with_resize_retry,  *)
(* state_commit.rs:138).                                                   *)
CommitFits == at[Committer] = "failed" => grow > Retries * Unit

IsCalling(t) == at[t] # "idle"
===========================================================================
