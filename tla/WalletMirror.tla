---------------------------- MODULE WalletMirror ----------------------------
(***************************************************************************)
(* The username and the vote of a wallet, in the three places that hold    *)
(* them: the contracts (UsernamesV1.sol, and the vote of ConsensusV1.sol), *)
(* the account updates that the EVM derives from the events of a block     *)
(* (collect_dirty_accounts_and_events), and the wallets table that         *)
(* api-sync keeps with an upsert per block, or rebuilds with a restore.    *)
(*                                                                         *)
(* A block is a number of transactions, each a call of a contract by its   *)
(* sender or by a contract that the sender calls.  The results of a block  *)
(* are keyed by transaction hash, so they have no order of their own.      *)
(* Names are sequences of characters: a letter "a", the underscore "_",    *)
(* and "A", a character that is not allowed.                               *)
(***************************************************************************)
EXTENDS Integers, FiniteSets, Sequences, SequencesExt

CONSTANTS
    Users,          \* accounts with a key, which send transactions
    Proxies,        \* contract accounts, which call when a user calls them
    Validators,     \* who can be voted for
    Names,          \* the names that users try
    AddedNames,     \* the names that the owner adds
    Owner,          \* the owner of the usernames contract
    MaxNameLength,  \* 20 in UsernamesV1.sol
    Hashes,         \* transaction hashes; their order is not the block's
    MaxBlocks,      \* bound: blocks
    MaxTxs          \* bound: transactions per block

\* What a module that sets the constants has to assume.
WalletMirrorAssumption ==
    /\ Hashes \subseteq Nat
    /\ MaxNameLength \in Nat \ {0}
    /\ Users \cap Proxies = {} /\ Owner \in Users
    /\ \A n \in AddedNames : Len(n) \in 1 .. MaxNameLength

VARIABLES
    usernames,  \* UsernamesV1: _usernames, or Null
    exists,     \* UsernamesV1: the names with _usernameExists
    votes,      \* ConsensusV1: _voters[a].validator, or Null
    touched,    \* accounts whose balance or nonce the open block changed
    results,    \* the open block: the results by hash
    chain,      \* the committed blocks: what a restore reads of them
    api,        \* the wallets table: username and vote, or Null
    unseen,     \* ghost: <<account, attribute>> whose last event was skipped
    proxied     \* ghost: those whose last username event a restore skips

vars == <<usernames, exists, votes, touched, results, chain, api, unseen, proxied>>

Accounts == Users \cup Proxies

(* The empty string of the contract, address(0), and NULL in the table.    *)
Null == <<>>

----------------------------------------------------------------------------
(* _verifyUsername: the checks in the order of the code.                   *)
IsAllowed(c) == c \in {"a", "_"}

VerifyUsername(name) ==
    /\ Len(name) >= 1 /\ Len(name) <= MaxNameLength
    /\ name[1] # "_" /\ name[Len(name)] # "_"
    /\ \A i \in 1 .. Len(name) : IsAllowed(name[i])
    /\ \A i \in 1 .. Len(name) : name[i] = "_" => name[i + 1] # "_"

(* _registerUsername: the previous name of the user becomes free.          *)
RegisterUsername(user, name) ==
    /\ name \notin exists
    /\ usernames' = [usernames EXCEPT ![user] = name]
    /\ exists' = (exists \ {usernames[user]}) \cup {name}

(* An event of a contract.  A switch of the vote emits Unvoted and Voted.  *)
Event(kind, account, value) == [kind |-> kind, account |-> account, value |-> value]

Cumulated(rs) == Cardinality(rs) + 1

(* A transaction has run: its result is stored under its hash with the     *)
(* gas of the block so far, and its sender has a new nonce and balance.    *)
Executed(changed, direct, logs) ==
    /\ Len(chain) < MaxBlocks
    /\ Cardinality(results) < MaxTxs
    /\ \E h \in Hashes \ {r.hash : r \in results} :
           results' = results \cup {[hash |-> h, gas |-> Cumulated(results),
                                     direct |-> direct, logs |-> logs]}
    /\ touched' = touched \cup changed
    /\ UNCHANGED <<chain, api, unseen, proxied>>

(* The msg.sender of a call: the user, or a contract the user called.      *)
Callers(sender) == {sender} \cup Proxies

registerUsername(sender, caller, name) ==
    /\ VerifyUsername(name)
    /\ RegisterUsername(caller, name)
    /\ Executed({sender}, sender = caller, <<Event("registered", caller, name)>>)
    /\ UNCHANGED votes

(* addUsername, by the owner, for anybody: only the length is checked.     *)
addUsername(user, name) ==
    /\ RegisterUsername(user, name)
    /\ Executed({Owner}, TRUE, <<Event("registered", user, name)>>)
    /\ UNCHANGED votes

resignUsername(sender, caller) ==
    /\ usernames[caller] # Null
    /\ exists' = exists \ {usernames[caller]}
    /\ usernames' = [usernames EXCEPT ![caller] = Null]
    /\ Executed({sender}, sender = caller, <<Event("resigned", caller, usernames[caller])>>)
    /\ UNCHANGED votes

Unvoted(caller) ==
    IF votes[caller] = Null THEN <<>> ELSE <<Event("unvoted", caller, votes[caller])>>

vote(sender, caller, validator) ==
    /\ votes[caller] # validator
    /\ votes' = [votes EXCEPT ![caller] = validator]
    /\ Executed({sender}, sender = caller,
                Append(Unvoted(caller), Event("voted", caller, validator)))
    /\ UNCHANGED <<usernames, exists>>

unvote(sender, caller) ==
    /\ votes[caller] # Null
    /\ votes' = [votes EXCEPT ![caller] = Null]
    /\ Executed({sender}, sender = caller, Unvoted(caller))
    /\ UNCHANGED <<usernames, exists>>

(* A transfer, or a call that reverts: no events, but the accounts change. *)
Transfer(sender, to) ==
    /\ Executed({sender, to}, FALSE, <<>>)
    /\ UNCHANGED <<usernames, exists, votes>>

----------------------------------------------------------------------------
(* collect_dirty_accounts_and_events: the results by cumulative gas, and   *)
(* the last event of an account wins.                                      *)
InHashOrder(rs) == SetToSortSeq(rs, LAMBDA r, s : r.hash < s.hash)

InExecutionOrder(rs) == SetToSortSeq(rs, LAMBDA r, s : r.gas < s.gas)

EventsOf(rs) == FlattenSeq([i \in 1 .. Len(rs) |-> rs[i].logs])

AccountUpdate == [vote |-> Null, unvote |-> Null, username |-> Null, resigned |-> FALSE]

FoldEvent(u, e) ==
    CASE e.kind = "voted"      -> [u EXCEPT !.vote = e.value, !.unvote = Null]
      [] e.kind = "unvoted"    -> [u EXCEPT !.unvote = e.value, !.vote = Null]
      [] e.kind = "registered" -> [u EXCEPT !.username = e.value, !.resigned = FALSE]
      [] e.kind = "resigned"   -> [u EXCEPT !.username = Null, !.resigned = TRUE]

DirtyAccounts(rs, dirty) ==
    [a \in dirty |->
        FoldLeft(FoldEvent, AccountUpdate,
                 SelectSeq(EventsOf(InExecutionOrder(rs)), LAMBDA e : e.account = a))]

(* The attributes that api-sync makes of an account update, and the upsert *)
(* of them: an attribute that is absent keeps the one in the table.        *)
Upsert(wallet, u) ==
    [vote |-> IF u.unvote # Null THEN Null
              ELSE IF u.vote # Null THEN u.vote ELSE wallet.vote,
     username |-> IF u.resigned THEN Null
                  ELSE IF u.username # Null THEN u.username ELSE wallet.username]

AttributeOf(e) == IF e.kind \in {"voted", "unvoted"} THEN "vote" ELSE "username"

Attributes(es) == {<<e.account, AttributeOf(e)>> : e \in Range(es)}

(* What a restore finds in the receipts of a block: the username events of  *)
(* transactions that were sent to the usernames contract.                  *)
ParseUsernames(r) ==
    IF r.direct THEN SelectSeq(r.logs, LAMBDA e : AttributeOf(e) = "username") ELSE <<>>

UserEvents(rs) == FlattenSeq([i \in 1 .. Len(rs) |-> ParseUsernames(rs[i])])

(* The block is committed and synchronised.                                *)
CommitBlock ==
    LET updates == DirtyAccounts(results, touched)
        block == InExecutionOrder(results)
        changed == Attributes(EventsOf(block))
        parsed == Attributes(UserEvents(block))
    IN  /\ touched # {}
        /\ chain' = Append(chain, UserEvents(block))
        /\ api' = [a \in Accounts |-> IF a \in touched THEN Upsert(api[a], updates[a])
                                                       ELSE api[a]]
        /\ unseen' = {x \in unseen \cup changed : x \in changed => x[1] \notin touched}
        /\ proxied' = {x \in proxied \cup changed : x[2] = "username" /\ x \notin parsed}
        /\ results' = {} /\ touched' = {}
        /\ UNCHANGED <<usernames, exists, votes>>

----------------------------------------------------------------------------
(* restore: the usernames are those of the last event of the user, in the  *)
(* order of the blocks; the votes are read from the consensus contract.    *)
EventsOfUser(a) == SelectSeq(FlattenSeq(chain), LAMBDA e : e.account = a)

RestoredUsername(a) ==
    LET es == EventsOfUser(a)
    IN  IF es = <<>> \/ Last(es).kind = "resigned" THEN Null ELSE Last(es).value

(* Restore runs before the node takes part, so no block is open.           *)
Restore ==
    /\ results = {} /\ touched = {}
    /\ api' = [a \in Accounts |-> [username |-> RestoredUsername(a), vote |-> votes[a]]]
    /\ unseen' = proxied
    /\ UNCHANGED <<usernames, exists, votes, touched, results, chain, proxied>>

----------------------------------------------------------------------------
WalletInit ==
    /\ usernames = [a \in Accounts |-> Null]
    /\ exists = {}
    /\ votes = [a \in Accounts |-> Null]
    /\ touched = {} /\ results = {} /\ chain = <<>>
    /\ api = [a \in Accounts |-> [username |-> Null, vote |-> Null]]
    /\ unseen = {} /\ proxied = {}

WalletNext ==
    \/ \E s \in Users : \E c \in Callers(s) :
          \/ \E n \in Names : registerUsername(s, c, n)
          \/ resignUsername(s, c)
          \/ \E v \in Validators : vote(s, c, v)
          \/ unvote(s, c)
    \/ \E u \in Users, n \in AddedNames : addUsername(u, n)
    \/ \E s \in Users, p \in Accounts : Transfer(s, p)
    \/ CommitBlock
    \/ Restore

WalletSpec == WalletInit /\ [][WalletNext]_vars

----------------------------------------------------------------------------
(* A name has one holder, and is taken exactly while it has one: the name  *)
(* a user gives up, by resigning or by taking another, is free again       *)
(* (_registerUsername and resignUsername).                                 *)
NamesHaveOneHolder ==
    /\ exists = {usernames[a] : a \in Accounts} \ {Null}
    /\ \A a, b \in Accounts : usernames[a] = usernames[b] /\ a # b => usernames[a] = Null

(* A name that a user can register obeys every rule that the comment of    *)
(* _verifyUsername lists, and reading the character after an underscore    *)
(* never leaves the name.                                                  *)
ObeysRules(name) ==
    /\ Len(name) \in 1 .. MaxNameLength
    /\ Range(name) \subseteq {"a", "_"}
    /\ Head(name) # "_" /\ Last(name) # "_"
    /\ \A i \in 1 .. Len(name) - 1 : SubSeq(name, i, i + 1) # <<"_", "_">>

RegisteredObeyRules == \A n \in exists \ AddedNames : ObeysRules(n)

(* Between blocks, the wallets table tells what the contracts hold, after  *)
(* upserts and restores in any order.  Excepted are attributes whose last  *)
(* event the synchronisation could not see: of an account that the block   *)
(* did not change otherwise, or, for a restore, of a username set through  *)
(* another contract.                                                       *)
Held(a) == [username |-> usernames[a], vote |-> votes[a]]

Between == results = {} /\ touched = {}

WalletsFollowContracts ==
    Between => \A a \in Accounts : \A x \in {"username", "vote"} :
                   <<a, x>> \notin unseen => api[a][x] = Held(a)[x]

=============================================================================
