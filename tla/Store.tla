------------------------------- MODULE Store -------------------------------
(***************************************************************************)
(* The accounts, emails and wallets tables, and the SQL statements that    *)
(* accounts-api runs against them from concurrent database sessions.       *)
(*                                                                         *)
(* The tables and their constraints are those of migrations/; a statement  *)
(* is one call of the generated models package (Insert, Update, Delete).   *)
(* How PostgreSQL isolates and serialises sessions is not in this          *)
(* repository; it is modelled from what the callers rely on:               *)
(*   - a session's writes are kept aside until it commits;                 *)
(*   - a statement that needs a row, an index entry or a referenced row    *)
(*     that another open session has written waits for that session;       *)
(*   - a statement that breaks a constraint is refused;                    *)
(*   - a serializable session is refused a row that was committed after    *)
(*     its snapshot (missed).                                              *)
(* Statements take all their locks at once.  Column values no property     *)
(* distinguishes (created_at, updated_at, the times themselves) are left   *)
(* out: a nullable time is the Boolean "is not null".                      *)
(***************************************************************************)
CONSTANTS AccountIds,   \* the KSUIDs the service may ever draw
          Addresses,    \* e-mail addresses, in any spelling
          Wallets,      \* 20-byte Ethereum addresses
          Codes,        \* six-character referral codes
          Countries,    \* three-letter country codes
          Sessions,     \* database sessions
          None,         \* SQL NULL, and "no such row"
          Kept          \* "this session has not written this row"

AccountRow == [code        : Codes,
               country     : Countries \cup {None},
               referredBy  : AccountIds \cup {None},
               referredAt  : BOOLEAN,
               acceptedTos : BOOLEAN]
EmailRow   == [account : AccountIds, confirmed : BOOLEAN]

ASSUME NullsAreNotValues ==
  /\ None # Kept
  /\ None \notin AccountIds \cup Countries \cup AccountRow \cup EmailRow
  /\ Kept \notin AccountIds \cup AccountRow \cup EmailRow

VARIABLES accounts,       \* committed rows, by primary key
          emails,
          wallets,
          accountWrites,  \* uncommitted rows, by session and primary key
          emailWrites,
          walletWrites,
          isolation,      \* "none" when the session has no transaction
          missed,         \* keys committed by others since a serializable
                          \* session's snapshot
          issued          \* account ids ever committed: KSUIDs do not recur

tables    == <<accounts, emails, wallets>>
writes    == <<accountWrites, emailWrites, walletWrites>>
storeVars == <<accounts, emails, wallets, accountWrites, emailWrites,
               walletWrites, isolation, missed, issued>>

Levels == {"none", "read committed", "serializable"}

TypeOK ==
  /\ accounts      \in [AccountIds -> AccountRow \cup {None}]
  /\ emails        \in [Addresses -> EmailRow \cup {None}]
  /\ wallets       \in [Wallets -> AccountIds \cup {None}]
  /\ accountWrites \in [Sessions -> [AccountIds -> AccountRow \cup {None, Kept}]]
  /\ emailWrites   \in [Sessions -> [Addresses -> EmailRow \cup {None, Kept}]]
  /\ walletWrites  \in [Sessions -> [Wallets -> AccountIds \cup {None, Kept}]]
  /\ isolation     \in [Sessions -> Levels]
  /\ missed        \in [Sessions -> SUBSET (AccountIds \cup Addresses)]
  /\ issued        \in SUBSET AccountIds

----------------------------------------------------------------------------
(* What a statement of session s sees: the committed rows, overlaid with   *)
(* the session's own writes.                                               *)

(* FAULT, for a mutant: only the session's own writes are seen.            *)
SeenOwnWritesOnly(s, a) == accountWrites[s][a]

SeenAccount(s, a) ==
  IF accountWrites[s][a] = Kept THEN accounts[a] ELSE accountWrites[s][a]
SeenEmail(s, e) ==
  IF emailWrites[s][e] = Kept THEN emails[e] ELSE emailWrites[s][e]
SeenWallet(s, w) ==
  IF walletWrites[s][w] = Kept THEN wallets[w] ELSE walletWrites[s][w]

SeenAccounts(s) == [a \in AccountIds |-> SeenAccount(s, a)]
SeenEmails(s)   == [e \in Addresses |-> SeenEmail(s, e)]
SeenWallets(s)  == [w \in Wallets |-> SeenWallet(s, w)]

(* Rows as patterns: absent rows match nothing.                            *)
EmailOf(row, a)    == row \notin {None, Kept} /\ row.account = a
ReferredBy(row, a) == row \notin {None, Kept} /\ row.referredBy = a
HasCode(row, c)    == row \notin {None, Kept} /\ row.code = c

----------------------------------------------------------------------------
(* Row and index locks.                                                    *)

Others(s) == Sessions \ {s}

AccountBusy(s, a) == \E t \in Others(s) : accountWrites[t][a] # Kept
EmailBusy(s, e)   == \E t \in Others(s) : emailWrites[t][e] # Kept
WalletBusy(s, w)  == \E t \in Others(s) : walletWrites[t][w] # Kept

(* Another session has uncommitted rows under the unique key being used.   *)
CodeBusy(s, c) ==
  \E t \in Others(s), b \in AccountIds :
    /\ accountWrites[t][b] # Kept
    /\ HasCode(accounts[b], c) \/ HasCode(accountWrites[t][b], c)
EmailOwnerBusy(s, a) ==
  \E t \in Others(s), e \in Addresses :
    /\ emailWrites[t][e] # Kept
    /\ EmailOf(emails[e], a) \/ EmailOf(emailWrites[t][e], a)
WalletOwnerBusy(s, a) ==
  \E t \in Others(s), w \in Wallets :
    /\ walletWrites[t][w] # Kept
    /\ wallets[w] = a \/ walletWrites[t][w] = a

(* Foreign keys: a referencing row waits for a delete of its target, and a *)
(* delete waits for every uncommitted row that references its target.      *)
BeingDeleted(s, a) == \E t \in Others(s) : accountWrites[t][a] = None
BeingReferenced(s, a) ==
  \E t \in Others(s) :
    \/ \E e \in Addresses  : EmailOf(emailWrites[t][e], a)
    \/ \E w \in Wallets    : walletWrites[t][w] = a
    \/ \E b \in AccountIds : ReferredBy(accountWrites[t][b], a)

(* A serializable session may not write a row its snapshot does not have.  *)
Stale(s, key) == key \in missed[s]

----------------------------------------------------------------------------
(* Transactions.                                                           *)

Begin(s, level) ==
  /\ isolation[s] = "none"
  /\ isolation' = [isolation EXCEPT ![s] = level]
  /\ UNCHANGED <<tables, writes, missed, issued>>

(* The writes of the sessions in S are dropped.                            *)
Forget(S) ==
  /\ accountWrites' = [t \in Sessions |-> IF t \in S
       THEN [a \in AccountIds |-> Kept] ELSE accountWrites[t]]
  /\ emailWrites' = [t \in Sessions |-> IF t \in S
       THEN [e \in Addresses |-> Kept] ELSE emailWrites[t]]
  /\ walletWrites' = [t \in Sessions |-> IF t \in S
       THEN [w \in Wallets |-> Kept] ELSE walletWrites[t]]
  /\ isolation' = [t \in Sessions |-> IF t \in S THEN "none" ELSE isolation[t]]

(* The serializable sessions that stay open miss the committed keys.       *)
Miss(S, keys) ==
  missed' = [t \in Sessions |->
    IF t \in S THEN {}
    ELSE IF isolation[t] = "serializable" THEN missed[t] \cup keys
    ELSE missed[t]]

Commit(s) ==
  /\ isolation[s] # "none"
  /\ accounts' = SeenAccounts(s)
  /\ emails' = SeenEmails(s)
  /\ wallets' = SeenWallets(s)
  /\ issued' = issued \cup
       {a \in AccountIds : accountWrites[s][a] \notin {None, Kept}}
  /\ Miss({s}, {a \in AccountIds : accountWrites[s][a] # Kept}
                 \cup {e \in Addresses : emailWrites[s][e] # Kept})
  /\ Forget({s})

(* One session rolls back, or every session of a process that died.        *)
Rollback(S) ==
  /\ Miss(S, {})
  /\ Forget(S)
  /\ UNCHANGED <<tables, issued>>

----------------------------------------------------------------------------
(* INSERT INTO accounts: the id is new, the referral code unique.          *)

FreshId(a) == a \notin issued /\ \A t \in Sessions : accountWrites[t][a] = Kept

InsertAccountRefused(s, c) == \E b \in AccountIds : HasCode(SeenAccount(s, b), c)

InsertAccount(s, a, c) ==
  /\ isolation[s] # "none"
  /\ FreshId(a)
  /\ ~CodeBusy(s, c)
  /\ ~InsertAccountRefused(s, c)
  /\ accountWrites' = [accountWrites EXCEPT ![s][a] =
       [code |-> c, country |-> None, referredBy |-> None,
        referredAt |-> FALSE, acceptedTos |-> FALSE]]
  /\ UNCHANGED <<tables, emailWrites, walletWrites, isolation, missed, issued>>

(* INSERT INTO emails: primary key, unique account_id, foreign key.        *)

InsertEmailBlocked(s, e, a) ==
  EmailBusy(s, e) \/ EmailOwnerBusy(s, a) \/ BeingDeleted(s, a)

(* FAULT: account_id of emails is not unique.                              *)
InsertEmailAgain(s, e, a) ==
  SeenEmail(s, e) # None \/ SeenAccount(s, a) = None \/ Stale(s, a)

InsertEmailRefused(s, e, a) ==
  \/ SeenEmail(s, e) # None
  \/ \E f \in Addresses : EmailOf(SeenEmail(s, f), a)
  \/ SeenAccount(s, a) = None
  \/ Stale(s, a)

InsertEmail(s, e, a, confirmed) ==
  /\ isolation[s] # "none"
  /\ ~InsertEmailBlocked(s, e, a)
  /\ ~InsertEmailRefused(s, e, a)
  /\ emailWrites' = [emailWrites EXCEPT ![s][e] =
       [account |-> a, confirmed |-> confirmed]]
  /\ UNCHANGED <<tables, accountWrites, walletWrites, isolation, missed, issued>>

(* INSERT INTO wallets: primary key, unique account_id, foreign key.       *)

InsertWalletBlocked(s, w, a) ==
  WalletBusy(s, w) \/ WalletOwnerBusy(s, a) \/ BeingDeleted(s, a)

InsertWalletRefused(s, w, a) ==
  \/ SeenWallet(s, w) # None
  \/ \E v \in Wallets : SeenWallet(s, v) = a
  \/ SeenAccount(s, a) = None
  \/ Stale(s, a)

InsertWallet(s, w, a) ==
  /\ isolation[s] # "none"
  /\ ~InsertWalletBlocked(s, w, a)
  /\ ~InsertWalletRefused(s, w, a)
  /\ walletWrites' = [walletWrites EXCEPT ![s][w] = a]
  /\ UNCHANGED <<tables, accountWrites, emailWrites, isolation, missed, issued>>

----------------------------------------------------------------------------
(* UPDATE accounts ... WHERE id = a, in a transaction.  row is the row the *)
(* statement leaves: the row it finds with the listed columns replaced.    *)

UpdateBlocked(s, a, row) ==
  \/ AccountBusy(s, a)
  \/ row.referredBy # None /\ BeingDeleted(s, row.referredBy)

UpdateRefused(s, a, row) ==
  \/ Stale(s, a)
  \/ /\ row.referredBy # None
     /\ ~row.referredAt \/ SeenAccount(s, row.referredBy) = None

UpdateAccount(s, a, row) ==
  /\ isolation[s] # "none"
  /\ SeenAccount(s, a) # None
  /\ row.code = SeenAccount(s, a).code
  /\ ~UpdateBlocked(s, a, row)
  /\ ~UpdateRefused(s, a, row)
  /\ accountWrites' = [accountWrites EXCEPT ![s][a] = row]
  /\ UNCHANGED <<tables, emailWrites, walletWrites, isolation, missed, issued>>

(* The same statement outside a transaction, on the Reader handle: it      *)
(* commits by itself.  Its callers never set the referral columns.         *)
UpdateAccountNow(s, a, row) ==
  /\ isolation[s] = "none"
  /\ accounts[a] # None
  /\ row.code = accounts[a].code
  /\ row.referredBy = accounts[a].referredBy
  /\ row.referredAt = accounts[a].referredAt
  /\ ~AccountBusy(s, a)
  /\ accounts' = [accounts EXCEPT ![a] = row]
  /\ Miss({s}, {a})
  /\ UNCHANGED <<emails, wallets, writes, isolation, issued>>

----------------------------------------------------------------------------
(* DELETE FROM emails WHERE address = e.                                   *)

DeleteEmail(s, e) ==
  /\ isolation[s] # "none"
  /\ ~EmailBusy(s, e)
  /\ ~Stale(s, e)
  /\ SeenEmail(s, e) # None
  /\ emailWrites' = [emailWrites EXCEPT ![s][e] = None]
  /\ UNCHANGED <<tables, accountWrites, walletWrites, isolation, missed, issued>>

(* DELETE FROM accounts WHERE id = a: emails and wallets cascade, and the  *)
(* accounts a referred keep referred_at but lose referred_by.              *)

DeleteBlocked(s, a) ==
  \/ AccountBusy(s, a) \/ BeingReferenced(s, a)
  \/ EmailOwnerBusy(s, a) \/ WalletOwnerBusy(s, a)
  \/ \E b \in AccountIds : AccountBusy(s, b) /\ ReferredBy(accounts[b], a)

(* FAULT: referred_by is left dangling.                                    *)
StillReferred(row) == row

(* FAULT: the whole referral is forgotten, referred_at included.           *)
UnreferredEntirely(row) == [row EXCEPT !.referredBy = None, !.referredAt = FALSE]

(* ON DELETE SET NULL (referred_by).                                       *)
Unreferred(row) == [row EXCEPT !.referredBy = None]

DeleteAccount(s, a) ==
  /\ isolation[s] # "none"
  /\ SeenAccount(s, a) # None
  /\ ~DeleteBlocked(s, a)
  /\ ~Stale(s, a)
  /\ accountWrites' = [accountWrites EXCEPT ![s] = [b \in AccountIds |->
       IF b = a THEN None
       ELSE IF ReferredBy(SeenAccount(s, b), a)
         THEN Unreferred(SeenAccount(s, b))
       ELSE accountWrites[s][b]]]
  /\ emailWrites' = [emailWrites EXCEPT ![s] = [e \in Addresses |->
       IF EmailOf(SeenEmail(s, e), a) THEN None ELSE emailWrites[s][e]]]
  /\ walletWrites' = [walletWrites EXCEPT ![s] = [w \in Wallets |->
       IF SeenWallet(s, w) = a THEN None ELSE walletWrites[s][w]]]
  /\ UNCHANGED <<tables, isolation, missed, issued>>

----------------------------------------------------------------------------
(* Any client: any session runs any statement at any time.                 *)

StoreInit ==
  /\ accounts = [a \in AccountIds |-> None]
  /\ emails   = [e \in Addresses |-> None]
  /\ wallets  = [w \in Wallets |-> None]
  /\ accountWrites = [s \in Sessions |-> [a \in AccountIds |-> Kept]]
  /\ emailWrites   = [s \in Sessions |-> [e \in Addresses |-> Kept]]
  /\ walletWrites  = [s \in Sessions |-> [w \in Wallets |-> Kept]]
  /\ isolation = [s \in Sessions |-> "none"]
  /\ missed = [s \in Sessions |-> {}]
  /\ issued = {}

SessionStep(s) ==
  \/ \E level \in Levels \ {"none"} : Begin(s, level)
  \/ Commit(s)
  \/ \E a \in AccountIds, c \in Codes : InsertAccount(s, a, c)
  \/ \E e \in Addresses, a \in AccountIds, confirmed \in BOOLEAN :
       InsertEmail(s, e, a, confirmed)
  \/ \E w \in Wallets, a \in AccountIds : InsertWallet(s, w, a)
  \/ \E a \in AccountIds, row \in AccountRow : UpdateAccount(s, a, row)
  \/ \E a \in AccountIds, row \in AccountRow : UpdateAccountNow(s, a, row)
  \/ \E e \in Addresses : DeleteEmail(s, e)
  \/ \E a \in AccountIds : DeleteAccount(s, a)

StoreNext ==
  \/ \E s \in Sessions : SessionStep(s)
  \/ \E S \in SUBSET Sessions : Rollback(S)

StoreSpec == StoreInit /\ [][StoreNext]_storeVars

----------------------------------------------------------------------------
(* The constraints of migrations/ over one version of the three tables.    *)

UniqueCodes(A) ==
  \A a, b \in AccountIds :
    A[a] # None /\ A[b] # None /\ A[a].code = A[b].code => a = b
OneEmailPerAccount(E) ==
  \A e, f \in Addresses :
    E[e] # None /\ E[f] # None /\ E[e].account = E[f].account => e = f
OneWalletPerAccount(W) ==
  \A v, w \in Wallets : W[v] # None /\ W[v] = W[w] => v = w
LinksHaveAccounts(A, E, W) ==
  /\ \A e \in Addresses : E[e] # None => A[E[e].account] # None
  /\ \A w \in Wallets : W[w] # None => A[W[w]] # None
ReferrersExist(A) ==
  \A a \in AccountIds : A[a] # None /\ A[a].referredBy # None =>
    A[a].referredAt /\ A[A[a].referredBy] # None

Consistent(A, E, W) ==
  /\ UniqueCodes(A)
  /\ OneEmailPerAccount(E)
  /\ OneWalletPerAccount(W)
  /\ LinksHaveAccounts(A, E, W)
  /\ ReferrersExist(A)

(* However sessions interleave their statements, commits, rollbacks and    *)
(* crashes, the committed tables satisfy every constraint of the schema:   *)
(* one email and one wallet per account, no link to a deleted account, no  *)
(* two accounts with one referral code, no referrer that is gone.          *)
TablesConsistent == Consistent(accounts, emails, wallets)

(* Why: what a session sees is consistent, and two open sessions never     *)
(* hold rows that one constraint relates.                                  *)
SessionsConsistent ==
  \A s \in Sessions : Consistent(SeenAccounts(s), SeenEmails(s), SeenWallets(s))

RowsApart(s, t) ==
  /\ \A a \in AccountIds : accountWrites[s][a] = Kept \/ accountWrites[t][a] = Kept
  /\ \A e \in Addresses : emailWrites[s][e] = Kept \/ emailWrites[t][e] = Kept
  /\ \A w \in Wallets : walletWrites[s][w] = Kept \/ walletWrites[t][w] = Kept

EmailKeysApart(s, t) ==
  \A e, f \in Addresses, a \in AccountIds :
    EmailOf(emailWrites[s][e], a) /\ emailWrites[t][f] # Kept =>
      ~EmailOf(emails[f], a) /\ ~EmailOf(emailWrites[t][f], a)

WalletKeysApart(s, t) ==
  \A v, w \in Wallets, a \in AccountIds :
    walletWrites[s][v] = a /\ walletWrites[t][w] # Kept =>
      wallets[w] # a /\ walletWrites[t][w] # a

CodesApart(s, t) ==
  \A a, b \in AccountIds, c \in Codes :
    HasCode(accountWrites[s][a], c) /\ accountWrites[t][b] # Kept =>
      ~HasCode(accounts[b], c) /\ ~HasCode(accountWrites[t][b], c)

ReferencesApart(s, t) ==
  \A a \in AccountIds : accountWrites[t][a] = None =>
    /\ \A e \in Addresses  : ~EmailOf(emailWrites[s][e], a)
    /\ \A w \in Wallets    : walletWrites[s][w] # a
    /\ \A b \in AccountIds : ~ReferredBy(accountWrites[s][b], a)

Apart(s, t) ==
  /\ RowsApart(s, t) /\ EmailKeysApart(s, t) /\ WalletKeysApart(s, t)
  /\ CodesApart(s, t) /\ ReferencesApart(s, t)

SessionsApart == \A s, t \in Sessions : s # t => Apart(s, t)

(* The inductive invariant behind TablesConsistent: whatever open sessions *)
(* commit, in whatever order, the tables stay consistent, because their    *)
(* locks keep the rows that a constraint relates in one session.           *)
StoreInvariant == TablesConsistent /\ SessionsConsistent /\ SessionsApart

=============================================================================
