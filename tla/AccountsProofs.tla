---------------------------- MODULE AccountsProofs ----------------------------
(***************************************************************************)
(* Proofs about Accounts, for any number of sessions, accounts, addresses, *)
(* wallets and requests, in four parts.  Each rests on those before it.    *)
(*                                                                         *)
(* 1. The tables: any client of Store keeps the constraints of the schema. *)
(* 2. The handlers are such clients: every step of theirs is a statement   *)
(*    that the handler was ready for.                                      *)
(* 3. HandlersInvariant is inductive: what is committed of an account stays*)
(*    true while it lives.                                                 *)
(* 4. AnswersInvariant is inductive: a handler may go by what it has read, *)
(*    a client by what it was told.                                        *)
(***************************************************************************)
EXTENDS HandlersInvariants, TLAPS

----------------------------------------------------------------------------
(* 1. The tables, for any number of sessions and rows.                     *)

(* What a session sees has the type of the tables.                         *)
LEMMA SeenType ==
  ASSUME TypeOK, NEW s \in Sessions
  PROVE  /\ \A a \in AccountIds : SeenAccount(s, a) \in AccountRow \cup {None}
         /\ \A e \in Addresses : SeenEmail(s, e) \in EmailRow \cup {None}
         /\ \A w \in Wallets : SeenWallet(s, w) \in AccountIds \cup {None}
  BY DEF TypeOK, SeenAccount, SeenEmail, SeenWallet

LEMMA StoreTypeStep == TypeOK /\ [StoreNext]_storeVars => TypeOK'
<1> SUFFICES ASSUME TypeOK, [StoreNext]_storeVars PROVE TypeOK'
  OBVIOUS
<1> USE DEF TypeOK
<1>1. ASSUME NEW s \in Sessions, NEW level \in Levels \ {"none"}, Begin(s, level)
      PROVE  TypeOK'
  BY <1>1 DEF Begin, tables, writes
<1>2. ASSUME NEW s \in Sessions, Commit(s)
      PROVE  TypeOK'
  BY <1>2, SeenType DEF Commit, Miss, Forget, SeenAccounts, SeenEmails,
                        SeenWallets, Levels
<1>3. ASSUME NEW s \in Sessions, NEW a \in AccountIds, NEW c \in Codes,
             InsertAccount(s, a, c)
      PROVE  TypeOK'
  BY <1>3 DEF InsertAccount, AccountRow, tables
<1>4. ASSUME NEW s \in Sessions, NEW e \in Addresses, NEW a \in AccountIds,
             NEW confirmed \in BOOLEAN, InsertEmail(s, e, a, confirmed)
      PROVE  TypeOK'
  BY <1>4 DEF InsertEmail, EmailRow, tables
<1>5. ASSUME NEW s \in Sessions, NEW w \in Wallets, NEW a \in AccountIds,
             InsertWallet(s, w, a)
      PROVE  TypeOK'
  BY <1>5 DEF InsertWallet, tables
<1>6. ASSUME NEW s \in Sessions, NEW a \in AccountIds, NEW row \in AccountRow,
             UpdateAccount(s, a, row)
      PROVE  TypeOK'
  BY <1>6 DEF UpdateAccount, tables
<1>7. ASSUME NEW s \in Sessions, NEW a \in AccountIds, NEW row \in AccountRow,
             UpdateAccountNow(s, a, row)
      PROVE  TypeOK'
  BY <1>7 DEF UpdateAccountNow, Miss, writes
<1>8. ASSUME NEW s \in Sessions, NEW e \in Addresses, DeleteEmail(s, e)
      PROVE  TypeOK'
  BY <1>8 DEF DeleteEmail, tables
<1>9. ASSUME NEW s \in Sessions, NEW a \in AccountIds, DeleteAccount(s, a)
      PROVE  TypeOK'
  <2>1. \A b \in AccountIds : ReferredBy(SeenAccount(s, b), a) =>
           Unreferred(SeenAccount(s, b)) \in AccountRow
    BY SeenType DEF ReferredBy, Unreferred, AccountRow
  <2>2. accountWrites' \in [Sessions -> [AccountIds -> AccountRow \cup {None, Kept}]]
    BY <1>9, <2>1 DEF DeleteAccount
  <2>3. /\ emailWrites' \in [Sessions -> [Addresses -> EmailRow \cup {None, Kept}]]
        /\ walletWrites' \in [Sessions -> [Wallets -> AccountIds \cup {None, Kept}]]
    BY <1>9 DEF DeleteAccount
  <2> QED
    BY <1>9, <2>2, <2>3 DEF DeleteAccount, tables
<1>10. ASSUME NEW S \in SUBSET Sessions, Rollback(S)
       PROVE  TypeOK'
  BY <1>10 DEF Rollback, Miss, Forget, Levels, tables
<1>11. CASE UNCHANGED storeVars
  BY <1>11 DEF storeVars
<1> QED
  BY <1>1, <1>2, <1>3, <1>4, <1>5, <1>6, <1>7, <1>8, <1>9, <1>10, <1>11
     DEF StoreNext, SessionStep

(* Every statement writes rows of the right type: in particular a missing  *)
(* row is never committed as a "not written" mark or the other way round.  *)
THEOREM StoreTypeOK == StoreSpec => []TypeOK
<1>1. StoreInit => TypeOK
  BY DEF StoreInit, TypeOK, Levels
<1> QED
  BY <1>1, StoreTypeStep, PTL DEF StoreSpec

----------------------------------------------------------------------------
(* A statement of session s changes only what s sees and holds.            *)
LEMMA StatementStep ==
  ASSUME StoreInvariant, NEW s \in Sessions, UNCHANGED tables,
         \A t \in Sessions : t # s => /\ accountWrites'[t] = accountWrites[t]
                                     /\ emailWrites'[t] = emailWrites[t]
                                     /\ walletWrites'[t] = walletWrites[t],
         Consistent(SeenAccounts(s), SeenEmails(s), SeenWallets(s))',
         \A t \in Sessions : t # s => Apart(s, t)' /\ Apart(t, s)'
  PROVE  StoreInvariant'
<1>1. TablesConsistent'
  BY DEF StoreInvariant, TablesConsistent, tables
<1>2. ASSUME NEW t \in Sessions
      PROVE  Consistent(SeenAccounts(t), SeenEmails(t), SeenWallets(t))'
  <2>1. CASE t = s
    BY <2>1
  <2>2. CASE t # s
    <3>1. /\ SeenAccounts(t)' = SeenAccounts(t)
          /\ SeenEmails(t)' = SeenEmails(t)
          /\ SeenWallets(t)' = SeenWallets(t)
      BY <2>2 DEF SeenAccounts, SeenEmails, SeenWallets, SeenAccount, SeenEmail,
                  SeenWallet, tables
    <3>2. Consistent(SeenAccounts(t), SeenEmails(t), SeenWallets(t))
      BY DEF StoreInvariant, SessionsConsistent
    <3> QED
      BY <3>1, <3>2
  <2> QED
    BY <2>1, <2>2
<1>3. ASSUME NEW t \in Sessions, NEW u \in Sessions, t # u
      PROVE  Apart(t, u)'
  <2>1. CASE t = s \/ u = s
    BY <1>3, <2>1
  <2>2. CASE t # s /\ u # s
    <3>1. Apart(t, u)
      BY <1>3 DEF StoreInvariant, SessionsApart
    <3> QED
      BY <2>2, <3>1 DEF Apart, RowsApart, EmailKeysApart, WalletKeysApart,
                        CodesApart, ReferencesApart, tables
  <2> QED
    BY <2>1, <2>2
<1> QED
  BY <1>1, <1>2, <1>3 DEF StoreInvariant, SessionsConsistent, SessionsApart

LEMMA InsertAccountKeeps ==
  ASSUME TypeOK, StoreInvariant, NEW s \in Sessions, NEW a \in AccountIds,
         NEW c \in Codes, InsertAccount(s, a, c)
  PROVE  StoreInvariant'
<1> DEFINE row == [code |-> c, country |-> None, referredBy |-> None,
                   referredAt |-> FALSE, acceptedTos |-> FALSE]
<1>1. /\ accountWrites' = [accountWrites EXCEPT ![s][a] = row]
      /\ UNCHANGED tables
      /\ \A t \in Sessions : emailWrites'[t] = emailWrites[t]
                          /\ walletWrites'[t] = walletWrites[t]
      /\ \A t \in Sessions : accountWrites[t][a] = Kept
      /\ ~CodeBusy(s, c)
      /\ ~InsertAccountRefused(s, c)
  BY DEF InsertAccount, FreshId
<1>2. row \notin {None, Kept} /\ row.code = c /\ row.referredBy = None
  <2>1. row \in AccountRow
    BY DEF AccountRow
  <2> QED
    BY <2>1, NullsAreNotValues
<1> HIDE DEF row
<1>3. \A b \in AccountIds : SeenAccount(s, b)' =
        IF b = a THEN row ELSE SeenAccount(s, b)
  BY <1>1, <1>2 DEF SeenAccount, tables, TypeOK
<1>4. SeenEmails(s)' = SeenEmails(s) /\ SeenWallets(s)' = SeenWallets(s)
  BY <1>1 DEF SeenEmails, SeenWallets, SeenEmail, SeenWallet, tables
<1>5. Consistent(SeenAccounts(s), SeenEmails(s), SeenWallets(s))'
  <2>1. Consistent(SeenAccounts(s), SeenEmails(s), SeenWallets(s))
    BY DEF StoreInvariant, SessionsConsistent
  <2>2. \A b \in AccountIds : SeenAccount(s, b) # None => SeenAccount(s, b).code # c
    BY <1>1, SeenType, NullsAreNotValues DEF InsertAccountRefused, HasCode
  <2>3. UniqueCodes(SeenAccounts(s))'
    BY <1>2, <1>3, <2>1, <2>2 DEF Consistent, UniqueCodes, SeenAccounts
  <2>4. LinksHaveAccounts(SeenAccounts(s), SeenEmails(s), SeenWallets(s))'
    <3>1. \A b \in AccountIds : SeenAccounts(s)[b] # None => SeenAccounts(s)'[b] # None
      BY <1>2, <1>3 DEF SeenAccounts
    <3> QED
      BY <1>4, <2>1, <3>1, SeenType
         DEF Consistent, LinksHaveAccounts, SeenEmails, SeenWallets, EmailRow
  <2>5. ReferrersExist(SeenAccounts(s))'
    BY <1>2, <1>3, <2>1, SeenType DEF Consistent, ReferrersExist, SeenAccounts, AccountRow
  <2> QED
    BY <1>4, <2>1, <2>3, <2>4, <2>5
       DEF Consistent, OneEmailPerAccount, OneWalletPerAccount
<1>6. ASSUME NEW t \in Sessions, t # s
      PROVE  Apart(s, t)' /\ Apart(t, s)'
  <2>1. Apart(s, t) /\ Apart(t, s)
    BY <1>6 DEF StoreInvariant, SessionsApart
  <2>2. \A b \in AccountIds : accountWrites'[s][b] =
          IF b = a THEN row ELSE accountWrites[s][b]
    BY <1>1 DEF TypeOK
  <2>3. accountWrites'[t] = accountWrites[t]
    BY <1>1, <1>6
  <2>4. (RowsApart(s, t) /\ RowsApart(t, s))'
    BY <1>1, <2>1, <2>2, <2>3 DEF Apart, RowsApart
  <2>5. (/\ EmailKeysApart(s, t) /\ EmailKeysApart(t, s)
         /\ WalletKeysApart(s, t) /\ WalletKeysApart(t, s))'
    BY <1>1, <2>1 DEF Apart, EmailKeysApart, WalletKeysApart, tables
  <2>6. CodesApart(s, t)'
    BY <1>1, <1>2, <1>6, <2>1, <2>2, <2>3
       DEF Apart, CodesApart, CodeBusy, HasCode, Others, tables
  <2>7. CodesApart(t, s)'
    <3> SUFFICES ASSUME NEW b \in AccountIds, NEW d \in Codes,
                        HasCode(accountWrites[t][b], d)
                 PROVE  ~HasCode(accounts[a], d) /\ ~HasCode(row, d)
      BY <1>1, <2>1, <2>2, <2>3 DEF Apart, CodesApart, tables
    <3>1. ~HasCode(row, d)
      BY <1>1, <1>2, <1>6 DEF CodeBusy, HasCode, Others
    <3>2. ~HasCode(accounts[a], d)
      BY <1>1, SeenType
         DEF HasCode, StoreInvariant, SessionsConsistent, Consistent, UniqueCodes,
             SeenAccounts, SeenAccount
    <3> QED
      BY <3>1, <3>2
  <2>8. (ReferencesApart(s, t) /\ ReferencesApart(t, s))'
    BY <1>1, <1>2, <2>1, <2>2, <2>3, NullsAreNotValues
       DEF Apart, ReferencesApart, ReferredBy
  <2> QED
    BY <2>4, <2>5, <2>6, <2>7, <2>8 DEF Apart
<1> QED
  BY <1>1, <1>5, <1>6, StatementStep DEF TypeOK

LEMMA InsertEmailKeeps ==
  ASSUME TypeOK, StoreInvariant, NEW s \in Sessions, NEW e \in Addresses,
         NEW a \in AccountIds, NEW confirmed \in BOOLEAN,
         InsertEmail(s, e, a, confirmed)
  PROVE  StoreInvariant'
<1> DEFINE row == [account |-> a, confirmed |-> confirmed]
<1>1. /\ emailWrites' = [emailWrites EXCEPT ![s][e] = row]
      /\ UNCHANGED tables
      /\ \A t \in Sessions : accountWrites'[t] = accountWrites[t]
                          /\ walletWrites'[t] = walletWrites[t]
      /\ ~EmailBusy(s, e) /\ ~EmailOwnerBusy(s, a) /\ ~BeingDeleted(s, a)
      /\ ~InsertEmailRefused(s, e, a)
  BY DEF InsertEmail, InsertEmailBlocked
<1>2. row \notin {None, Kept} /\ row.account = a
  <2>1. row \in EmailRow
    BY DEF EmailRow
  <2> QED
    BY <2>1, NullsAreNotValues
<1> HIDE DEF row
<1>3. \A f \in Addresses : SeenEmail(s, f)' =
        IF f = e THEN row ELSE SeenEmail(s, f)
  BY <1>1, <1>2 DEF SeenEmail, tables, TypeOK
<1>4. SeenAccounts(s)' = SeenAccounts(s) /\ SeenWallets(s)' = SeenWallets(s)
  BY <1>1 DEF SeenAccounts, SeenWallets, SeenAccount, SeenWallet, tables
<1>5. Consistent(SeenAccounts(s), SeenEmails(s), SeenWallets(s))'
  <2>1. Consistent(SeenAccounts(s), SeenEmails(s), SeenWallets(s))
    BY DEF StoreInvariant, SessionsConsistent
  <2>2. \A f \in Addresses : SeenEmail(s, f) # None => SeenEmail(s, f).account # a
    BY <1>1, SeenType, NullsAreNotValues DEF InsertEmailRefused, EmailOf
  <2>3. OneEmailPerAccount(SeenEmails(s))'
    BY <1>2, <1>3, <2>1, <2>2 DEF Consistent, OneEmailPerAccount, SeenEmails
  <2>4. SeenAccounts(s)[a] # None
    BY <1>1 DEF InsertEmailRefused, SeenAccounts
  <2>5. LinksHaveAccounts(SeenAccounts(s), SeenEmails(s), SeenWallets(s))'
    BY <1>2, <1>3, <1>4, <2>1, <2>4 DEF Consistent, LinksHaveAccounts, SeenEmails
  <2> QED
    BY <1>4, <2>1, <2>3, <2>5
       DEF Consistent, UniqueCodes, OneWalletPerAccount, ReferrersExist
<1>6. ASSUME NEW t \in Sessions, t # s
      PROVE  Apart(s, t)' /\ Apart(t, s)'
  <2>1. Apart(s, t) /\ Apart(t, s)
    BY <1>6 DEF StoreInvariant, SessionsApart
  <2>2. \A f \in Addresses : emailWrites'[s][f] =
          IF f = e THEN row ELSE emailWrites[s][f]
    BY <1>1 DEF TypeOK
  <2>3. emailWrites'[t] = emailWrites[t]
    BY <1>1, <1>6
  <2>4. emailWrites[t][e] = Kept
    BY <1>1, <1>6 DEF EmailBusy, Others
  <2>5. (RowsApart(s, t) /\ RowsApart(t, s))'
    BY <1>1, <2>1, <2>2, <2>3, <2>4 DEF Apart, RowsApart
  <2>6. (/\ WalletKeysApart(s, t) /\ WalletKeysApart(t, s)
         /\ CodesApart(s, t) /\ CodesApart(t, s))'
    BY <1>1, <2>1 DEF Apart, CodesApart, WalletKeysApart, tables
  <2>7. EmailKeysApart(s, t)'
    BY <1>1, <1>2, <1>6, <2>1, <2>2, <2>3
       DEF Apart, EmailKeysApart, EmailOwnerBusy, EmailOf, Others, tables
  <2>8. EmailKeysApart(t, s)'
    <3> SUFFICES ASSUME NEW f \in Addresses, NEW b \in AccountIds,
                        EmailOf(emailWrites[t][f], b)
                 PROVE  ~EmailOf(emails[e], b) /\ ~EmailOf(row, b)
      BY <1>1, <2>1, <2>2, <2>3 DEF Apart, EmailKeysApart, tables
    <3>1. ~EmailOf(row, b)
      BY <1>1, <1>2, <1>6 DEF EmailOwnerBusy, EmailOf, Others
    <3>2. ~EmailOf(emails[e], b)
      BY <2>4, SeenType
         DEF EmailOf, StoreInvariant, SessionsConsistent, Consistent,
             OneEmailPerAccount, SeenEmails, SeenEmail
    <3> QED
      BY <3>1, <3>2
  <2>9. (ReferencesApart(s, t) /\ ReferencesApart(t, s))'
    BY <1>1, <1>2, <1>6, <2>1, <2>2, <2>3
       DEF Apart, ReferencesApart, BeingDeleted, EmailOf, Others
  <2> QED
    BY <2>5, <2>6, <2>7, <2>8, <2>9 DEF Apart
<1> QED
  BY <1>1, <1>5, <1>6, StatementStep DEF TypeOK

LEMMA InsertWalletKeeps ==
  ASSUME TypeOK, StoreInvariant, NEW s \in Sessions, NEW w \in Wallets,
         NEW a \in AccountIds, InsertWallet(s, w, a)
  PROVE  StoreInvariant'
<1>1. /\ walletWrites' = [walletWrites EXCEPT ![s][w] = a]
      /\ UNCHANGED tables
      /\ \A t \in Sessions : accountWrites'[t] = accountWrites[t]
                          /\ emailWrites'[t] = emailWrites[t]
      /\ ~WalletBusy(s, w) /\ ~WalletOwnerBusy(s, a) /\ ~BeingDeleted(s, a)
      /\ ~InsertWalletRefused(s, w, a)
  BY DEF InsertWallet, InsertWalletBlocked
<1>2. a \notin {None, Kept}
  BY NullsAreNotValues
<1>3. \A v \in Wallets : SeenWallet(s, v)' =
        IF v = w THEN a ELSE SeenWallet(s, v)
  BY <1>1, <1>2 DEF SeenWallet, tables, TypeOK
<1>4. SeenAccounts(s)' = SeenAccounts(s) /\ SeenEmails(s)' = SeenEmails(s)
  BY <1>1 DEF SeenAccounts, SeenEmails, SeenAccount, SeenEmail, tables
<1>5. Consistent(SeenAccounts(s), SeenEmails(s), SeenWallets(s))'
  <2>1. Consistent(SeenAccounts(s), SeenEmails(s), SeenWallets(s))
    BY DEF StoreInvariant, SessionsConsistent
  <2>2. \A v \in Wallets : SeenWallet(s, v) # a
    BY <1>1 DEF InsertWalletRefused
  <2>3. OneWalletPerAccount(SeenWallets(s))'
    BY <1>2, <1>3, <2>1, <2>2 DEF Consistent, OneWalletPerAccount, SeenWallets
  <2>4. SeenAccounts(s)[a] # None
    BY <1>1 DEF InsertWalletRefused, SeenAccounts
  <2>5. LinksHaveAccounts(SeenAccounts(s), SeenEmails(s), SeenWallets(s))'
    BY <1>2, <1>3, <1>4, <2>1, <2>4 DEF Consistent, LinksHaveAccounts, SeenWallets
  <2> QED
    BY <1>4, <2>1, <2>3, <2>5
       DEF Consistent, UniqueCodes, OneEmailPerAccount, ReferrersExist
<1>6. ASSUME NEW t \in Sessions, t # s
      PROVE  Apart(s, t)' /\ Apart(t, s)'
  <2>1. Apart(s, t) /\ Apart(t, s)
    BY <1>6 DEF StoreInvariant, SessionsApart
  <2>2. \A v \in Wallets : walletWrites'[s][v] =
          IF v = w THEN a ELSE walletWrites[s][v]
    BY <1>1 DEF TypeOK
  <2>3. walletWrites'[t] = walletWrites[t]
    BY <1>1, <1>6
  <2>4. walletWrites[t][w] = Kept
    BY <1>1, <1>6 DEF WalletBusy, Others
  <2>5. (RowsApart(s, t) /\ RowsApart(t, s))'
    BY <1>1, <2>1, <2>2, <2>3, <2>4 DEF Apart, RowsApart
  <2>6. (/\ EmailKeysApart(s, t) /\ EmailKeysApart(t, s)
         /\ CodesApart(s, t) /\ CodesApart(t, s))'
    BY <1>1, <2>1 DEF Apart, CodesApart, EmailKeysApart, tables
  <2>7. WalletKeysApart(s, t)'
    BY <1>1, <1>2, <1>6, <2>1, <2>2, <2>3
       DEF Apart, WalletKeysApart, WalletOwnerBusy, Others, tables
  <2>8. WalletKeysApart(t, s)'
    <3> SUFFICES ASSUME NEW v \in Wallets, NEW b \in AccountIds,
                        walletWrites[t][v] = b
                 PROVE  wallets[w] # b /\ a # b
      BY <1>1, <2>1, <2>2, <2>3 DEF Apart, WalletKeysApart, tables
    <3>1. a # b
      BY <1>1, <1>2, <1>6 DEF WalletOwnerBusy, Others
    <3>2. wallets[w] # b
      BY <2>4, NullsAreNotValues
         DEF StoreInvariant, SessionsConsistent, Consistent,
             OneWalletPerAccount, SeenWallets, SeenWallet
    <3> QED
      BY <3>1, <3>2
  <2>9. (ReferencesApart(s, t) /\ ReferencesApart(t, s))'
    BY <1>1, <1>2, <1>6, <2>1, <2>2, <2>3
       DEF Apart, ReferencesApart, BeingDeleted, Others
  <2> QED
    BY <2>5, <2>6, <2>7, <2>8, <2>9 DEF Apart
<1> QED
  BY <1>1, <1>5, <1>6, StatementStep DEF TypeOK

LEMMA UpdateAccountKeeps ==
  ASSUME TypeOK, StoreInvariant, NEW s \in Sessions, NEW a \in AccountIds,
         NEW row \in AccountRow, UpdateAccount(s, a, row)
  PROVE  StoreInvariant'
<1>1. /\ accountWrites' = [accountWrites EXCEPT ![s][a] = row]
      /\ UNCHANGED tables
      /\ \A t \in Sessions : emailWrites'[t] = emailWrites[t]
                          /\ walletWrites'[t] = walletWrites[t]
      /\ SeenAccount(s, a) # None /\ row.code = SeenAccount(s, a).code
      /\ ~UpdateBlocked(s, a, row) /\ ~UpdateRefused(s, a, row)
  BY DEF UpdateAccount
<1>2. row \notin {None, Kept} /\ SeenAccount(s, a) \notin {None, Kept}
  BY <1>1, SeenType, NullsAreNotValues
<1>3. \A b \in AccountIds : SeenAccount(s, b)' =
        IF b = a THEN row ELSE SeenAccount(s, b)
  BY <1>1, <1>2 DEF SeenAccount, tables, TypeOK
<1>4. SeenEmails(s)' = SeenEmails(s) /\ SeenWallets(s)' = SeenWallets(s)
  BY <1>1 DEF SeenEmails, SeenWallets, SeenEmail, SeenWallet, tables
<1>5. Consistent(SeenAccounts(s), SeenEmails(s), SeenWallets(s))'
  <2>1. Consistent(SeenAccounts(s), SeenEmails(s), SeenWallets(s))
    BY DEF StoreInvariant, SessionsConsistent
  <2>2. \A b \in AccountIds :
           SeenAccounts(s)'[b] # None <=> SeenAccounts(s)[b] # None
    BY <1>1, <1>2, <1>3 DEF SeenAccounts
  <2>3. UniqueCodes(SeenAccounts(s))'
    BY <1>1, <1>3, <2>1 DEF Consistent, UniqueCodes, SeenAccounts
  <2>4. LinksHaveAccounts(SeenAccounts(s), SeenEmails(s), SeenWallets(s))'
    BY <1>4, <2>1, <2>2, SeenType
       DEF Consistent, LinksHaveAccounts, SeenEmails, SeenWallets, EmailRow
  <2>5. row.referredBy # None =>
          row.referredAt /\ SeenAccounts(s)[row.referredBy] # None
    BY <1>1 DEF UpdateRefused, SeenAccounts, AccountRow
  <2>6. ReferrersExist(SeenAccounts(s))'
    BY <1>3, <2>1, <2>2, <2>5, SeenType
       DEF Consistent, ReferrersExist, SeenAccounts, AccountRow
  <2> QED
    BY <1>4, <2>1, <2>3, <2>4, <2>6
       DEF Consistent, OneEmailPerAccount, OneWalletPerAccount
<1>6. ASSUME NEW t \in Sessions, t # s
      PROVE  Apart(s, t)' /\ Apart(t, s)'
  <2>1. Apart(s, t) /\ Apart(t, s)
    BY <1>6 DEF StoreInvariant, SessionsApart
  <2>2. \A b \in AccountIds : accountWrites'[s][b] =
          IF b = a THEN row ELSE accountWrites[s][b]
    BY <1>1 DEF TypeOK
  <2>3. accountWrites'[t] = accountWrites[t]
    BY <1>1, <1>6
  <2>4. accountWrites[t][a] = Kept
    BY <1>1, <1>6 DEF UpdateBlocked, AccountBusy, Others
  <2>5. (RowsApart(s, t) /\ RowsApart(t, s))'
    BY <1>1, <2>1, <2>2, <2>3, <2>4 DEF Apart, RowsApart
  <2>6. (/\ EmailKeysApart(s, t) /\ EmailKeysApart(t, s)
         /\ WalletKeysApart(s, t) /\ WalletKeysApart(t, s))'
    BY <1>1, <2>1 DEF Apart, EmailKeysApart, WalletKeysApart, tables
  <2>7. CodesApart(s, t)'
    <3> SUFFICES ASSUME NEW b \in AccountIds, NEW d \in Codes,
                        HasCode(row, d), accountWrites[t][b] # Kept
                 PROVE  ~HasCode(accounts[b], d) /\ ~HasCode(accountWrites[t][b], d)
      BY <1>1, <2>1, <2>2, <2>3 DEF Apart, CodesApart, tables
    <3>1. b # a /\ HasCode(SeenAccount(s, a), d)
      BY <1>1, <1>2, <2>4 DEF HasCode
    <3>2. CASE accountWrites[s][a] # Kept
      BY <2>1, <3>1, <3>2 DEF Apart, CodesApart, SeenAccount
    <3>3. CASE accountWrites[s][a] = Kept
      <4>1. accountWrites[s][b] = Kept /\ HasCode(accounts[a], d)
        BY <2>1, <3>1, <3>3 DEF Apart, RowsApart, SeenAccount
      <4>2. ~HasCode(accounts[b], d)
        BY <3>1, <3>3, <4>1, SeenType
           DEF HasCode, StoreInvariant, SessionsConsistent, Consistent,
               UniqueCodes, SeenAccounts, SeenAccount
      <4>3. ~HasCode(accountWrites[t][b], d)
        BY <2>4, <3>1, <4>1, SeenType
           DEF HasCode, StoreInvariant, SessionsConsistent, Consistent,
               UniqueCodes, SeenAccounts, SeenAccount
      <4> QED
        BY <4>2, <4>3
    <3> QED
      BY <3>2, <3>3
  <2>8. CodesApart(t, s)'
    <3> SUFFICES ASSUME NEW b \in AccountIds, NEW d \in Codes,
                        HasCode(accountWrites[t][b], d)
                 PROVE  ~HasCode(accounts[a], d) /\ ~HasCode(row, d)
      BY <1>1, <2>1, <2>2, <2>3 DEF Apart, CodesApart, tables
    <3>1. accountWrites[t][b] # Kept /\ b # a
      BY <2>4 DEF HasCode
    <3>2. ~HasCode(row, d)
      BY <2>2, <2>3, <2>7, <3>1 DEF CodesApart
    <3>3. ~HasCode(accounts[a], d)
      BY <2>4, <3>1, SeenType
         DEF HasCode, StoreInvariant, SessionsConsistent, Consistent,
             UniqueCodes, SeenAccounts, SeenAccount
    <3> QED
      BY <3>2, <3>3
  <2>9. (ReferencesApart(s, t) /\ ReferencesApart(t, s))'
    BY <1>1, <1>2, <1>6, <2>1, <2>2, <2>3, <2>4, NullsAreNotValues
       DEF Apart, ReferencesApart, UpdateBlocked, BeingDeleted, ReferredBy, Others
  <2> QED
    BY <2>5, <2>6, <2>7, <2>8, <2>9 DEF Apart
<1> QED
  BY <1>1, <1>5, <1>6, StatementStep DEF TypeOK

(* An UPDATE outside a transaction keeps every column a constraint is      *)
(* about, and no open session has written the row.                         *)
LEMMA UpdateAccountNowKeeps ==
  ASSUME TypeOK, StoreInvariant, NEW s \in Sessions, NEW a \in AccountIds,
         NEW row \in AccountRow, UpdateAccountNow(s, a, row)
  PROVE  StoreInvariant'
<1> DEFINE Same(A, B) ==
      \A b \in AccountIds :
        /\ A[b] = None <=> B[b] = None
        /\ A[b] \notin {None, Kept} <=> B[b] \notin {None, Kept}
        /\ A[b] \notin {None, Kept} => /\ A[b].code = B[b].code
                                       /\ A[b].referredBy = B[b].referredBy
                                       /\ A[b].referredAt = B[b].referredAt
<1>1. /\ UNCHANGED <<emails, wallets, accountWrites, emailWrites, walletWrites>>
      /\ accounts' = [accounts EXCEPT ![a] = row]
      /\ accounts[a] # None
      /\ row.code = accounts[a].code
      /\ row.referredBy = accounts[a].referredBy
      /\ row.referredAt = accounts[a].referredAt
  BY DEF UpdateAccountNow, writes
<1>2. row \notin {None, Kept} /\ accounts[a] \notin {None, Kept}
  BY <1>1, NullsAreNotValues DEF TypeOK
<1>3. Same(accounts, accounts')
  BY <1>1, <1>2 DEF TypeOK
<1>4. \A t \in Sessions : Same(SeenAccounts(t), SeenAccounts(t)')
  BY <1>1, <1>3 DEF SeenAccounts, SeenAccount
<1>5. ASSUME NEW A, NEW B, NEW E, NEW W, Same(A, B), Consistent(A, E, W),
             \A b \in AccountIds : A[b] \in AccountRow \cup {None},
             \A e \in Addresses : E[e] # None => E[e].account \in AccountIds,
             \A w \in Wallets : W[w] # None => W[w] \in AccountIds
      PROVE  Consistent(B, E, W)
  <2>1. \A b \in AccountIds : B[b] # None =>
          /\ A[b] # None /\ A[b].code = B[b].code
          /\ A[b].referredBy = B[b].referredBy /\ A[b].referredAt = B[b].referredAt
          /\ A[b].referredBy \in AccountIds \cup {None}
    BY <1>5, NullsAreNotValues DEF AccountRow
  <2>2. \A b \in AccountIds : A[b] # None => B[b] # None
    BY <1>5
  <2> HIDE DEF Same
  <2>3. UniqueCodes(B)
    BY <1>5, <2>1 DEF Consistent, UniqueCodes
  <2>4. LinksHaveAccounts(B, E, W)
    BY <1>5, <2>2 DEF Consistent, LinksHaveAccounts
  <2>5. ReferrersExist(B)
    BY <1>5, <2>1, <2>2 DEF Consistent, ReferrersExist
  <2> QED
    BY <1>5, <2>3, <2>4, <2>5 DEF Consistent
<1>6. TablesConsistent'
  <2>1. /\ \A b \in AccountIds : accounts[b] \in AccountRow \cup {None}
        /\ \A e \in Addresses : emails[e] # None => emails[e].account \in AccountIds
        /\ \A w \in Wallets : wallets[w] # None => wallets[w] \in AccountIds
    BY DEF TypeOK, EmailRow
  <2> HIDE DEF Same
  <2> QED
    BY <1>1, <1>3, <1>5, <2>1 DEF StoreInvariant, TablesConsistent
<1>7. ASSUME NEW t \in Sessions
      PROVE  Consistent(SeenAccounts(t), SeenEmails(t), SeenWallets(t))'
  <2>1. /\ \A b \in AccountIds : SeenAccounts(t)[b] \in AccountRow \cup {None}
        /\ \A e \in Addresses : SeenEmails(t)[e] # None =>
             SeenEmails(t)[e].account \in AccountIds
        /\ \A w \in Wallets : SeenWallets(t)[w] # None =>
             SeenWallets(t)[w] \in AccountIds
    BY SeenType DEF SeenAccounts, SeenEmails, SeenWallets, EmailRow
  <2>2. SeenEmails(t)' = SeenEmails(t) /\ SeenWallets(t)' = SeenWallets(t)
    BY <1>1 DEF SeenEmails, SeenWallets, SeenEmail, SeenWallet
  <2>3. Consistent(SeenAccounts(t), SeenEmails(t), SeenWallets(t))
    BY DEF StoreInvariant, SessionsConsistent
  <2> HIDE DEF Same
  <2> QED
    BY <1>4, <1>5, <2>1, <2>2, <2>3
<1>8. ASSUME NEW t \in Sessions, NEW u \in Sessions, t # u
      PROVE  Apart(t, u)'
  <2>1. Apart(t, u)
    BY <1>8 DEF StoreInvariant, SessionsApart
  <2>2. CodesApart(t, u)'
    BY <1>1, <1>3, <2>1 DEF Apart, CodesApart, HasCode
  <2> QED
    BY <1>1, <2>1, <2>2
       DEF Apart, RowsApart, EmailKeysApart, WalletKeysApart, ReferencesApart
<1> QED
  BY <1>6, <1>7, <1>8 DEF StoreInvariant, SessionsConsistent, SessionsApart

LEMMA DeleteEmailKeeps ==
  ASSUME TypeOK, StoreInvariant, NEW s \in Sessions, NEW e \in Addresses,
         DeleteEmail(s, e)
  PROVE  StoreInvariant'
<1>1. /\ emailWrites' = [emailWrites EXCEPT ![s][e] = None]
      /\ UNCHANGED tables
      /\ \A t \in Sessions : accountWrites'[t] = accountWrites[t]
                          /\ walletWrites'[t] = walletWrites[t]
      /\ ~EmailBusy(s, e)
      /\ SeenEmail(s, e) # None
  BY DEF DeleteEmail
<1>2. \A f \in Addresses : SeenEmail(s, f)' =
        IF f = e THEN None ELSE SeenEmail(s, f)
  BY <1>1, NullsAreNotValues DEF SeenEmail, tables, TypeOK
<1>3. SeenAccounts(s)' = SeenAccounts(s) /\ SeenWallets(s)' = SeenWallets(s)
  BY <1>1 DEF SeenAccounts, SeenWallets, SeenAccount, SeenWallet, tables
<1>4. Consistent(SeenAccounts(s), SeenEmails(s), SeenWallets(s))'
  <2>1. Consistent(SeenAccounts(s), SeenEmails(s), SeenWallets(s))
    BY DEF StoreInvariant, SessionsConsistent
  <2>2. OneEmailPerAccount(SeenEmails(s))'
    BY <1>2, <2>1 DEF Consistent, OneEmailPerAccount, SeenEmails
  <2>3. LinksHaveAccounts(SeenAccounts(s), SeenEmails(s), SeenWallets(s))'
    BY <1>2, <1>3, <2>1 DEF Consistent, LinksHaveAccounts, SeenEmails
  <2> QED
    BY <1>3, <2>1, <2>2, <2>3
       DEF Consistent, UniqueCodes, OneWalletPerAccount, ReferrersExist
<1>5. ASSUME NEW t \in Sessions, t # s
      PROVE  Apart(s, t)' /\ Apart(t, s)'
  <2>1. Apart(s, t) /\ Apart(t, s)
    BY <1>5 DEF StoreInvariant, SessionsApart
  <2>2. \A f \in Addresses : emailWrites'[s][f] =
          IF f = e THEN None ELSE emailWrites[s][f]
    BY <1>1 DEF TypeOK
  <2>3. emailWrites'[t] = emailWrites[t]
    BY <1>1, <1>5
  <2>4. emailWrites[t][e] = Kept
    BY <1>1, <1>5 DEF EmailBusy, Others
  <2>5. (RowsApart(s, t) /\ RowsApart(t, s))'
    BY <1>1, <2>1, <2>2, <2>3, <2>4 DEF Apart, RowsApart
  <2>6. (/\ WalletKeysApart(s, t) /\ WalletKeysApart(t, s)
         /\ CodesApart(s, t) /\ CodesApart(t, s))'
    BY <1>1, <2>1 DEF Apart, CodesApart, WalletKeysApart, tables
  <2>7. EmailKeysApart(s, t)'
    BY <1>1, <2>1, <2>2, <2>3 DEF Apart, EmailKeysApart, EmailOf, tables
  <2>8. EmailKeysApart(t, s)'
    <3> SUFFICES ASSUME NEW f \in Addresses, NEW b \in AccountIds,
                        EmailOf(emailWrites[t][f], b)
                 PROVE  ~EmailOf(emails[e], b)
      BY <1>1, <2>1, <2>2, <2>3 DEF Apart, EmailKeysApart, EmailOf, tables
    <3> QED
      BY <2>4, SeenType
         DEF EmailOf, StoreInvariant, SessionsConsistent, Consistent,
             OneEmailPerAccount, SeenEmails, SeenEmail
  <2>9. (ReferencesApart(s, t) /\ ReferencesApart(t, s))'
    BY <1>1, <2>1, <2>2, <2>3 DEF Apart, ReferencesApart, EmailOf
  <2> QED
    BY <2>5, <2>6, <2>7, <2>8, <2>9 DEF Apart
<1> QED
  BY <1>1, <1>4, <1>5, StatementStep DEF TypeOK

(* A rollback leaves the sessions it ends with the committed rows.         *)
LEMMA RollbackKeeps ==
  ASSUME TypeOK, StoreInvariant, NEW S \in SUBSET Sessions, Rollback(S)
  PROVE  StoreInvariant'
<1>1. /\ UNCHANGED tables
      /\ \A t \in Sessions \ S : /\ accountWrites'[t] = accountWrites[t]
                                 /\ emailWrites'[t] = emailWrites[t]
                                 /\ walletWrites'[t] = walletWrites[t]
      /\ \A t \in S : /\ \A a \in AccountIds : accountWrites'[t][a] = Kept
                      /\ \A e \in Addresses : emailWrites'[t][e] = Kept
                      /\ \A w \in Wallets : walletWrites'[t][w] = Kept
  BY DEF Rollback, Forget
<1>2. TablesConsistent'
  BY <1>1 DEF StoreInvariant, TablesConsistent, tables
<1>3. ASSUME NEW t \in Sessions
      PROVE  Consistent(SeenAccounts(t), SeenEmails(t), SeenWallets(t))'
  <2>1. CASE t \in S
    <3>1. /\ SeenAccounts(t)' = accounts
          /\ SeenEmails(t)' = emails
          /\ SeenWallets(t)' = wallets
      BY <1>1, <2>1 DEF SeenAccounts, SeenEmails, SeenWallets, SeenAccount,
                        SeenEmail, SeenWallet, tables, TypeOK
    <3> QED
      BY <3>1 DEF StoreInvariant, TablesConsistent
  <2>2. CASE t \notin S
    <3>1. /\ SeenAccounts(t)' = SeenAccounts(t)
          /\ SeenEmails(t)' = SeenEmails(t)
          /\ SeenWallets(t)' = SeenWallets(t)
      BY <1>1, <2>2 DEF SeenAccounts, SeenEmails, SeenWallets, SeenAccount,
                        SeenEmail, SeenWallet, tables
    <3> QED
      BY <3>1 DEF StoreInvariant, SessionsConsistent
  <2> QED
    BY <2>1, <2>2
<1>4. ASSUME NEW t \in Sessions, NEW u \in Sessions, t # u
      PROVE  Apart(t, u)'
  <2>1. Apart(t, u)
    BY <1>4 DEF StoreInvariant, SessionsApart
  <2>2. CASE t \in S
    BY <1>1, <2>2, NullsAreNotValues
       DEF Apart, RowsApart, EmailKeysApart, WalletKeysApart, CodesApart,
           ReferencesApart, EmailOf, HasCode, ReferredBy
  <2>3. CASE u \in S
    BY <1>1, <2>3, NullsAreNotValues
       DEF Apart, RowsApart, EmailKeysApart, WalletKeysApart, CodesApart,
           ReferencesApart
  <2>4. CASE t \notin S /\ u \notin S
    BY <1>1, <2>1, <2>4
       DEF Apart, RowsApart, EmailKeysApart, WalletKeysApart, CodesApart,
           ReferencesApart, tables
  <2> QED
    BY <2>2, <2>3, <2>4
<1> QED
  BY <1>2, <1>3, <1>4 DEF StoreInvariant, SessionsConsistent, SessionsApart

(* Referral codes of rows that different sessions hold.                    *)
LEMMA HeldCodes ==
  ASSUME TypeOK, StoreInvariant, NEW s \in Sessions, NEW t \in Sessions, s # t,
         NEW b \in AccountIds, accountWrites[t][b] = Kept,
         NEW x \in AccountIds, accountWrites[t][x] # Kept, NEW d \in Codes
  PROVE  /\ HasCode(SeenAccount(s, b), d) =>
              ~HasCode(accounts[x], d) /\ ~HasCode(accountWrites[t][x], d)
         /\ HasCode(accountWrites[t][x], d) => ~HasCode(accounts[b], d)
<1>1. Apart(s, t)
  BY DEF StoreInvariant, SessionsApart
<1>2. UniqueCodes(SeenAccounts(s)) /\ UniqueCodes(SeenAccounts(t))
  BY DEF StoreInvariant, SessionsConsistent, Consistent
<1>3. x # b /\ accountWrites[s][x] = Kept
  BY <1>1 DEF Apart, RowsApart
<1>4. HasCode(accountWrites[t][x], d) => ~HasCode(accounts[b], d)
  BY <1>2, <1>3 DEF HasCode, UniqueCodes, SeenAccounts, SeenAccount
<1>5. HasCode(SeenAccount(s, b), d) => ~HasCode(accounts[x], d)
  BY <1>2, <1>3 DEF HasCode, UniqueCodes, SeenAccounts, SeenAccount
<1>6. HasCode(SeenAccount(s, b), d) => ~HasCode(accountWrites[t][x], d)
  BY <1>1, <1>4 DEF Apart, CodesApart, SeenAccount
<1> QED
  BY <1>4, <1>5, <1>6

LEMMA DeleteAccountKeeps ==
  ASSUME TypeOK, StoreInvariant, NEW s \in Sessions, NEW a \in AccountIds,
         DeleteAccount(s, a)
  PROVE  StoreInvariant'
<1>1. /\ UNCHANGED tables
      /\ \A t \in Sessions : t # s => /\ accountWrites'[t] = accountWrites[t]
                                      /\ emailWrites'[t] = emailWrites[t]
                                      /\ walletWrites'[t] = walletWrites[t]
      /\ ~DeleteBlocked(s, a)
  BY DEF DeleteAccount, TypeOK
<1>2. \A b \in AccountIds : accountWrites'[s][b] =
        IF b = a THEN None
        ELSE IF ReferredBy(SeenAccount(s, b), a) THEN Unreferred(SeenAccount(s, b))
        ELSE accountWrites[s][b]
  BY DEF DeleteAccount, TypeOK
<1>3. /\ \A e \in Addresses : emailWrites'[s][e] =
           IF EmailOf(SeenEmail(s, e), a) THEN None ELSE emailWrites[s][e]
      /\ \A w \in Wallets : walletWrites'[s][w] =
           IF SeenWallet(s, w) = a THEN None ELSE walletWrites[s][w]
  BY DEF DeleteAccount, TypeOK
<1>4. \A b \in AccountIds : ReferredBy(SeenAccount(s, b), a) =>
        /\ SeenAccount(s, b) \in AccountRow
        /\ Unreferred(SeenAccount(s, b)) \notin {None, Kept}
        /\ Unreferred(SeenAccount(s, b)).code = SeenAccount(s, b).code
        /\ Unreferred(SeenAccount(s, b)).referredBy = None
  <2> SUFFICES ASSUME NEW b \in AccountIds, ReferredBy(SeenAccount(s, b), a)
               PROVE  /\ SeenAccount(s, b) \in AccountRow
                      /\ Unreferred(SeenAccount(s, b)) \in AccountRow
                      /\ Unreferred(SeenAccount(s, b)).code = SeenAccount(s, b).code
                      /\ Unreferred(SeenAccount(s, b)).referredBy = None
    BY NullsAreNotValues
  <2>1. SeenAccount(s, b) \in AccountRow
    BY SeenType DEF ReferredBy
  <2> QED
    BY <2>1 DEF Unreferred, AccountRow
<1>5. \A b \in AccountIds : SeenAccount(s, b)' =
        IF b = a THEN None
        ELSE IF ReferredBy(SeenAccount(s, b), a) THEN Unreferred(SeenAccount(s, b))
        ELSE SeenAccount(s, b)
  BY <1>1, <1>2, <1>4, NullsAreNotValues DEF SeenAccount, tables
<1>6. /\ \A e \in Addresses : SeenEmail(s, e)' =
           IF EmailOf(SeenEmail(s, e), a) THEN None ELSE SeenEmail(s, e)
      /\ \A w \in Wallets : SeenWallet(s, w)' =
           IF SeenWallet(s, w) = a THEN None ELSE SeenWallet(s, w)
  BY <1>1, <1>3, NullsAreNotValues DEF SeenEmail, SeenWallet, tables
<1>7. Consistent(SeenAccounts(s), SeenEmails(s), SeenWallets(s))'
  <2>1. Consistent(SeenAccounts(s), SeenEmails(s), SeenWallets(s))
    BY DEF StoreInvariant, SessionsConsistent
  <2>2. \A b \in AccountIds : SeenAccount(s, b) # None /\ b # a =>
           SeenAccounts(s)'[b] # None
    BY <1>4, <1>5 DEF SeenAccounts
  <2>3. UniqueCodes(SeenAccounts(s))'
    <3>1. ASSUME NEW b \in AccountIds, SeenAccounts(s)'[b] # None
          PROVE  /\ SeenAccounts(s)[b] # None
                 /\ SeenAccounts(s)[b].code = SeenAccounts(s)'[b].code
      BY <1>4, <1>5, <3>1, NullsAreNotValues DEF SeenAccounts
    <3>2. UniqueCodes(SeenAccounts(s))
      BY <2>1 DEF Consistent
    <3> QED
      BY <3>1, <3>2 DEF UniqueCodes
  <2>4. OneEmailPerAccount(SeenEmails(s))'
    BY <1>6, <2>1 DEF Consistent, OneEmailPerAccount, SeenEmails
  <2>5. OneWalletPerAccount(SeenWallets(s))'
    BY <1>6, <2>1 DEF Consistent, OneWalletPerAccount, SeenWallets
  <2>6. ASSUME NEW e \in Addresses, SeenEmails(s)'[e] # None
        PROVE  SeenAccounts(s)'[SeenEmails(s)'[e].account] # None
    <3>1. /\ SeenEmails(s)'[e] = SeenEmail(s, e) /\ SeenEmail(s, e) \in EmailRow
          /\ SeenEmail(s, e).account # a
      BY <1>6, <2>6, SeenType, NullsAreNotValues DEF EmailOf, SeenEmails
    <3>2. SeenAccount(s, SeenEmail(s, e).account) # None
      BY <2>1, <3>1, NullsAreNotValues
         DEF Consistent, LinksHaveAccounts, SeenAccounts, SeenEmails, EmailRow
    <3> QED
      BY <2>2, <3>1, <3>2 DEF EmailRow
  <2>7. ASSUME NEW w \in Wallets, SeenWallets(s)'[w] # None
        PROVE  SeenAccounts(s)'[SeenWallets(s)'[w]] # None
    <3>1. /\ SeenWallets(s)'[w] = SeenWallet(s, w) /\ SeenWallet(s, w) \in AccountIds
          /\ SeenWallet(s, w) # a
      BY <1>6, <2>7, SeenType DEF SeenWallets
    <3>2. SeenAccount(s, SeenWallet(s, w)) # None
      BY <2>1, <3>1, NullsAreNotValues
         DEF Consistent, LinksHaveAccounts, SeenAccounts, SeenWallets
    <3> QED
      BY <2>2, <3>1, <3>2
  <2>8. LinksHaveAccounts(SeenAccounts(s), SeenEmails(s), SeenWallets(s))'
    BY <2>6, <2>7 DEF LinksHaveAccounts
  <2>9. ASSUME NEW b \in AccountIds, SeenAccounts(s)'[b] # None,
               SeenAccounts(s)'[b].referredBy # None
        PROVE  /\ SeenAccounts(s)'[b].referredAt
               /\ SeenAccounts(s)'[SeenAccounts(s)'[b].referredBy] # None
    <3>1. /\ SeenAccounts(s)'[b] = SeenAccount(s, b)
          /\ SeenAccount(s, b) \in AccountRow
          /\ SeenAccount(s, b).referredBy # a
      BY <1>4, <1>5, <2>9, SeenType, NullsAreNotValues DEF ReferredBy, SeenAccounts
    <3>2. SeenAccount(s, b).referredBy \in AccountIds
      BY <2>9, <3>1 DEF AccountRow
    <3>3. /\ SeenAccount(s, b).referredAt
          /\ SeenAccount(s, SeenAccount(s, b).referredBy) # None
      BY <2>1, <2>9, <3>1, <3>2, NullsAreNotValues
         DEF Consistent, ReferrersExist, SeenAccounts
    <3> QED
      BY <2>2, <3>1, <3>2, <3>3
  <2>10. ReferrersExist(SeenAccounts(s))'
    BY <2>9 DEF ReferrersExist
  <2> QED
    BY <2>3, <2>4, <2>5, <2>8, <2>10 DEF Consistent
<1>8. ASSUME NEW t \in Sessions, t # s
      PROVE  Apart(s, t)' /\ Apart(t, s)'
  <2>1. Apart(s, t) /\ Apart(t, s)
    BY <1>8 DEF StoreInvariant, SessionsApart
  <2>2. /\ accountWrites'[t] = accountWrites[t]
        /\ emailWrites'[t] = emailWrites[t]
        /\ walletWrites'[t] = walletWrites[t]
    BY <1>1, <1>8
  <2>3. \A b \in AccountIds : b = a \/ ReferredBy(SeenAccount(s, b), a) =>
          accountWrites[t][b] = Kept
    BY <1>1, <1>8, <2>1
       DEF DeleteBlocked, AccountBusy, Others, Apart, RowsApart, SeenAccount
  <2>4. \A e \in Addresses : EmailOf(SeenEmail(s, e), a) => emailWrites[t][e] = Kept
    BY <1>1, <1>8, <2>1
       DEF DeleteBlocked, EmailOwnerBusy, Others, Apart, RowsApart, SeenEmail
  <2>5. \A w \in Wallets : SeenWallet(s, w) = a => walletWrites[t][w] = Kept
    BY <1>1, <1>8, <2>1, NullsAreNotValues
       DEF DeleteBlocked, WalletOwnerBusy, Others, Apart, RowsApart, SeenWallet
  <2>6. (RowsApart(s, t) /\ RowsApart(t, s))'
    BY <1>2, <1>3, <2>1, <2>2, <2>3, <2>4, <2>5 DEF Apart, RowsApart
  <2>7. (EmailKeysApart(s, t) /\ WalletKeysApart(s, t))'
    BY <1>1, <1>3, <2>1, <2>2, NullsAreNotValues
       DEF Apart, EmailKeysApart, WalletKeysApart, EmailOf, tables
  <2>8. EmailKeysApart(t, s)'
    <3> SUFFICES ASSUME NEW f \in Addresses, NEW e \in Addresses,
                        NEW b \in AccountIds, EmailOf(emailWrites[t][f], b),
                        emailWrites'[s][e] # Kept
                 PROVE  ~EmailOf(emails[e], b) /\ ~EmailOf(emailWrites'[s][e], b)
      BY <1>1, <2>2 DEF EmailKeysApart, tables
    <3>1. b # a
      BY <1>1, <1>8 DEF DeleteBlocked, BeingReferenced, Others
    <3>2. CASE emailWrites[s][e] # Kept
      BY <1>3, <2>1, <3>2 DEF Apart, EmailKeysApart, EmailOf
    <3>3. CASE emailWrites[s][e] = Kept
      BY <1>3, <3>1, <3>3 DEF EmailOf, SeenEmail
    <3> QED
      BY <3>2, <3>3
  <2>9. WalletKeysApart(t, s)'
    <3> SUFFICES ASSUME NEW v \in Wallets, NEW w \in Wallets,
                        NEW b \in AccountIds, walletWrites[t][v] = b,
                        walletWrites'[s][w] # Kept
                 PROVE  wallets[w] # b /\ walletWrites'[s][w] # b
      BY <1>1, <2>2 DEF WalletKeysApart, tables
    <3>1. b # a
      BY <1>1, <1>8 DEF DeleteBlocked, BeingReferenced, Others
    <3>2. CASE walletWrites[s][w] # Kept
      BY <1>3, <2>1, <3>2, NullsAreNotValues DEF Apart, WalletKeysApart
    <3>3. CASE walletWrites[s][w] = Kept
      BY <1>3, <3>1, <3>3, NullsAreNotValues DEF SeenWallet
    <3> QED
      BY <3>2, <3>3
  <2>10. CodesApart(s, t)'
    <3> SUFFICES ASSUME NEW b \in AccountIds, NEW x \in AccountIds, NEW d \in Codes,
                        HasCode(accountWrites'[s][b], d), accountWrites[t][x] # Kept
                 PROVE  ~HasCode(accounts[x], d) /\ ~HasCode(accountWrites[t][x], d)
      BY <1>1, <2>2 DEF CodesApart, tables
    <3>1. CASE accountWrites'[s][b] = accountWrites[s][b]
      BY <2>1, <3>1 DEF Apart, CodesApart
    <3>2. CASE accountWrites'[s][b] # accountWrites[s][b]
      <4>1. ReferredBy(SeenAccount(s, b), a) /\ HasCode(SeenAccount(s, b), d)
        BY <1>2, <1>4, <3>2, NullsAreNotValues DEF HasCode
      <4> QED
        BY <1>8, <2>3, <4>1, HeldCodes
    <3> QED
      BY <3>1, <3>2
  <2>11. CodesApart(t, s)'
    <3> SUFFICES ASSUME NEW b \in AccountIds, NEW x \in AccountIds, NEW d \in Codes,
                        HasCode(accountWrites[t][x], d), accountWrites'[s][b] # Kept
                 PROVE  ~HasCode(accounts[b], d) /\ ~HasCode(accountWrites'[s][b], d)
      BY <1>1, <2>2 DEF CodesApart, tables
    <3>1. accountWrites[t][x] # Kept
      BY DEF HasCode
    <3>2. ~HasCode(accountWrites'[s][b], d)
      BY <2>2, <2>10, <3>1 DEF CodesApart
    <3>3. ~HasCode(accounts[b], d)
      <4>1. CASE accountWrites[s][b] # Kept
        BY <2>1, <4>1 DEF Apart, CodesApart
      <4>2. CASE accountWrites[s][b] = Kept
        <5>1. accountWrites[t][b] = Kept
          BY <1>2, <2>3, <4>2
        <5> QED
          BY <1>8, <3>1, <5>1, HeldCodes
      <4> QED
        BY <4>1, <4>2
    <3> QED
      BY <3>2, <3>3
  <2>12. ReferencesApart(s, t)'
    BY <1>2, <1>3, <1>4, <2>1, <2>2, NullsAreNotValues
       DEF Apart, ReferencesApart, ReferredBy, EmailOf
  <2>13. ReferencesApart(t, s)'
    <3> SUFFICES ASSUME NEW b \in AccountIds, accountWrites'[s][b] = None
                 PROVE  /\ \A e \in Addresses  : ~EmailOf(emailWrites[t][e], b)
                        /\ \A w \in Wallets    : walletWrites[t][w] # b
                        /\ \A x \in AccountIds : ~ReferredBy(accountWrites[t][x], b)
      BY <2>2 DEF ReferencesApart
    <3>1. CASE b = a
      BY <1>1, <1>8, <3>1 DEF DeleteBlocked, BeingReferenced, Others
    <3>2. CASE b # a
      BY <1>2, <1>4, <2>1, <3>2 DEF Apart, ReferencesApart
    <3> QED
      BY <3>1, <3>2
  <2> QED
    BY <2>6, <2>7, <2>8, <2>9, <2>10, <2>11, <2>12, <2>13 DEF Apart
<1> QED
  BY <1>1, <1>7, <1>8, StatementStep

(* A commit replaces the committed rows under every other session.         *)
LEMMA CommitKeeps ==
  ASSUME TypeOK, StoreInvariant, NEW s \in Sessions, Commit(s)
  PROVE  StoreInvariant'
<1>1. /\ \A a \in AccountIds : accounts'[a] = SeenAccount(s, a)
      /\ \A e \in Addresses : emails'[e] = SeenEmail(s, e)
      /\ \A w \in Wallets : wallets'[w] = SeenWallet(s, w)
      /\ \A t \in Sessions : t # s => /\ accountWrites'[t] = accountWrites[t]
                                      /\ emailWrites'[t] = emailWrites[t]
                                      /\ walletWrites'[t] = walletWrites[t]
      /\ \A a \in AccountIds : accountWrites'[s][a] = Kept
      /\ \A e \in Addresses : emailWrites'[s][e] = Kept
      /\ \A w \in Wallets : walletWrites'[s][w] = Kept
  BY DEF Commit, Forget, SeenAccounts, SeenEmails, SeenWallets
<1>2. /\ accounts' = SeenAccounts(s)
      /\ emails' = SeenEmails(s)
      /\ wallets' = SeenWallets(s)
  BY DEF Commit
<1>3. TablesConsistent'
  BY <1>2 DEF StoreInvariant, SessionsConsistent, TablesConsistent
<1>4. ASSUME NEW t \in Sessions
      PROVE  Consistent(SeenAccounts(t), SeenEmails(t), SeenWallets(t))'
  <2>1. CASE t = s
    <3>1. /\ SeenAccounts(t)' = accounts'
          /\ SeenEmails(t)' = emails'
          /\ SeenWallets(t)' = wallets'
      BY <1>1, <1>2, <2>1 DEF SeenAccounts, SeenEmails, SeenWallets, SeenAccount,
                              SeenEmail, SeenWallet
    <3> QED
      BY <1>3, <3>1 DEF TablesConsistent
  <2>2. CASE t # s
    <3>1. Apart(s, t) /\ Apart(t, s)
      BY <2>2 DEF StoreInvariant, SessionsApart
    <3>2. /\ Consistent(SeenAccounts(s), SeenEmails(s), SeenWallets(s))
          /\ Consistent(SeenAccounts(t), SeenEmails(t), SeenWallets(t))
      BY DEF StoreInvariant, SessionsConsistent
    <3>3. \A a \in AccountIds : SeenAccounts(t)'[a] =
            IF accountWrites[t][a] = Kept THEN SeenAccount(s, a)
                                          ELSE accountWrites[t][a]
      BY <1>1, <2>2 DEF SeenAccounts, SeenAccount
    <3>4. \A e \in Addresses : SeenEmails(t)'[e] =
            IF emailWrites[t][e] = Kept THEN SeenEmail(s, e) ELSE emailWrites[t][e]
      BY <1>1, <2>2 DEF SeenEmails, SeenEmail
    <3>5. \A w \in Wallets : SeenWallets(t)'[w] =
            IF walletWrites[t][w] = Kept THEN SeenWallet(s, w) ELSE walletWrites[t][w]
      BY <1>1, <2>2 DEF SeenWallets, SeenWallet
    <3>types. /\ \A a \in AccountIds : SeenAccounts(t)'[a] \in AccountRow \cup {None}
              /\ \A e \in Addresses : SeenEmails(t)'[e] \in EmailRow \cup {None}
              /\ \A w \in Wallets : SeenWallets(t)'[w] \in AccountIds \cup {None}
      <4>1. /\ \A a \in AccountIds : SeenAccount(s, a) \in AccountRow \cup {None}
            /\ \A e \in Addresses : SeenEmail(s, e) \in EmailRow \cup {None}
            /\ \A w \in Wallets : SeenWallet(s, w) \in AccountIds \cup {None}
        BY SeenType
      <4>2. /\ \A a \in AccountIds : accountWrites[t][a] \in AccountRow \cup {None, Kept}
            /\ \A e \in Addresses : emailWrites[t][e] \in EmailRow \cup {None, Kept}
            /\ \A w \in Wallets : walletWrites[t][w] \in AccountIds \cup {None, Kept}
        BY DEF TypeOK
      <4>3. \A a \in AccountIds : SeenAccounts(t)'[a] \in AccountRow \cup {None}
        BY <3>3, <4>1, <4>2
      <4>4. \A e \in Addresses : SeenEmails(t)'[e] \in EmailRow \cup {None}
        BY <3>4, <4>1, <4>2
      <4>5. \A w \in Wallets : SeenWallets(t)'[w] \in AccountIds \cup {None}
        BY <3>5, <4>1, <4>2
      <4> QED
        BY <4>3, <4>4, <4>5
    <3>6. UniqueCodes(SeenAccounts(t))'
      <4> SUFFICES ASSUME NEW a \in AccountIds, NEW b \in AccountIds, NEW d \in Codes,
                          HasCode(SeenAccounts(t)'[a], d),
                          HasCode(SeenAccounts(t)'[b], d), a # b
                   PROVE  FALSE
        BY <3>types, NullsAreNotValues DEF UniqueCodes, HasCode, AccountRow
      <4>1. CASE accountWrites[t][a] # Kept /\ accountWrites[t][b] # Kept
        BY <3>2, <3>3, <4>1
           DEF Consistent, UniqueCodes, SeenAccounts, SeenAccount, HasCode
      <4>2. CASE accountWrites[t][a] = Kept /\ accountWrites[t][b] = Kept
        BY <3>2, <3>3, <4>2 DEF Consistent, UniqueCodes, SeenAccounts, HasCode
      <4>3. CASE accountWrites[t][a] # Kept /\ accountWrites[t][b] = Kept
        BY <2>2, <3>3, <4>3, HeldCodes
      <4>4. CASE accountWrites[t][a] = Kept /\ accountWrites[t][b] # Kept
        BY <2>2, <3>3, <4>4, HeldCodes
      <4> QED
        BY <4>1, <4>2, <4>3, <4>4
    <3>7. OneEmailPerAccount(SeenEmails(t))'
      <4>1. ASSUME NEW e \in Addresses, NEW f \in Addresses, e # f,
                   emailWrites[t][e] # Kept, emailWrites[t][f] = Kept,
                   emailWrites[t][e] # None, SeenEmail(s, f) # None
            PROVE  emailWrites[t][e].account # SeenEmail(s, f).account
        <5> DEFINE a == emailWrites[t][e].account
        <5>1. a \in AccountIds /\ EmailOf(emailWrites[t][e], a)
          BY <4>1 DEF TypeOK, EmailRow, EmailOf
        <5>2. CASE emailWrites[s][f] # Kept
          BY <3>1, <4>1, <5>1, <5>2 DEF Apart, EmailKeysApart, EmailOf, SeenEmail
        <5>3. CASE emailWrites[s][f] = Kept
          BY <3>2, <4>1, <5>3 DEF Consistent, OneEmailPerAccount, SeenEmails, SeenEmail
        <5> QED
          BY <5>2, <5>3
      <4> QED
        BY <3>2, <3>4, <4>1
           DEF Consistent, OneEmailPerAccount, SeenEmails, SeenEmail
    <3>8. OneWalletPerAccount(SeenWallets(t))'
      <4>1. ASSUME NEW v \in Wallets, NEW w \in Wallets, v # w,
                   walletWrites[t][v] # Kept, walletWrites[t][w] = Kept,
                   walletWrites[t][v] # None, SeenWallet(s, w) # None
            PROVE  walletWrites[t][v] # SeenWallet(s, w)
        <5>1. walletWrites[t][v] \in AccountIds
          BY <4>1 DEF TypeOK
        <5>2. CASE walletWrites[s][w] # Kept
          BY <3>1, <4>1, <5>1, <5>2 DEF Apart, WalletKeysApart, SeenWallet
        <5>3. CASE walletWrites[s][w] = Kept
          BY <3>2, <4>1, <5>3
             DEF Consistent, OneWalletPerAccount, SeenWallets, SeenWallet
        <5> QED
          BY <5>2, <5>3
      <4> QED
        BY <3>2, <3>5, <4>1
           DEF Consistent, OneWalletPerAccount, SeenWallets, SeenWallet
    <3>9. ASSUME NEW a \in AccountIds,
                 \/ SeenAccount(t, a) # None /\ accountWrites[t][a] # Kept
                 \/ SeenAccount(s, a) # None /\ accountWrites[t][a] # None
                 \/ SeenAccount(t, a) # None /\ accountWrites[s][a] # None
          PROVE  SeenAccounts(t)'[a] # None
      BY <3>3, <3>9 DEF SeenAccount
    <3>10. LinksHaveAccounts(SeenAccounts(t), SeenEmails(t), SeenWallets(t))'
      <4>1. ASSUME NEW e \in Addresses, SeenEmails(t)'[e] # None
            PROVE  SeenAccounts(t)'[SeenEmails(t)'[e].account] # None
        <5> DEFINE a == SeenEmails(t)'[e].account
        <5>1. a \in AccountIds /\ EmailOf(SeenEmails(t)'[e], a)
          BY <3>types, <4>1, NullsAreNotValues DEF EmailRow, EmailOf
        <5>2. CASE emailWrites[t][e] # Kept
          <6>1. SeenAccount(t, a) # None /\ accountWrites[s][a] # None
            BY <3>1, <3>2, <3>4, <5>1, <5>2
               DEF Consistent, LinksHaveAccounts, SeenAccounts, SeenEmails,
                   SeenEmail, EmailOf, Apart, ReferencesApart
          <6> QED
            BY <3>9, <5>1, <6>1
        <5>3. CASE emailWrites[t][e] = Kept
          <6>1. SeenAccount(s, a) # None
            BY <3>2, <3>4, <5>1, <5>3
               DEF Consistent, LinksHaveAccounts, SeenAccounts, SeenEmails, EmailOf
          <6>2. accountWrites[t][a] # None
            <7>1. CASE emailWrites[s][e] # Kept
              BY <3>1, <3>4, <5>1, <5>3, <7>1 DEF Apart, ReferencesApart, SeenEmail
            <7>2. CASE emailWrites[s][e] = Kept
              BY <3>2, <3>4, <5>1, <5>3, <7>2, NullsAreNotValues
                 DEF Consistent, LinksHaveAccounts, SeenAccounts, SeenEmails,
                     SeenAccount, SeenEmail, EmailOf
            <7> QED
              BY <7>1, <7>2
          <6> QED
            BY <3>9, <5>1, <6>1, <6>2
        <5> QED
          BY <5>2, <5>3
      <4>2. ASSUME NEW w \in Wallets, SeenWallets(t)'[w] # None
            PROVE  SeenAccounts(t)'[SeenWallets(t)'[w]] # None
        <5> DEFINE a == SeenWallets(t)'[w]
        <5>1. a \in AccountIds
          BY <3>types, <4>2
        <5>2. CASE walletWrites[t][w] # Kept
          <6>1. SeenAccount(t, a) # None /\ accountWrites[s][a] # None
            BY <3>1, <3>2, <3>5, <5>1, <5>2, NullsAreNotValues
               DEF Consistent, LinksHaveAccounts, SeenAccounts, SeenWallets,
                   SeenWallet, Apart, ReferencesApart
          <6> QED
            BY <3>9, <5>1, <6>1
        <5>3. CASE walletWrites[t][w] = Kept
          <6>1. SeenAccount(s, a) # None
            BY <3>2, <3>5, <5>1, <5>3, NullsAreNotValues
               DEF Consistent, LinksHaveAccounts, SeenAccounts, SeenWallets
          <6>2. accountWrites[t][a] # None
            <7>1. CASE walletWrites[s][w] # Kept
              BY <3>1, <3>5, <5>1, <5>3, <7>1 DEF Apart, ReferencesApart, SeenWallet
            <7>2. CASE walletWrites[s][w] = Kept
              BY <3>2, <3>5, <5>1, <5>3, <7>2, NullsAreNotValues
                 DEF Consistent, LinksHaveAccounts, SeenAccounts, SeenWallets,
                     SeenAccount, SeenWallet
            <7> QED
              BY <7>1, <7>2
          <6> QED
            BY <3>9, <5>1, <6>1, <6>2
        <5> QED
          BY <5>2, <5>3
      <4> QED
        BY <4>1, <4>2 DEF LinksHaveAccounts
    <3>11. ASSUME NEW b \in AccountIds, SeenAccounts(t)'[b] # None,
                  SeenAccounts(t)'[b].referredBy # None
           PROVE  /\ SeenAccounts(t)'[b].referredAt
                  /\ SeenAccounts(t)'[SeenAccounts(t)'[b].referredBy] # None
      <4> DEFINE a == SeenAccounts(t)'[b].referredBy
      <4>1. a \in AccountIds /\ ReferredBy(SeenAccounts(t)'[b], a)
        BY <3>11, <3>types, NullsAreNotValues DEF AccountRow, ReferredBy
      <4>2. CASE accountWrites[t][b] # Kept
        <5>1. /\ SeenAccounts(t)'[b] = SeenAccount(t, b)
              /\ SeenAccounts(t)'[b] = accountWrites[t][b]
          BY <3>3, <4>2 DEF SeenAccount
        <5>2. /\ ReferredBy(accountWrites[t][b], a)
              /\ ReferredBy(SeenAccounts(t)[b], a)
          BY <4>1, <5>1 DEF SeenAccounts
        <5>3. SeenAccount(t, a) # None /\ SeenAccounts(t)'[b].referredAt
          BY <3>2, <4>1, <5>1, <5>2, NullsAreNotValues
             DEF Consistent, ReferrersExist, SeenAccounts, ReferredBy
        <5>4. accountWrites[s][a] # None
          BY <3>1, <4>1, <5>2 DEF Apart, ReferencesApart
        <5> QED
          BY <3>9, <4>1, <5>3, <5>4
      <4>3. CASE accountWrites[t][b] = Kept
        <5>1. SeenAccount(s, a) # None /\ SeenAccounts(t)'[b].referredAt
          BY <3>2, <3>3, <3>11, <4>1, <4>3, NullsAreNotValues
             DEF Consistent, ReferrersExist, SeenAccounts, ReferredBy
        <5>2. accountWrites[t][a] # None
          <6>1. CASE accountWrites[s][b] # Kept
            BY <3>1, <3>3, <4>1, <4>3, <6>1 DEF Apart, ReferencesApart, SeenAccount
          <6>2. CASE accountWrites[s][b] = Kept
            BY <3>2, <3>3, <3>11, <4>1, <4>3, <6>2, NullsAreNotValues
               DEF Consistent, ReferrersExist, SeenAccounts, SeenAccount, ReferredBy
          <6> QED
            BY <6>1, <6>2
        <5> QED
          BY <3>9, <4>1, <5>1, <5>2
      <4> QED
        BY <4>2, <4>3
    <3>12. ReferrersExist(SeenAccounts(t))'
      BY <3>11 DEF ReferrersExist
    <3> QED
      BY <3>6, <3>7, <3>8, <3>10, <3>12 DEF Consistent
  <2> QED
    BY <2>1, <2>2
<1>5. ASSUME NEW t \in Sessions, NEW u \in Sessions, t # u
      PROVE  Apart(t, u)'
  <2>1. CASE t = s
    BY <1>1, <2>1, <1>5, NullsAreNotValues
       DEF Apart, RowsApart, EmailKeysApart, WalletKeysApart, CodesApart,
           ReferencesApart, EmailOf, HasCode, ReferredBy
  <2>2. CASE u = s
    BY <1>1, <2>2, <1>5, NullsAreNotValues
       DEF Apart, RowsApart, EmailKeysApart, WalletKeysApart, CodesApart,
           ReferencesApart
  <2>3. CASE t # s /\ u # s
    <3>1. Apart(t, u) /\ Apart(s, u)
      BY <1>5, <2>3 DEF StoreInvariant, SessionsApart
    <3>2. /\ \A a \in AccountIds : accountWrites[u][a] # Kept => accounts'[a] = accounts[a]
          /\ \A e \in Addresses : emailWrites[u][e] # Kept => emails'[e] = emails[e]
          /\ \A w \in Wallets : walletWrites[u][w] # Kept => wallets'[w] = wallets[w]
      BY <1>1, <3>1 DEF Apart, RowsApart, SeenAccount, SeenEmail, SeenWallet
    <3>3. /\ accountWrites'[t] = accountWrites[t] /\ accountWrites'[u] = accountWrites[u]
          /\ emailWrites'[t] = emailWrites[t] /\ emailWrites'[u] = emailWrites[u]
          /\ walletWrites'[t] = walletWrites[t] /\ walletWrites'[u] = walletWrites[u]
      BY <1>1, <2>3
    <3>4. (RowsApart(t, u) /\ ReferencesApart(t, u))'
      BY <3>1, <3>3 DEF Apart, RowsApart, ReferencesApart
    <3>5. (EmailKeysApart(t, u) /\ WalletKeysApart(t, u) /\ CodesApart(t, u))'
      BY <3>1, <3>2, <3>3 DEF Apart, EmailKeysApart, WalletKeysApart, CodesApart
    <3> QED
      BY <3>4, <3>5 DEF Apart
  <2> QED
    BY <2>1, <2>2, <2>3
<1> QED
  BY <1>3, <1>4, <1>5 DEF StoreInvariant, SessionsConsistent, SessionsApart

----------------------------------------------------------------------------
(* A step that leaves the tables and the open sessions' writes alone.       *)
LEMMA UnchangedKeeps ==
  ASSUME StoreInvariant, UNCHANGED <<tables, writes>>
  PROVE  StoreInvariant'
<1>1. /\ accounts' = accounts /\ emails' = emails /\ wallets' = wallets
      /\ accountWrites' = accountWrites
      /\ emailWrites' = emailWrites
      /\ walletWrites' = walletWrites
  BY DEF tables, writes
<1>2. TablesConsistent'
  BY <1>1 DEF StoreInvariant, TablesConsistent
<1>3. ASSUME NEW s \in Sessions
      PROVE  Consistent(SeenAccounts(s), SeenEmails(s), SeenWallets(s))'
  <2>1. /\ SeenAccounts(s)' = SeenAccounts(s)
        /\ SeenEmails(s)' = SeenEmails(s)
        /\ SeenWallets(s)' = SeenWallets(s)
    BY <1>1 DEF SeenAccounts, SeenEmails, SeenWallets, SeenAccount, SeenEmail, SeenWallet
  <2> QED
    BY <2>1 DEF StoreInvariant, SessionsConsistent
<1>4. ASSUME NEW s \in Sessions, NEW t \in Sessions, s # t
      PROVE  Apart(s, t)'
  <2>1. Apart(s, t)
    BY <1>4 DEF StoreInvariant, SessionsApart
  <2> QED
    BY <1>1, <2>1 DEF Apart, RowsApart, EmailKeysApart, WalletKeysApart,
                      CodesApart, ReferencesApart
<1> QED
  BY <1>2, <1>3, <1>4 DEF StoreInvariant, SessionsConsistent, SessionsApart

LEMMA InitiallyConsistent == StoreInit => StoreInvariant
<1> SUFFICES ASSUME StoreInit PROVE StoreInvariant
  OBVIOUS
<1>1. /\ \A a \in AccountIds : accounts[a] = None
      /\ \A e \in Addresses : emails[e] = None
      /\ \A w \in Wallets : wallets[w] = None
      /\ \A s \in Sessions : /\ \A a \in AccountIds : accountWrites[s][a] = Kept
                             /\ \A e \in Addresses : emailWrites[s][e] = Kept
                             /\ \A w \in Wallets : walletWrites[s][w] = Kept
  BY DEF StoreInit
<1>2. TablesConsistent
  BY <1>1 DEF TablesConsistent, Consistent, UniqueCodes, OneEmailPerAccount,
              OneWalletPerAccount, LinksHaveAccounts, ReferrersExist
<1>3. SessionsConsistent
  BY <1>1 DEF SessionsConsistent, Consistent, UniqueCodes, OneEmailPerAccount,
              OneWalletPerAccount, LinksHaveAccounts, ReferrersExist,
              SeenAccounts, SeenEmails, SeenWallets, SeenAccount, SeenEmail, SeenWallet
<1>4. SessionsApart
  BY <1>1, NullsAreNotValues
     DEF SessionsApart, Apart, RowsApart, EmailKeysApart, WalletKeysApart,
         CodesApart, ReferencesApart, EmailOf, HasCode, ReferredBy
<1> QED
  BY <1>2, <1>3, <1>4 DEF StoreInvariant

LEMMA StoreInvariantStep ==
  TypeOK /\ StoreInvariant /\ [StoreNext]_storeVars => StoreInvariant'
<1> SUFFICES ASSUME TypeOK, StoreInvariant, [StoreNext]_storeVars
             PROVE  StoreInvariant'
  OBVIOUS
<1>1. UNCHANGED <<tables, writes>> => StoreInvariant'
  BY UnchangedKeeps
<1>2. CASE UNCHANGED storeVars
  BY <1>1, <1>2 DEF storeVars, tables, writes
<1>3. ASSUME NEW s \in Sessions, SessionStep(s)
      PROVE  StoreInvariant'
  <2>1. ASSUME NEW level \in Levels \ {"none"}, Begin(s, level)
        PROVE  StoreInvariant'
    BY <1>1, <2>1 DEF Begin
  <2> QED
    BY <1>3, <2>1, CommitKeeps, InsertAccountKeeps, InsertEmailKeeps,
       InsertWalletKeeps, UpdateAccountKeeps, UpdateAccountNowKeeps,
       DeleteEmailKeeps, DeleteAccountKeeps
       DEF SessionStep
<1> QED
  BY <1>2, <1>3, RollbackKeeps DEF StoreNext

(* The locks keep related rows in one session, so whatever sessions commit *)
(* the tables they see and the committed tables stay consistent.           *)
THEOREM StoreInvariantHolds == StoreSpec => []StoreInvariant
<1> QED
  BY InitiallyConsistent, StoreInvariantStep, StoreTypeOK, PTL DEF StoreSpec

(* The schema's constraints hold of the committed tables, for any number   *)
(* of sessions that interleave, commit, roll back and die.                 *)
THEOREM StoreIsConsistent == StoreSpec => []TablesConsistent
<1>1. StoreInvariant => TablesConsistent
  BY DEF StoreInvariant
<1> QED
  BY <1>1, StoreInvariantHolds, PTL

----------------------------------------------------------------------------
(* 2. The handlers as clients of Store: every handler step is a statement  *)
(* that the handler was ready for, so what is proved of any client holds of*)
(* the service.                                                            *)

Results == {"none", "ok", "refused", "failed", "lost"}

ReportsTyped ==
  /\ answer \in [Sessions -> Results]
  /\ identified \subseteq Wallets \X (Addresses \cup {None})

(* A step of Store, or none, after which every handler is ready again.     *)
Preserves == [StoreNext]_storeVars /\ HandlersReady' /\ ReportsTyped'

----------------------------------------------------------------------------
(* Control.                                                                *)

LEMMA RequestsTyped ==
  ASSUME NEW r \in Requests
  PROVE  /\ r.op \in Handlers
         /\ r.cred \in Addresses \cup Wallets
         /\ r.arg \in ArgumentsOf(r.op)
  BY AccountsAssumption

LEMMA RollbackIsStore ==
  ASSUME NEW S \in SUBSET Sessions, Rollback(S)
  PROVE  [StoreNext]_storeVars
  BY DEF StoreNext

LEMMA SessionStepIsStore ==
  ASSUME NEW s \in Sessions, SessionStep(s)
  PROVE  [StoreNext]_storeVars
  BY DEF StoreNext

(* The sessions of S answer.                                               *)
LEMMA FinishReady ==
  ASSUME HandlersReady, NEW S \in SUBSET Sessions, NEW result \in Results,
         ReportsTyped, Finish(S, result), \A s \in S : pc[s] # "idle"
  PROVE  HandlersReady' /\ answer' \in [Sessions -> Results]
<1>1. /\ ask' = ask
      /\ pc' \in [Sessions -> Labels]
      /\ answer' \in [Sessions -> Results]
  BY DEF Finish, HandlersReady, ReportsTyped, Labels
<1>2. local' \in [Sessions -> Locals]
  <2>1. \A s \in Sessions : [NoLocals EXCEPT !.acct = Acct(s)] \in Locals
    BY DEF HandlersReady, Locals, NoLocals, Acct
  <2> QED
    BY <2>1 DEF Finish, HandlersReady
<1>3. ASSUME NEW s \in Sessions
      PROVE  ReadyAt(pc'[s], ask'[s], local'[s])
  <2>1. CASE s \in S
    <3>1. pc'[s] = "done" /\ ask'[s] \in Requests
      BY <1>1, <2>1 DEF Finish, HandlersReady, ReadyAt
    <3> QED
      BY <3>1 DEF ReadyAt
  <2>2. CASE s \notin S
    <3>1. pc'[s] = pc[s] /\ local'[s] = local[s] /\ ask'[s] = ask[s]
      BY <1>1, <2>2 DEF Finish
    <3> QED
      BY <3>1 DEF HandlersReady
  <2> QED
    BY <2>1, <2>2
<1> QED
  BY <1>1, <1>2, <1>3 DEF HandlersReady

(* A return from the handler.                                              *)
LEMMA ReplyPreserves ==
  ASSUME HandlersReady, ReportsTyped, NEW s \in Sessions, NEW result \in Results,
         pc[s] # "idle", Reply(s, result)
  PROVE  Preserves
  BY FinishReady, RollbackIsStore DEF Reply, Preserves, ReportsTyped

LEMMA DiePreserves ==
  ASSUME HandlersReady, ReportsTyped, NEW replica, Die(replica)
  PROVE  Preserves
<1> DEFINE S == {s \in Sessions : Replica[s] = replica /\ ~Idle(s)}
<1>1. S \in SUBSET Sessions /\ \A s \in S : pc[s] # "idle"
  BY DEF Idle
<1>2. Rollback(S) /\ Finish(S, "lost") /\ UNCHANGED identified
  BY DEF Die
<1> QED
  BY <1>1, <1>2, FinishReady, RollbackIsStore DEF Preserves, ReportsTyped, Results

(* The handler goes on to the statement at label, which it is ready for.   *)
LEMMA KeepPreserves ==
  ASSUME HandlersReady, ReportsTyped, NEW s \in Sessions,
         NEW locals \in Locals, NEW label \in Labels,
         [StoreNext]_storeVars, Keep(s, locals, label), ReadyAt(label, ask[s], locals)
  PROVE  Preserves
<1>1. /\ ask' = ask /\ answer' = answer /\ identified' = identified
      /\ pc' \in [Sessions -> Labels]
      /\ local' \in [Sessions -> Locals]
  BY DEF Keep, Goto, HandlersReady
<1>2. ASSUME NEW t \in Sessions
      PROVE  ReadyAt(pc'[t], ask'[t], local'[t])
  <2>1. CASE t = s
    <3>1. pc'[t] = label /\ local'[t] = locals /\ ask'[t] = ask[s]
      BY <1>1, <2>1 DEF Keep, Goto, HandlersReady
    <3> QED
      BY <3>1
  <2>2. CASE t # s
    <3>1. pc'[t] = pc[t] /\ local'[t] = local[t] /\ ask'[t] = ask[t]
      BY <1>1, <2>2 DEF Keep, Goto, HandlersReady
    <3> QED
      BY <3>1 DEF HandlersReady
  <2> QED
    BY <2>1, <2>2
<1> QED
  BY <1>1, <1>2 DEF Preserves, HandlersReady, ReportsTyped

LEMMA ContinuePreserves ==
  ASSUME HandlersReady, ReportsTyped, NEW s \in Sessions, NEW label \in Labels,
         [StoreNext]_storeVars, Continue(s, label), ReadyAt(label, ask[s], local[s])
  PROVE  Preserves
<1>1. local[s] \in Locals
  BY DEF HandlersReady
<1>2. Keep(s, local[s], label)
  BY DEF Continue, Keep, HandlersReady
<1> QED
  BY <1>1, <1>2, KeepPreserves

----------------------------------------------------------------------------
(* The queries of getUserAccount.                                          *)

LEMMA LookupTyped ==
  ASSUME AccountsTypeOK, NEW s \in Sessions
  PROVE  /\ \A a : EmailOfAccount(s, a) \in Addresses \cup {None}
         /\ \A a : WalletOfAccount(s, a) \in Wallets \cup {None}
         /\ \A e \in Addresses : EmailOwner(s, e) \in AccountIds \cup {None}
<1>1. /\ \A a : EmailOfAccount(s, a) \in Addresses \cup {None}
      /\ \A a : WalletOfAccount(s, a) \in Wallets \cup {None}
  BY DEF EmailOfAccount, WalletOfAccount, TheOne
<1>2. \A e \in Addresses : SeenEmail(s, e) \in EmailRow \cup {None}
  BY SeenType DEF AccountsTypeOK
<1> QED
  BY <1>1, <1>2 DEF EmailOwner, EmailRow

LEMMA LinkedAccountTyped ==
  ASSUME AccountsTypeOK, NEW s \in Sessions, ask[s] \in Requests
  PROVE  LinkedAccount(s) \in AccountIds \cup {None}
<1>1. Cred(s) \in Addresses \cup Wallets
  BY RequestsTyped DEF Cred
<1>2. \A w \in Wallets : SeenWallet(s, w) \in AccountIds \cup {None}
  BY SeenType DEF AccountsTypeOK
<1>3. \A e \in Addresses : Normalize[e] \in Addresses
  BY AccountsAssumption
<1> QED
  BY <1>1, <1>2, <1>3, LookupTyped DEF LinkedAccount

LEMMA BeginIsStore ==
  ASSUME NEW s \in Sessions, NEW op \in Handlers,
         Isolation[op] # "none", Begin(s, Isolation[op])
  PROVE  [StoreNext]_storeVars
<1>1. Isolation[op] \in Levels \ {"none"}
  BY DEF Isolation, Levels
<1> QED
  BY <1>1, SessionStepIsStore DEF SessionStep

LEMMA OpenIsStore ==
  ASSUME NEW s \in Sessions, ask[s] \in Requests, Open(s)
  PROVE  [StoreNext]_storeVars
<1>1. Op(s) \in Handlers
  BY RequestsTyped DEF Op
<1> QED
  BY <1>1, BeginIsStore DEF Open

LEMMA LookupPreserves ==
  ASSUME AccountsTypeOK, NEW s \in Sessions,
         \/ FindLink(s) \/ LinkNotFound(s) \/ LoadAccount(s)
         \/ LoadNothing(s) \/ LoadPeer(s) \/ AnswerLoaded(s)
  PROVE  Preserves
<1> USE DEF AccountsTypeOK
<1>1. HandlersReady /\ ReportsTyped
  BY DEF ReportsTyped, Results
<1>2. /\ local[s] \in Locals
      /\ pc[s] # "idle" => ask[s] \in Requests
      /\ pc[s] \in {"loadAccount", "loadPeer", "loaded"} => Acct(s) \in AccountIds
  BY <1>1 DEF HandlersReady, ReadyAt, Acct
<1>3. ASSUME FindLink(s)
      PROVE  Preserves
  <2> DEFINE locals == [NoLocals EXCEPT
                !.acct = LinkedAccount(s),
                !.email = IF Cred(s) \in Wallets THEN None ELSE Normalize[Cred(s)],
                !.wallet = IF Cred(s) \in Wallets THEN Cred(s) ELSE None]
  <2>1. ask[s] \in Requests /\ LinkedAccount(s) \in AccountIds
    BY <1>2, <1>3, LinkedAccountTyped DEF FindLink, Looking
  <2>2. Cred(s) \in Addresses \cup Wallets /\ \A e \in Addresses : Normalize[e] \in Addresses
    BY <2>1, RequestsTyped, AccountsAssumption DEF Cred
  <2>3. locals \in Locals /\ locals.acct \in AccountIds
    BY <2>1, <2>2 DEF Locals, NoLocals
  <2>4. [StoreNext]_storeVars
    BY <1>3, <2>1, OpenIsStore DEF FindLink
  <2>5. Keep(s, locals, "loadAccount")
    BY <1>3 DEF FindLink
  <2>6. ReadyAt("loadAccount", ask[s], locals)
    BY <2>1, <2>3 DEF ReadyAt
  <2> QED
    BY <1>1, <2>3, <2>4, <2>5, <2>6, KeepPreserves DEF Labels
<1>4. ASSUME LinkNotFound(s)
      PROVE  Preserves
  BY <1>1, <1>4, ReplyPreserves DEF LinkNotFound, Looking, Results
<1>5. ASSUME LoadAccount(s)
      PROVE  Preserves
  <2> DEFINE locals == [local[s] EXCEPT !.row = SeenAccount(s, Acct(s))]
  <2>1. ask[s] \in Requests /\ Acct(s) \in AccountIds
    BY <1>2, <1>5 DEF LoadAccount
  <2>2. locals \in Locals /\ locals.acct = Acct(s)
    BY <1>2, <2>1, SeenType DEF Locals, Acct
  <2>3. ReadyAt("loadPeer", ask[s], locals)
    BY <2>1, <2>2 DEF ReadyAt
  <2>4. [StoreNext]_storeVars /\ Keep(s, locals, "loadPeer")
    BY <1>5 DEF LoadAccount
  <2> QED
    BY <1>1, <2>2, <2>3, <2>4, KeepPreserves DEF Labels
<1>6. ASSUME LoadNothing(s)
      PROVE  Preserves
  BY <1>1, <1>6, ReplyPreserves, DiePreserves DEF LoadNothing, Results
<1>7. ASSUME LoadPeer(s)
      PROVE  Preserves
  <2> DEFINE locals == IF Cred(s) \in Wallets
               THEN [local[s] EXCEPT !.email = EmailOfAccount(s, Acct(s))]
               ELSE [local[s] EXCEPT !.wallet = WalletOfAccount(s, Acct(s))]
  <2>1. ask[s] \in Requests /\ Acct(s) \in AccountIds
    BY <1>2, <1>7 DEF LoadPeer
  <2>2. locals \in Locals /\ locals.acct = Acct(s)
    BY <1>2, LookupTyped DEF Locals, Acct
  <2>3. ReadyAt("loaded", ask[s], locals)
    BY <2>1, <2>2 DEF ReadyAt
  <2>4. [StoreNext]_storeVars /\ Keep(s, locals, "loaded")
    BY <1>7 DEF LoadPeer
  <2> QED
    BY <1>1, <2>2, <2>3, <2>4, KeepPreserves DEF Labels
<1>8. ASSUME AnswerLoaded(s)
      PROVE  Preserves
  BY <1>1, <1>8, ReplyPreserves DEF AnswerLoaded, Results
<1> QED
  BY <1>3, <1>4, <1>5, <1>6, <1>7, <1>8

----------------------------------------------------------------------------
(* The statements of each handler.                                         *)

(* What a busy session is known to hold.                                   *)
LEMMA ReadyFacts ==
  ASSUME AccountsTypeOK, NEW s \in Sessions, pc[s] # "idle"
  PROVE  /\ HandlersReady /\ ReportsTyped
         /\ local[s] \in Locals
         /\ ask[s] \in Requests
         /\ Op(s) \in Handlers
         /\ Cred(s) \in Addresses \cup Wallets
         /\ Arg(s) \in ArgumentsOf(Op(s))
         /\ ReadyAt(pc[s], ask[s], local[s])
<1>1. HandlersReady /\ ReportsTyped
  BY DEF AccountsTypeOK, ReportsTyped, Results
<1>2. local[s] \in Locals /\ ask[s] \in Requests /\ ReadyAt(pc[s], ask[s], local[s])
  BY <1>1 DEF HandlersReady, ReadyAt
<1> QED
  BY <1>1, <1>2, RequestsTyped DEF Op, Cred, Arg

LEMMA CreatePreserves ==
  ASSUME AccountsTypeOK, NEW s \in Sessions,
         \/ BeginCreate(s) \/ DrawCode(s) \/ InsertNewAccount(s)
         \/ InsertFirstWallet(s) \/ InsertFirstEmail(s)
  PROVE  Preserves
<1>1. pc[s] # "idle"
  BY DEF BeginCreate, DrawCode, InsertNewAccount, InsertFirstWallet, InsertFirstEmail
<1>2. /\ HandlersReady /\ ReportsTyped /\ local[s] \in Locals /\ ask[s] \in Requests
      /\ Op(s) \in Handlers /\ Cred(s) \in Addresses \cup Wallets
      /\ ReadyAt(pc[s], ask[s], local[s])
  BY <1>1, ReadyFacts
<1>3. ASSUME BeginCreate(s)
      PROVE  Preserves
  <2>1. CASE CreateConflict(s)
    BY <1>1, <1>2, <1>3, <2>1, ReplyPreserves DEF BeginCreate, Results
  <2>2. CASE ~CreateConflict(s)
    <3>1. Begin(s, Isolation[Op(s)]) /\ Continue(s, "drawCode")
      BY <1>3, <2>2 DEF BeginCreate
    <3>2. Isolation[Op(s)] # "none" /\ Op(s) = "CreateAccount"
      BY <1>2, <1>3 DEF BeginCreate, Isolation
    <3>3. ReadyAt("drawCode", ask[s], local[s])
      BY <1>2, <3>2 DEF ReadyAt, Op
    <3> QED
      BY <1>2, <3>1, <3>2, <3>3, BeginIsStore, ContinuePreserves DEF Labels
  <2> QED
    BY <2>1, <2>2
<1>4. ASSUME DrawCode(s)
      PROVE  Preserves
  <2>1. PICK c \in Codes : Keep(s, [local[s] EXCEPT !.code = c], "insertAccount")
    BY <1>4 DEF DrawCode
  <2>2. [local[s] EXCEPT !.code = c] \in Locals
    BY <1>2 DEF Locals
  <2>3. ReadyAt("insertAccount", ask[s], [local[s] EXCEPT !.code = c])
    BY <1>2, <1>4 DEF DrawCode, ReadyAt, Locals
  <2>4. [StoreNext]_storeVars
    BY <1>4 DEF DrawCode
  <2> QED
    BY <1>2, <2>1, <2>2, <2>3, <2>4, KeepPreserves DEF Labels
<1>5. ASSUME InsertNewAccount(s)
      PROVE  Preserves
  <2>1. local[s].code \in Codes
    BY <1>2, <1>5 DEF InsertNewAccount, ReadyAt
  <2>2. ASSUME NEW a \in AccountIds, InsertAccount(s, a, local[s].code),
               Keep(s, [local[s] EXCEPT !.acct = a], "insertLink")
        PROVE  Preserves
    <3>1. [StoreNext]_storeVars
      BY <2>1, <2>2, SessionStepIsStore DEF SessionStep
    <3>2. [local[s] EXCEPT !.acct = a] \in Locals
      BY <1>2 DEF Locals
    <3>3. ReadyAt("insertLink", ask[s], [local[s] EXCEPT !.acct = a])
      BY <1>2, <1>5 DEF InsertNewAccount, ReadyAt, Locals
    <3> QED
      BY <1>2, <2>2, <3>1, <3>2, <3>3, KeepPreserves DEF Labels
  <2> QED
    BY <1>1, <1>2, <1>5, <2>2, ReplyPreserves DEF InsertNewAccount, Results
<1>6. ASSUME InsertFirstWallet(s)
      PROVE  Preserves
  <2>1. Acct(s) \in AccountIds /\ Cred(s) \in Wallets
    BY <1>2, <1>6 DEF InsertFirstWallet, ReadyAt, Acct
  <2>2. InsertWallet(s, Cred(s), Acct(s)) => [StoreNext]_storeVars
    BY <2>1, SessionStepIsStore DEF SessionStep
  <2>3. ReadyAt("tellBeforeCommit", ask[s], local[s])
    BY <1>2, <1>6 DEF InsertFirstWallet, ReadyAt, Cred
  <2> QED
    BY <1>1, <1>2, <1>6, <2>2, <2>3, ReplyPreserves, ContinuePreserves
       DEF InsertFirstWallet, Results, Labels
<1>7. ASSUME InsertFirstEmail(s)
      PROVE  Preserves
  <2> DEFINE e == Normalize[Cred(s)]
  <2>1. Acct(s) \in AccountIds /\ e \in Addresses
    BY <1>2, <1>7, AccountsAssumption DEF InsertFirstEmail, ReadyAt, Acct
  <2>2. InsertEmail(s, e, Acct(s), TRUE) => [StoreNext]_storeVars
    BY <2>1, SessionStepIsStore DEF SessionStep
  <2>3. ReadyAt("commit", ask[s], local[s])
    BY <1>2, <1>7 DEF InsertFirstEmail, ReadyAt
  <2> QED
    BY <1>1, <1>2, <1>7, <2>2, <2>3, ReplyPreserves, ContinuePreserves
       DEF InsertFirstEmail, Results, Labels
<1> QED
  BY <1>3, <1>4, <1>5, <1>6, <1>7

LEMMA SaveNowPreserves ==
  ASSUME AccountsTypeOK, NEW s \in Sessions, pc[s] = "loaded",
         NEW row, accounts[Acct(s)] # None => row \in AccountRow, SaveNow(s, row)
  PROVE  Preserves
<1>1. HandlersReady /\ ReportsTyped /\ Acct(s) \in AccountIds
  BY ReadyFacts DEF ReadyAt, Acct
<1>2. [StoreNext]_storeVars
  BY <1>1, SessionStepIsStore DEF SaveNow, SessionStep
<1>3. Finish({s}, "ok") /\ UNCHANGED identified
  BY DEF SaveNow
<1> QED
  BY <1>1, <1>2, <1>3, FinishReady DEF Preserves, ReportsTyped, Results

LEMMA UpdatePreserves ==
  ASSUME AccountsTypeOK, NEW s \in Sessions, UpdateUser(s) \/ AcceptTOS(s)
  PROVE  Preserves
<1>1. pc[s] = "loaded"
  BY DEF UpdateUser, AcceptTOS
<1>2. HandlersReady /\ ReportsTyped /\ Acct(s) \in AccountIds /\ pc[s] # "idle"
  BY <1>1, ReadyFacts DEF ReadyAt, Acct
<1>3. accounts[Acct(s)] # None => CurrentRow(s) \in AccountRow
  BY <1>2 DEF CurrentRow, AccountsTypeOK, TypeOK
<1>4. ASSUME UpdateUser(s)
      PROVE  Preserves
  <2>1. CASE Arg(s) \in KnownCountries \ {None, local[s].row.country}
    <3>1. accounts[Acct(s)] # None => CountryOnly(s) \in AccountRow
      BY <1>3, <2>1, AccountsAssumption DEF CountryOnly, AccountRow
    <3> QED
      BY <1>1, <1>4, <2>1, <3>1, SaveNowPreserves DEF UpdateUser
  <2>2. CASE Arg(s) \notin KnownCountries \ {None, local[s].row.country}
    BY <1>2, <1>4, <2>2, ReplyPreserves DEF UpdateUser, Results
  <2> QED
    BY <2>1, <2>2
<1>5. ASSUME AcceptTOS(s)
      PROVE  Preserves
  <2>1. accounts[Acct(s)] # None => TosOnly(s) \in AccountRow
    BY <1>3 DEF TosOnly, AccountRow
  <2> QED
    BY <1>1, <1>2, <1>5, <2>1, SaveNowPreserves, ReplyPreserves DEF AcceptTOS, Results
<1> QED
  BY <1>4, <1>5

LEMMA DeletePreserves ==
  ASSUME AccountsTypeOK, NEW s \in Sessions, DeleteUser(s)
  PROVE  Preserves
<1>1. pc[s] = "loaded" /\ Op(s) = "DeleteUser"
  BY DEF DeleteUser
<1>2. /\ HandlersReady /\ ReportsTyped /\ Acct(s) \in AccountIds
      /\ ReadyAt("commit", ask[s], local[s])
  BY <1>1, ReadyFacts DEF ReadyAt, Acct, Op
<1>3. [StoreNext]_storeVars
  BY <1>2, SessionStepIsStore DEF DeleteUser, SessionStep
<1> QED
  BY <1>2, <1>3, ContinuePreserves DEF DeleteUser, Labels

(* LinkEmail and LinkEmailToken begin with all the reads of their snapshot.*)
LEMMA LinkBegins ==
  ASSUME AccountsTypeOK, NEW s \in Sessions, LinkEmail(s) \/ LinkEmailToken(s)
  PROVE  Preserves
<1>1. /\ HandlersReady /\ ReportsTyped /\ ask[s] \in Requests /\ Op(s) \in Handlers
      /\ pc[s] # "idle"
  BY ReadyFacts DEF LinkEmail, LinkEmailToken
<1>2. LinkedAccount(s) \in AccountIds \cup {None}
  BY <1>1, LinkedAccountTyped
<1>3. Isolation[Op(s)] # "none"
  BY <1>1 DEF LinkEmail, LinkEmailToken, Isolation
<1> DEFINE a == LinkedAccount(s)
           email == EmailOfAccount(s, a)
<1>4. email \in Addresses \cup {None}
  BY LookupTyped
<1>5. ASSUME LinkEmail(s)
      PROVE  Preserves
  <2> DEFINE label == IF email = None THEN "insertEmail" ELSE "loaded"
             locals == [NoLocals EXCEPT !.acct = a]
  <2>1. CASE LinkEmailRefused(s, NewAddress(s), a)
    BY <1>1, <1>5, <2>1, ReplyPreserves DEF LinkEmail, Results
  <2>2. CASE ~LinkEmailRefused(s, NewAddress(s), a)
    <3>1. a \in AccountIds
      BY <1>2, <2>2 DEF LinkEmailRefused
    <3>2. Begin(s, Isolation[Op(s)]) /\ Keep(s, locals, label)
      BY <1>5, <2>2 DEF LinkEmail
    <3>3. locals \in Locals /\ locals.acct = a
      BY <3>1 DEF Locals, NoLocals
    <3>4. ask[s].op = "LinkEmail" /\ ask[s].arg # None
      BY <1>1, <1>5, RequestsTyped, AccountsAssumption DEF LinkEmail, Op, ArgumentsOf
    <3>5. ReadyAt(label, ask[s], locals)
      BY <1>1, <3>1, <3>3, <3>4 DEF ReadyAt
    <3>6. [StoreNext]_storeVars
      BY <1>1, <1>3, <3>2, BeginIsStore
    <3> QED
      BY <1>1, <3>2, <3>3, <3>5, <3>6, KeepPreserves DEF Labels
  <2> QED
    BY <2>1, <2>2
<1>6. ASSUME LinkEmailToken(s)
      PROVE  Preserves
  <2> DEFINE label == IF email = None THEN "insertEmail" ELSE "deleteEmail"
             locals == [NoLocals EXCEPT !.acct = a, !.email = email]
             refused == a = None \/ Arg(s) = None \/ LinkTokenRefused(s, NewAddress(s), a)
  <2>1. CASE refused
    BY <1>1, <1>6, <2>1, ReplyPreserves DEF LinkEmailToken, Results
  <2>2. CASE ~refused
    <3>1. a \in AccountIds /\ Arg(s) # None
      BY <1>2, <2>2
    <3>2. Begin(s, Isolation[Op(s)]) /\ Keep(s, locals, label)
      BY <1>6, <2>2 DEF LinkEmailToken
    <3>3. locals \in Locals /\ locals.acct = a /\ locals.email = email
      BY <1>4, <3>1 DEF Locals, NoLocals
    <3>4. ask[s].op = "LinkEmailToken" /\ ask[s].arg # None
      BY <1>6, <3>1 DEF LinkEmailToken, Op, Arg
    <3>5. ReadyAt(label, ask[s], locals)
      BY <1>1, <1>4, <3>1, <3>3, <3>4 DEF ReadyAt
    <3>6. [StoreNext]_storeVars
      BY <1>1, <1>3, <3>2, BeginIsStore
    <3> QED
      BY <1>1, <3>2, <3>3, <3>5, <3>6, KeepPreserves DEF Labels
  <2> QED
    BY <2>1, <2>2
<1> QED
  BY <1>5, <1>6

LEMMA LinkPreserves ==
  ASSUME AccountsTypeOK, NEW s \in Sessions,
         \/ DeleteUnconfirmed(s) \/ InsertLinkedEmail(s)
         \/ LinkWalletToken(s) \/ Touch(s)
  PROVE  Preserves
<1>1. pc[s] # "idle"
  BY DEF DeleteUnconfirmed, InsertLinkedEmail, LinkWalletToken, Touch
<1>2. /\ HandlersReady /\ ReportsTyped /\ ask[s] \in Requests
      /\ ReadyAt(pc[s], ask[s], local[s])
      /\ Op(s) \in Handlers /\ Arg(s) \in ArgumentsOf(Op(s))
  BY <1>1, ReadyFacts
<1>3. Acct(s) \in AccountIds
  BY <1>2 DEF ReadyAt, Acct, DeleteUnconfirmed, InsertLinkedEmail, LinkWalletToken, Touch
<1>4. ASSUME DeleteUnconfirmed(s)
      PROVE  Preserves
  <2>1. local[s].email \in Addresses /\ ReadyAt("insertEmail", ask[s], local[s])
    BY <1>2, <1>4 DEF DeleteUnconfirmed, ReadyAt
  <2>2. DeleteEmail(s, local[s].email) => [StoreNext]_storeVars
    BY <2>1, SessionStepIsStore DEF SessionStep
  <2> QED
    BY <1>1, <1>2, <1>4, <2>1, <2>2, ReplyPreserves, ContinuePreserves
       DEF DeleteUnconfirmed, Results, Labels
<1>5. ASSUME InsertLinkedEmail(s)
      PROVE  Preserves
  <2>1. /\ Op(s) \in {"LinkEmail", "LinkEmailToken"} /\ Arg(s) # None
        /\ ReadyAt("touch", ask[s], local[s])
    BY <1>2, <1>5 DEF InsertLinkedEmail, ReadyAt, Op, Arg
  <2>2. Arg(s) \in Addresses
    BY <1>2, <2>1 DEF ArgumentsOf
  <2>3. NewAddress(s) \in Addresses /\ Confirms(s) \in BOOLEAN
    BY <2>2, AccountsAssumption DEF NewAddress, Confirms
  <2>4. InsertEmail(s, NewAddress(s), Acct(s), Confirms(s)) => [StoreNext]_storeVars
    BY <1>3, <2>3, SessionStepIsStore DEF SessionStep
  <2> QED
    BY <1>1, <1>2, <1>5, <2>1, <2>4, ReplyPreserves, ContinuePreserves
       DEF InsertLinkedEmail, Results, Labels
<1>6. ASSUME LinkWalletToken(s)
      PROVE  Preserves
  <2>1. Op(s) = "LinkWalletToken" /\ pc[s] = "loaded"
    BY <1>6 DEF LinkWalletToken
  <2>2. Arg(s) # None => Arg(s) \in Wallets /\ ReadyAt("touch", ask[s], local[s])
    BY <1>2, <1>3, <2>1 DEF ArgumentsOf, ReadyAt, Acct, Arg, Op
  <2>3. Arg(s) # None /\ InsertWallet(s, Arg(s), Acct(s)) => [StoreNext]_storeVars
    BY <1>3, <2>2, SessionStepIsStore DEF SessionStep
  <2> QED
    BY <1>1, <1>2, <1>6, <2>2, <2>3, ReplyPreserves, ContinuePreserves
       DEF LinkWalletToken, Results, Labels
<1>7. ASSUME Touch(s)
      PROVE  Preserves
  <2>1. SeenAccount(s, Acct(s)) \in AccountRow \cup {None}
    BY <1>3, SeenType DEF AccountsTypeOK
  <2>2. /\ SeenAccount(s, Acct(s)) # None
        /\ UpdateAccount(s, Acct(s), SeenAccount(s, Acct(s)))
        => [StoreNext]_storeVars
    BY <1>3, <2>1, SessionStepIsStore DEF SessionStep
  <2>3. ReadyAt("commit", ask[s], local[s])
    BY <1>2, <1>7 DEF Touch, ReadyAt
  <2> QED
    BY <1>1, <1>2, <1>7, <2>2, <2>3, ReplyPreserves, ContinuePreserves
       DEF Touch, Results, Labels
<1> QED
  BY <1>4, <1>5, <1>6, <1>7

LEMMA ReferralPreserves ==
  ASSUME AccountsTypeOK, NEW s \in Sessions,
         FindReferrer(s) \/ CheckReferrer(s) \/ Refer(s)
  PROVE  Preserves
<1>1. pc[s] # "idle"
  BY DEF FindReferrer, CheckReferrer, Refer
<1>2. /\ HandlersReady /\ ReportsTyped /\ local[s] \in Locals
      /\ ReadyAt(pc[s], ask[s], local[s])
  BY <1>1, ReadyFacts
<1>3. Acct(s) \in AccountIds
  BY <1>2 DEF ReadyAt, Acct, FindReferrer, CheckReferrer, Refer
<1>4. \A a \in AccountIds : SeenAccount(s, a) \in AccountRow \cup {None}
  BY SeenType DEF AccountsTypeOK
<1>5. ASSUME FindReferrer(s)
      PROVE  Preserves
  <2> DEFINE b == TheOne({x \in AccountIds : HasCode(SeenAccount(s, x), Arg(s))})
             refused == local[s].row.referredAt \/ Arg(s) = None \/ b = None
             locals == [local[s] EXCEPT !.referrer = b,
                          !.referrersReferrer = SeenAccount(s, b).referredBy]
  <2>1. CASE refused
    BY <1>1, <1>2, <1>5, <2>1, ReplyPreserves DEF FindReferrer, Results
  <2>2. CASE ~refused
    <3>1. b \in AccountIds /\ HasCode(SeenAccount(s, b), Arg(s))
      BY <2>2 DEF TheOne
    <3>2. SeenAccount(s, b).referredBy \in AccountIds \cup {None}
      BY <1>4, <3>1 DEF HasCode, AccountRow
    <3>3. locals \in Locals /\ locals.acct = Acct(s) /\ locals.referrer = b
      BY <1>2, <3>1, <3>2 DEF Locals, Acct
    <3>4. ReadyAt("checkReferrer", ask[s], locals)
      BY <1>2, <1>3, <1>5, <3>1, <3>3 DEF FindReferrer, ReadyAt, Op
    <3>5. Keep(s, locals, "checkReferrer") /\ [StoreNext]_storeVars
      BY <1>5, <2>2 DEF FindReferrer
    <3> QED
      BY <1>2, <3>3, <3>4, <3>5, KeepPreserves DEF Labels
  <2> QED
    BY <2>1, <2>2
<1>6. ASSUME CheckReferrer(s)
      PROVE  Preserves
  <2>1. ReadyAt("refer", ask[s], local[s])
    BY <1>2, <1>6 DEF CheckReferrer, ReadyAt
  <2> QED
    BY <1>1, <1>2, <1>6, <2>1, ReplyPreserves, ContinuePreserves
       DEF CheckReferrer, Results, Labels
<1>7. ASSUME Refer(s)
      PROVE  Preserves
  <2>1. local[s].referrer \in AccountIds
    BY <1>2, <1>7 DEF Refer, ReadyAt
  <2>2. SeenAccount(s, Acct(s)) # None => ReferralColumns(s) \in AccountRow
    BY <1>3, <1>4, <2>1 DEF ReferralColumns, AccountRow
  <2>3. /\ SeenAccount(s, Acct(s)) # None
        /\ UpdateAccount(s, Acct(s), ReferralColumns(s))
        => [StoreNext]_storeVars
    BY <1>3, <2>2, SessionStepIsStore DEF SessionStep
  <2>4. ReadyAt("commit", ask[s], local[s])
    BY <1>2, <1>7 DEF Refer, ReadyAt
  <2> QED
    BY <1>1, <1>2, <1>7, <2>3, <2>4, ReplyPreserves, ContinuePreserves
       DEF Refer, Results, Labels
<1> QED
  BY <1>5, <1>6, <1>7

----------------------------------------------------------------------------
(* The end of a request, and what the handlers do not control.             *)

LEMMA CommitPreserves ==
  ASSUME AccountsTypeOK, NEW s \in Sessions, CommitRequest(s) \/ CommitUnanswered(s)
  PROVE  Preserves
<1>1. pc[s] = "commit" /\ Commit(s)
  BY DEF CommitRequest, CommitUnanswered
<1>2. /\ HandlersReady /\ ReportsTyped /\ ask[s] \in Requests
      /\ Op(s) \in Handlers /\ Cred(s) \in Addresses \cup Wallets
      /\ ReadyAt("commit", ask[s], local[s])
  BY <1>1, ReadyFacts
<1>3. [StoreNext]_storeVars
  BY <1>1, SessionStepIsStore DEF SessionStep
<1>4. ASSUME NEW result \in Results, Finish({s}, result), UNCHANGED identified
      PROVE  Preserves
  BY <1>1, <1>2, <1>3, <1>4, FinishReady DEF Preserves, ReportsTyped
<1>5. CASE Continue(s, "findLink")
  <2>1. ReadyAt("findLink", ask[s], local[s])
    BY <1>2 DEF ReadyAt
  <2> QED
    BY <1>2, <1>3, <1>5, <2>1, ContinuePreserves DEF Labels
<1>6. CASE Continue(s, "tell") /\ (EmailIsTold(s) \/ WalletIsTold(s))
  <2>1. ReadyAt("tell", ask[s], local[s])
    BY <1>2, <1>6 DEF ReadyAt, EmailIsTold, WalletIsTold, Op, Cred
  <2> QED
    BY <1>2, <1>3, <1>6, <2>1, ContinuePreserves DEF Labels
<1> QED
  BY <1>4, <1>5, <1>6 DEF CommitRequest, CommitUnanswered, Results

LEMMA MessageTyped ==
  ASSUME AccountsTypeOK, NEW s \in Sessions, pc[s] \in {"tell", "tellBeforeCommit"}
  PROVE  Message(s) \in Wallets \X (Addresses \cup {None})
<1>1. /\ ask[s] \in Requests /\ Arg(s) \in ArgumentsOf(Op(s))
      /\ ReadyAt(pc[s], ask[s], local[s])
  BY ReadyFacts
<1>2. CASE pc[s] = "tellBeforeCommit"
  BY <1>1, <1>2 DEF ReadyAt, Message, Op, Cred
<1>3. CASE pc[s] = "tell"
  <2>1. \/ Op(s) = "LinkWalletToken"
        \/ Op(s) \in {"LinkEmail", "LinkEmailToken"} /\ Cred(s) \in Wallets
    BY <1>1, <1>3 DEF ReadyAt, Op, Cred
  <2>2. Arg(s) # None
    BY <1>1, <1>3, <2>1 DEF ReadyAt, Op, Arg
  <2>3. CASE Op(s) = "LinkWalletToken"
    BY <1>1, <2>2, <2>3 DEF ArgumentsOf, Message, WalletIsTold
  <2>4. CASE Op(s) \in {"LinkEmail", "LinkEmailToken"} /\ Cred(s) \in Wallets
    <3>1. NewAddress(s) \in Addresses
      BY <1>1, <2>2, <2>4, AccountsAssumption DEF ArgumentsOf, NewAddress
    <3> QED
      BY <2>4, <3>1 DEF Message, WalletIsTold
  <2> QED
    BY <2>1, <2>3, <2>4
<1> QED
  BY <1>2, <1>3

LEMMA TellPreserves ==
  ASSUME AccountsTypeOK, NEW s \in Sessions, Tell(s)
  PROVE  Preserves
<1>1. pc[s] # "idle" /\ pc[s] \in {"tell", "tellBeforeCommit"}
  BY DEF Tell
<1>2. HandlersReady /\ ReportsTyped /\ ReadyAt(pc[s], ask[s], local[s])
  BY <1>1, ReadyFacts
<1>3. [StoreNext]_storeVars /\ identified' \subseteq Wallets \X (Addresses \cup {None})
  BY <1>1, <1>2, MessageTyped DEF Tell, ReportsTyped
<1>4. CASE pc[s] = "tell" /\ Finish({s}, "ok")
  BY <1>1, <1>2, <1>3, <1>4, FinishReady DEF Preserves, ReportsTyped, Results
<1>5. CASE /\ pc[s] = "tellBeforeCommit" /\ Goto(s, "commit")
           /\ UNCHANGED <<ask, local, answer>>
  <2>1. ReadyAt("commit", ask[s], local[s])
    BY <1>2, <1>5 DEF ReadyAt
  <2>2. /\ ask' = ask /\ local' = local /\ answer' = answer
        /\ pc' = [pc EXCEPT ![s] = "commit"]
    BY <1>5 DEF Goto
  <2>3. HandlersReady'
    BY <1>2, <2>1, <2>2 DEF HandlersReady, Labels
  <2> QED
    BY <1>2, <1>3, <2>2, <2>3 DEF Preserves, ReportsTyped
<1> QED
  BY <1>4, <1>5 DEF Tell

LEMMA ArrivePreserves ==
  ASSUME AccountsTypeOK, NEW s \in Sessions, NEW r \in Requests, Arrive(s, r)
  PROVE  Preserves
<1>1. HandlersReady /\ ReportsTyped
  BY DEF AccountsTypeOK, ReportsTyped, Results
<1>2. /\ ask' = [ask EXCEPT ![s] = r] /\ pc' = [pc EXCEPT ![s] = "start"]
      /\ local' = [local EXCEPT ![s] = NoLocals]
      /\ answer' = [answer EXCEPT ![s] = "none"]
      /\ identified' = identified /\ UNCHANGED storeVars
  BY DEF Arrive, Goto
<1>3. NoLocals \in Locals
  BY DEF NoLocals, Locals
<1>4. /\ ask' \in [Sessions -> Requests \cup {None}]
      /\ pc' \in [Sessions -> Labels]
      /\ local' \in [Sessions -> Locals]
  BY <1>1, <1>2, <1>3 DEF HandlersReady, Labels
<1>5. ASSUME NEW t \in Sessions
      PROVE  ReadyAt(pc'[t], ask'[t], local'[t])
  <2>1. CASE t = s
    <3>1. pc'[t] = "start" /\ ask'[t] = r
      BY <1>1, <1>2, <2>1 DEF HandlersReady
    <3> QED
      BY <3>1 DEF ReadyAt
  <2>2. CASE t # s
    <3>1. pc'[t] = pc[t] /\ local'[t] = local[t] /\ ask'[t] = ask[t]
      BY <1>1, <1>2, <2>2 DEF HandlersReady
    <3> QED
      BY <1>1, <3>1 DEF HandlersReady
  <2> QED
    BY <2>1, <2>2
<1>6. HandlersReady'
  BY <1>4, <1>5 DEF HandlersReady
<1> QED
  BY <1>1, <1>2, <1>6 DEF Preserves, ReportsTyped, Results

LEMMA FailurePreserves ==
  ASSUME AccountsTypeOK,
         \/ \E s \in Sessions : StatementFails(s)
         \/ ReplicaDies
  PROVE  Preserves
<1>1. HandlersReady /\ ReportsTyped
  BY DEF AccountsTypeOK, ReportsTyped, Results
<1>2. ASSUME NEW s \in Sessions, StatementFails(s)
      PROVE  Preserves
  BY <1>1, <1>2, ReplyPreserves DEF StatementFails, Idle, Results
<1>3. ASSUME ReplicaDies
      PROVE  Preserves
  BY <1>1, <1>3, DiePreserves DEF ReplicaDies
<1> QED
  BY <1>2, <1>3

----------------------------------------------------------------------------
LEMMA InitTyped == Init => AccountsTypeOK
<1> SUFFICES ASSUME Init
             PROVE  AccountsTypeOK
  OBVIOUS
<1>1. TypeOK
  BY DEF Init, StoreInit, TypeOK, Levels
<1>2. NoLocals \in Locals
  BY DEF NoLocals, Locals
<1>3. HandlersReady
  BY <1>2 DEF Init, HandlersReady, ReadyAt, Labels
<1> QED
  BY <1>1, <1>3 DEF Init, AccountsTypeOK

LEMMA NextPreserves ==
  ASSUME AccountsTypeOK, Next
  PROVE  Preserves
<1>1. ASSUME NEW s \in Sessions, Step(s)
      PROVE  Preserves
  BY <1>1, LookupPreserves, CreatePreserves, UpdatePreserves, DeletePreserves,
     LinkBegins, LinkPreserves, ReferralPreserves, CommitPreserves, TellPreserves
     DEF Step
<1>2. ASSUME NEW s \in Sessions,
             (\E r \in Requests : Arrive(s, r)) \/ StatementFails(s) \/ CommitUnanswered(s)
      PROVE  Preserves
  BY <1>2, ArrivePreserves, FailurePreserves, CommitPreserves
<1> QED
  BY <1>1, <1>2, FailurePreserves DEF Next

LEMMA StepTyped ==
  ASSUME AccountsTypeOK, [Next]_vars
  PROVE  AccountsTypeOK' /\ [StoreNext]_storeVars
<1>1. CASE Next
  <2>1. Preserves
    BY <1>1, NextPreserves
  <2>2. TypeOK'
    BY <2>1, StoreTypeStep DEF Preserves, AccountsTypeOK
  <2> QED
    BY <2>1, <2>2 DEF Preserves, ReportsTyped, Results, AccountsTypeOK
<1>2. CASE UNCHANGED vars
  <2>1. TypeOK'
    BY <1>2, StoreTypeStep DEF vars, AccountsTypeOK
  <2> QED
    BY <1>2, <2>1 DEF vars, handlerVars, AccountsTypeOK, HandlersReady
<1> QED
  BY <1>1, <1>2

(* The handlers are ready: whatever the requests and however they          *)
(* interleave, fail or die, no statement of a handler runs before the      *)
(* handler has found the account, row or argument that it passes to it.    *)
THEOREM AccountsTyped == Spec => []AccountsTypeOK
<1>1. AccountsTypeOK /\ [Next]_vars => AccountsTypeOK'
  BY StepTyped
<1> QED
  BY InitTyped, <1>1, PTL DEF Spec

(* The service is a client of its database that runs only the statements of*)
(* Store, each with the values it allows: what holds of any client, and so *)
(* every theorem of the first part, holds of the service.                  *)
THEOREM ServiceImplementsStore == Spec => StoreSpec
<1>1. Init => StoreInit
  BY DEF Init
<1>2. AccountsTypeOK /\ [Next]_vars => [StoreNext]_storeVars
  BY StepTyped
<1> QED
  BY <1>1, <1>2, AccountsTyped, PTL DEF Spec, StoreSpec

(* The committed tables of the service satisfy the schema's constraints    *)
(* after any interleaving of its nine handlers, failures and deaths.       *)
THEOREM ServiceIsConsistent == Spec => []TablesConsistent
  BY ServiceImplementsStore, StoreIsConsistent, PTL

----------------------------------------------------------------------------
(* 3. What the handlers keep: HandlersInvariant is inductive, and the safety*)
(* properties of the handlers follow from it.                              *)
(*                                                                         *)
(* Every action is a way to change the store and to move one session on.   *)
(* There is one lemma for each of these ways, and then one per handler,    *)
(* which shows that its actions are of these ways.                         *)

(* What each step starts from,                                             *)
Inv == AccountsTypeOK /\ SessionsApart /\ HandlersInvariant

(* and what it leads to.                                                   *)
Safe == HandlersInvariant' /\ LinksAreKept /\ UpdatesAreKept

(* A session that does not move.                                           *)
Rests(t) == pc'[t] = pc[t] /\ ask'[t] = ask[t] /\ local'[t] = local[t]

SameWrites(t) ==
  /\ accountWrites'[t] = accountWrites[t]
  /\ emailWrites'[t] = emailWrites[t]
  /\ walletWrites'[t] = walletWrites[t]

(* Only session s moves, and serves the same request.                      *)
Moves(s) == ask'[s] = ask[s] /\ \A t \in Sessions \ {s} : Rests(t)

(* The statement of s changes nothing of the tables or other transactions. *)
Confined(s) ==
  /\ UNCHANGED <<accounts, emails, wallets, issued>>
  /\ \A t \in Sessions \ {s} :
       SameWrites(t) /\ isolation'[t] = isolation[t] /\ missed'[t] = missed[t]

----------------------------------------------------------------------------
(* Sessions that do not move keep what they keep.                          *)

LEMMA RestKeeps ==
  ASSUME NEW t \in Sessions, SessionKeeps(t), Rests(t), SameWrites(t),
         isolation'[t] = isolation[t], missed'[t] = missed[t],
         UNCHANGED <<accounts, emails, wallets>>
  PROVE  SessionKeeps(t)'
<1>1. /\ Op(t)' = Op(t) /\ Arg(t)' = Arg(t) /\ Acct(t)' = Acct(t)
      /\ NewAddress(t)' = NewAddress(t) /\ Confirms(t)' = Confirms(t)
  BY DEF Rests, Op, Arg, Acct, NewAddress, Confirms
<1>2. NothingWritten(t)' <=> NothingWritten(t)
  BY DEF NothingWritten, SameWrites
<1>3. Unopened(t)'
  BY <1>1, <1>2 DEF SessionKeeps, Unopened, Quiet, Rests
<1>4. ReadyToReplace(t)'
  BY <1>1, <1>2 DEF SessionKeeps, ReadyToReplace, Rests, EmailOf
<1>5. KeepsEmails(t)'
  BY <1>1 DEF SessionKeeps, KeepsEmails, Deletes, ReplacesEmail, SameWrites, Rests, EmailOf
<1>6. KeepsWallets(t)'
  BY DEF SessionKeeps, KeepsWallets, Deletes, SameWrites
<1>7. LinksNewAccounts(t)'
  BY <1>1 DEF SessionKeeps, LinksNewAccounts, SameWrites, Rests, EmailOf, Live
<1>8. ExtendsRows(t)' /\ Spelled(emailWrites[t])'
  BY DEF SessionKeeps, ExtendsRows, Extends, Spelled, SameWrites, Live
<1> QED
  BY <1>3, <1>4, <1>5, <1>6, <1>7, <1>8 DEF SessionKeeps

LEMMA TablesRest ==
  ASSUME Inv, UNCHANGED <<accounts, emails, wallets, issued>>,
         \A t \in Sessions : SessionKeeps(t)'
  PROVE  Safe
<1>1. HandlersInvariant'
  BY DEF Inv, HandlersInvariant, EveryAccountReachable, HasEmail, HasWallet, Live, EmailOf, Spelled
<1>2. LinksAreKept
  BY DEF LinksAreKept
<1>3. UpdatesAreKept
  BY DEF UpdatesAreKept, Extends
<1> QED
  BY <1>1, <1>2, <1>3 DEF Safe

(* It is enough that the session that moves keeps what it keeps.           *)
LEMMA ConfinedStep ==
  ASSUME Inv, NEW s \in Sessions, Moves(s), Confined(s), SessionKeeps(s)'
  PROVE  Safe
<1>1. ASSUME NEW t \in Sessions, t # s
      PROVE  SessionKeeps(t)'
  BY <1>1, RestKeeps DEF Inv, HandlersInvariant, Moves, Confined
<1> QED
  BY <1>1, TablesRest DEF Confined

(* A session whose transaction has ended, or has not begun.                *)
LEMMA NothingToKeep ==
  ASSUME NEW s \in Sessions, NothingWritten(s)', (pc[s] # "deleteEmail")',
         (Quiet(s) => isolation[s] = "none")'
  PROVE  SessionKeeps(s)'
  BY DEF NothingWritten, SessionKeeps, Unopened, ReadyToReplace, KeepsEmails, KeepsWallets,
         LinksNewAccounts, ExtendsRows, Spelled

(* A handler keeps its transaction open, or has none.                      *)
LEMMA StaysQuiet ==
  ASSUME NEW s \in Sessions, ask'[s] = ask[s],
         pc'[s] \in {"idle", "start", "tell", "done"} => Quiet(s)
  PROVE  Quiet(s)' => Quiet(s)
  BY DEF Quiet, Op

----------------------------------------------------------------------------
(* The ways in which a step changes the store.                             *)

(* The handler only reads, or decides.                                     *)
LEMMA ReadStep ==
  ASSUME Inv, NEW s \in Sessions, Moves(s), UNCHANGED storeVars,
         pc[s] \notin {"insertLink", "insertEmail"}, pc'[s] # "deleteEmail",
         pc'[s] \in {"idle", "start", "tell", "done"} => Quiet(s)
  PROVE  Safe
<1>1. Confined(s) /\ SameWrites(s) /\ isolation' = isolation
  BY DEF Confined, SameWrites, storeVars, tables, writes
<1>2. UNCHANGED <<accounts, emails, wallets>>
  BY DEF storeVars, tables
<1>3. SessionKeeps(s)
  BY DEF Inv, HandlersInvariant
<1>4. Quiet(s)' => Quiet(s)
  BY StaysQuiet DEF Moves
<1>5. Unopened(s)'
  BY <1>1, <1>3, <1>4 DEF SessionKeeps, Unopened, NothingWritten, SameWrites
<1>6. ReadyToReplace(s)'
  BY DEF ReadyToReplace
<1>7. KeepsEmails(s)'
  BY <1>1, <1>2, <1>3 DEF SessionKeeps, KeepsEmails, Deletes, ReplacesEmail, SameWrites, EmailOf
<1>8. KeepsWallets(s)' /\ LinksNewAccounts(s)' /\ ExtendsRows(s)' /\ Spelled(emailWrites[s])'
  BY <1>1, <1>2, <1>3 DEF SessionKeeps, KeepsWallets, Deletes, LinksNewAccounts, ExtendsRows,
     Extends, Spelled, SameWrites, EmailOf, Live
<1>9. SessionKeeps(s)'
  BY <1>5, <1>6, <1>7, <1>8 DEF SessionKeeps
<1> QED
  BY <1>1, <1>9, ConfinedStep

(* Requests end: their transactions are rolled back.                       *)
LEMMA RollbackStep ==
  ASSUME Inv, NEW S \in SUBSET Sessions, Rollback(S), ask' = ask,
         \A t \in S : pc'[t] = "done", \A t \in Sessions \ S : Rests(t)
  PROVE  Safe
<1>1. UNCHANGED <<accounts, emails, wallets, issued>>
  BY DEF Rollback, tables
<1>2. ASSUME NEW t \in S
      PROVE  SessionKeeps(t)'
  <2>1. NothingWritten(t)' /\ isolation'[t] = "none"
    BY DEF Rollback, Forget, NothingWritten
  <2> QED
    BY <2>1, NothingToKeep
<1>3. ASSUME NEW t \in Sessions \ S
      PROVE  SessionKeeps(t)'
  <2>1. SameWrites(t) /\ isolation'[t] = isolation[t]
    BY DEF Rollback, Forget, SameWrites, Inv, AccountsTypeOK, TypeOK
  <2>2. missed'[t] = missed[t]
    BY DEF Rollback, Miss, Inv, AccountsTypeOK, TypeOK
  <2> QED
    BY <1>1, <2>1, <2>2, RestKeeps DEF Inv, HandlersInvariant
<1> QED
  BY <1>1, <1>2, <1>3, TablesRest

(* A transaction begins, after its first read.                             *)
LEMMA BeginStep ==
  ASSUME Inv, NEW s \in Sessions, Moves(s), pc[s] = "start",
         Begin(s, Isolation[Op(s)]), Isolation[Op(s)] # "none",
         pc'[s] \notin {"idle", "start", "tell", "done"}, ReadyToReplace(s)'
  PROVE  Safe
<1>1. Confined(s) /\ SameWrites(s)
  BY DEF Begin, Confined, SameWrites, tables, writes, Inv, AccountsTypeOK, TypeOK
<1>2. NothingWritten(s)'
  BY <1>1 DEF Inv, HandlersInvariant, SessionKeeps, Unopened, Begin, NothingWritten, SameWrites
<1>3. ~Quiet(s)'
  BY DEF Quiet, Moves, Op
<1>4. SessionKeeps(s)'
  BY <1>2, <1>3 DEF NothingWritten, SessionKeeps, Unopened, KeepsEmails, KeepsWallets,
     LinksNewAccounts, ExtendsRows, Spelled
<1> QED
  BY <1>1, <1>4, ConfinedStep

(* A statement in a transaction changes the writes of its session only.    *)
LEMMA StatementKeeps ==
  ASSUME Inv, NEW s \in Sessions, Moves(s), Confined(s), isolation' = isolation,
         isolation[s] # "none", pc'[s] \notin {"idle", "start", "tell", "done", "deleteEmail"},
         KeepsEmails(s)', KeepsWallets(s)', LinksNewAccounts(s)', ExtendsRows(s)',
         Spelled(emailWrites[s])'
  PROVE  Safe
<1>1. Quiet(s)' => Quiet(s)
  BY StaysQuiet DEF Moves
<1>2. Unopened(s)'
  BY <1>1 DEF Inv, HandlersInvariant, SessionKeeps, Unopened
<1>3. ReadyToReplace(s)'
  BY DEF ReadyToReplace
<1>4. SessionKeeps(s)'
  BY <1>2, <1>3 DEF SessionKeeps
<1> QED
  BY <1>4, ConfinedStep

LEMMA InsertAccountStep ==
  ASSUME Inv, NEW s \in Sessions, NEW a \in AccountIds, NEW c \in Codes, Moves(s),
         InsertAccount(s, a, c), pc[s] = "insertAccount", pc'[s] = "insertLink",
         local'[s].acct = a
  PROVE  Safe
<1>1. /\ isolation[s] # "none" /\ isolation' = isolation /\ missed' = missed
      /\ UNCHANGED <<accounts, emails, wallets, issued, emailWrites, walletWrites>>
  BY DEF InsertAccount, tables
<1>2. /\ \A t \in Sessions \ {s} : accountWrites'[t] = accountWrites[t]
      /\ \A b \in AccountIds \ {a} : accountWrites'[s][b] = accountWrites[s][b]
      /\ accountWrites[s][a] = Kept /\ ~Live(a)
  BY DEF InsertAccount, FreshId, Inv, AccountsTypeOK, TypeOK, HandlersInvariant
<1>3. Confined(s)
  BY <1>1, <1>2 DEF Confined, SameWrites
<1>4. SessionKeeps(s)
  BY DEF Inv, HandlersInvariant
<1>5. \A b \in AccountIds : Deletes(s, b) => Deletes(s, b)'
  BY <1>2, NullsAreNotValues DEF Deletes
<1>6. KeepsEmails(s)' /\ KeepsWallets(s)'
  BY <1>1, <1>4, <1>5 DEF SessionKeeps, KeepsEmails, KeepsWallets, ReplacesEmail, EmailOf
<1>7. LinksNewAccounts(s)'
  BY <1>1, <1>2, <1>4 DEF SessionKeeps, LinksNewAccounts, EmailOf, Live, Acct
<1>8. ExtendsRows(s)' /\ Spelled(emailWrites[s])'
  BY <1>1, <1>2, <1>4 DEF SessionKeeps, ExtendsRows, Extends, Spelled, Live
<1> QED
  BY <1>1, <1>3, <1>6, <1>7, <1>8, StatementKeeps

(* Over a deleted row, or over none: the address has no other owner.       *)
LEMMA InsertEmailStep ==
  ASSUME Inv, NEW s \in Sessions, NEW e \in Addresses, NEW confirmed \in BOOLEAN, Moves(s),
         Acct(s) \in AccountIds, InsertEmail(s, e, Acct(s), confirmed), Normalize[e] = e,
         \/ pc[s] = "insertLink"
         \/ pc[s] = "insertEmail" /\ e = NewAddress(s) /\ (Confirms(s) => confirmed),
         pc'[s] \in {"touch", "commit"}, local' = local
  PROVE  Safe
<1>1. /\ isolation[s] # "none" /\ isolation' = isolation /\ missed' = missed
      /\ UNCHANGED <<accounts, emails, wallets, issued, accountWrites, walletWrites>>
  BY DEF InsertEmail, tables
<1>2. /\ \A t \in Sessions \ {s} : emailWrites'[t] = emailWrites[t]
      /\ \A f \in Addresses \ {e} : emailWrites'[s][f] = emailWrites[s][f]
      /\ emailWrites'[s][e] = [account |-> Acct(s), confirmed |-> confirmed]
  BY DEF InsertEmail, Inv, AccountsTypeOK, TypeOK
<1>3. EmailOf(emailWrites'[s][e], Acct(s)) /\ emailWrites'[s][e].confirmed = confirmed
  <2>1. [account |-> Acct(s), confirmed |-> confirmed] \in EmailRow
    BY DEF EmailRow
  <2> QED
    BY <1>2, <2>1, NullsAreNotValues DEF EmailOf
<1>4. Confined(s) /\ SessionKeeps(s)
  BY <1>1, <1>2 DEF Confined, SameWrites, Inv, HandlersInvariant
<1>5. KeepsEmails(s)'
  <2>1. SUFFICES ASSUME NEW f \in Addresses, NEW a \in AccountIds,
                        EmailOf(emails[f], a), emailWrites'[s][f] # Kept
                 PROVE  \/ accountWrites[s][a] = None
                        \/ EmailOf(emailWrites'[s][f], a) /\ emailWrites'[s][f].confirmed
    BY <1>1 DEF KeepsEmails, Deletes, ReplacesEmail, EmailOf
  <2>2. SeenEmail(s, e) = None
    BY DEF InsertEmail, InsertEmailRefused
  <2>3. CASE f = e
    <3>1. emailWrites[s][e] = None
      BY <2>1, <2>2, <2>3 DEF SeenEmail, EmailOf
    <3>2. accountWrites[s][a] = None \/ ReplacesEmail(s, e, a)
      BY <1>4, <2>1, <2>3, <3>1, NullsAreNotValues DEF SessionKeeps, KeepsEmails, Deletes
    <3>3. ReplacesEmail(s, e, a) => Acct(s) = a /\ confirmed
      BY <3>1 DEF ReplacesEmail, EmailOf
    <3> QED
      BY <1>3, <2>3, <3>2, <3>3
  <2>4. CASE f # e
    <3>1. emailWrites'[s][f] = emailWrites[s][f]
      BY <1>2, <2>4
    <3>2. accountWrites[s][a] = None \/ ReplacesEmail(s, f, a)
      BY <1>4, <2>1, <3>1 DEF SessionKeeps, KeepsEmails, Deletes
    <3> QED
      BY <2>4, <3>1, <3>2 DEF ReplacesEmail
  <2> QED
    BY <2>3, <2>4
<1>6. KeepsWallets(s)' /\ ExtendsRows(s)'
  BY <1>1, <1>4 DEF SessionKeeps, KeepsWallets, Deletes, ExtendsRows, Extends, Live
<1>7. LinksNewAccounts(s)'
  <2>1. SUFFICES ASSUME NEW a \in AccountIds, ~Live(a), accountWrites[s][a] \notin {None, Kept}
                 PROVE  \/ \E f \in Addresses : EmailOf(emailWrites'[s][f], a)
                        \/ \E w \in Wallets : walletWrites[s][w] = a
    BY <1>1 DEF LinksNewAccounts, Live, EmailOf
  <2>2. emailWrites[s][e] \in {None, Kept}
    BY DEF InsertEmail, InsertEmailRefused, SeenEmail
  <2>3. \A f \in Addresses : EmailOf(emailWrites[s][f], a) => EmailOf(emailWrites'[s][f], a)
    BY <1>2, <2>2 DEF EmailOf
  <2>4. \/ Acct(s) = a
        \/ \E f \in Addresses : EmailOf(emailWrites[s][f], a)
        \/ \E w \in Wallets : walletWrites[s][w] = a
    BY <1>4, <2>1 DEF SessionKeeps, LinksNewAccounts
  <2> QED
    BY <1>3, <2>3, <2>4
<1>8. Spelled(emailWrites[s])'
  BY <1>2, <1>4 DEF SessionKeeps, Spelled
<1> QED
  BY <1>1, <1>4, <1>5, <1>6, <1>7, <1>8, StatementKeeps

(* Over no row: the wallet has no owner, and the account no other wallet.  *)
LEMMA InsertWalletStep ==
  ASSUME Inv, NEW s \in Sessions, NEW w \in Wallets, Moves(s), Acct(s) \in AccountIds,
         InsertWallet(s, w, Acct(s)), pc[s] \in {"insertLink", "loaded"},
         pc'[s] \in {"tellBeforeCommit", "touch"}
  PROVE  Safe
<1>1. /\ isolation[s] # "none" /\ isolation' = isolation /\ missed' = missed
      /\ UNCHANGED <<accounts, emails, wallets, issued, accountWrites, emailWrites>>
  BY DEF InsertWallet, tables
<1>2. /\ \A t \in Sessions \ {s} : walletWrites'[t] = walletWrites[t]
      /\ \A v \in Wallets \ {w} : walletWrites'[s][v] = walletWrites[s][v]
      /\ walletWrites'[s][w] = Acct(s)
  BY DEF InsertWallet, Inv, AccountsTypeOK, TypeOK
<1>3. Confined(s) /\ SessionKeeps(s)
  BY <1>1, <1>2 DEF Confined, SameWrites, Inv, HandlersInvariant
<1>4. SeenWallet(s, w) = None
  BY DEF InsertWallet, InsertWalletRefused
<1>5. KeepsEmails(s)'
  BY <1>1, <1>3 DEF SessionKeeps, KeepsEmails, Deletes, ReplacesEmail, EmailOf
<1>6. KeepsWallets(s)'
  <2>1. SUFFICES ASSUME NEW v \in Wallets, NEW a \in AccountIds,
                        wallets[v] = a, walletWrites'[s][v] # Kept
                 PROVE  accountWrites[s][a] = None
    BY <1>1 DEF KeepsWallets, Deletes
  <2>2. walletWrites[s][v] # Kept
    BY <1>2, <1>4, <2>1, NullsAreNotValues DEF SeenWallet
  <2> QED
    BY <1>3, <2>1, <2>2 DEF SessionKeeps, KeepsWallets, Deletes
<1>7. LinksNewAccounts(s)'
  <2>1. SUFFICES ASSUME NEW a \in AccountIds, ~Live(a), accountWrites[s][a] \notin {None, Kept}
                 PROVE  \/ \E e \in Addresses : EmailOf(emailWrites[s][e], a)
                        \/ \E v \in Wallets : walletWrites'[s][v] = a
    BY <1>1 DEF LinksNewAccounts, Live, EmailOf
  <2>2. walletWrites[s][w] \in {None, Kept}
    BY <1>4 DEF SeenWallet
  <2>3. \A v \in Wallets : walletWrites[s][v] = a => walletWrites'[s][v] = a
    BY <1>2, <2>2, NullsAreNotValues
  <2>4. \/ Acct(s) = a
        \/ \E e \in Addresses : EmailOf(emailWrites[s][e], a)
        \/ \E v \in Wallets : walletWrites[s][v] = a
    BY <1>3, <2>1 DEF SessionKeeps, LinksNewAccounts
  <2> QED
    BY <1>2, <2>3, <2>4
<1>8. ExtendsRows(s)' /\ Spelled(emailWrites[s])'
  BY <1>1, <1>3 DEF SessionKeeps, ExtendsRows, Extends, Live, Spelled
<1> QED
  BY <1>1, <1>3, <1>5, <1>6, <1>7, <1>8, StatementKeeps

(* The row that is written is made from the row the session sees.          *)
LEMMA UpdateStep ==
  ASSUME Inv, NEW s \in Sessions, NEW a \in AccountIds, NEW row \in AccountRow, Moves(s),
         UpdateAccount(s, a, row), Extends(row, SeenAccount(s, a)),
         pc[s] \in {"touch", "refer"}, pc'[s] = "commit"
  PROVE  Safe
<1>1. /\ isolation[s] # "none" /\ isolation' = isolation /\ missed' = missed
      /\ UNCHANGED <<accounts, emails, wallets, issued, emailWrites, walletWrites>>
      /\ SeenAccount(s, a) # None
  BY DEF UpdateAccount, tables
<1>2. /\ \A t \in Sessions \ {s} : accountWrites'[t] = accountWrites[t]
      /\ \A b \in AccountIds \ {a} : accountWrites'[s][b] = accountWrites[s][b]
      /\ accountWrites'[s][a] = row
  BY DEF UpdateAccount, Inv, AccountsTypeOK, TypeOK
<1>3. Confined(s) /\ SessionKeeps(s)
  BY <1>1, <1>2 DEF Confined, SameWrites, Inv, HandlersInvariant
<1>4. accountWrites[s][a] # None
  BY <1>1, NullsAreNotValues DEF SeenAccount
<1>5. \A b \in AccountIds : accountWrites[s][b] = None => accountWrites'[s][b] = None
  BY <1>2, <1>4
<1>6. KeepsEmails(s)' /\ KeepsWallets(s)'
  BY <1>1, <1>3, <1>5 DEF SessionKeeps, KeepsEmails, KeepsWallets, Deletes, ReplacesEmail, EmailOf
<1>7. LinksNewAccounts(s)'
  <2>1. SUFFICES ASSUME NEW b \in AccountIds, ~Live(b), accountWrites'[s][b] \notin {None, Kept}
                 PROVE  \/ \E e \in Addresses : EmailOf(emailWrites[s][e], b)
                        \/ \E w \in Wallets : walletWrites[s][w] = b
    BY <1>1 DEF LinksNewAccounts, Live, EmailOf
  <2>2. accountWrites[s][b] \notin {None, Kept}
    BY <1>1, <1>2, <1>4, <2>1 DEF SeenAccount, Live
  <2> QED
    BY <1>3, <2>1, <2>2 DEF SessionKeeps, LinksNewAccounts
<1>8. ExtendsRows(s)'
  <2>1. SUFFICES ASSUME NEW b \in AccountIds, Live(b), accountWrites'[s][b] \notin {None, Kept}
                 PROVE  Extends(accountWrites'[s][b], accounts[b])
    BY <1>1 DEF ExtendsRows, Extends, Live
  <2>2. CASE b # a
    BY <1>2, <1>3, <2>1, <2>2 DEF SessionKeeps, ExtendsRows
  <2>3. CASE b = a
    <3>1. accountWrites[s][a] = Kept => Extends(row, accounts[a])
      BY DEF SeenAccount
    <3>2. accountWrites[s][a] # Kept =>
            Extends(row, accountWrites[s][a]) /\ Extends(accountWrites[s][a], accounts[a])
      BY <1>3, <1>4, <2>1, <2>3 DEF SessionKeeps, ExtendsRows, SeenAccount
    <3> QED
      BY <1>2, <2>3, <3>1, <3>2 DEF Extends
  <2> QED
    BY <2>2, <2>3
<1>9. Spelled(emailWrites[s])'
  BY <1>1, <1>3 DEF SessionKeeps, Spelled
<1> QED
  BY <1>1, <1>3, <1>6, <1>7, <1>8, <1>9, StatementKeeps

(* The email that is deleted is the one that the handler inserts again.    *)
LEMMA DeleteEmailStep ==
  ASSUME Inv, NEW s \in Sessions, Moves(s), local[s].email \in Addresses,
         DeleteEmail(s, local[s].email), pc[s] = "deleteEmail", pc'[s] = "insertEmail",
         local' = local
  PROVE  Safe
<1> DEFINE e == local[s].email
<1>1. /\ isolation[s] # "none" /\ isolation' = isolation /\ missed' = missed
      /\ UNCHANGED <<accounts, emails, wallets, issued, accountWrites, walletWrites>>
      /\ e \notin missed[s]
  BY DEF DeleteEmail, tables, Stale
<1>2. /\ \A t \in Sessions \ {s} : emailWrites'[t] = emailWrites[t]
      /\ \A f \in Addresses \ {e} : emailWrites'[s][f] = emailWrites[s][f]
      /\ emailWrites'[s][e] = None
  BY DEF DeleteEmail, Inv, AccountsTypeOK, TypeOK
<1>3. Confined(s) /\ SessionKeeps(s)
  BY <1>1, <1>2 DEF Confined, SameWrites, Inv, HandlersInvariant
<1>4. /\ NothingWritten(s) /\ Confirms(s) /\ e = NewAddress(s)
      /\ EmailOf(emails[e], Acct(s))
  BY <1>1, <1>3 DEF SessionKeeps, ReadyToReplace
<1>5. Confirms(s)' /\ NewAddress(s)' = e /\ Acct(s)' = Acct(s)
  BY <1>4 DEF Moves, Confirms, NewAddress, Acct, Op, Arg
<1>6. KeepsEmails(s)'
  <2>1. SUFFICES ASSUME NEW f \in Addresses, NEW a \in AccountIds,
                        EmailOf(emails[f], a), emailWrites'[s][f] # Kept
                 PROVE  f = e /\ a = Acct(s)
    BY <1>1, <1>5 DEF KeepsEmails, ReplacesEmail, EmailOf
  <2>2. f = e
    BY <1>2, <1>4, <2>1 DEF NothingWritten
  <2> QED
    BY <1>4, <2>1, <2>2 DEF EmailOf
<1>7. KeepsWallets(s)' /\ LinksNewAccounts(s)' /\ ExtendsRows(s)'
  BY <1>1, <1>4 DEF NothingWritten, KeepsWallets, LinksNewAccounts, ExtendsRows
<1>8. Spelled(emailWrites[s])'
  BY <1>2, <1>4 DEF NothingWritten, Spelled
<1> QED
  BY <1>1, <1>3, <1>6, <1>7, <1>8, StatementKeeps

(* Everything of the account goes with it, and nothing of any other but    *)
(* who referred it.                                                        *)
LEMMA DeleteAccountStep ==
  ASSUME Inv, NEW s \in Sessions, NEW a \in AccountIds, Moves(s), DeleteAccount(s, a),
         pc[s] = "loaded", pc'[s] = "commit"
  PROVE  Safe
<1>1. /\ isolation[s] # "none" /\ isolation' = isolation /\ missed' = missed
      /\ UNCHANGED <<accounts, emails, wallets, issued>>
  BY DEF DeleteAccount, tables
<1>2. /\ \A t \in Sessions \ {s} : SameWrites(t)
      /\ accountWrites'[s][a] = None
  BY DEF DeleteAccount, SameWrites, Inv, AccountsTypeOK, TypeOK
<1>3. \A b \in AccountIds \ {a} :
        \/ accountWrites'[s][b] = accountWrites[s][b]
        \/ /\ SeenAccount(s, b) \notin {None, Kept}
           /\ accountWrites'[s][b] = Unreferred(SeenAccount(s, b))
  BY DEF DeleteAccount, ReferredBy, Inv, AccountsTypeOK, TypeOK
<1>4. \A e \in Addresses : emailWrites'[s][e] =
        IF EmailOf(SeenEmail(s, e), a) THEN None ELSE emailWrites[s][e]
  BY DEF DeleteAccount, Inv, AccountsTypeOK, TypeOK
<1>5. \A w \in Wallets : walletWrites'[s][w] =
        IF SeenWallet(s, w) = a THEN None ELSE walletWrites[s][w]
  BY DEF DeleteAccount, Inv, AccountsTypeOK, TypeOK
<1>6. Confined(s) /\ SessionKeeps(s)
  BY <1>1, <1>2 DEF Confined, Inv, HandlersInvariant
<1>7. ASSUME NEW b \in AccountIds, accountWrites[s][b] = None
      PROVE  accountWrites'[s][b] = None
  BY <1>2, <1>3, <1>7, NullsAreNotValues DEF SeenAccount
<1>8. KeepsEmails(s)'
  <2>1. SUFFICES ASSUME NEW e \in Addresses, NEW b \in AccountIds,
                        EmailOf(emails[e], b), emailWrites'[s][e] # Kept
                 PROVE  \/ accountWrites'[s][b] = None
                        \/ EmailOf(emailWrites'[s][e], b) /\ emailWrites'[s][e].confirmed
    BY <1>1 DEF KeepsEmails, Deletes, ReplacesEmail, EmailOf
  <2>2. CASE emailWrites[s][e] = Kept
    <3>1. EmailOf(SeenEmail(s, e), a)
      BY <1>4, <2>1, <2>2
    <3>2. b = a
      BY <2>1, <2>2, <3>1 DEF SeenEmail, EmailOf
    <3> QED
      BY <1>2, <3>2
  <2>3. CASE emailWrites[s][e] # Kept
    <3>1. \/ accountWrites[s][b] = None
          \/ EmailOf(emailWrites[s][e], b) /\ emailWrites[s][e].confirmed
      BY <1>6, <2>1, <2>3 DEF SessionKeeps, KeepsEmails, Deletes, ReplacesEmail
    <3>2. CASE accountWrites[s][b] = None
      BY <1>7, <3>2
    <3>3. CASE EmailOf(emailWrites[s][e], b) /\ emailWrites[s][e].confirmed
      <4>1. CASE EmailOf(SeenEmail(s, e), a)
        <5>1. b = a
          BY <2>3, <3>3, <4>1 DEF SeenEmail, EmailOf
        <5> QED
          BY <1>2, <5>1
      <4>2. CASE ~EmailOf(SeenEmail(s, e), a)
        BY <1>4, <3>3, <4>2
      <4> QED
        BY <4>1, <4>2
    <3> QED
      BY <3>1, <3>2, <3>3
  <2> QED
    BY <2>2, <2>3
<1>9. KeepsWallets(s)'
  <2>1. SUFFICES ASSUME NEW w \in Wallets, NEW b \in AccountIds,
                        wallets[w] = b, walletWrites'[s][w] # Kept
                 PROVE  accountWrites'[s][b] = None
    BY <1>1 DEF KeepsWallets, Deletes
  <2>2. CASE walletWrites[s][w] = Kept
    BY <1>2, <1>5, <2>1, <2>2 DEF SeenWallet
  <2>3. CASE walletWrites[s][w] # Kept
    BY <1>6, <1>7, <2>1, <2>3 DEF SessionKeeps, KeepsWallets, Deletes
  <2> QED
    BY <2>2, <2>3
<1>10. LinksNewAccounts(s)'
  <2>1. SUFFICES ASSUME NEW b \in AccountIds, ~Live(b), accountWrites'[s][b] \notin {None, Kept}
                 PROVE  \/ \E e \in Addresses : EmailOf(emailWrites'[s][e], b)
                        \/ \E w \in Wallets : walletWrites'[s][w] = b
    BY <1>1 DEF LinksNewAccounts, Live, EmailOf
  <2>2. b # a /\ accountWrites[s][b] \notin {None, Kept}
    BY <1>2, <1>3, <2>1 DEF SeenAccount, Live
  <2>3. \/ \E e \in Addresses : EmailOf(emailWrites[s][e], b)
        \/ \E w \in Wallets : walletWrites[s][w] = b
    BY <1>6, <2>1, <2>2 DEF SessionKeeps, LinksNewAccounts
  <2>4. ASSUME NEW e \in Addresses, EmailOf(emailWrites[s][e], b)
        PROVE  EmailOf(emailWrites'[s][e], b)
    BY <1>4, <2>2, <2>4 DEF SeenEmail, EmailOf
  <2>5. ASSUME NEW w \in Wallets, walletWrites[s][w] = b
        PROVE  walletWrites'[s][w] = b
    BY <1>5, <2>2, <2>5, NullsAreNotValues DEF SeenWallet
  <2> QED
    BY <2>3, <2>4, <2>5
<1>11. ExtendsRows(s)'
  <2>1. SUFFICES ASSUME NEW b \in AccountIds, Live(b), accountWrites'[s][b] \notin {None, Kept}
                 PROVE  Extends(accountWrites'[s][b], accounts[b])
    BY <1>1 DEF ExtendsRows, Extends, Live
  <2>2. CASE accountWrites'[s][b] = accountWrites[s][b]
    BY <1>6, <2>1, <2>2 DEF SessionKeeps, ExtendsRows
  <2>3. CASE /\ SeenAccount(s, b) \notin {None, Kept}
             /\ accountWrites'[s][b] = Unreferred(SeenAccount(s, b))
    <3>1. Extends(SeenAccount(s, b), accounts[b])
      BY <1>6, <2>1, <2>3 DEF SessionKeeps, ExtendsRows, SeenAccount, Extends
    <3>2. SeenAccount(s, b) \in AccountRow
      BY <2>3, SeenType DEF Inv, AccountsTypeOK
    <3> QED
      BY <2>3, <3>1, <3>2 DEF Unreferred, AccountRow, Extends
  <2> QED
    BY <1>2, <1>3, <2>1, <2>2, <2>3
<1>12. Spelled(emailWrites[s])'
  BY <1>4, <1>6 DEF SessionKeeps, Spelled
<1> QED
  BY <1>1, <1>6, <1>8, <1>9, <1>10, <1>11, <1>12, StatementKeeps

(* The locks of the statement keep other transactions off the row.         *)
LEMMA UpdateNowStep ==
  ASSUME Inv, NEW s \in Sessions, NEW a \in AccountIds, NEW row \in AccountRow, Moves(s),
         UpdateAccountNow(s, a, row), Extends(row, accounts[a]), pc'[s] = "done"
  PROVE  Safe
<1>1. /\ UNCHANGED <<emails, wallets, issued, accountWrites, emailWrites, walletWrites, isolation>>
      /\ isolation[s] = "none"
  BY DEF UpdateAccountNow, writes
<1>2. /\ accounts'[a] = row /\ Live(a)
      /\ \A b \in AccountIds \ {a} : accounts'[b] = accounts[b]
  BY DEF UpdateAccountNow, Live, Inv, AccountsTypeOK, TypeOK
<1>3. \A b \in AccountIds : Live(b)' <=> Live(b)
  BY <1>2, NullsAreNotValues DEF Live
<1>4. \A t \in Sessions : SessionKeeps(t)
  BY DEF Inv, HandlersInvariant
<1>5. SessionKeeps(s)'
  <2>1. NothingWritten(s)'
    BY <1>1, <1>4 DEF SessionKeeps, Unopened, NothingWritten
  <2> QED
    BY <1>1, <2>1, NothingToKeep
<1>6. ASSUME NEW t \in Sessions \ {s}
      PROVE  SessionKeeps(t)'
  <2>1. accountWrites[t][a] = Kept
    BY DEF UpdateAccountNow, AccountBusy, Others
  <2>2. missed'[t] \in {missed[t], missed[t] \cup {a}}
    BY DEF UpdateAccountNow, Miss
  <2>3. Rests(t)
    BY DEF Moves
  <2>4. /\ Op(t)' = Op(t) /\ Acct(t)' = Acct(t)
        /\ NewAddress(t)' = NewAddress(t) /\ Confirms(t)' = Confirms(t)
    BY <2>3 DEF Rests, Op, Arg, Acct, NewAddress, Confirms
  <2>5. Unopened(t)'
    BY <1>1, <1>4, <2>3, <2>4 DEF SessionKeeps, Unopened, NothingWritten, Quiet, Rests
  <2>6. ReadyToReplace(t)'
    BY <1>1, <1>4, <2>2, <2>3, <2>4
       DEF SessionKeeps, ReadyToReplace, NothingWritten, Rests, EmailOf
  <2>7. KeepsEmails(t)' /\ KeepsWallets(t)' /\ Spelled(emailWrites[t])'
    BY <1>1, <1>4, <2>3, <2>4 DEF SessionKeeps, KeepsEmails, KeepsWallets, Deletes,
       ReplacesEmail, Spelled, Rests, EmailOf
  <2>8. LinksNewAccounts(t)'
    BY <1>1, <1>3, <1>4, <2>3, <2>4 DEF SessionKeeps, LinksNewAccounts, Rests, EmailOf
  <2>9. ExtendsRows(t)'
    BY <1>1, <1>2, <1>3, <1>4, <2>1 DEF SessionKeeps, ExtendsRows, Extends
  <2> QED
    BY <2>5, <2>6, <2>7, <2>8, <2>9 DEF SessionKeeps
<1>7. HandlersInvariant'
  BY <1>1, <1>3, <1>5, <1>6 DEF Inv, HandlersInvariant, EveryAccountReachable, HasEmail,
     HasWallet, EmailOf, Spelled
<1>8. LinksAreKept
  BY <1>1 DEF LinksAreKept
<1>9. UpdatesAreKept
  BY <1>2 DEF UpdatesAreKept, Extends
<1> QED
  BY <1>7, <1>8, <1>9 DEF Safe

(* Other sessions have written other rows, and a serializable one that has *)
(* read what is committed now misses it.                                   *)
LEMMA CommitStep ==
  ASSUME Inv, NEW s \in Sessions, Moves(s), Commit(s), pc[s] = "commit",
         pc'[s] \in {"findLink", "tell", "done"}
  PROVE  Safe
<1>1. /\ \A a \in AccountIds : accounts'[a] = SeenAccount(s, a)
      /\ \A e \in Addresses : emails'[e] = SeenEmail(s, e)
      /\ \A w \in Wallets : wallets'[w] = SeenWallet(s, w)
  BY DEF Commit, SeenAccounts, SeenEmails, SeenWallets
<1>2. issued' = issued \cup {a \in AccountIds : accountWrites[s][a] \notin {None, Kept}}
  BY DEF Commit
<1>3. \A t \in Sessions : SessionKeeps(t)
  BY DEF Inv, HandlersInvariant
<1>4. SessionKeeps(s)'
  <2>1. NothingWritten(s)' /\ isolation'[s] = "none"
    BY DEF Commit, Forget, NothingWritten
  <2> QED
    BY <2>1, NothingToKeep
<1>5. ASSUME NEW t \in Sessions \ {s}
      PROVE  SessionKeeps(t)'
  <2>1. Rests(t) /\ SameWrites(t) /\ isolation'[t] = isolation[t]
    BY DEF Moves, Commit, Forget, SameWrites, Inv, AccountsTypeOK, TypeOK
  <2>2. /\ Op(t)' = Op(t) /\ Acct(t)' = Acct(t)
        /\ NewAddress(t)' = NewAddress(t) /\ Confirms(t)' = Confirms(t)
    BY <2>1 DEF Rests, Op, Arg, Acct, NewAddress, Confirms
  <2>3. /\ \A a \in AccountIds : accountWrites[t][a] # Kept => accounts'[a] = accounts[a]
        /\ \A e \in Addresses : emailWrites[t][e] # Kept => emails'[e] = emails[e]
        /\ \A w \in Wallets : walletWrites[t][w] # Kept => wallets'[w] = wallets[w]
    <3>1. RowsApart(s, t)
      BY DEF Inv, SessionsApart, Apart
    <3> QED
      BY <1>1, <3>1 DEF RowsApart, SeenAccount, SeenEmail, SeenWallet
  <2>4. Unopened(t)'
    BY <1>3, <2>1, <2>2 DEF SessionKeeps, Unopened, NothingWritten, Quiet, Rests, SameWrites
  <2>5. ReadyToReplace(t)'
    <3>1. SUFFICES ASSUME pc[t] = "deleteEmail", local[t].email \notin missed'[t]
                   PROVE  emails'[local[t].email] = emails[local[t].email]
                          /\ local[t].email \notin missed[t]
      BY <1>3, <2>1, <2>2 DEF SessionKeeps, ReadyToReplace, NothingWritten, Rests, SameWrites, EmailOf
    <3>2. isolation[t] = "serializable"
      BY <1>3, <3>1 DEF SessionKeeps, ReadyToReplace
    <3>3. /\ local[t].email \notin missed[t]
          /\ local[t].email \notin {e \in Addresses : emailWrites[s][e] # Kept}
      BY <3>1, <3>2 DEF Commit, Miss, Inv, AccountsTypeOK, TypeOK
    <3>4. local[t].email \in Addresses
      <4>1. pc[t] # "idle"
        BY <3>1
      <4>2. ReadyAt(pc[t], ask[t], local[t])
        BY <4>1, ReadyFacts DEF Inv
      <4> QED
        BY <3>1, <4>2 DEF ReadyAt
    <3> QED
      BY <1>1, <3>3, <3>4 DEF SeenEmail
  <2>6. KeepsEmails(t)'
    BY <1>3, <2>1, <2>2, <2>3 DEF SessionKeeps, KeepsEmails, Deletes, ReplacesEmail, SameWrites,
       Rests, EmailOf
  <2>7. KeepsWallets(t)'
    BY <1>3, <2>1, <2>3 DEF SessionKeeps, KeepsWallets, Deletes, SameWrites
  <2>8. LinksNewAccounts(t)'
    BY <1>3, <2>1, <2>2, <2>3 DEF SessionKeeps, LinksNewAccounts, SameWrites, Rests, EmailOf, Live
  <2>9. ExtendsRows(t)' /\ Spelled(emailWrites[t])'
    BY <1>3, <2>1, <2>3 DEF SessionKeeps, ExtendsRows, Extends, Spelled, SameWrites, Live
  <2> QED
    BY <2>4, <2>5, <2>6, <2>7, <2>8, <2>9 DEF SessionKeeps
<1>6. LinksAreKept
  <2>1. SUFFICES ASSUME NEW a \in AccountIds, Live(a), Live(a)'
                 PROVE  /\ \A e \in Addresses : EmailOf(emails[e], a) =>
                             /\ EmailOf(emails'[e], a)
                             /\ emails[e].confirmed => emails'[e].confirmed
                        /\ \A w \in Wallets : wallets[w] = a => wallets'[w] = a
    BY DEF LinksAreKept
  <2>2. accountWrites[s][a] # None
    BY <1>1, <2>1, NullsAreNotValues DEF Live, SeenAccount
  <2>3. ASSUME NEW e \in Addresses, EmailOf(emails[e], a)
        PROVE  EmailOf(emails'[e], a) /\ (emails[e].confirmed => emails'[e].confirmed)
    <3>1. emailWrites[s][e] # Kept => ReplacesEmail(s, e, a)
      BY <1>3, <2>2, <2>3 DEF SessionKeeps, KeepsEmails, Deletes
    <3> QED
      BY <1>1, <2>3, <3>1 DEF SeenEmail, ReplacesEmail
  <2>4. ASSUME NEW w \in Wallets, wallets[w] = a
        PROVE  wallets'[w] = a
    <3>1. walletWrites[s][w] = Kept
      BY <1>3, <2>2, <2>4 DEF SessionKeeps, KeepsWallets, Deletes
    <3> QED
      BY <1>1, <2>4, <3>1 DEF SeenWallet
  <2> QED
    BY <2>3, <2>4
<1>7. UpdatesAreKept
  <2>1. SUFFICES ASSUME NEW a \in AccountIds, Live(a), Live(a)'
                 PROVE  Extends(accounts'[a], accounts[a])
    BY DEF UpdatesAreKept
  <2>2. CASE accountWrites[s][a] = Kept
    BY <1>1, <2>2 DEF SeenAccount, Extends
  <2>3. CASE accountWrites[s][a] # Kept
    BY <1>1, <1>3, <2>1, <2>3 DEF SessionKeeps, ExtendsRows, SeenAccount, Live
  <2> QED
    BY <2>2, <2>3
<1>8. EveryAccountReachable'
  <2>1. SUFFICES ASSUME NEW a \in AccountIds, Live(a)'
                 PROVE  \/ \E e \in Addresses : EmailOf(emails'[e], a)
                        \/ \E w \in Wallets : wallets'[w] = a
    BY DEF EveryAccountReachable, HasEmail, HasWallet, Live, EmailOf
  <2>2. CASE Live(a)
    BY <1>6, <2>1, <2>2 DEF LinksAreKept, Inv, HandlersInvariant, EveryAccountReachable,
       HasEmail, HasWallet
  <2>3. CASE ~Live(a)
    <3>1. accountWrites[s][a] \notin {None, Kept}
      BY <1>1, <2>1, <2>3, NullsAreNotValues DEF Live, SeenAccount
    <3>2. \/ \E e \in Addresses : EmailOf(emailWrites[s][e], a)
          \/ \E w \in Wallets : walletWrites[s][w] = a
      BY <1>3, <2>3, <3>1 DEF SessionKeeps, LinksNewAccounts
    <3> QED
      BY <1>1, <3>2, NullsAreNotValues DEF SeenEmail, SeenWallet, EmailOf
  <2> QED
    BY <2>2, <2>3
<1>9. Spelled(emails)'
  BY <1>1, <1>3 DEF SessionKeeps, Spelled, SeenEmail, Inv, HandlersInvariant
<1>10. \A a \in AccountIds : Live(a)' => a \in issued'
  BY <1>1, <1>2 DEF Live, SeenAccount, Inv, HandlersInvariant
<1>11. HandlersInvariant'
  BY <1>4, <1>5, <1>8, <1>9, <1>10 DEF HandlersInvariant
<1> QED
  BY <1>6, <1>7, <1>11 DEF Safe

----------------------------------------------------------------------------
(* How handlers move on.                                                   *)

LEMMA KeepMoves ==
  ASSUME Inv, NEW s \in Sessions, NEW locals, NEW label, Keep(s, locals, label)
  PROVE  Moves(s) /\ pc'[s] = label /\ local'[s] = locals
  BY DEF Keep, Goto, Moves, Rests, Inv, AccountsTypeOK, HandlersReady

LEMMA ContinueMoves ==
  ASSUME Inv, NEW s \in Sessions, NEW label, Continue(s, label)
  PROVE  Moves(s) /\ pc'[s] = label /\ local' = local
  BY DEF Continue, Goto, Moves, Rests, Inv, AccountsTypeOK, HandlersReady

LEMMA FinishMoves ==
  ASSUME NEW s \in Sessions, NEW result, Finish({s}, result)
  PROVE  Moves(s) /\ pc'[s] = "done"
  BY DEF Finish, Moves, Rests

LEMMA ReplyStep ==
  ASSUME Inv, NEW s \in Sessions, NEW result, Reply(s, result)
  PROVE  Safe
<1>1. ask' = ask /\ pc'[s] = "done" /\ \A t \in Sessions \ {s} : Rests(t)
  BY DEF Reply, Finish, Rests
<1> QED
  BY <1>1, RollbackStep DEF Reply

LEMMA DieStep ==
  ASSUME Inv, NEW replica, Die(replica)
  PROVE  Safe
<1> DEFINE S == {s \in Sessions : Replica[s] = replica /\ ~Idle(s)}
<1>1. /\ S \in SUBSET Sessions /\ Rollback(S) /\ ask' = ask
      /\ \A t \in S : pc'[t] = "done"
      /\ \A t \in Sessions \ S : Rests(t)
  BY DEF Die, Finish, Rests
<1> HIDE DEF S
<1> QED
  BY <1>1, RollbackStep

----------------------------------------------------------------------------
(* The handlers.                                                           *)

LEMMA LookupStep ==
  ASSUME Inv, NEW s \in Sessions,
         \/ FindLink(s) \/ LinkNotFound(s) \/ LoadAccount(s)
         \/ LoadNothing(s) \/ LoadPeer(s) \/ AnswerLoaded(s)
  PROVE  Safe
<1>1. ASSUME FindLink(s)
      PROVE  Safe
  <2>1. Moves(s) /\ pc'[s] = "loadAccount"
    BY <1>1, KeepMoves DEF FindLink
  <2>2. CASE UNCHANGED storeVars
    BY <1>1, <2>1, <2>2, ReadStep DEF FindLink, Looking
  <2>3. CASE /\ pc[s] = "start" /\ Isolation[Op(s)] # "none"
             /\ Begin(s, Isolation[Op(s)])
    BY <2>1, <2>3, BeginStep DEF ReadyToReplace
  <2> QED
    BY <1>1, <2>2, <2>3 DEF FindLink, Open
<1>2. ASSUME LoadAccount(s) \/ LoadPeer(s)
      PROVE  Safe
  <2>1. /\ Moves(s) /\ pc'[s] \in {"loadPeer", "loaded"}
        /\ pc[s] \in {"loadAccount", "loadPeer"} /\ UNCHANGED storeVars
    BY <1>2, KeepMoves DEF LoadAccount, LoadPeer
  <2> QED
    BY <2>1, ReadStep
<1> QED
  BY <1>1, <1>2, ReplyStep, DieStep DEF LinkNotFound, LoadNothing, AnswerLoaded

LEMMA CreateStep ==
  ASSUME Inv, NEW s \in Sessions,
         \/ BeginCreate(s) \/ DrawCode(s) \/ InsertNewAccount(s)
         \/ InsertFirstWallet(s) \/ InsertFirstEmail(s)
  PROVE  Safe
<1>1. pc[s] # "idle"
  BY DEF BeginCreate, DrawCode, InsertNewAccount, InsertFirstWallet, InsertFirstEmail
<1>2. ReadyAt(pc[s], ask[s], local[s])
  BY <1>1, ReadyFacts DEF Inv
<1>3. ASSUME BeginCreate(s)
      PROVE  Safe
  <2>1. CASE Begin(s, Isolation[Op(s)]) /\ Continue(s, "drawCode")
    <3>1. pc[s] = "start" /\ Isolation[Op(s)] # "none"
      BY <1>3 DEF BeginCreate, Isolation, Handlers
    <3>2. Moves(s) /\ pc'[s] = "drawCode"
      BY <2>1, ContinueMoves
    <3> QED
      BY <2>1, <3>1, <3>2, BeginStep DEF ReadyToReplace
  <2> QED
    BY <1>3, <2>1, ReplyStep DEF BeginCreate
<1>4. ASSUME DrawCode(s)
      PROVE  Safe
  <2>1. Moves(s) /\ pc'[s] = "insertAccount" /\ pc[s] = "drawCode" /\ UNCHANGED storeVars
    BY <1>4, KeepMoves DEF DrawCode
  <2> QED
    BY <2>1, ReadStep
<1>5. ASSUME InsertNewAccount(s)
      PROVE  Safe
  <2>1. ASSUME NEW a \in AccountIds, InsertAccount(s, a, local[s].code),
               Keep(s, [local[s] EXCEPT !.acct = a], "insertLink")
        PROVE  Safe
    <3>1. Moves(s) /\ pc'[s] = "insertLink" /\ local'[s] = [local[s] EXCEPT !.acct = a]
      BY <2>1, KeepMoves
    <3>2. local[s] \in Locals
      BY <1>1, ReadyFacts DEF Inv
    <3>3. local'[s].acct = a
      BY <3>1, <3>2 DEF Locals
    <3>4. pc[s] = "insertAccount" /\ local[s].code \in Codes
      BY <1>2, <1>5 DEF InsertNewAccount, ReadyAt
    <3> QED
      BY <2>1, <3>1, <3>3, <3>4, InsertAccountStep
  <2> QED
    BY <1>5, <2>1, ReplyStep DEF InsertNewAccount
<1>6. ASSUME InsertFirstWallet(s)
      PROVE  Safe
  <2>1. pc[s] = "insertLink" /\ Acct(s) \in AccountIds /\ Cred(s) \in Wallets
    BY <1>2, <1>6 DEF InsertFirstWallet, ReadyAt, Acct
  <2>2. CASE InsertWallet(s, Cred(s), Acct(s)) /\ Continue(s, "tellBeforeCommit")
    <3>1. Moves(s) /\ pc'[s] = "tellBeforeCommit"
      BY <2>2, ContinueMoves
    <3> QED
      BY <2>1, <2>2, <3>1, InsertWalletStep
  <2> QED
    BY <1>6, <2>2, ReplyStep DEF InsertFirstWallet
<1>7. ASSUME InsertFirstEmail(s)
      PROVE  Safe
  <2> DEFINE e == Normalize[Cred(s)]
  <2>1. /\ pc[s] = "insertLink" /\ Acct(s) \in AccountIds
        /\ e \in Addresses /\ Normalize[e] = e
    BY <1>2, <1>7, AccountsAssumption DEF InsertFirstEmail, ReadyAt, Acct
  <2>2. CASE InsertEmail(s, e, Acct(s), TRUE) /\ Continue(s, "commit")
    <3>1. Moves(s) /\ pc'[s] = "commit" /\ local' = local
      BY <2>2, ContinueMoves
    <3> HIDE DEF e
    <3> QED
      BY <2>1, <2>2, <3>1, InsertEmailStep
  <2> QED
    BY <1>7, <2>2, ReplyStep DEF InsertFirstEmail
<1> QED
  BY <1>3, <1>4, <1>5, <1>6, <1>7

(* The one column that is updated is set, and the others are kept.         *)
LEMMA SaveNowStep ==
  ASSUME Inv, NEW s \in Sessions, Acct(s) \in AccountIds, Isolation[Op(s)] = "none",
         pc[s] = "loaded", NEW row, SaveNow(s, row),
         Live(Acct(s)) => row \in AccountRow /\ Extends(row, accounts[Acct(s)])
  PROVE  Safe
<1>1. Moves(s) /\ pc'[s] = "done"
  BY FinishMoves DEF SaveNow
<1>2. CASE Live(Acct(s))
  <2>1. UpdateAccountNow(s, Acct(s), row)
    BY <1>2 DEF SaveNow, Live
  <2> QED
    BY <1>1, <1>2, <2>1, UpdateNowStep
<1>3. CASE ~Live(Acct(s))
  <2>1. UNCHANGED storeVars /\ Quiet(s)
    BY <1>3 DEF SaveNow, Live, Quiet
  <2> QED
    BY <1>1, <2>1, ReadStep
<1> QED
  BY <1>2, <1>3

LEMMA ProfileStep ==
  ASSUME Inv, NEW s \in Sessions, UpdateUser(s) \/ AcceptTOS(s)
  PROVE  Safe
<1>1. /\ pc[s] = "loaded" /\ Isolation[Op(s)] = "none"
  BY DEF UpdateUser, AcceptTOS, Isolation, Handlers
<1>2. Acct(s) \in AccountIds
  BY <1>1, ReadyFacts DEF Inv, ReadyAt, Acct
<1>3. Live(Acct(s)) =>
        accounts[Acct(s)] \in AccountRow /\ CurrentRow(s) = accounts[Acct(s)]
  BY <1>2 DEF Live, CurrentRow, Inv, AccountsTypeOK, TypeOK
<1>4. ASSUME UpdateUser(s), Arg(s) \in KnownCountries, Arg(s) # None
      PROVE  Live(Acct(s)) =>
               CountryOnly(s) \in AccountRow /\ Extends(CountryOnly(s), accounts[Acct(s)])
  <2>1. Arg(s) \in Countries
    BY <1>4, AccountsAssumption
  <2> QED
    BY <1>3, <1>4, <2>1 DEF CountryOnly, AccountRow, Extends
<1>5. Live(Acct(s)) => TosOnly(s) \in AccountRow /\ Extends(TosOnly(s), accounts[Acct(s)])
  BY <1>3 DEF TosOnly, AccountRow, Extends
<1>6. ASSUME UpdateUser(s)
      PROVE  Safe
  <2>1. CASE /\ Arg(s) \in KnownCountries /\ Arg(s) # None
             /\ SaveNow(s, CountryOnly(s))
    BY <1>1, <1>2, <1>4, <1>6, <2>1, SaveNowStep
  <2> QED
    BY <1>6, <2>1, ReplyStep DEF UpdateUser
<1>7. ASSUME AcceptTOS(s)
      PROVE  Safe
  BY <1>1, <1>2, <1>5, <1>7, SaveNowStep, ReplyStep DEF AcceptTOS
<1> QED
  BY <1>6, <1>7

LEMMA DeleteStep ==
  ASSUME Inv, NEW s \in Sessions, DeleteUser(s)
  PROVE  Safe
<1>1. pc[s] = "loaded" /\ Moves(s) /\ pc'[s] = "commit"
  BY ContinueMoves DEF DeleteUser
<1>2. Acct(s) \in AccountIds
  BY <1>1, ReadyFacts DEF Inv, ReadyAt, Acct
<1> QED
  BY <1>1, <1>2, DeleteAccountStep, ReadStep DEF DeleteUser

(* What LinkEmail and LinkEmailToken read at once is what they change.     *)
LEMMA LinkBeginStep ==
  ASSUME Inv, NEW s \in Sessions, LinkEmail(s) \/ LinkEmailToken(s)
  PROVE  Safe
<1>1. pc[s] = "start" /\ Isolation[Op(s)] = "serializable"
  BY DEF LinkEmail, LinkEmailToken, Isolation, Handlers
<1>2. NothingWritten(s) /\ isolation[s] = "none"
  BY <1>1 DEF Inv, HandlersInvariant, SessionKeeps, Unopened, Quiet
<1> DEFINE a == LinkedAccount(s)
           email == EmailOfAccount(s, a)
           e == NewAddress(s)
<1>3. ASSUME LinkEmail(s)
      PROVE  Safe
  <2>1. CASE /\ Begin(s, Isolation[Op(s)])
             /\ Keep(s, [NoLocals EXCEPT !.acct = a],
                     IF email = None THEN "insertEmail" ELSE "loaded")
    <3>1. Moves(s) /\ pc'[s] \in {"insertEmail", "loaded"}
      BY <2>1, KeepMoves
    <3> QED
      BY <1>1, <2>1, <3>1, BeginStep DEF ReadyToReplace
  <2> QED
    BY <1>3, <2>1, ReplyStep DEF LinkEmail
<1>4. ASSUME LinkEmailToken(s)
      PROVE  Safe
  <2> DEFINE locals == [NoLocals EXCEPT !.acct = a, !.email = email]
             label == IF email = None THEN "insertEmail" ELSE "deleteEmail"
  <2>1. CASE /\ a # None /\ Arg(s) # None /\ ~LinkTokenRefused(s, e, a)
             /\ Begin(s, Isolation[Op(s)]) /\ Keep(s, locals, label)
    <3>1. Moves(s) /\ pc'[s] = label /\ local'[s] = locals
      BY <2>1, KeepMoves
    <3>2. locals.acct = a /\ locals.email = email
      BY DEF NoLocals
    <3>3. ASSUME pc'[s] = "deleteEmail"
          PROVE  /\ email = e
                 /\ EmailOf(emails[e], a) /\ ~emails[e].confirmed
      <4>1. email # None /\ email = e
        BY <2>1, <3>1, <3>3 DEF LinkTokenRefused
      <4>2. e \in Addresses /\ EmailOf(SeenEmail(s, e), a)
        BY <4>1 DEF EmailOfAccount, TheOne
      <4>3. SeenEmail(s, e) = emails[e]
        BY <1>2, <4>2 DEF SeenEmail, NothingWritten
      <4> QED
        BY <2>1, <4>1, <4>2, <4>3 DEF LinkTokenRefused
    <3>4. /\ NothingWritten(s)' /\ emails' = emails
          /\ isolation'[s] = "serializable"
      BY <1>1, <1>2, <2>1 DEF Begin, NothingWritten, writes, tables, Inv, AccountsTypeOK, TypeOK
    <3>5. Confirms(s)' /\ NewAddress(s)' = e /\ Acct(s)' = a /\ local'[s].email = email
      BY <1>4, <3>1, <3>2 DEF LinkEmailToken, Moves, Confirms, Op, NewAddress, Arg, Acct
    <3>6. ReadyToReplace(s)'
      BY <3>3, <3>4, <3>5 DEF ReadyToReplace, EmailOf
    <3>7. pc'[s] \in {"insertEmail", "deleteEmail"}
      BY <3>1
    <3> QED
      BY <1>1, <2>1, <3>1, <3>6, <3>7, BeginStep
  <2> QED
    BY <1>4, <2>1, ReplyStep DEF LinkEmailToken
<1> QED
  BY <1>3, <1>4

LEMMA LinkStep ==
  ASSUME Inv, NEW s \in Sessions,
         \/ DeleteUnconfirmed(s) \/ InsertLinkedEmail(s)
         \/ LinkWalletToken(s) \/ Touch(s)
  PROVE  Safe
<1>1. pc[s] # "idle"
  BY DEF DeleteUnconfirmed, InsertLinkedEmail, LinkWalletToken, Touch
<1>2. ReadyAt(pc[s], ask[s], local[s]) /\ Arg(s) \in ArgumentsOf(Op(s))
  BY <1>1, ReadyFacts DEF Inv
<1>3. Acct(s) \in AccountIds
  BY <1>2 DEF ReadyAt, Acct, DeleteUnconfirmed, InsertLinkedEmail, LinkWalletToken, Touch
<1>4. ASSUME DeleteUnconfirmed(s)
      PROVE  Safe
  <2>1. CASE DeleteEmail(s, local[s].email) /\ Continue(s, "insertEmail")
    <3>1. local[s].email \in Addresses /\ pc[s] = "deleteEmail"
      BY <1>2, <1>4 DEF DeleteUnconfirmed, ReadyAt
    <3>2. Moves(s) /\ pc'[s] = "insertEmail" /\ local' = local
      BY <2>1, ContinueMoves
    <3> QED
      BY <2>1, <3>1, <3>2, DeleteEmailStep
  <2> QED
    BY <1>4, <2>1, ReplyStep DEF DeleteUnconfirmed
<1>5. ASSUME InsertLinkedEmail(s)
      PROVE  Safe
  <2>1. Op(s) \in {"LinkEmail", "LinkEmailToken"} /\ Arg(s) # None
    BY <1>2, <1>5 DEF InsertLinkedEmail, ReadyAt, Op, Arg
  <2>2. Arg(s) \in Addresses
    BY <1>2, <2>1 DEF ArgumentsOf
  <2>3. /\ NewAddress(s) \in Addresses /\ Normalize[NewAddress(s)] = NewAddress(s)
        /\ Confirms(s) \in BOOLEAN
    BY <2>2, AccountsAssumption DEF NewAddress, Confirms
  <2>4. CASE /\ InsertEmail(s, NewAddress(s), Acct(s), Confirms(s))
             /\ Continue(s, "touch")
    <3>1. Moves(s) /\ pc'[s] = "touch" /\ local' = local
      BY <2>4, ContinueMoves
    <3>2. pc[s] = "insertEmail"
      BY <1>5 DEF InsertLinkedEmail
    <3> QED
      BY <1>3, <2>3, <2>4, <3>1, <3>2, InsertEmailStep
  <2> QED
    BY <1>5, <2>4, ReplyStep DEF InsertLinkedEmail
<1>6. ASSUME LinkWalletToken(s)
      PROVE  Safe
  <2>1. CASE /\ Arg(s) # None /\ InsertWallet(s, Arg(s), Acct(s))
             /\ Continue(s, "touch")
    <3>1. Moves(s) /\ pc'[s] = "touch" /\ pc[s] = "loaded"
      BY <1>6, <2>1, ContinueMoves DEF LinkWalletToken
    <3>2. Arg(s) \in Wallets
      BY <1>2, <1>6, <2>1 DEF LinkWalletToken, ArgumentsOf
    <3> QED
      BY <1>3, <2>1, <3>1, <3>2, InsertWalletStep
  <2> QED
    BY <1>6, <2>1, ReplyStep DEF LinkWalletToken
<1>7. ASSUME Touch(s)
      PROVE  Safe
  <2>1. CASE /\ SeenAccount(s, Acct(s)) # None
             /\ UpdateAccount(s, Acct(s), SeenAccount(s, Acct(s)))
             /\ Continue(s, "commit")
    <3>1. Moves(s) /\ pc'[s] = "commit" /\ pc[s] = "touch"
      BY <1>7, <2>1, ContinueMoves DEF Touch
    <3>2. SeenAccount(s, Acct(s)) \in AccountRow
      BY <1>3, <2>1, SeenType DEF Inv, AccountsTypeOK
    <3>3. Extends(SeenAccount(s, Acct(s)), SeenAccount(s, Acct(s)))
      BY DEF Extends
    <3> QED
      BY <1>3, <2>1, <3>1, <3>2, <3>3, UpdateStep
  <2> QED
    BY <1>7, <2>1, ReplyStep DEF Touch
<1> QED
  BY <1>4, <1>5, <1>6, <1>7

LEMMA ReferralStep ==
  ASSUME Inv, NEW s \in Sessions,
         FindReferrer(s) \/ CheckReferrer(s) \/ Refer(s)
  PROVE  Safe
<1>1. ASSUME FindReferrer(s) \/ CheckReferrer(s)
      PROVE  Safe
  <2>1. CASE UNCHANGED storeVars /\ Moves(s) /\ pc'[s] \in {"checkReferrer", "refer"}
    BY <1>1, <2>1, ReadStep DEF FindReferrer, CheckReferrer
  <2> QED
    BY <1>1, <2>1, ReplyStep, KeepMoves, ContinueMoves DEF FindReferrer, CheckReferrer
<1>2. ASSUME Refer(s)
      PROVE  Safe
  <2>1. /\ pc[s] = "refer" /\ Acct(s) \in AccountIds
        /\ local[s].referrer \in AccountIds
    BY <1>2, ReadyFacts DEF Inv, Refer, ReadyAt, Acct
  <2>2. CASE /\ SeenAccount(s, Acct(s)) # None
             /\ UpdateAccount(s, Acct(s), ReferralColumns(s))
             /\ Continue(s, "commit")
    <3>1. Moves(s) /\ pc'[s] = "commit"
      BY <2>2, ContinueMoves
    <3>2. SeenAccount(s, Acct(s)) \in AccountRow
      BY <2>1, <2>2, SeenType DEF Inv, AccountsTypeOK
    <3>3. ReferralColumns(s) \in AccountRow
      BY <2>1, <3>2 DEF ReferralColumns, AccountRow
    <3>4. Extends(ReferralColumns(s), SeenAccount(s, Acct(s)))
      BY <3>2 DEF ReferralColumns, AccountRow, Extends
    <3> QED
      BY <2>1, <2>2, <3>1, <3>3, <3>4, UpdateStep
  <2>3. CASE Continue(s, "commit") /\ UNCHANGED storeVars
    <3>1. Moves(s) /\ pc'[s] = "commit"
      BY <2>3, ContinueMoves
    <3> QED
      BY <2>1, <2>3, <3>1, ReadStep
  <2> QED
    BY <1>2, <2>2, <2>3, ReplyStep DEF Refer
<1> QED
  BY <1>1, <1>2

LEMMA EndStep ==
  ASSUME Inv, NEW s \in Sessions,
         CommitRequest(s) \/ CommitUnanswered(s) \/ Tell(s)
  PROVE  Safe
<1>1. ASSUME CommitRequest(s) \/ CommitUnanswered(s)
      PROVE  Safe
  <2>1. pc[s] = "commit" /\ Commit(s)
    BY <1>1 DEF CommitRequest, CommitUnanswered
  <2>2. Moves(s) /\ pc'[s] \in {"findLink", "tell", "done"}
    BY <1>1, ContinueMoves, FinishMoves DEF CommitRequest, CommitUnanswered
  <2> QED
    BY <2>1, <2>2, CommitStep
<1>2. ASSUME Tell(s)
      PROVE  Safe
  <2>1. UNCHANGED storeVars
    BY <1>2 DEF Tell
  <2>2. CASE pc[s] = "tell" /\ Finish({s}, "ok")
    <3>1. Moves(s) /\ pc'[s] = "done" /\ Quiet(s)
      BY <2>2, FinishMoves DEF Quiet
    <3> QED
      BY <2>1, <2>2, <3>1, ReadStep
  <2>3. CASE /\ pc[s] = "tellBeforeCommit" /\ Goto(s, "commit")
             /\ UNCHANGED <<ask, local, answer, scenario>>
    <3>1. Moves(s) /\ pc'[s] = "commit"
      BY <2>3 DEF Goto, Moves, Rests, Inv, AccountsTypeOK, HandlersReady
    <3> QED
      BY <2>1, <2>3, <3>1, ReadStep
  <2> QED
    BY <1>2, <2>2, <2>3 DEF Tell
<1> QED
  BY <1>1, <1>2

----------------------------------------------------------------------------
(* What the handlers do not control.                                       *)

(* A slot that is free has left nothing behind for the next request.       *)
LEMMA ArriveStep ==
  ASSUME Inv, NEW s \in Sessions, NEW r \in Requests, Arrive(s, r)
  PROVE  Safe
<1>1. /\ pc'[s] = "start" /\ UNCHANGED storeVars
      /\ \A t \in Sessions \ {s} : Rests(t)
  BY DEF Arrive, Goto, Rests, Inv, AccountsTypeOK, HandlersReady
<1>2. \A t \in Sessions : SessionKeeps(t)
  BY DEF Inv, HandlersInvariant
<1>3. SessionKeeps(s)'
  <2>1. isolation[s] = "none" /\ NothingWritten(s)
    BY <1>2 DEF Arrive, Idle, SessionKeeps, Unopened, Quiet
  <2>2. isolation'[s] = "none" /\ NothingWritten(s)'
    BY <1>1, <2>1 DEF storeVars, NothingWritten
  <2> QED
    BY <1>1, <2>2, NothingToKeep
<1>4. ASSUME NEW t \in Sessions, t # s
      PROVE  SessionKeeps(t)'
  BY <1>1, <1>2, <1>4, RestKeeps DEF storeVars, SameWrites
<1> QED
  BY <1>1, <1>3, <1>4, TablesRest DEF storeVars

LEMMA NextKeeps ==
  ASSUME Inv, [Next]_vars
  PROVE  Safe
<1>1. ASSUME NEW s \in Sessions, Step(s)
      PROVE  Safe
  BY <1>1, LookupStep, CreateStep, ProfileStep, DeleteStep, LinkBeginStep, LinkStep,
     ReferralStep, EndStep DEF Step
<1>2. ASSUME NEW s \in Sessions,
             \/ \E r \in Requests : Arrive(s, r)
             \/ StatementFails(s) \/ CommitUnanswered(s)
      PROVE  Safe
  BY <1>2, ArriveStep, ReplyStep, EndStep DEF StatementFails
<1>3. ASSUME ReplicaDies
      PROVE  Safe
  BY <1>3, DieStep DEF ReplicaDies
<1>4. ASSUME UNCHANGED vars
      PROVE  Safe
  <2>1. \A t \in Sessions : Rests(t) /\ SameWrites(t)
    BY <1>4 DEF vars, handlerVars, storeVars, Rests, SameWrites
  <2>2. \A t \in Sessions : SessionKeeps(t)'
    BY <1>4, <2>1, RestKeeps DEF vars, storeVars, Inv, HandlersInvariant
  <2> QED
    BY <1>4, <2>2, TablesRest DEF vars, storeVars
<1> QED
  BY <1>1, <1>2, <1>3, <1>4 DEF Next

LEMMA InitiallyKept == Init => HandlersInvariant
<1> SUFFICES ASSUME Init
             PROVE  HandlersInvariant
  OBVIOUS
<1>1. /\ \A a \in AccountIds : accounts[a] = None
      /\ \A e \in Addresses : emails[e] = None
      /\ \A s \in Sessions :
           isolation[s] = "none" /\ pc[s] = "idle" /\ NothingWritten(s)
  BY DEF Init, StoreInit, NothingWritten
<1>2. \A s \in Sessions : SessionKeeps(s)
  BY <1>1 DEF NothingWritten, SessionKeeps, Unopened, ReadyToReplace, KeepsEmails,
     KeepsWallets, LinksNewAccounts, ExtendsRows, Spelled
<1> QED
  BY <1>1, <1>2 DEF HandlersInvariant, EveryAccountReachable, Live, Spelled

----------------------------------------------------------------------------
(* The locks of the database hold of the service.                          *)
LEMMA ServiceSessionsApart == Spec => []SessionsApart
<1>1. StoreInvariant => SessionsApart
  BY DEF StoreInvariant
<1> QED
  BY <1>1, ServiceImplementsStore, StoreInvariantHolds, PTL

(* What every transaction of a handler has written so far takes nothing    *)
(* from an account that stays, and leaves none that cannot be reached.     *)
THEOREM HandlersInvariantHolds == Spec => []HandlersInvariant
<1>1. AccountsTypeOK /\ SessionsApart /\ HandlersInvariant /\ [Next]_vars
        => HandlersInvariant'
  BY NextKeeps DEF Inv, Safe
<1> QED
  BY <1>1, InitiallyKept, AccountsTyped, ServiceSessionsApart, PTL DEF Spec

(* No request ends, whether it is answered, fails or dies with its process,*)
(* and leaves a transaction open or a row locked behind it.                *)
THEOREM NothingLeaks == Spec => []NoLeakedTransactions
<1>1. HandlersInvariant => NoLeakedTransactions
  BY DEF HandlersInvariant, SessionKeeps, Unopened, Quiet, NoLeakedTransactions, Idle
<1> QED
  BY <1>1, HandlersInvariantHolds, PTL

(* Two spellings of one mailbox never belong to two accounts, as every     *)
(* handler normalises the address before it inserts it.                    *)
THEOREM MailboxesHaveOneAccount == Spec => []OneAccountPerMailbox
<1>1. AccountsTypeOK /\ HandlersInvariant => OneAccountPerMailbox
  <2> SUFFICES ASSUME AccountsTypeOK, HandlersInvariant,
                      NEW e \in Addresses, NEW f \in Addresses,
                      emails[e] # None, emails[f] # None, Normalize[e] = Normalize[f]
               PROVE  e = f
    BY DEF OneAccountPerMailbox
  <2>1. emails[e] \in EmailRow /\ emails[f] \in EmailRow
    BY DEF AccountsTypeOK, TypeOK
  <2>2. emails[e] # Kept /\ emails[f] # Kept
    BY <2>1, NullsAreNotValues
  <2>3. Normalize[e] = e /\ Normalize[f] = f
    BY <2>2 DEF HandlersInvariant, Spelled
  <2> QED
    BY <2>3
<1> QED
  BY <1>1, AccountsTyped, HandlersInvariantHolds, PTL

(* Every committed account has an email or a wallet by which its owner     *)
(* signs in, after any interleaving of creations, links and deletions.     *)
THEOREM AccountsStayReachable == Spec => []EveryAccountReachable
<1>1. HandlersInvariant => EveryAccountReachable
  BY DEF HandlersInvariant
<1> QED
  BY <1>1, HandlersInvariantHolds, PTL

(* No request takes a linked email or wallet from an account that lives on,*)
(* or makes a confirmed email unconfirmed.                                 *)
THEOREM LinksAreSticky == Spec => LinksSticky
<1>1. AccountsTypeOK /\ SessionsApart /\ HandlersInvariant /\ [Next]_vars => LinksAreKept
  BY NextKeeps DEF Inv, Safe
<1> QED
  BY <1>1, AccountsTyped, ServiceSessionsApart, HandlersInvariantHolds, PTL
     DEF Spec, LinksSticky

(* No request takes back what another one has set in an account's row,     *)
(* although each writes a row that it made from one read earlier.          *)
THEOREM UpdatesAreNotWithdrawn == Spec => NothingWithdrawn
<1>1. AccountsTypeOK /\ SessionsApart /\ HandlersInvariant /\ [Next]_vars => UpdatesAreKept
  BY NextKeeps DEF Inv, Safe
<1> QED
  BY <1>1, AccountsTyped, ServiceSessionsApart, HandlersInvariantHolds, PTL
     DEF Spec, NothingWithdrawn

----------------------------------------------------------------------------
(* 4. Answers hold: AnswersInvariant is inductive.  It rests on the third  *)
(* part, which shows that a committed fact about an account stays true while*)
(* the account lives, and on the ids of accounts, which do not come back.  *)

Base == AccountsTypeOK /\ StoreInvariant /\ HandlersInvariant /\ AnswersInvariant

(* What every step keeps of an account that has been committed.            *)
AccountsAreKept ==
  /\ LinksAreKept /\ UpdatesAreKept
  /\ issued \subseteq issued'
  /\ \A a \in issued : Live(a)' => Live(a)

(* Only session s has moved or written.                                    *)
Turn(s) ==
  \A t \in Sessions \ {s} : Rests(t) /\ SameWrites(t) /\ answer'[t] = answer[t]

(* A referral that a step writes is an old one, or between owners.         *)
WritesReferrals ==
  \A t \in Sessions, a, b \in AccountIds :
    ReferredBy(accountWrites'[t][a], b) =>
      \/ ReferredBy(accountWrites[t][a], b)
      \/ ReferredBy(accounts[a], b)
      \/ BetweenOwners(a, b)

----------------------------------------------------------------------------
(* Ids do not come back.                                                   *)

LEMMA IdsStayFresh ==
  ASSUME TypeOK, SessionsApart, IdsAreFresh, [StoreNext]_storeVars
  PROVE  /\ IdsAreFresh' /\ issued \subseteq issued'
         /\ \A a \in issued : Live(a)' => Live(a)
<1> DEFINE Goal == /\ IdsAreFresh' /\ issued \subseteq issued'
                   /\ \A a \in issued : Live(a)' => Live(a)
<1>1. ASSUME UNCHANGED <<accounts, issued>>,
             \A t \in Sessions, a \in AccountIds :
               accountWrites'[t][a] \notin {None, Kept} =>
                 Live(a) \/ a \notin issued
      PROVE  Goal
  BY <1>1 DEF IdsAreFresh, Live
<1>2. ASSUME UNCHANGED <<accounts, issued>>,
             \A t \in Sessions, a \in AccountIds :
               \/ accountWrites'[t][a] \in {accountWrites[t][a], Kept, None}
               \/ SeenAccount(t, a) # None
      PROVE  Goal
  <2>1. \A t \in Sessions, a \in AccountIds :
          accountWrites[t][a] \notin {None, Kept} \/ SeenAccount(t, a) # None =>
            Live(a) \/ a \notin issued
    BY DEF IdsAreFresh, SeenAccount, Live
  <2> QED
    BY <1>1, <1>2, <2>1
<1>3. CASE UNCHANGED storeVars
  BY <1>2, <1>3 DEF storeVars
<1>4. ASSUME NEW S \in SUBSET Sessions, Rollback(S)
      PROVE  Goal
  BY <1>2, <1>4 DEF Rollback, Forget, tables
<1>5. ASSUME NEW s \in Sessions, SessionStep(s)
      PROVE  Goal
  <2>1. ASSUME NEW level, Begin(s, level)
        PROVE  Goal
    BY <1>2, <2>1 DEF Begin, tables, writes
  <2>2. ASSUME Commit(s)
        PROVE  Goal
    <3>1. /\ \A a \in AccountIds : accounts'[a] = SeenAccount(s, a)
          /\ issued' = issued \cup {a \in AccountIds : accountWrites[s][a] \notin {None, Kept}}
          /\ \A a \in AccountIds : accountWrites'[s][a] = Kept
          /\ \A t \in Sessions \ {s} : accountWrites'[t] = accountWrites[t]
      BY <2>2 DEF Commit, SeenAccounts, Forget
    <3>2. \A t \in Sessions \ {s} : RowsApart(s, t)
      BY DEF SessionsApart, Apart
    <3>3. IdsAreFresh'
      BY <3>1, <3>2 DEF IdsAreFresh, RowsApart, SeenAccount, Live
    <3>4. \A a \in issued : Live(a)' => Live(a)
      BY <3>1 DEF IdsAreFresh, SeenAccount, Live, TypeOK
    <3> QED
      BY <3>1, <3>3, <3>4
  <2>3. ASSUME NEW a \in AccountIds, NEW c, InsertAccount(s, a, c)
        PROVE  Goal
    <3>1. \A t \in Sessions, b \in AccountIds :
            t # s \/ b # a => accountWrites'[t][b] = accountWrites[t][b]
      BY <2>3 DEF InsertAccount, TypeOK
    <3>2. UNCHANGED <<accounts, issued>> /\ a \notin issued
      BY <2>3 DEF InsertAccount, FreshId, tables
    <3> QED
      BY <1>1, <3>1, <3>2 DEF IdsAreFresh
  <2>4. ASSUME accountWrites' = accountWrites, UNCHANGED <<accounts, issued>>
        PROVE  Goal
    BY <1>2, <2>4
  <2>5. ASSUME NEW a \in AccountIds, NEW row, UpdateAccount(s, a, row)
        PROVE  Goal
    <3>1. \A t \in Sessions, b \in AccountIds :
            t # s \/ b # a => accountWrites'[t][b] = accountWrites[t][b]
      BY <2>5 DEF UpdateAccount, TypeOK
    <3>2. UNCHANGED <<accounts, issued>> /\ SeenAccount(s, a) # None
      BY <2>5 DEF UpdateAccount, tables
    <3> QED
      BY <1>2, <3>1, <3>2
  <2>6. ASSUME NEW a \in AccountIds, NEW row \in AccountRow, UpdateAccountNow(s, a, row)
        PROVE  Goal
    <3>1. \A b \in AccountIds : Live(b)' <=> Live(b)
      BY <2>6, NullsAreNotValues DEF UpdateAccountNow, Live, TypeOK
    <3>2. UNCHANGED <<issued, accountWrites>>
      BY <2>6 DEF UpdateAccountNow, writes
    <3> QED
      BY <3>1, <3>2 DEF IdsAreFresh, TypeOK
  <2>7. ASSUME NEW a \in AccountIds, DeleteAccount(s, a)
        PROVE  Goal
    <3>1. \A t \in Sessions \ {s} : accountWrites'[t] = accountWrites[t]
      BY <2>7 DEF DeleteAccount, TypeOK
    <3>2. \A b \in AccountIds :
            \/ accountWrites'[s][b] \in {accountWrites[s][b], None}
            \/ SeenAccount(s, b) # None
      BY <2>7 DEF DeleteAccount, ReferredBy, TypeOK
    <3>3. UNCHANGED <<accounts, issued>>
      BY <2>7 DEF DeleteAccount, tables
    <3> QED
      BY <1>2, <3>1, <3>2, <3>3
  <2>8. ASSUME NEW e, NEW w, NEW a, NEW confirmed,
               \/ InsertEmail(s, e, a, confirmed) \/ InsertWallet(s, w, a)
               \/ DeleteEmail(s, e)
        PROVE  Goal
    BY <2>4, <2>8 DEF InsertEmail, InsertWallet, DeleteEmail, tables
  <2> HIDE DEF Goal
  <2> QED
    BY <1>5, <2>1, <2>2, <2>3, <2>5, <2>6, <2>7, <2>8 DEF SessionStep
<1> QED
  BY <1>3, <1>4, <1>5 DEF StoreNext

LEMMA StepKeepsAccounts ==
  ASSUME Base, [Next]_vars
  PROVE  AccountsAreKept /\ IdsAreFresh'
<1>1. Inv
  BY DEF Base, Inv, StoreInvariant
<1>2. LinksAreKept /\ UpdatesAreKept
  BY <1>1, NextKeeps DEF Safe
<1>3. [StoreNext]_storeVars
  BY StepTyped DEF Base
<1> QED
  BY <1>1, <1>2, <1>3, IdsStayFresh
     DEF Base, Inv, AccountsTypeOK, AnswersInvariant, AccountsAreKept

----------------------------------------------------------------------------
(* What a session that does not move remembers.                            *)

(* The effect of a request is not undone while the account lives.          *)
LEMMA EffectStays ==
  ASSUME Base, AccountsAreKept, NEW t \in Sessions, pc[t] # "idle",
         ask'[t] = ask[t], local'[t].acct = local[t].acct,
         HasDone(t), pc[t] = "tell" \/ answer[t] = "ok"
  PROVE  Acct(t)' \in issued' /\ (Live(Acct(t))' => Effect(t)')
<1>1. /\ Op(t) \in Handlers /\ Cred(t) \in Addresses \cup Wallets
      /\ Arg(t) \in ArgumentsOf(Op(t))
  BY ReadyFacts DEF Base
<1>2. /\ Op(t)' = Op(t) /\ Arg(t)' = Arg(t) /\ Cred(t)' = Cred(t)
      /\ Acct(t)' = Acct(t) /\ NewAddress(t)' = NewAddress(t)
  BY DEF Op, Arg, Cred, Acct, NewAddress
<1>3. /\ Acct(t) \in issued /\ Acct(t) \in issued' /\ Acct(t) \in AccountIds
      /\ Live(Acct(t)) => Effect(t)
      /\ Op(t) \in {"LinkEmail", "LinkEmailToken", "LinkWalletToken"} => Arg(t) # None
  BY DEF HasDone, AccountsAreKept, Base, AccountsTypeOK, TypeOK
<1>4. ASSUME Live(Acct(t))'
      PROVE  Effect(t)'
  <2>1. Live(Acct(t)) /\ Effect(t)
    BY <1>2, <1>3, <1>4 DEF AccountsAreKept, Live
  <2>2. Extends(accounts'[Acct(t)], accounts[Acct(t)])
    BY <1>2, <1>3, <1>4, <2>1 DEF AccountsAreKept, UpdatesAreKept, Live
  <2>3. /\ \A e \in Addresses : EmailOf(emails[e], Acct(t)) =>
             /\ EmailOf(emails'[e], Acct(t))
             /\ emails[e].confirmed => emails'[e].confirmed
        /\ \A w \in Wallets : wallets[w] = Acct(t) => wallets'[w] = Acct(t)
    BY <1>2, <1>3, <1>4, <2>1 DEF AccountsAreKept, LinksAreKept, Live
  <2>4. \A e \in Addresses : Normalize[e] \in Addresses
    BY AccountsAssumption
  <2>5. CASE Op(t) = "CreateAccount"
    BY <1>1, <1>2, <2>1, <2>3, <2>4, <2>5 DEF Effect, EmailOf
  <2>6. CASE Op(t) \in {"AcceptTOS", "UpdateUser", "SubmitReferralCode"}
    BY <1>2, <2>1, <2>2, <2>6 DEF Effect, Extends
  <2>7. CASE Op(t) \in {"LinkEmail", "LinkEmailToken"}
    <3>1. Arg(t) \in Addresses
      BY <1>1, <1>3, <2>7 DEF ArgumentsOf
    <3>2. NewAddress(t) \in Addresses
      BY <2>4, <3>1 DEF NewAddress
    <3> QED
      BY <1>2, <2>1, <2>3, <2>7, <3>2 DEF Effect, EmailOf
  <2>8. CASE Op(t) = "LinkWalletToken"
    <3>1. Arg(t) \in Wallets
      BY <1>1, <1>3, <2>8 DEF ArgumentsOf
    <3> QED
      BY <1>2, <2>1, <2>3, <2>8, <3>1 DEF Effect
  <2>9. CASE Op(t) \in {"DeleteUser", "GetUserAccount"}
    BY <1>2, <2>1, <2>9 DEF Effect
  <2> QED
    BY <1>1, <2>5, <2>6, <2>7, <2>8, <2>9 DEF Handlers
<1> QED
  BY <1>2, <1>3, <1>4

LEMMA RestRemembers ==
  ASSUME Base, AccountsAreKept, NEW t \in Sessions,
         Rests(t), SameWrites(t), answer'[t] = answer[t]
  PROVE  SessionRemembers(t)'
<1>1. SessionRemembers(t)
  BY DEF Base, AnswersInvariant
<1>2. /\ Op(t)' = Op(t) /\ Arg(t)' = Arg(t) /\ Cred(t)' = Cred(t) /\ Acct(t)' = Acct(t)
      /\ NewAddress(t)' = NewAddress(t) /\ Confirms(t)' = Confirms(t)
      /\ HasFound(t)' = HasFound(t)
  BY DEF Rests, Op, Arg, Cred, Acct, NewAddress, Confirms, HasFound
<1>3. \A a \in issued : /\ a \in AccountIds /\ a \in issued'
                        /\ Live(a)' => Live(a)
  BY DEF AccountsAreKept, Base, AccountsTypeOK, TypeOK
<1>4. OnlyReads(t)' /\ AnswersLast(t)'
  BY <1>1 DEF SessionRemembers, OnlyReads, AnswersLast, NothingWritten, SameWrites, Rests
<1>5. HasFound(t) => Acct(t) \in issued /\ Acct(t) \in AccountIds
  BY <1>1, <1>3 DEF SessionRemembers, RemembersToken
<1>6. RemembersToken(t)'
  <2>1. SUFFICES ASSUME HasFound(t), Live(Acct(t))'
                 PROVE  Linked(Cred(t), Acct(t))'
    BY <1>2, <1>3, <1>5 DEF RemembersToken
  <2>2. Live(Acct(t)) /\ Linked(Cred(t), Acct(t))
    BY <1>1, <1>2, <1>3, <1>5, <2>1 DEF SessionRemembers, RemembersToken, Live
  <2>3. Cred(t) \in Addresses \cup Wallets
    <3>1. pc[t] # "idle"
      BY <2>1 DEF HasFound
    <3> QED
      BY <3>1, ReadyFacts DEF Base
  <2>4. \A e \in Addresses : Normalize[e] \in Addresses
    BY AccountsAssumption
  <2> QED
    BY <1>2, <1>5, <2>1, <2>2, <2>3, <2>4
       DEF AccountsAreKept, LinksAreKept, Linked, Live, EmailOf
<1>7. RemembersRow(t)'
  <2>1. SUFFICES ASSUME pc[t] \in {"loadPeer", "loaded"}, Live(Acct(t))',
                        Op(t) \in {"UpdateUser", "AcceptTOS"}
                 PROVE  Extends(accounts'[Acct(t)], local[t].row)
    BY <1>2 DEF RemembersRow, Rests, Extends
  <2>2. Acct(t) \in AccountIds /\ Live(Acct(t)) /\ accounts'[Acct(t)] # None
    BY <1>2, <1>3, <1>5, <2>1 DEF HasFound, Live
  <2>3. Extends(accounts'[Acct(t)], accounts[Acct(t)])
    BY <2>2 DEF AccountsAreKept, UpdatesAreKept, Live
  <2>4. Extends(accounts[Acct(t)], local[t].row)
    BY <1>1, <2>1, <2>2 DEF SessionRemembers, RemembersRow
  <2> QED
    BY <2>3, <2>4 DEF Extends
<1>8. RemembersWallet(t)'
  <2>1. SUFFICES ASSUME pc[t] \in {"loadAccount", "loadPeer", "loaded", "checkReferrer", "refer"},
                        local[t].wallet # None, Live(Acct(t))'
                 PROVE  wallets'[local[t].wallet] = Acct(t)
    BY <1>2 DEF RemembersWallet, Rests
  <2>2. /\ Acct(t) \in AccountIds /\ Live(Acct(t)) /\ accounts'[Acct(t)] # None
        /\ wallets[local[t].wallet] = Acct(t)
    BY <1>1, <1>2, <1>3, <1>5, <2>1 DEF HasFound, Live, SessionRemembers, RemembersWallet
  <2>3. local[t].wallet \in Wallets
    BY <2>1, ReadyFacts DEF Base, Locals
  <2> QED
    BY <2>2, <2>3 DEF AccountsAreKept, LinksAreKept, Live
<1>9. RemembersEmail(t)'
  <2>1. SUFFICES ASSUME pc[t] = "loaded", Op(t) = "LinkEmail", Live(Acct(t))'
                 PROVE  EmailOf(emails'[NewAddress(t)], Acct(t))
    BY <1>1, <1>2 DEF SessionRemembers, RemembersEmail, Rests, EmailOf
  <2>2. /\ Acct(t) \in AccountIds /\ Live(Acct(t)) /\ accounts'[Acct(t)] # None
        /\ EmailOf(emails[NewAddress(t)], Acct(t))
    BY <1>1, <1>2, <1>3, <1>5, <2>1 DEF HasFound, Live, SessionRemembers, RemembersEmail
  <2>3. NewAddress(t) \in Addresses
    BY <2>1, ReadyFacts, AccountsAssumption DEF Base, ArgumentsOf, NewAddress
  <2> QED
    BY <2>2, <2>3 DEF AccountsAreKept, LinksAreKept, Live
<1>10. RemembersReferrer(t)'
  <2> DEFINE b == local[t].referrer
  <2>1. SUFFICES ASSUME pc[t] = "refer", Live(b)'
                 PROVE  HasWallet(b)'
    BY <1>1, <1>2, <1>3 DEF SessionRemembers, RemembersReferrer, Rests, Live, HasWallet
  <2>2. b \in issued /\ (Live(b) => HasWallet(b))
    BY <1>1, <2>1 DEF SessionRemembers, RemembersReferrer
  <2>3. b \in AccountIds /\ Live(b) /\ accounts'[b] # None /\ local'[t] = local[t]
    BY <1>3, <2>1, <2>2 DEF Live, Rests
  <2> QED
    BY <2>2, <2>3 DEF AccountsAreKept, LinksAreKept, Live, HasWallet
<1>11. HasPrepared(t)'
  <2>1. pc[t] = "commit" /\ Op(t) # "CreateAccount" => (Live(Acct(t))' => Live(Acct(t)))
    BY <1>2, <1>3, <1>5 DEF HasFound, Live
  <2> QED
    BY <1>1, <1>2, <2>1 DEF SessionRemembers, HasPrepared, Rests, SameWrites, EmailOf,
       Live, Deletes
<1>12. HasDone(t)'
  <2>1. SUFFICES ASSUME pc[t] = "tell" \/ answer[t] = "ok"
                 PROVE  /\ Acct(t)' \in issued' /\ (Live(Acct(t))' => Effect(t)')
                        /\ Op(t) \in {"LinkEmail", "LinkEmailToken", "LinkWalletToken"} =>
                             Arg(t) # None
    BY <1>2 DEF HasDone, Rests
  <2>2. pc[t] # "idle" /\ HasDone(t)
    BY <1>1, <2>1 DEF SessionRemembers, AnswersLast
  <2> QED
    BY <2>1, <2>2, EffectStays DEF Rests, HasDone
<1> QED
  BY <1>4, <1>6, <1>7, <1>8, <1>9, <1>10, <1>11, <1>12 DEF SessionRemembers

----------------------------------------------------------------------------
(* Referrals stay between owners of wallets.                               *)

LEMMA CommittedReferral ==
  ASSUME Base, NEW a \in AccountIds, NEW b \in AccountIds, ReferredBy(accounts[a], b)
  PROVE  BetweenOwners(a, b)
<1>1. accounts[a] # None /\ accounts[a].referredBy = b /\ b # None
  BY NullsAreNotValues DEF ReferredBy
<1>2. a # b /\ HasWallet(a) /\ HasWallet(b)
  BY <1>1 DEF Base, AnswersInvariant, ReferralPartiesHaveWallets, Live
<1>3. accounts[b] # None
  BY <1>1 DEF Base, StoreInvariant, TablesConsistent, Consistent, ReferrersExist
<1> QED
  BY <1>1, <1>2, <1>3 DEF BetweenOwners, Live

(* No account that a transaction relates goes before it ends.              *)
LEMMA ReferralsAreKept ==
  ASSUME Base, AccountsAreKept, [StoreNext]_storeVars, WritesReferrals
  PROVE  OwnersRefer' /\ ReferralPartiesHaveWallets'
<1> DEFINE Goal == OwnersRefer' /\ ReferralPartiesHaveWallets'
<1>1. \A t \in Sessions, a, b \in AccountIds :
        ReferredBy(accountWrites'[t][a], b) => BetweenOwners(a, b)
  BY CommittedReferral DEF WritesReferrals, Base, AnswersInvariant, OwnersRefer
<1>2. \A a, b \in AccountIds :
        BetweenOwners(a, b) /\ Live(a)' /\ Live(b)' => BetweenOwners(a, b)'
  BY DEF AccountsAreKept, LinksAreKept, BetweenOwners, HasWallet, Live
<1>3. TypeOK'
  BY StoreTypeStep DEF Base, AccountsTypeOK
<1>4. ASSUME \A a, b \in AccountIds : ReferredBy(accounts'[a], b) => BetweenOwners(a, b)'
      PROVE  ReferralPartiesHaveWallets'
  <2>1. SUFFICES ASSUME NEW a \in AccountIds, accounts'[a] # None,
                        accounts'[a].referredBy # None
                 PROVE  /\ accounts'[a].referredBy # a
                        /\ \E w \in Wallets : wallets'[w] = a
                        /\ \E w \in Wallets : wallets'[w] = accounts'[a].referredBy
    BY DEF ReferralPartiesHaveWallets, Live, HasWallet
  <2>2. accounts'[a].referredBy \in AccountIds
    BY <1>3, <2>1 DEF TypeOK, AccountRow
  <2>3. ReferredBy(accounts'[a], accounts'[a].referredBy)
    BY <1>3, <2>1, NullsAreNotValues DEF ReferredBy, TypeOK
  <2> QED
    BY <1>4, <2>2, <2>3 DEF BetweenOwners, HasWallet
<1>5. ASSUME \A a \in AccountIds : Live(a)' <=> Live(a),
             \A a, b \in AccountIds : ReferredBy(accounts'[a], b) => ReferredBy(accounts[a], b)
      PROVE  Goal
  <2>1. ReferralPartiesHaveWallets'
    <3>1. ASSUME NEW a \in AccountIds, NEW b \in AccountIds, ReferredBy(accounts'[a], b)
          PROVE  BetweenOwners(a, b)'
      <4>1. BetweenOwners(a, b)
        BY <1>5, <3>1, CommittedReferral
      <4>2. Live(a)' /\ Live(b)'
        BY <1>5, <4>1 DEF BetweenOwners
      <4> QED
        BY <1>2, <4>1, <4>2
    <3> QED
      BY <1>4, <3>1
  <2>2. OwnersRefer'
    <3> SUFFICES ASSUME NEW t \in Sessions, NEW a \in AccountIds, NEW b \in AccountIds,
                        ReferredBy(accountWrites'[t][a], b)
                 PROVE  BetweenOwners(a, b)'
      BY DEF OwnersRefer, ReferredBy, BetweenOwners, HasWallet, Live
    <3>1. BetweenOwners(a, b)
      BY <1>1
    <3>2. Live(a)' /\ Live(b)'
      BY <1>5, <3>1 DEF BetweenOwners
    <3> QED
      BY <1>2, <3>1, <3>2
  <2> QED
    BY <2>1, <2>2
<1>6. ASSUME accounts' = accounts
      PROVE  Goal
  <2>1. \A a \in AccountIds : Live(a)' <=> Live(a)
    BY <1>6 DEF Live
  <2> QED
    BY <1>5, <1>6, <2>1
<1>7. ASSUME NEW s \in Sessions, NEW a \in AccountIds, NEW row \in AccountRow,
             UpdateAccountNow(s, a, row)
      PROVE  Goal
  <2>1. /\ accounts' = [accounts EXCEPT ![a] = row] /\ accounts[a] # None
        /\ row.referredBy = accounts[a].referredBy
    BY <1>7 DEF UpdateAccountNow
  <2>2. \A b \in AccountIds : Live(b)' <=> Live(b)
    BY <2>1, NullsAreNotValues DEF Live, Base, AccountsTypeOK, TypeOK
  <2>3. \A x, b \in AccountIds : ReferredBy(accounts'[x], b) => ReferredBy(accounts[x], b)
    BY <2>1, NullsAreNotValues DEF ReferredBy, Base, AccountsTypeOK, TypeOK
  <2> QED
    BY <1>5, <2>2, <2>3
<1>8. ASSUME NEW s \in Sessions, Commit(s)
      PROVE  Goal
  <2>1. /\ \A a \in AccountIds : accounts'[a] = SeenAccount(s, a)
        /\ \A a \in AccountIds : accountWrites'[s][a] = Kept
        /\ \A t \in Sessions \ {s} : accountWrites'[t] = accountWrites[t]
    BY <1>8 DEF Commit, SeenAccounts, Forget
  <2>2. ReferrersExist(accounts')
    <3>1. ReferrersExist(SeenAccounts(s))
      BY DEF Base, StoreInvariant, SessionsConsistent, Consistent
    <3> QED
      BY <1>8, <3>1 DEF Commit
  <2>3. ReferralPartiesHaveWallets'
    <3>1. ASSUME NEW a \in AccountIds, NEW b \in AccountIds, ReferredBy(accounts'[a], b)
          PROVE  BetweenOwners(a, b)'
      <4>1. ReferredBy(accounts[a], b) \/ ReferredBy(accountWrites[s][a], b)
        BY <2>1, <3>1 DEF SeenAccount
      <4>2. BetweenOwners(a, b)
        BY <4>1, CommittedReferral DEF Base, AnswersInvariant, OwnersRefer
      <4>3. accounts'[a] # None /\ accounts'[b] # None
        BY <2>2, <3>1, NullsAreNotValues DEF ReferrersExist, ReferredBy
      <4>4. Live(a)' /\ Live(b)'
        BY <4>3 DEF Live
      <4> QED
        BY <1>2, <4>2, <4>4
    <3> QED
      BY <1>4, <3>1
  <2>4. OwnersRefer'
    <3> SUFFICES ASSUME NEW t \in Sessions, NEW a \in AccountIds, NEW b \in AccountIds,
                        ReferredBy(accountWrites'[t][a], b)
                 PROVE  BetweenOwners(a, b)'
      BY DEF OwnersRefer, ReferredBy, BetweenOwners, HasWallet, Live
    <3>1. t # s /\ ReferredBy(accountWrites[t][a], b)
      BY <2>1 DEF ReferredBy
    <3>2. BetweenOwners(a, b)
      BY <1>1
    <3>3. accountWrites[s][a] = Kept /\ accountWrites[s][b] # None
      <4>1. Apart(s, t) /\ Apart(t, s)
        BY <3>1 DEF Base, StoreInvariant, SessionsApart
      <4>2. accountWrites[t][a] # Kept
        BY <3>1 DEF ReferredBy
      <4> QED
        BY <3>1, <4>1, <4>2 DEF Apart, RowsApart, ReferencesApart
    <3>4. Live(a)' /\ Live(b)'
      BY <2>1, <3>2, <3>3 DEF SeenAccount, BetweenOwners, Live
    <3> QED
      BY <1>2, <3>2, <3>4
  <2> QED
    BY <2>3, <2>4
<1>9. ASSUME NEW s \in Sessions, SessionStep(s)
      PROVE  Goal
  <2>1. \/ accounts' = accounts
        \/ Commit(s)
        \/ \E a \in AccountIds, row \in AccountRow : UpdateAccountNow(s, a, row)
    BY <1>9 DEF SessionStep, Begin, InsertAccount, InsertEmail, InsertWallet, UpdateAccount,
       DeleteEmail, DeleteAccount, tables
  <2> HIDE DEF Goal
  <2> QED
    BY <1>6, <1>7, <1>8, <2>1
<1>10. CASE UNCHANGED storeVars \/ \E S \in SUBSET Sessions : Rollback(S)
  <2>1. accounts' = accounts
    BY <1>10 DEF storeVars, Rollback, tables
  <2> QED
    BY <1>6, <2>1
<1> QED
  BY <1>9, <1>10 DEF StoreNext

----------------------------------------------------------------------------
(* How a handler moves on, and what it then remembers.                     *)

Goes(s) == Turn(s) /\ SessionRemembers(s)' /\ WritesReferrals

LEMMA WritesNoReferral ==
  ASSUME \A t \in Sessions, a \in AccountIds :
           accountWrites'[t][a] \in {accountWrites[t][a], Kept, None}
  PROVE  WritesReferrals
  BY DEF WritesReferrals, ReferredBy

LEMMA KeepGoes ==
  ASSUME Base, NEW s \in Sessions, NEW locals, NEW label, Keep(s, locals, label)
  PROVE  /\ Moves(s) /\ ask' = ask /\ answer' = answer
         /\ pc'[s] = label /\ local'[s] = locals
  BY DEF Keep, Goto, Moves, Rests, Base, AccountsTypeOK, HandlersReady

LEMMA ContinueGoes ==
  ASSUME Base, NEW s \in Sessions, NEW label, Continue(s, label)
  PROVE  Moves(s) /\ ask' = ask /\ answer' = answer /\ pc'[s] = label /\ local' = local
  BY DEF Continue, Goto, Moves, Rests, Base, AccountsTypeOK, HandlersReady

LEMMA FinishGoes ==
  ASSUME NEW s \in Sessions, NEW result, Finish({s}, result)
  PROVE  /\ Moves(s) /\ \A t \in Sessions \ {s} : answer'[t] = answer[t]
         /\ pc'[s] = "done" /\ answer'[s] = result
         /\ ask' = ask /\ local'[s].acct = local[s].acct
  BY DEF Finish, Moves, Rests, NoLocals, Acct

(* Most statements are remembered by what they read.                       *)
LEMMA ReadGoes ==
  ASSUME Base, NEW s \in Sessions, Moves(s), ask' = ask, answer' = answer, pc[s] # "done",
         UNCHANGED storeVars \/ \E level : Begin(s, level)
  PROVE  /\ Turn(s) /\ WritesReferrals /\ SameWrites(s)
         /\ UNCHANGED <<accounts, emails, wallets, issued>>
         /\ answer'[s] # "ok"
         /\ Op(s)' = Op(s) /\ Arg(s)' = Arg(s) /\ Cred(s)' = Cred(s)
         /\ NewAddress(s)' = NewAddress(s) /\ Acct(s)' = local'[s].acct
         /\ NothingWritten(s) => NothingWritten(s)'
<1>1. UNCHANGED <<accounts, emails, wallets, issued, accountWrites, emailWrites, walletWrites>>
  BY DEF storeVars, Begin, tables, writes
<1>2. Turn(s) /\ WritesReferrals /\ SameWrites(s)
  BY <1>1, WritesNoReferral DEF Turn, Moves, SameWrites
<1>3. answer'[s] # "ok"
  BY DEF Base, AnswersInvariant, SessionRemembers, AnswersLast
<1> QED
  BY <1>1, <1>2, <1>3 DEF Op, Arg, Cred, NewAddress, Acct, NothingWritten

(* Before a handler has found an account it has nothing to remember.       *)
LEMMA NothingRemembered ==
  ASSUME NEW s \in Sessions, answer'[s] # "ok",
         \/ pc'[s] \in {"start", "drawCode", "insertAccount", "insertLink",
                        "tellBeforeCommit", "done"}
         \/ pc'[s] = "commit" /\ ask'[s].op = "CreateAccount"
  PROVE  SessionRemembers(s)'
  BY DEF SessionRemembers, OnlyReads, HasFound, RemembersToken, RemembersRow,
     RemembersWallet, RemembersEmail, RemembersReferrer, HasPrepared, HasDone,
     AnswersLast, Op

(* An answer of success remembers what was done.                           *)
LEMMA SuccessRemembered ==
  ASSUME NEW s \in Sessions, pc'[s] = "done", HasDone(s)'
  PROVE  SessionRemembers(s)'
  BY DEF SessionRemembers, OnlyReads, HasFound, RemembersToken, RemembersRow,
     RemembersWallet, RemembersEmail, RemembersReferrer, HasPrepared, AnswersLast

LEMMA ReplyGoes ==
  ASSUME Base, NEW s \in Sessions, NEW result, Reply(s, result),
         result = "ok" =>
           /\ Acct(s) \in issued /\ (Live(Acct(s)) => Effect(s))
           /\ Op(s) \in {"LinkEmail", "LinkEmailToken", "LinkWalletToken"} => Arg(s) # None
  PROVE  Goes(s)
<1>1. /\ Moves(s) /\ \A t \in Sessions \ {s} : answer'[t] = answer[t]
      /\ pc'[s] = "done" /\ answer'[s] = result
      /\ ask' = ask /\ local'[s].acct = local[s].acct
  BY FinishGoes DEF Reply
<1>2. /\ UNCHANGED <<accounts, emails, wallets, issued>>
      /\ \A t \in Sessions \ {s} : SameWrites(t)
      /\ \A a \in AccountIds : accountWrites'[s][a] = Kept
  BY DEF Reply, Rollback, Forget, tables, SameWrites
<1>3. Turn(s) /\ WritesReferrals
  BY <1>1, <1>2, WritesNoReferral DEF Turn, Moves, SameWrites
<1>4. CASE result # "ok"
  BY <1>1, <1>3, <1>4, NothingRemembered DEF Goes
<1>5. CASE result = "ok"
  <2>1. HasDone(s)'
    BY <1>1, <1>2, <1>5 DEF HasDone, Acct, Op, Arg, Cred, Live, Effect, NewAddress, EmailOf
  <2> QED
    BY <1>1, <1>3, <2>1, SuccessRemembered DEF Goes
<1> QED
  BY <1>4, <1>5

----------------------------------------------------------------------------
(* What a handler reads is what is committed.                              *)

LEMMA SeesCommitted ==
  ASSUME NEW s \in Sessions, NothingWritten(s)
  PROVE  /\ \A a \in AccountIds : SeenAccount(s, a) = accounts[a]
         /\ \A e \in Addresses : SeenEmail(s, e) = emails[e]
         /\ \A w \in Wallets : SeenWallet(s, w) = wallets[w]
         /\ \A a : EmailOfAccount(s, a) # None =>
              /\ EmailOfAccount(s, a) \in Addresses
              /\ EmailOf(emails[EmailOfAccount(s, a)], a)
         /\ \A a : WalletOfAccount(s, a) # None =>
              /\ WalletOfAccount(s, a) \in Wallets
              /\ wallets[WalletOfAccount(s, a)] = a
<1>1. /\ \A a \in AccountIds : SeenAccount(s, a) = accounts[a]
      /\ \A e \in Addresses : SeenEmail(s, e) = emails[e]
      /\ \A w \in Wallets : SeenWallet(s, w) = wallets[w]
  BY DEF NothingWritten, SeenAccount, SeenEmail, SeenWallet
<1>2. ASSUME NEW a, EmailOfAccount(s, a) # None
      PROVE  /\ EmailOfAccount(s, a) \in Addresses
             /\ EmailOf(emails[EmailOfAccount(s, a)], a)
  <2>1. EmailOfAccount(s, a) \in {e \in Addresses : EmailOf(SeenEmail(s, e), a)}
    BY <1>2 DEF EmailOfAccount, TheOne
  <2> QED
    BY <1>1, <2>1
<1>3. ASSUME NEW a, WalletOfAccount(s, a) # None
      PROVE  /\ WalletOfAccount(s, a) \in Wallets
             /\ wallets[WalletOfAccount(s, a)] = a
  <2>1. WalletOfAccount(s, a) \in {w \in Wallets : SeenWallet(s, w) = a}
    BY <1>3 DEF WalletOfAccount, TheOne
  <2> QED
    BY <1>1, <2>1
<1> QED
  BY <1>1, <1>2, <1>3

LEMMA LinkIsLive ==
  ASSUME Base
  PROVE  /\ \A a \in AccountIds : Live(a) => a \in issued
         /\ \A w \in Wallets, a \in AccountIds : wallets[w] = a => Live(a)
         /\ \A e \in Addresses, a \in AccountIds : EmailOf(emails[e], a) => Live(a)
<1>1. LinksHaveAccounts(accounts, emails, wallets)
  BY DEF Base, StoreInvariant, TablesConsistent, Consistent
<1> QED
  BY <1>1, NullsAreNotValues DEF Base, HandlersInvariant, LinksHaveAccounts, EmailOf, Live

LEMMA FoundIsLinked ==
  ASSUME Base, NEW s \in Sessions, pc[s] # "idle", NothingWritten(s), LinkedAccount(s) # None
  PROVE  /\ LinkedAccount(s) \in AccountIds /\ LinkedAccount(s) \in issued
         /\ Live(LinkedAccount(s)) /\ Linked(Cred(s), LinkedAccount(s))
<1>1. ask[s] \in Requests /\ Cred(s) \in Addresses \cup Wallets
  BY ReadyFacts DEF Base
<1>2. LinkedAccount(s) \in AccountIds
  BY <1>1, LinkedAccountTyped DEF Base
<1>3. \A e \in Addresses : Normalize[e] \in Addresses
  BY AccountsAssumption
<1>4. Linked(Cred(s), LinkedAccount(s))
  <2>1. CASE Cred(s) \in Wallets
    BY <2>1, SeesCommitted DEF LinkedAccount, Linked
  <2>2. CASE Cred(s) \notin Wallets
    <3> DEFINE e == Normalize[Cred(s)]
    <3>1. e \in Addresses
      BY <1>1, <1>3, <2>2
    <3>2. SeenEmail(s, e) = emails[e] /\ SeenEmail(s, e) # None
      BY <2>2, <3>1, SeesCommitted DEF LinkedAccount, EmailOwner
    <3>3. emails[e] # Kept
      BY <3>1, NullsAreNotValues DEF Base, AccountsTypeOK, TypeOK
    <3> QED
      BY <2>2, <3>2, <3>3 DEF LinkedAccount, EmailOwner, Linked, EmailOf
  <2> QED
    BY <2>1, <2>2
<1>5. Live(LinkedAccount(s))
  BY <1>1, <1>2, <1>3, <1>4, LinkIsLive DEF Linked
<1> QED
  BY <1>2, <1>4, <1>5, LinkIsLive

----------------------------------------------------------------------------
(* The lookup.                                                             *)

LEMMA LookupRemembered ==
  ASSUME NEW s \in Sessions,
         pc'[s] \in {"loadAccount", "loadPeer", "loaded", "checkReferrer"},
         answer'[s] # "ok", NothingWritten(s)',
         RemembersToken(s)', RemembersRow(s)', RemembersWallet(s)', RemembersEmail(s)'
  PROVE  SessionRemembers(s)'
  BY DEF SessionRemembers, OnlyReads, RemembersReferrer, HasPrepared, HasDone, AnswersLast

LEMMA FindLinkGoes ==
  ASSUME Base, NEW s \in Sessions, FindLink(s)
  PROVE  Goes(s)
<1> DEFINE a == LinkedAccount(s)
<1>1. /\ pc[s] \in {"start", "findLink"} /\ a # None
      /\ Op(s) # "LinkEmail" /\ SessionRemembers(s)
  <2>1. Op(s) \in Handlers
    BY ReadyFacts DEF Base, FindLink, Looking
  <2> QED
    BY <2>1 DEF FindLink, Looking, Isolation, Base, AnswersInvariant, SessionRemembers, RemembersEmail
<1>2. UNCHANGED storeVars \/ \E level : Begin(s, level)
  BY DEF FindLink, Open
<1>3. /\ Moves(s) /\ ask' = ask /\ answer' = answer /\ pc'[s] = "loadAccount"
      /\ local'[s] = [NoLocals EXCEPT
           !.acct = a,
           !.email = IF Cred(s) \in Wallets THEN None ELSE Normalize[Cred(s)],
           !.wallet = IF Cred(s) \in Wallets THEN Cred(s) ELSE None]
  BY KeepGoes DEF FindLink
<1>4. NothingWritten(s)
  <2>1. CASE pc[s] = "start"
    BY <2>1 DEF Base, HandlersInvariant, SessionKeeps, Unopened, Quiet
  <2>2. CASE pc[s] = "findLink"
    BY <1>1, <2>2 DEF SessionRemembers, OnlyReads
  <2> QED
    BY <1>1, <2>1, <2>2
<1>5. a \in AccountIds /\ a \in issued /\ Live(a) /\ Linked(Cred(s), a)
  BY <1>1, <1>4, FoundIsLinked
<1>6. local'[s].acct = a /\ (local'[s].wallet # None => Cred(s) \in Wallets /\ local'[s].wallet = Cred(s))
  BY <1>3 DEF NoLocals
<1>7. /\ Turn(s) /\ WritesReferrals /\ NothingWritten(s)' /\ answer'[s] # "ok"
      /\ UNCHANGED <<accounts, emails, wallets, issued>>
      /\ Op(s)' = Op(s) /\ Cred(s)' = Cred(s) /\ Acct(s)' = a
  BY <1>1, <1>2, <1>3, <1>4, <1>6, ReadGoes
<1>8. RemembersToken(s)' /\ RemembersWallet(s)'
  BY <1>5, <1>6, <1>7 DEF RemembersToken, RemembersWallet, Linked, EmailOf
<1>9. RemembersRow(s)' /\ RemembersEmail(s)'
  BY <1>1, <1>3, <1>7 DEF RemembersRow, RemembersEmail
<1> QED
  BY <1>3, <1>7, <1>8, <1>9, LookupRemembered DEF Goes

LEMMA LoadGoes ==
  ASSUME Base, NEW s \in Sessions, LoadAccount(s) \/ LoadPeer(s)
  PROVE  Goes(s)
<1>1. /\ pc[s] \in {"loadAccount", "loadPeer"} /\ SessionRemembers(s)
      /\ local[s] \in Locals
  BY ReadyFacts DEF LoadAccount, LoadPeer, Base, AnswersInvariant
<1>2. /\ NothingWritten(s) /\ Acct(s) \in issued /\ Acct(s) \in AccountIds
      /\ Op(s) # "LinkEmail"
  BY <1>1 DEF SessionRemembers, OnlyReads, RemembersToken, HasFound, RemembersEmail,
     Base, AccountsTypeOK, TypeOK
<1>3. \E locals, label :
        /\ Keep(s, locals, label) /\ label \in {"loadPeer", "loaded"} /\ UNCHANGED storeVars
  BY DEF LoadAccount, LoadPeer
<1>4. /\ Moves(s) /\ ask' = ask /\ answer' = answer
      /\ pc'[s] \in {"loadPeer", "loaded"} /\ UNCHANGED storeVars
  BY <1>3, KeepGoes
<1>5. \/ /\ pc[s] = "loadAccount" /\ pc'[s] = "loadPeer"
         /\ local'[s] = [local[s] EXCEPT !.row = SeenAccount(s, Acct(s))]
      \/ /\ pc[s] = "loadPeer" /\ pc'[s] = "loaded"
         /\ \/ local'[s] = [local[s] EXCEPT !.email = EmailOfAccount(s, Acct(s))]
            \/ local'[s] = [local[s] EXCEPT !.wallet = WalletOfAccount(s, Acct(s))]
  BY KeepGoes DEF LoadAccount, LoadPeer
<1>6. /\ local'[s].acct = local[s].acct
      /\ local'[s].wallet \in {local[s].wallet, WalletOfAccount(s, Acct(s))}
      /\ pc[s] = "loadAccount" => local'[s].row = SeenAccount(s, Acct(s))
      /\ pc[s] = "loadPeer" => local'[s].row = local[s].row
  BY <1>1, <1>5 DEF Locals
<1>7. /\ Turn(s) /\ WritesReferrals /\ NothingWritten(s)' /\ answer'[s] # "ok"
      /\ UNCHANGED <<accounts, emails, wallets, issued>>
      /\ Op(s)' = Op(s) /\ Cred(s)' = Cred(s) /\ Acct(s)' = Acct(s)
  BY <1>1, <1>2, <1>4, <1>6, ReadGoes DEF Acct
<1>8. RemembersToken(s)'
  BY <1>1, <1>7 DEF SessionRemembers, RemembersToken, HasFound, Linked, EmailOf, Live
<1>9. RemembersRow(s)'
  <2>1. SUFFICES ASSUME Op(s) \in {"UpdateUser", "AcceptTOS"}, Live(Acct(s))
                 PROVE  Extends(accounts[Acct(s)], local'[s].row)
    BY <1>7 DEF RemembersRow, Extends, Live
  <2>2. CASE pc[s] = "loadAccount"
    <3>1. local'[s].row = accounts[Acct(s)]
      BY <1>2, <1>6, <2>2, SeesCommitted
    <3> QED
      BY <3>1 DEF Extends
  <2>3. CASE pc[s] = "loadPeer"
    BY <1>1, <1>6, <2>1, <2>3 DEF SessionRemembers, RemembersRow
  <2> QED
    BY <1>1, <2>2, <2>3
<1>10. RemembersWallet(s)'
  BY <1>1, <1>2, <1>6, <1>7, SeesCommitted DEF SessionRemembers, RemembersWallet, Live
<1>11. RemembersEmail(s)'
  BY <1>2, <1>7 DEF RemembersEmail
<1> QED
  BY <1>4, <1>7, <1>8, <1>9, <1>10, <1>11, LookupRemembered DEF Goes

LEMMA RefusalGoes ==
  ASSUME Base, NEW s \in Sessions, NEW result, Reply(s, result), result # "ok"
  PROVE  Goes(s)
  BY ReplyGoes

LEMMA AnswerLoadedGoes ==
  ASSUME Base, NEW s \in Sessions, AnswerLoaded(s)
  PROVE  Goes(s)
<1>1. /\ pc[s] = "loaded" /\ SessionRemembers(s) /\ Arg(s) \in ArgumentsOf(Op(s))
      /\ Op(s) \in {"CreateAccount", "GetUserAccount", "LinkEmail"}
      /\ Cred(s) \in Addresses \cup Wallets
  BY ReadyFacts DEF AnswerLoaded, Base, AnswersInvariant
<1>2. Acct(s) \in issued /\ (Live(Acct(s)) => Linked(Cred(s), Acct(s)))
  BY <1>1 DEF SessionRemembers, RemembersToken, HasFound
<1>3. Live(Acct(s)) => Effect(s)
  BY <1>1, <1>2 DEF Effect, Linked, SessionRemembers, RemembersEmail
<1>4. Op(s) \in {"LinkEmail", "LinkEmailToken", "LinkWalletToken"} => Arg(s) # None
  BY <1>1, AccountsAssumption DEF ArgumentsOf
<1>5. Reply(s, "ok")
  BY DEF AnswerLoaded
<1> QED
  BY <1>2, <1>3, <1>4, <1>5, ReplyGoes

----------------------------------------------------------------------------
(* CreateAccount.                                                          *)

LEMMA CreateGoes ==
  ASSUME Base, NEW s \in Sessions,
         \/ BeginCreate(s) \/ DrawCode(s) \/ InsertNewAccount(s)
         \/ InsertFirstWallet(s) \/ InsertFirstEmail(s)
  PROVE  Goes(s)
<1>1. CASE \E result : Reply(s, result) /\ result # "ok"
  BY <1>1, RefusalGoes
<1>2. ASSUME Moves(s), ask' = ask, answer' = answer,
             \/ pc'[s] \in {"drawCode", "insertAccount", "insertLink", "tellBeforeCommit"}
             \/ pc'[s] = "commit" /\ Op(s) = "CreateAccount",
             pc[s] # "done",
             \A t \in Sessions \ {s} : SameWrites(t),
             WritesReferrals
      PROVE  Goes(s)
  <2>1. answer'[s] # "ok"
    BY <1>2 DEF Base, AnswersInvariant, SessionRemembers, AnswersLast
  <2>2. SessionRemembers(s)'
    BY <1>2, <2>1, NothingRemembered DEF Op
  <2> QED
    BY <1>2, <2>2 DEF Goes, Turn, Moves
<1>3. ASSUME Begin(s, Isolation[Op(s)]), Continue(s, "drawCode"), pc[s] = "start"
      PROVE  Goes(s)
  <2>1. WritesReferrals /\ \A t \in Sessions : SameWrites(t)
    BY <1>3, WritesNoReferral DEF Begin, writes, SameWrites
  <2> QED
    BY <1>2, <1>3, <2>1, ContinueGoes
<1>4. ASSUME NEW locals, Keep(s, locals, "insertAccount"), UNCHANGED storeVars, pc[s] = "drawCode"
      PROVE  Goes(s)
  <2>1. WritesReferrals /\ \A t \in Sessions : SameWrites(t)
    BY <1>4, WritesNoReferral DEF storeVars, SameWrites
  <2> QED
    BY <1>2, <1>4, <2>1, KeepGoes
<1>5. ASSUME NEW locals, NEW a \in AccountIds, NEW c, InsertAccount(s, a, c),
             Keep(s, locals, "insertLink"), pc[s] = "insertAccount"
      PROVE  Goes(s)
  <2>1. \A t \in Sessions, b \in AccountIds :
          t # s \/ b # a => accountWrites'[t][b] = accountWrites[t][b]
    BY <1>5 DEF InsertAccount, Base, AccountsTypeOK, TypeOK
  <2>2. accountWrites'[s][a] = [code |-> c, country |-> None, referredBy |-> None,
                                referredAt |-> FALSE, acceptedTos |-> FALSE]
    BY <1>5 DEF InsertAccount, Base, AccountsTypeOK, TypeOK
  <2>3. WritesReferrals
    <3>1. \A b \in AccountIds : ~ReferredBy(accountWrites'[s][a], b)
      BY <2>2, NullsAreNotValues DEF ReferredBy
    <3> QED
      BY <2>1, <3>1 DEF WritesReferrals
  <2>4. \A t \in Sessions \ {s} : SameWrites(t)
    BY <1>5 DEF InsertAccount, SameWrites, Base, AccountsTypeOK, TypeOK
  <2> QED
    BY <1>2, <1>5, <2>3, <2>4, KeepGoes
<1>6. ASSUME NEW e, NEW w, NEW label,
             InsertEmail(s, e, Acct(s), TRUE) \/ InsertWallet(s, w, Acct(s)),
             Continue(s, label), label \in {"tellBeforeCommit", "commit"}, pc[s] = "insertLink"
      PROVE  Goes(s)
  <2>1. \A t \in Sessions \ {s} : SameWrites(t)
    BY <1>6 DEF InsertEmail, InsertWallet, SameWrites, Base, AccountsTypeOK, TypeOK
  <2>2. WritesReferrals
    BY <1>6, WritesNoReferral DEF InsertEmail, InsertWallet
  <2>3. Op(s) = "CreateAccount"
    BY <1>6, ReadyFacts DEF Base, ReadyAt, Op
  <2> QED
    BY <1>2, <1>6, <2>1, <2>2, <2>3, ContinueGoes
<1>7. CASE BeginCreate(s)
  BY <1>1, <1>3, <1>7 DEF BeginCreate
<1>8. CASE DrawCode(s)
  <2>1. PICK locals : Keep(s, locals, "insertAccount")
    BY <1>8 DEF DrawCode
  <2> QED
    BY <1>4, <1>8, <2>1 DEF DrawCode
<1>9. CASE InsertNewAccount(s)
  <2>1. ASSUME NEW a \in AccountIds, InsertAccount(s, a, local[s].code),
               Keep(s, [local[s] EXCEPT !.acct = a], "insertLink")
        PROVE  Goes(s)
    BY <1>5, <1>9, <2>1 DEF InsertNewAccount
  <2>2. CASE Reply(s, "failed")
    BY <1>1, <2>2
  <2> QED
    BY <1>9, <2>1, <2>2 DEF InsertNewAccount
<1>10. CASE InsertFirstWallet(s)
  <2>1. CASE InsertWallet(s, Cred(s), Acct(s)) /\ Continue(s, "tellBeforeCommit")
    BY <1>6, <1>10, <2>1 DEF InsertFirstWallet
  <2>2. CASE Reply(s, "failed")
    BY <1>1, <2>2
  <2> QED
    BY <1>10, <2>1, <2>2 DEF InsertFirstWallet
<1>11. CASE InsertFirstEmail(s)
  <2> DEFINE e == Normalize[Cred(s)]
  <2>1. CASE InsertEmail(s, e, Acct(s), TRUE) /\ Continue(s, "commit")
    BY <1>6, <1>11, <2>1 DEF InsertFirstEmail
  <2>2. CASE Reply(s, "failed")
    BY <1>1, <2>2
  <2> QED
    BY <1>11, <2>1, <2>2 DEF InsertFirstEmail
<1> QED
  BY <1>7, <1>8, <1>9, <1>10, <1>11

----------------------------------------------------------------------------
(* UpdateUser, AcceptTOS and DeleteUser.                                   *)

LEMMA SaveGoes ==
  ASSUME Base, NEW s \in Sessions, NEW row, SaveNow(s, row),
         Acct(s) \in issued, Op(s) \in {"UpdateUser", "AcceptTOS"},
         Live(Acct(s)) => IF Op(s) = "UpdateUser" THEN row.country # None ELSE row.acceptedTos
  PROVE  Goes(s)
<1>1. /\ Moves(s) /\ \A t \in Sessions \ {s} : answer'[t] = answer[t]
      /\ pc'[s] = "done" /\ answer'[s] = "ok"
      /\ ask' = ask /\ local'[s].acct = local[s].acct
  BY FinishGoes DEF SaveNow
<1>2. UNCHANGED <<issued, accountWrites, emailWrites, walletWrites>>
  BY DEF SaveNow, storeVars, UpdateAccountNow, writes
<1>3. Turn(s) /\ WritesReferrals
  BY <1>1, <1>2, WritesNoReferral DEF Turn, Moves, SameWrites
<1>4. Acct(s) \in AccountIds
  BY DEF Base, AccountsTypeOK, TypeOK
<1>5. accounts'[Acct(s)] # None => Live(Acct(s)) /\ accounts'[Acct(s)] = row
  BY <1>4 DEF SaveNow, storeVars, UpdateAccountNow, Base, AccountsTypeOK, TypeOK, Live
<1>6. /\ Op(s)' = Op(s) /\ Arg(s)' = Arg(s) /\ Acct(s)' = Acct(s) /\ Acct(s)' \in issued'
  BY <1>1, <1>2 DEF Op, Arg, Acct
<1>7. Live(Acct(s))' => Effect(s)'
  BY <1>5, <1>6 DEF Effect, Live
<1>8. HasDone(s)'
  BY <1>6, <1>7 DEF HasDone
<1> QED
  BY <1>1, <1>3, <1>8, SuccessRemembered DEF Goes

LEMMA ProfileGoes ==
  ASSUME Base, NEW s \in Sessions, UpdateUser(s) \/ AcceptTOS(s)
  PROVE  Goes(s)
<1>1. /\ pc[s] = "loaded" /\ SessionRemembers(s) /\ local[s] \in Locals
      /\ Op(s) \in {"UpdateUser", "AcceptTOS"}
  BY ReadyFacts DEF UpdateUser, AcceptTOS, Base, AnswersInvariant
<1>2. /\ Acct(s) \in issued /\ Acct(s) \in AccountIds
      /\ Live(Acct(s)) => Extends(accounts[Acct(s)], local[s].row)
      /\ Live(Acct(s)) => accounts[Acct(s)] \in AccountRow /\ CurrentRow(s) = accounts[Acct(s)]
  BY <1>1 DEF SessionRemembers, RemembersToken, RemembersRow, HasFound,
     Base, AccountsTypeOK, TypeOK, Live, CurrentRow
<1>3. CASE Reply(s, "refused")
  BY <1>3, RefusalGoes
<1>4. ASSUME Reply(s, "ok"),
             \/ Op(s) = "UpdateUser" /\ Arg(s) \in {None, local[s].row.country}
             \/ Op(s) = "AcceptTOS" /\ local[s].row.acceptedTos
      PROVE  Goes(s)
  <2>1. Live(Acct(s)) => Effect(s)
    BY <1>2, <1>4 DEF Effect, Extends
  <2> QED
    BY <1>1, <1>2, <1>4, <2>1, ReplyGoes
<1>5. ASSUME SaveNow(s, CountryOnly(s)), Op(s) = "UpdateUser", Arg(s) # None
      PROVE  Goes(s)
  <2>1. Live(Acct(s)) => CountryOnly(s).country # None
    BY <1>2, <1>5 DEF CountryOnly, AccountRow
  <2> QED
    BY <1>2, <1>5, <2>1, SaveGoes
<1>6. ASSUME SaveNow(s, TosOnly(s)), Op(s) = "AcceptTOS"
      PROVE  Goes(s)
  <2>1. Live(Acct(s)) => TosOnly(s).acceptedTos
    BY <1>2, <1>6 DEF TosOnly, AccountRow
  <2> QED
    BY <1>2, <1>6, <2>1, SaveGoes
<1>7. CASE UpdateUser(s)
  BY <1>3, <1>4, <1>5, <1>7 DEF UpdateUser
<1>8. CASE AcceptTOS(s)
  BY <1>4, <1>6, <1>8 DEF AcceptTOS
<1> QED
  BY <1>7, <1>8

(* A statement in a transaction: its writes are all that changes.          *)
LEMMA StatementGoes ==
  ASSUME Base, NEW s \in Sessions, NEW label, Continue(s, label),
         label \in {"insertEmail", "touch", "commit"},
         pc[s] # "done", HasFound(s), UNCHANGED <<accounts, emails, wallets, issued>>,
         \A t \in Sessions \ {s} : SameWrites(t),
         WritesReferrals, HasPrepared(s)'
  PROVE  Goes(s)
<1>1. Moves(s) /\ ask' = ask /\ answer' = answer /\ pc'[s] = label /\ local' = local
  BY ContinueGoes
<1>2. SessionRemembers(s)
  BY DEF Base, AnswersInvariant
<1>3. RemembersToken(s)'
  BY <1>1, <1>2 DEF SessionRemembers, RemembersToken, Linked, EmailOf, Live, Acct, Cred
<1>4. SessionRemembers(s)'
  BY <1>1, <1>2, <1>3 DEF SessionRemembers, OnlyReads, RemembersRow, RemembersWallet,
     RemembersEmail, RemembersReferrer, HasDone, AnswersLast
<1> QED
  BY <1>1, <1>4 DEF Goes, Turn, Moves

LEMMA DeleteGoes ==
  ASSUME Base, NEW s \in Sessions, DeleteUser(s)
  PROVE  Goes(s)
<1>1. /\ pc[s] = "loaded" /\ Op(s) = "DeleteUser" /\ SessionRemembers(s)
      /\ Continue(s, "commit")
  BY DEF DeleteUser, Base, AnswersInvariant
<1>2. /\ Acct(s) \in AccountIds /\ HasFound(s) /\ NothingWritten(s)
  BY <1>1 DEF SessionRemembers, RemembersToken, HasFound, OnlyReads, Base, AccountsTypeOK, TypeOK
<1>3. /\ pc'[s] = "commit" /\ Op(s)' = "DeleteUser" /\ Acct(s)' = Acct(s)
  BY <1>1, ContinueGoes DEF Op, Acct
<1>4. UNCHANGED <<accounts, emails, wallets, issued>>
  BY DEF DeleteUser, DeleteAccount, tables, storeVars
<1>5. \A t \in Sessions \ {s} : SameWrites(t)
  BY DEF DeleteUser, DeleteAccount, storeVars, SameWrites, Base, AccountsTypeOK, TypeOK
<1>6. WritesReferrals
  <2>1. CASE UNCHANGED storeVars
    BY <2>1, WritesNoReferral DEF storeVars
  <2>2. CASE DeleteAccount(s, Acct(s))
    <3>1. ASSUME NEW a \in AccountIds, NEW b \in AccountIds, ReferredBy(accountWrites'[s][a], b)
          PROVE  ReferredBy(accountWrites[s][a], b)
      <4>1. accountWrites'[s][a] =
              IF a = Acct(s) THEN None
              ELSE IF ReferredBy(SeenAccount(s, a), Acct(s)) THEN Unreferred(SeenAccount(s, a))
              ELSE accountWrites[s][a]
        BY <2>2 DEF DeleteAccount, Base, AccountsTypeOK, TypeOK
      <4>2. SeenAccount(s, a) = accounts[a] /\ accounts[a] \in AccountRow \cup {None}
        BY <1>2, SeesCommitted DEF Base, AccountsTypeOK, TypeOK
      <4>3. ReferredBy(SeenAccount(s, a), Acct(s)) =>
              ~ReferredBy(Unreferred(SeenAccount(s, a)), b)
        BY <4>2, NullsAreNotValues DEF ReferredBy, Unreferred, AccountRow
      <4> QED
        BY <3>1, <4>1, <4>3 DEF ReferredBy
    <3> QED
      BY <1>5, <3>1 DEF WritesReferrals, SameWrites
  <2> QED
    BY <2>1, <2>2 DEF DeleteUser
<1>7. Live(Acct(s)) => accountWrites'[s][Acct(s)] = None
  BY <1>2, SeesCommitted DEF DeleteUser, DeleteAccount, Live, Base, AccountsTypeOK, TypeOK
<1>8. HasPrepared(s)'
  BY <1>3, <1>4, <1>7 DEF HasPrepared, Deletes, Live
<1> QED
  BY <1>1, <1>2, <1>4, <1>5, <1>6, <1>8, StatementGoes

----------------------------------------------------------------------------
(* LinkEmail, LinkEmailToken and LinkWalletToken.                          *)

LEMMA LinkBeginGoes ==
  ASSUME Base, NEW s \in Sessions, LinkEmail(s) \/ LinkEmailToken(s)
  PROVE  Goes(s)
<1> DEFINE a == LinkedAccount(s)
<1>1. pc[s] = "start" /\ Op(s) \in {"LinkEmail", "LinkEmailToken"}
  BY DEF LinkEmail, LinkEmailToken
<1>2. NothingWritten(s)
  BY <1>1 DEF Base, HandlersInvariant, SessionKeeps, Unopened, Quiet
<1>3. CASE Reply(s, "refused")
  BY <1>3, RefusalGoes
<1>4. ASSUME NEW locals, NEW label, Keep(s, locals, label), Begin(s, Isolation[Op(s)]),
             a # None, locals.acct = a, locals.wallet = None,
             label \in {"insertEmail", "deleteEmail", "loaded"},
             label = "loaded" => Op(s) = "LinkEmail" /\ EmailOf(emails[NewAddress(s)], a)
      PROVE  Goes(s)
  <2>1. /\ Moves(s) /\ ask' = ask /\ answer' = answer
        /\ pc'[s] = label /\ local'[s] = locals
    BY <1>4, KeepGoes
  <2>2. a \in issued /\ Linked(Cred(s), a)
    BY <1>1, <1>2, <1>4, FoundIsLinked
  <2>3. /\ Turn(s) /\ WritesReferrals /\ NothingWritten(s)' /\ answer'[s] # "ok"
        /\ UNCHANGED <<accounts, emails, wallets, issued>>
        /\ Op(s)' = Op(s) /\ Cred(s)' = Cred(s) /\ Acct(s)' = a /\ NewAddress(s)' = NewAddress(s)
    BY <1>1, <1>2, <1>4, <2>1, ReadGoes
  <2>4. RemembersToken(s)'
    BY <2>2, <2>3 DEF RemembersToken, Linked, EmailOf
  <2>5. RemembersRow(s)' /\ RemembersWallet(s)'
    BY <1>1, <1>4, <2>1, <2>3 DEF RemembersRow, RemembersWallet
  <2>6. RemembersEmail(s)'
    BY <1>4, <2>1, <2>3 DEF RemembersEmail, EmailOf
  <2>7. SessionRemembers(s)'
    BY <1>4, <2>1, <2>3, <2>4, <2>5, <2>6 DEF SessionRemembers, OnlyReads, RemembersReferrer,
       HasPrepared, HasDone, AnswersLast
  <2> QED
    BY <2>3, <2>7 DEF Goes
<1>5. CASE LinkEmail(s) /\ ~Reply(s, "refused")
  <2>1. ~LinkEmailRefused(s, NewAddress(s), a)
    BY <1>5 DEF LinkEmail
  <2>2. a # None /\ EmailOfAccount(s, a) \in {None, NewAddress(s)}
    BY <2>1 DEF LinkEmailRefused
  <2>3. EmailOfAccount(s, a) # None => EmailOf(emails[NewAddress(s)], a)
    BY <1>2, <2>2, SeesCommitted
  <2> DEFINE locals == [NoLocals EXCEPT !.acct = a]
             label == IF EmailOfAccount(s, a) = None THEN "insertEmail" ELSE "loaded"
  <2>4. /\ Keep(s, locals, label) /\ Begin(s, Isolation[Op(s)])
        /\ label \in {"insertEmail", "loaded"}
        /\ label = "loaded" => EmailOf(emails[NewAddress(s)], a)
    BY <1>5, <2>1, <2>3 DEF LinkEmail
  <2>5. locals.acct = a /\ locals.wallet = None
    BY DEF NoLocals
  <2>6. Op(s) = "LinkEmail"
    BY <1>5 DEF LinkEmail
  <2> HIDE DEF locals, label
  <2> QED
    BY <1>4, <2>2, <2>4, <2>5, <2>6
<1>6. CASE LinkEmailToken(s) /\ ~Reply(s, "refused")
  <2> DEFINE locals == [NoLocals EXCEPT !.acct = a, !.email = EmailOfAccount(s, a)]
             label == IF EmailOfAccount(s, a) = None THEN "insertEmail" ELSE "deleteEmail"
  <2>1. /\ Keep(s, locals, label) /\ Begin(s, Isolation[Op(s)]) /\ a # None
        /\ label \in {"insertEmail", "deleteEmail"}
    BY <1>6 DEF LinkEmailToken
  <2>2. locals.acct = a /\ locals.wallet = None
    BY DEF NoLocals
  <2> HIDE DEF locals, label
  <2> QED
    BY <1>4, <2>1, <2>2
<1> QED
  BY <1>3, <1>5, <1>6

LEMMA LinkGoes ==
  ASSUME Base, NEW s \in Sessions,
         \/ DeleteUnconfirmed(s) \/ InsertLinkedEmail(s) \/ LinkWalletToken(s) \/ Touch(s)
  PROVE  Goes(s)
<1>1. /\ pc[s] \in {"deleteEmail", "insertEmail", "loaded", "touch"}
      /\ SessionRemembers(s) /\ HasFound(s)
      /\ Acct(s) \in AccountIds /\ Op(s) \in {"LinkEmail", "LinkEmailToken", "LinkWalletToken"}
  <2>1. /\ pc[s] \in {"deleteEmail", "insertEmail", "loaded", "touch"}
        /\ pc[s] = "loaded" => Op(s) = "LinkWalletToken"
        /\ SessionRemembers(s)
    BY DEF DeleteUnconfirmed, InsertLinkedEmail, LinkWalletToken, Touch, Base, AnswersInvariant
  <2>2. ReadyAt(pc[s], ask[s], local[s])
    BY <2>1, ReadyFacts DEF Base
  <2> QED
    BY <2>1, <2>2 DEF ReadyAt, Op, Acct, HasFound, SessionRemembers, HasPrepared
<1>2. CASE Reply(s, "failed") \/ Reply(s, "refused")
  BY <1>2, RefusalGoes
<1>3. ASSUME NEW e, DeleteEmail(s, e), Continue(s, "insertEmail")
      PROVE  Goes(s)
  <2>1. /\ UNCHANGED <<accounts, emails, wallets, issued, accountWrites>>
        /\ \A t \in Sessions \ {s} : SameWrites(t)
    BY <1>3 DEF DeleteEmail, tables, SameWrites, Base, AccountsTypeOK, TypeOK
  <2>2. WritesReferrals
    BY <2>1, WritesNoReferral
  <2>3. pc'[s] = "insertEmail"
    BY <1>3, ContinueGoes
  <2>4. HasPrepared(s)'
    BY <2>3 DEF HasPrepared
  <2> QED
    BY <1>1, <1>3, <2>1, <2>2, <2>4, StatementGoes
<1>4. ASSUME InsertEmail(s, NewAddress(s), Acct(s), Confirms(s)), Continue(s, "touch"),
             pc[s] = "insertEmail"
      PROVE  Goes(s)
  <2>1. /\ UNCHANGED <<accounts, emails, wallets, issued, accountWrites>>
        /\ \A t \in Sessions \ {s} : SameWrites(t)
    BY <1>4 DEF InsertEmail, tables, SameWrites, Base, AccountsTypeOK, TypeOK
  <2>2. WritesReferrals
    BY <2>1, WritesNoReferral
  <2>3. pc'[s] = "touch" /\ ask' = ask /\ local' = local
    BY <1>4, ContinueGoes
  <2>4. Op(s) \in {"LinkEmail", "LinkEmailToken"} /\ Arg(s) \in Addresses
    BY <1>4, ReadyFacts DEF Base, ReadyAt, Op, Arg, ArgumentsOf
  <2>5. NewAddress(s) \in Addresses /\ Confirms(s) \in BOOLEAN
    BY <2>4, AccountsAssumption DEF NewAddress, Confirms
  <2>6. emailWrites'[s][NewAddress(s)] = [account |-> Acct(s), confirmed |-> Confirms(s)]
    BY <1>4, <2>5 DEF InsertEmail, Base, AccountsTypeOK, TypeOK
  <2>7. [account |-> Acct(s), confirmed |-> Confirms(s)] \in EmailRow
    BY <1>1, <2>5 DEF EmailRow
  <2>8. /\ EmailOf(emailWrites'[s][NewAddress(s)], Acct(s))
        /\ emailWrites'[s][NewAddress(s)].confirmed <=> Confirms(s)
    BY <2>6, <2>7, NullsAreNotValues DEF EmailOf
  <2>9. /\ Op(s)' = Op(s) /\ Arg(s)' = Arg(s) /\ Acct(s)' = Acct(s)
        /\ NewAddress(s)' = NewAddress(s) /\ (Confirms(s)' <=> Confirms(s))
    BY <2>3 DEF Op, Arg, Acct, NewAddress, Confirms
  <2>10. HasPrepared(s)'
    BY <2>3, <2>4, <2>8, <2>9 DEF HasPrepared, EmailOf
  <2> QED
    BY <1>1, <1>4, <2>1, <2>2, <2>10, StatementGoes
<1>5. ASSUME InsertWallet(s, Arg(s), Acct(s)), Continue(s, "touch"),
             Op(s) = "LinkWalletToken", Arg(s) # None
      PROVE  Goes(s)
  <2>1. /\ UNCHANGED <<accounts, emails, wallets, issued, accountWrites>>
        /\ \A t \in Sessions \ {s} : SameWrites(t)
    BY <1>5 DEF InsertWallet, tables, SameWrites, Base, AccountsTypeOK, TypeOK
  <2>2. WritesReferrals
    BY <2>1, WritesNoReferral
  <2>3. pc'[s] = "touch" /\ ask' = ask /\ local' = local
    BY <1>5, ContinueGoes
  <2>4. Arg(s) \in Wallets
    BY <1>1, <1>5, ReadyFacts DEF Base, ArgumentsOf
  <2>5. walletWrites'[s][Arg(s)] = Acct(s)
    BY <1>5, <2>4 DEF InsertWallet, Base, AccountsTypeOK, TypeOK
  <2>6. HasPrepared(s)'
    BY <1>5, <2>3, <2>5 DEF HasPrepared, Op, Arg, Acct
  <2> QED
    BY <1>1, <1>5, <2>1, <2>2, <2>6, StatementGoes
<1>6. ASSUME UpdateAccount(s, Acct(s), SeenAccount(s, Acct(s))), Continue(s, "commit"),
             pc[s] = "touch"
      PROVE  Goes(s)
  <2>1. /\ UNCHANGED <<accounts, emails, wallets, issued, emailWrites, walletWrites>>
        /\ \A t \in Sessions \ {s} : SameWrites(t)
    BY <1>6 DEF UpdateAccount, tables, SameWrites, Base, AccountsTypeOK, TypeOK
  <2>2. \A t \in Sessions, b \in AccountIds :
          accountWrites'[t][b] = IF t = s /\ b = Acct(s) THEN SeenAccount(s, b)
                                 ELSE accountWrites[t][b]
    BY <1>6 DEF UpdateAccount, Base, AccountsTypeOK, TypeOK
  <2>3. WritesReferrals
    BY <2>2 DEF WritesReferrals, SeenAccount
  <2>4. pc'[s] = "commit" /\ ask' = ask /\ local' = local
    BY <1>6, ContinueGoes
  <2>5. HasPrepared(s)'
    BY <1>1, <1>6, <2>1, <2>4 DEF SessionRemembers, HasPrepared, Op, Arg, Acct, NewAddress,
       Confirms, EmailOf
  <2> QED
    BY <1>1, <1>6, <2>1, <2>3, <2>5, StatementGoes
<1>7. CASE DeleteUnconfirmed(s)
  BY <1>2, <1>3, <1>7 DEF DeleteUnconfirmed
<1>8. CASE InsertLinkedEmail(s)
  BY <1>2, <1>4, <1>8 DEF InsertLinkedEmail
<1>9. CASE LinkWalletToken(s)
  BY <1>2, <1>5, <1>9 DEF LinkWalletToken
<1>10. CASE Touch(s)
  BY <1>2, <1>6, <1>10 DEF Touch
<1> QED
  BY <1>7, <1>8, <1>9, <1>10

----------------------------------------------------------------------------
(* SubmitReferralCode.                                                     *)

LEMMA FindReferrerGoes ==
  ASSUME Base, NEW s \in Sessions, FindReferrer(s)
  PROVE  Goes(s)
<1>1. CASE Reply(s, "refused")
  BY <1>1, RefusalGoes
<1>2. ASSUME NEW locals, Keep(s, locals, "checkReferrer"), UNCHANGED storeVars,
             locals.acct = local[s].acct, locals.wallet = local[s].wallet
      PROVE  Goes(s)
  <2>1. /\ pc[s] = "loaded" /\ Op(s) = "SubmitReferralCode" /\ SessionRemembers(s)
    BY DEF FindReferrer, Base, AnswersInvariant
  <2>2. NothingWritten(s)
    BY <2>1 DEF SessionRemembers, OnlyReads
  <2>3. /\ Moves(s) /\ ask' = ask /\ answer' = answer /\ pc'[s] = "checkReferrer"
        /\ local'[s].acct = local[s].acct /\ local'[s].wallet = local[s].wallet
    BY <1>2, KeepGoes
  <2>4. /\ Turn(s) /\ WritesReferrals /\ NothingWritten(s)' /\ answer'[s] # "ok"
        /\ UNCHANGED <<accounts, emails, wallets, issued>>
        /\ Op(s)' = Op(s) /\ Cred(s)' = Cred(s) /\ Acct(s)' = Acct(s)
    BY <1>2, <2>1, <2>2, <2>3, ReadGoes DEF Acct
  <2>5. RemembersToken(s)' /\ RemembersWallet(s)'
    BY <2>1, <2>3, <2>4 DEF SessionRemembers, RemembersToken, RemembersWallet, HasFound,
       Linked, EmailOf, Live
  <2>6. RemembersRow(s)' /\ RemembersEmail(s)'
    BY <2>1, <2>3, <2>4 DEF RemembersRow, RemembersEmail
  <2> QED
    BY <2>3, <2>4, <2>5, <2>6, LookupRemembered DEF Goes
<1>3. CASE ~Reply(s, "refused")
  <2> DEFINE b == TheOne({x \in AccountIds : HasCode(SeenAccount(s, x), Arg(s))})
             locals == [local[s] EXCEPT !.referrer = b,
                                        !.referrersReferrer = SeenAccount(s, b).referredBy]
  <2>1. UNCHANGED storeVars /\ Keep(s, locals, "checkReferrer")
    BY <1>3 DEF FindReferrer
  <2>2. local[s] \in Locals
    BY ReadyFacts DEF FindReferrer, Base
  <2>3. locals.acct = local[s].acct /\ locals.wallet = local[s].wallet
    BY <2>2 DEF Locals
  <2> HIDE DEF locals
  <2> QED
    BY <1>2, <2>1, <2>3
<1> QED
  BY <1>1, <1>3

LEMMA CheckReferrerGoes ==
  ASSUME Base, NEW s \in Sessions, CheckReferrer(s)
  PROVE  Goes(s)
<1> DEFINE b == local[s].referrer
           w == local[s].wallet
           v == WalletOfAccount(s, b)
<1>1. CASE Reply(s, "failed") \/ Reply(s, "refused")
  BY <1>1, RefusalGoes
<1>2. ASSUME v # None, w # None, w # v, Continue(s, "refer"), UNCHANGED storeVars
      PROVE  Goes(s)
  <2>1. pc[s] = "checkReferrer" /\ SessionRemembers(s) /\ local[s] \in Locals /\ b \in AccountIds
    BY ReadyFacts DEF CheckReferrer, Base, AnswersInvariant, ReadyAt
  <2>2. NothingWritten(s) /\ Op(s) = "SubmitReferralCode"
    BY <2>1, ReadyFacts DEF SessionRemembers, OnlyReads, Base, ReadyAt, Op
  <2>3. /\ Moves(s) /\ ask' = ask /\ answer' = answer /\ pc'[s] = "refer" /\ local' = local
    BY <1>2, ContinueGoes
  <2>4. /\ Turn(s) /\ WritesReferrals /\ NothingWritten(s)' /\ answer'[s] # "ok"
        /\ UNCHANGED <<accounts, emails, wallets, issued>>
        /\ Op(s)' = Op(s) /\ Cred(s)' = Cred(s) /\ Acct(s)' = Acct(s)
    BY <1>2, <2>1, <2>2, <2>3, ReadGoes DEF Acct
  <2>5. RemembersToken(s)' /\ RemembersWallet(s)'
    BY <2>1, <2>3, <2>4 DEF SessionRemembers, RemembersToken, RemembersWallet, HasFound,
       Linked, EmailOf, Live
  <2>6. v \in Wallets /\ wallets[v] = b /\ w \in Wallets
    BY <1>2, <2>1, <2>2, SeesCommitted DEF Locals
  <2>7. Live(b) /\ b \in issued /\ HasWallet(b)
    BY <2>1, <2>6, LinkIsLive DEF HasWallet
  <2>8. b # Acct(s)
    <3>1. SUFFICES ASSUME b = Acct(s)
                   PROVE  FALSE
      OBVIOUS
    <3>2. wallets[w] = b
      BY <1>2, <2>1, <2>7, <3>1 DEF SessionRemembers, RemembersWallet
    <3>3. OneWalletPerAccount(wallets)
      BY DEF Base, StoreInvariant, TablesConsistent, Consistent
    <3> QED
      BY <1>2, <2>1, <2>6, <3>2, <3>3, NullsAreNotValues DEF OneWalletPerAccount
  <2>9. RemembersReferrer(s)'
    BY <1>2, <2>3, <2>4, <2>7, <2>8 DEF RemembersReferrer, HasWallet
  <2>10. SessionRemembers(s)'
    BY <2>2, <2>3, <2>4, <2>5, <2>9 DEF SessionRemembers, OnlyReads, RemembersRow,
       RemembersEmail, HasPrepared, HasDone, AnswersLast
  <2> QED
    BY <2>4, <2>10 DEF Goes
<1> QED
  BY <1>1, <1>2 DEF CheckReferrer

LEMMA ReferGoes ==
  ASSUME Base, NEW s \in Sessions, Refer(s)
  PROVE  Goes(s)
<1> DEFINE a == Acct(s)
           b == local[s].referrer
<1>1. /\ pc[s] = "refer" /\ SessionRemembers(s) /\ local[s] \in Locals
      /\ b \in AccountIds /\ a \in AccountIds /\ Op(s) = "SubmitReferralCode"
  BY ReadyFacts DEF Refer, Base, AnswersInvariant, ReadyAt, Op, Acct
<1>2. NothingWritten(s) /\ HasFound(s)
  BY <1>1 DEF SessionRemembers, OnlyReads, HasFound
<1>3. \A x \in AccountIds : SeenAccount(s, x) = accounts[x] /\ accounts[x] \in AccountRow \cup {None}
  BY <1>2, SeesCommitted DEF Base, AccountsTypeOK, TypeOK
<1>4. CASE Reply(s, "failed")
  BY <1>4, RefusalGoes
<1>5. ASSUME SeenAccount(s, a) = None, Continue(s, "commit"), UNCHANGED storeVars
      PROVE  Goes(s)
  <2>1. /\ UNCHANGED <<accounts, emails, wallets, issued, accountWrites>>
        /\ \A t \in Sessions \ {s} : SameWrites(t)
    BY <1>5 DEF storeVars, SameWrites
  <2>2. WritesReferrals
    BY <2>1, WritesNoReferral
  <2>3. pc'[s] = "commit" /\ ask' = ask /\ local' = local
    BY <1>5, ContinueGoes
  <2>4. HasPrepared(s)'
    BY <1>1, <1>3, <1>5, <2>1, <2>3 DEF HasPrepared, Op, Acct, Live
  <2> QED
    BY <1>1, <1>2, <1>5, <2>1, <2>2, <2>4, StatementGoes
<1>6. ASSUME SeenAccount(s, a) # None, UpdateAccount(s, a, ReferralColumns(s)),
             Continue(s, "commit")
      PROVE  Goes(s)
  <2>1. /\ UNCHANGED <<accounts, emails, wallets, issued>>
        /\ \A t \in Sessions \ {s} : SameWrites(t)
    BY <1>6 DEF UpdateAccount, tables, SameWrites, Base, AccountsTypeOK, TypeOK
  <2>2. \A t \in Sessions, x \in AccountIds :
          accountWrites'[t][x] = IF t = s /\ x = a THEN ReferralColumns(s)
                                 ELSE accountWrites[t][x]
    BY <1>6 DEF UpdateAccount, Base, AccountsTypeOK, TypeOK
  <2>3. /\ ReferralColumns(s) \in AccountRow
        /\ ReferralColumns(s).referredBy = b /\ ReferralColumns(s).referredAt
    BY <1>1, <1>3, <1>6 DEF ReferralColumns, AccountRow
  <2>4. BetweenOwners(a, b)
    <3>1. Live(a)
      BY <1>1, <1>3, <1>6 DEF Live
    <3>2. Live(b)
      BY <1>1, <1>3, <1>6, <2>3, NullsAreNotValues DEF UpdateAccount, UpdateRefused, Live
    <3>3. a # b /\ HasWallet(b) /\ local[s].wallet # None
      BY <1>1, <3>2 DEF SessionRemembers, RemembersReferrer
    <3>4. HasWallet(a)
      BY <1>1, <3>1, <3>3 DEF SessionRemembers, RemembersWallet, HasWallet, Locals
    <3> QED
      BY <3>1, <3>2, <3>3, <3>4 DEF BetweenOwners
  <2>5. WritesReferrals
    <3>1. \A x \in AccountIds : ReferredBy(ReferralColumns(s), x) => x = b
      BY <2>3 DEF ReferredBy
    <3> QED
      BY <2>2, <2>4, <3>1 DEF WritesReferrals
  <2>6. pc'[s] = "commit" /\ ask' = ask /\ local' = local
    BY <1>6, ContinueGoes
  <2>7. HasPrepared(s)'
    BY <1>1, <2>2, <2>3, <2>6, NullsAreNotValues DEF HasPrepared, Op, Acct
  <2> QED
    BY <1>1, <1>2, <1>6, <2>1, <2>5, <2>7, StatementGoes
<1> QED
  BY <1>4, <1>5, <1>6 DEF Refer

----------------------------------------------------------------------------
(* The end of a request.                                                   *)

(* What the transaction has prepared is what the commit does.              *)
LEMMA CommitDoes ==
  ASSUME Base, AccountsAreKept, NEW s \in Sessions, pc[s] = "commit", Commit(s),
         Op(s) # "CreateAccount", ask'[s] = ask[s], local'[s].acct = local[s].acct
  PROVE  /\ Acct(s)' \in issued' /\ (Live(Acct(s))' => Effect(s)')
         /\ Op(s) \in {"LinkEmail", "LinkEmailToken", "LinkWalletToken"} => Arg(s) # None
<1> DEFINE a == Acct(s)
<1>1. /\ Op(s) \in Handlers /\ Arg(s) \in ArgumentsOf(Op(s)) /\ SessionRemembers(s)
      /\ Op(s) \in {"LinkEmail", "LinkEmailToken", "LinkWalletToken"} => Arg(s) # None
  BY ReadyFacts DEF Base, ReadyAt, Op, Arg, AnswersInvariant
<1>2. a \in issued /\ a \in issued' /\ a \in AccountIds
  BY <1>1 DEF SessionRemembers, RemembersToken, HasFound, Base, AccountsTypeOK, TypeOK,
     AccountsAreKept
<1>3. /\ Op(s)' = Op(s) /\ Arg(s)' = Arg(s) /\ Acct(s)' = a
      /\ NewAddress(s)' = NewAddress(s)
  BY DEF Op, Arg, Acct, NewAddress
<1>4. /\ \A x \in AccountIds : accounts'[x] = SeenAccount(s, x)
      /\ \A e \in Addresses : emails'[e] = SeenEmail(s, e)
      /\ \A w \in Wallets : wallets'[w] = SeenWallet(s, w)
  BY DEF Commit, SeenAccounts, SeenEmails, SeenWallets
<1>5. Isolation[Op(s)] # "none"
  BY DEF Base, HandlersInvariant, SessionKeeps, Unopened, Quiet, Commit
<1>6. ASSUME Live(a)'
      PROVE  Effect(s)'
  <2>1. Live(a) /\ accounts'[a] # None
    BY <1>2, <1>3, <1>6 DEF AccountsAreKept, Live
  <2>2. CASE Op(s) \in {"LinkEmail", "LinkEmailToken"}
    <3>1. NewAddress(s) \in Addresses
      BY <1>1, <2>2, AccountsAssumption DEF ArgumentsOf, NewAddress
    <3>2. /\ EmailOf(emailWrites[s][NewAddress(s)], a)
          /\ Op(s) = "LinkEmailToken" => emailWrites[s][NewAddress(s)].confirmed
      BY <1>1, <2>2 DEF SessionRemembers, HasPrepared, Confirms
    <3>3. emails'[NewAddress(s)] = emailWrites[s][NewAddress(s)]
      BY <1>4, <3>1, <3>2 DEF SeenEmail, EmailOf
    <3> QED
      BY <1>3, <2>2, <3>2, <3>3 DEF Effect, EmailOf
  <2>3. CASE Op(s) = "LinkWalletToken"
    <3>1. Arg(s) \in Wallets
      BY <1>1, <2>3 DEF ArgumentsOf
    <3>2. walletWrites[s][Arg(s)] = a
      BY <1>1, <2>3 DEF SessionRemembers, HasPrepared
    <3>3. wallets'[Arg(s)] = a
      BY <1>2, <1>4, <3>1, <3>2, NullsAreNotValues DEF SeenWallet
    <3> QED
      BY <1>3, <2>3, <3>3 DEF Effect
  <2>4. CASE Op(s) = "SubmitReferralCode"
    <3>1. accountWrites[s][a] \notin {None, Kept} /\ accountWrites[s][a].referredAt
      BY <1>1, <2>1, <2>4 DEF SessionRemembers, HasPrepared
    <3>2. accounts'[a].referredAt
      BY <1>2, <1>4, <3>1 DEF SeenAccount
    <3> QED
      BY <1>3, <2>4, <3>2 DEF Effect
  <2>5. CASE Op(s) = "DeleteUser"
    <3>1. accountWrites[s][a] = None
      BY <1>1, <2>1, <2>5 DEF SessionRemembers, HasPrepared, Deletes
    <3> QED
      BY <1>2, <1>4, <2>1, <3>1, NullsAreNotValues DEF SeenAccount
  <2> QED
    BY <1>1, <1>5, <2>2, <2>3, <2>4, <2>5 DEF Isolation, Handlers
<1> QED
  BY <1>1, <1>2, <1>3, <1>6

LEMMA CommitGoes ==
  ASSUME Base, AccountsAreKept, NEW s \in Sessions, CommitRequest(s) \/ CommitUnanswered(s)
  PROVE  Goes(s)
<1>1. pc[s] = "commit" /\ Commit(s) /\ SessionRemembers(s) /\ answer[s] # "ok"
  BY DEF CommitRequest, CommitUnanswered, Base, AnswersInvariant, SessionRemembers, AnswersLast
<1>2. /\ \A t \in Sessions \ {s} : SameWrites(t)
      /\ NothingWritten(s)'
      /\ WritesReferrals
  <2>1. /\ \A t \in Sessions \ {s} : SameWrites(t)
        /\ NothingWritten(s)'
    BY <1>1 DEF Commit, Forget, SameWrites, NothingWritten
  <2> QED
    BY <2>1, WritesNoReferral DEF SameWrites, NothingWritten
<1>3. CASE CommitUnanswered(s)
  <2>1. Finish({s}, "failed")
    BY <1>3 DEF CommitUnanswered
  <2>2. /\ Moves(s) /\ \A t \in Sessions \ {s} : answer'[t] = answer[t]
        /\ pc'[s] = "done" /\ answer'[s] # "ok"
    BY <2>1, FinishGoes
  <2> QED
    BY <1>2, <2>2, NothingRemembered DEF Goes, Turn, Moves
<1>4. CASE CommitRequest(s) /\ Op(s) = "CreateAccount"
  <2>1. Continue(s, "findLink")
    BY <1>4 DEF CommitRequest
  <2>2. Moves(s) /\ ask' = ask /\ answer' = answer /\ pc'[s] = "findLink"
    BY <2>1, ContinueGoes
  <2>3. Op(s)' = "CreateAccount"
    BY <1>4, <2>2 DEF Op
  <2>4. SessionRemembers(s)'
    BY <1>1, <1>2, <2>2, <2>3 DEF SessionRemembers, OnlyReads, HasFound, RemembersToken,
       RemembersRow, RemembersWallet, RemembersEmail, RemembersReferrer, HasPrepared,
       HasDone, AnswersLast
  <2> QED
    BY <1>2, <2>2, <2>4 DEF Goes, Turn, Moves
<1>5. CASE CommitRequest(s) /\ Continue(s, "tell") /\ Op(s) # "CreateAccount"
  <2>1. /\ Moves(s) /\ ask' = ask /\ answer' = answer /\ pc'[s] = "tell" /\ local' = local
    BY <1>5, ContinueGoes
  <2>2. HasDone(s)'
    BY <1>1, <1>5, <2>1, CommitDoes DEF HasDone, Op, Arg
  <2>3. RemembersToken(s)'
    <3>1. /\ Acct(s) \in issued /\ Acct(s) \in AccountIds
          /\ Live(Acct(s)) => Linked(Cred(s), Acct(s))
          /\ Cred(s) \in Addresses \cup Wallets
      BY <1>1, <1>5, ReadyFacts DEF SessionRemembers, RemembersToken, HasFound, Base,
         AccountsTypeOK, TypeOK
    <3>2. Cred(s)' = Cred(s) /\ Acct(s)' = Acct(s)
      BY <2>1 DEF Cred, Acct
    <3>3. \A e \in Addresses : Normalize[e] \in Addresses
      BY AccountsAssumption
    <3>4. Acct(s) \in issued' /\ (Live(Acct(s))' => Live(Acct(s)))
      BY <3>1, <3>2 DEF AccountsAreKept, Live
    <3>5. ASSUME Live(Acct(s))'
          PROVE  Linked(Cred(s), Acct(s))'
      BY <3>1, <3>2, <3>3, <3>4, <3>5
         DEF AccountsAreKept, LinksAreKept, Linked, Live, EmailOf
    <3> QED
      BY <3>2, <3>4, <3>5 DEF RemembersToken
  <2>4. SessionRemembers(s)'
    BY <1>1, <2>1, <2>2, <2>3 DEF SessionRemembers, OnlyReads, RemembersRow, RemembersWallet,
       RemembersEmail, RemembersReferrer, HasPrepared, AnswersLast
  <2> QED
    BY <1>2, <2>1, <2>4 DEF Goes, Turn, Moves
<1>6. CASE CommitRequest(s) /\ Finish({s}, "ok") /\ Op(s) # "CreateAccount"
  <2>1. /\ Moves(s) /\ \A t \in Sessions \ {s} : answer'[t] = answer[t]
        /\ pc'[s] = "done" /\ ask' = ask /\ local'[s].acct = local[s].acct
    BY <1>6, FinishGoes
  <2>2. HasDone(s)'
    BY <1>1, <1>6, <2>1, CommitDoes DEF HasDone, Op, Arg
  <2> QED
    BY <1>2, <2>1, <2>2, SuccessRemembered DEF Goes, Turn, Moves
<1> QED
  BY <1>3, <1>4, <1>5, <1>6 DEF CommitRequest

LEMMA TellGoes ==
  ASSUME Base, NEW s \in Sessions, Tell(s)
  PROVE  Goes(s)
<1>1. UNCHANGED storeVars
  BY DEF Tell
<1>2. WritesReferrals /\ \A t \in Sessions : SameWrites(t)
  BY <1>1, WritesNoReferral DEF storeVars, SameWrites
<1>3. SessionRemembers(s)
  BY DEF Base, AnswersInvariant
<1>4. CASE pc[s] = "tell" /\ Finish({s}, "ok")
  <2>1. /\ Moves(s) /\ \A t \in Sessions \ {s} : answer'[t] = answer[t]
        /\ pc'[s] = "done" /\ ask' = ask /\ local'[s].acct = local[s].acct
    BY <1>4, FinishGoes
  <2>2. HasDone(s)'
    BY <1>1, <1>3, <1>4, <2>1 DEF storeVars, SessionRemembers, HasDone, Op, Arg, Cred, Acct,
       NewAddress, Effect, EmailOf, Live
  <2> QED
    BY <1>2, <2>1, <2>2, SuccessRemembered DEF Goes, Turn, Moves
<1>5. CASE /\ pc[s] = "tellBeforeCommit" /\ Goto(s, "commit")
           /\ UNCHANGED <<ask, local, answer, scenario>>
  <2>1. Moves(s) /\ pc'[s] = "commit" /\ ask' = ask /\ answer' = answer
    BY <1>5 DEF Goto, Moves, Rests, Base, AccountsTypeOK, HandlersReady
  <2>2. ask[s].op = "CreateAccount" /\ answer[s] # "ok"
    BY <1>3, <1>5, ReadyFacts DEF Base, ReadyAt, SessionRemembers, AnswersLast
  <2> QED
    BY <1>2, <2>1, <2>2, NothingRemembered DEF Goes, Turn, Moves
<1> QED
  BY <1>4, <1>5 DEF Tell

LEMMA ArriveGoes ==
  ASSUME Base, NEW s \in Sessions, NEW r \in Requests, Arrive(s, r)
  PROVE  Goes(s)
<1>1. /\ pc'[s] = "start" /\ answer'[s] = "none" /\ UNCHANGED storeVars
      /\ \A t \in Sessions \ {s} : Rests(t) /\ answer'[t] = answer[t]
  BY DEF Arrive, Goto, Rests, Base, AccountsTypeOK, HandlersReady
<1>2. WritesReferrals /\ \A t \in Sessions : SameWrites(t)
  BY <1>1, WritesNoReferral DEF storeVars, SameWrites
<1> QED
  BY <1>1, <1>2, NothingRemembered DEF Goes, Turn

----------------------------------------------------------------------------
(* Every step.                                                             *)

AllRemember == WritesReferrals /\ \A t \in Sessions : SessionRemembers(t)'

LEMMA GoesRemember ==
  ASSUME Base, AccountsAreKept, NEW s \in Sessions, Goes(s)
  PROVE  AllRemember
  BY RestRemembers DEF Goes, Turn, AllRemember

LEMMA DieRemembers ==
  ASSUME Base, AccountsAreKept, NEW replica, Die(replica)
  PROVE  AllRemember
<1> DEFINE S == {s \in Sessions : Replica[s] = replica /\ ~Idle(s)}
<1>1. /\ S \in SUBSET Sessions /\ Rollback(S)
      /\ \A t \in S : pc'[t] = "done" /\ answer'[t] = "lost"
      /\ \A t \in Sessions \ S : Rests(t) /\ answer'[t] = answer[t]
  BY DEF Die, Finish, Rests
<1> HIDE DEF S
<1>2. /\ \A t \in Sessions \ S : SameWrites(t)
      /\ \A t \in S, a \in AccountIds : accountWrites'[t][a] = Kept
  BY <1>1 DEF Rollback, Forget, SameWrites
<1>3. WritesReferrals
  BY <1>2, WritesNoReferral DEF SameWrites
<1>4. \A t \in S : SessionRemembers(t)'
  BY <1>1, NothingRemembered
<1>5. \A t \in Sessions \ S : SessionRemembers(t)'
  BY <1>1, <1>2, RestRemembers
<1> QED
  BY <1>3, <1>4, <1>5 DEF AllRemember

LEMMA NextRemembers ==
  ASSUME Base, AccountsAreKept, [Next]_vars
  PROVE  AllRemember
<1>1. ASSUME NEW s \in Sessions, LoadNothing(s) \/ LinkNotFound(s)
      PROVE  AllRemember
  <2>1. ASSUME NEW result, Reply(s, result), result # "ok"
        PROVE  AllRemember
    BY <2>1, RefusalGoes, GoesRemember
  <2>2. (\E result : Reply(s, result) /\ result # "ok") \/ Die(Replica[s])
    BY <1>1 DEF LoadNothing, LinkNotFound
  <2> QED
    BY <2>1, <2>2, DieRemembers
<1>2. ASSUME NEW s \in Sessions, Step(s)
      PROVE  AllRemember
  <2>1. CASE LoadNothing(s) \/ LinkNotFound(s)
    BY <1>1, <2>1
  <2>2. CASE ~LoadNothing(s) /\ ~LinkNotFound(s)
    <3>1. Goes(s)
      BY <1>2, <2>2, FindLinkGoes, LoadGoes, AnswerLoadedGoes, CreateGoes, ProfileGoes,
         DeleteGoes, LinkBeginGoes, LinkGoes, FindReferrerGoes, CheckReferrerGoes, ReferGoes,
         CommitGoes, TellGoes DEF Step
    <3> QED
      BY <3>1, GoesRemember
  <2> QED
    BY <2>1, <2>2
<1>3. ASSUME NEW s \in Sessions,
             \/ \E r \in Requests : Arrive(s, r)
             \/ StatementFails(s) \/ CommitUnanswered(s)
      PROVE  AllRemember
  <2>1. Goes(s)
    BY <1>3, ArriveGoes, RefusalGoes, CommitGoes DEF StatementFails
  <2> QED
    BY <2>1, GoesRemember
<1>4. ASSUME ReplicaDies
      PROVE  AllRemember
  BY <1>4, DieRemembers DEF ReplicaDies
<1>5. ASSUME UNCHANGED vars
      PROVE  AllRemember
  <2>1. \A t \in Sessions : Rests(t) /\ SameWrites(t) /\ answer'[t] = answer[t]
    BY <1>5 DEF vars, handlerVars, storeVars, Rests, SameWrites
  <2>2. WritesReferrals
    BY <2>1, WritesNoReferral DEF SameWrites
  <2> QED
    BY <2>1, <2>2, RestRemembers DEF AllRemember
<1> QED
  BY <1>2, <1>3, <1>4, <1>5 DEF Next

LEMMA AnswersInvariantStep ==
  ASSUME Base, [Next]_vars
  PROVE  AnswersInvariant'
<1>1. AccountsAreKept /\ IdsAreFresh'
  BY StepKeepsAccounts
<1>2. AllRemember
  BY <1>1, NextRemembers
<1>3. [StoreNext]_storeVars
  BY StepTyped DEF Base
<1>4. OwnersRefer' /\ ReferralPartiesHaveWallets'
  BY <1>1, <1>2, <1>3, ReferralsAreKept DEF AllRemember
<1> QED
  BY <1>1, <1>2, <1>4 DEF AllRemember, AnswersInvariant

LEMMA NothingToRemember == Init => AnswersInvariant
<1> SUFFICES ASSUME Init
             PROVE  AnswersInvariant
  OBVIOUS
<1>1. /\ \A a \in AccountIds : accounts[a] = None
      /\ \A s \in Sessions :
           /\ pc[s] = "idle" /\ answer[s] = "none" /\ NothingWritten(s)
           /\ \A a \in AccountIds : accountWrites[s][a] = Kept
  BY DEF Init, StoreInit, NothingWritten
<1>2. IdsAreFresh /\ OwnersRefer /\ ReferralPartiesHaveWallets
  BY <1>1 DEF IdsAreFresh, OwnersRefer, ReferredBy, ReferralPartiesHaveWallets, Live
<1>3. \A s \in Sessions : SessionRemembers(s)
  BY <1>1 DEF SessionRemembers, OnlyReads, HasFound, RemembersToken, RemembersRow,
     RemembersWallet, RemembersEmail, RemembersReferrer, HasPrepared, HasDone, AnswersLast
<1> QED
  BY <1>2, <1>3 DEF AnswersInvariant

----------------------------------------------------------------------------
(* What a handler has read of an account, in whichever of its queries, is  *)
(* true when it uses it, as long as the account lives: links are sticky,   *)
(* updates are not withdrawn, and the ids of deleted accounts do not recur.*)
THEOREM AnswersInvariantHolds == Spec => []AnswersInvariant
<1>1. /\ AccountsTypeOK /\ StoreInvariant /\ HandlersInvariant /\ AnswersInvariant
      /\ [Next]_vars
      => AnswersInvariant'
  BY AnswersInvariantStep DEF Base
<1>2. Spec => []StoreInvariant
  BY ServiceImplementsStore, StoreInvariantHolds, PTL
<1> QED
  BY <1>1, <1>2, NothingToRemember, AccountsTyped, HandlersInvariantHolds, PTL DEF Spec

(* What a client was told has been done stays done while the account lives,*)
(* whatever other requests of the same account do, fail or die.            *)
THEOREM AnswersAreKept == Spec => []AnswersHold
<1>1. AnswersInvariant => AnswersHold
  BY DEF AnswersInvariant, SessionRemembers, HasDone, AnswersHold
<1> QED
  BY <1>1, AnswersInvariantHolds, PTL

(* When a handler tells Customer.io that an email belongs to a wallet, the *)
(* account that it found still has both, unless it has been deleted.       *)
THEOREM ToldEmailsAreLinked == Spec => []ToldEmailIsLinked
<1>1. ASSUME AnswersInvariant, NEW s \in Sessions, pc[s] = "tell", EmailIsTold(s), Live(Acct(s))
      PROVE  wallets[Cred(s)] = Acct(s) /\ EmailOf(emails[NewAddress(s)], Acct(s))
  <2>1. SessionRemembers(s)
    BY <1>1 DEF AnswersInvariant
  <2>2. Effect(s) /\ Linked(Cred(s), Acct(s))
    BY <1>1, <2>1 DEF SessionRemembers, HasDone, RemembersToken, HasFound
  <2> QED
    BY <1>1, <2>2 DEF EmailIsTold, Effect, Linked
<1>2. AnswersInvariant => ToldEmailIsLinked
  BY <1>1 DEF ToldEmailIsLinked
<1> QED
  BY <1>2, AnswersInvariantHolds, PTL

(* Nobody is referred by an account without a wallet, or by itself, though *)
(* SubmitReferralCode checks this in reads that the deletions of others    *)
(* may separate from its UPDATE.                                           *)
THEOREM ReferrersOwnWallets == Spec => []ReferralPartiesHaveWallets
<1>1. AnswersInvariant => ReferralPartiesHaveWallets
  BY DEF AnswersInvariant
<1> QED
  BY <1>1, AnswersInvariantHolds, PTL

=============================================================================
