---------------------------- MODULE PromiseProofs ----------------------------
(***************************************************************************)
(* Proof that the handlers implement the Directory, in two parts.          *)
(*                                                                         *)
(* 1. A commit has one effect, that of its request: EffectsInvariant is    *)
(*    inductive.  A transaction's locks keep the committed rows that it will*)
(*    replace as they were when it wrote them.                             *)
(* 2. Every step of Accounts is a step of Directory, or none, under the    *)
(*    refinement mapping of AccountsImplement.  EffectsInvariant says what *)
(*    each commit changes; the rest is that a refusal has a reason in the  *)
(*    committed tables.                                                    *)
(***************************************************************************)
EXTENDS AccountsImplement, AccountsProofs

----------------------------------------------------------------------------
(* 1. Effects.                                                             *)

EffectsBase == Base /\ EffectsInvariant

----------------------------------------------------------------------------
(* What the locks of an open transaction keep.                             *)

(* Nobody else replaces a row that session t has written,                  *)
WrittenRowsStay(t) ==
  /\ \A a \in AccountIds : accountWrites[t][a] # Kept => accounts'[a] = accounts[a]
  /\ \A e \in Addresses : emailWrites[t][e] # Kept => emails'[e] = emails[e]
  /\ \A w \in Wallets : walletWrites[t][w] # Kept => wallets'[w] = wallets[w]

(* or commits a reference to an account that session t has deleted.        *)
NoNewReferences(t) ==
  \A a \in AccountIds : accountWrites[t][a] = None =>
    /\ \A b \in AccountIds :
         accountWrites[t][b] = Kept /\ ReferredBy(accounts'[b], a) => ReferredBy(accounts[b], a)
    /\ \A e \in Addresses :
         emailWrites[t][e] = Kept /\ EmailOf(emails'[e], a) => EmailOf(emails[e], a)
    /\ \A w \in Wallets :
         walletWrites[t][w] = Kept /\ wallets'[w] = a => wallets[w] = a

LEMMA LocksHold ==
  ASSUME Base, [StoreNext]_storeVars, NEW t \in Sessions, SameWrites(t)
  PROVE  WrittenRowsStay(t) /\ NoNewReferences(t)
<1> DEFINE Goal == WrittenRowsStay(t) /\ NoNewReferences(t)
<1>1. ASSUME UNCHANGED <<accounts, emails, wallets>>
      PROVE  Goal
  BY <1>1 DEF WrittenRowsStay, NoNewReferences
<1>2. ASSUME NEW s \in Sessions, NEW a \in AccountIds, NEW row \in AccountRow,
             UpdateAccountNow(s, a, row)
      PROVE  Goal
  <2>1. /\ row.referredBy = accounts[a].referredBy /\ accounts[a] # None
        /\ UNCHANGED <<emails, wallets>> /\ isolation[s] = "none"
    BY <1>2 DEF UpdateAccountNow
  <2>2. accounts'[a] = row /\ \A b \in AccountIds \ {a} : accounts'[b] = accounts[b]
    BY <1>2 DEF UpdateAccountNow, Base, AccountsTypeOK, TypeOK
  <2>3. accountWrites[t][a] = Kept
    <3>1. CASE t = s
      BY <2>1, <3>1 DEF Base, HandlersInvariant, SessionKeeps, Unopened, NothingWritten
    <3>2. CASE t # s
      BY <1>2, <3>2 DEF UpdateAccountNow, AccountBusy, Others
    <3> QED
      BY <3>1, <3>2
  <2>4. accounts[a] # Kept
    BY NullsAreNotValues DEF Base, AccountsTypeOK, TypeOK
  <2> QED
    BY <2>1, <2>2, <2>3, <2>4 DEF WrittenRowsStay, NoNewReferences, ReferredBy
<1>3. ASSUME NEW s \in Sessions, Commit(s)
      PROVE  Goal
  <2>1. /\ \A a \in AccountIds : accounts'[a] = SeenAccount(s, a)
        /\ \A e \in Addresses : emails'[e] = SeenEmail(s, e)
        /\ \A w \in Wallets : wallets'[w] = SeenWallet(s, w)
    BY <1>3 DEF Commit, SeenAccounts, SeenEmails, SeenWallets
  <2>2. CASE t = s
    <3>1. NothingWritten(s)
      BY <1>3, <2>2 DEF Commit, Forget, SameWrites, NothingWritten
    <3> QED
      BY <2>2, <3>1, NullsAreNotValues DEF NothingWritten, WrittenRowsStay, NoNewReferences
  <2>3. CASE t # s
    <3>1. RowsApart(s, t) /\ ReferencesApart(s, t)
      BY <2>3 DEF Base, StoreInvariant, SessionsApart, Apart
    <3>2. WrittenRowsStay(t)
      BY <2>1, <3>1 DEF WrittenRowsStay, RowsApart, SeenAccount, SeenEmail, SeenWallet
    <3>3. NoNewReferences(t)
      BY <2>1, <3>1 DEF NoNewReferences, ReferencesApart, SeenAccount, SeenEmail, SeenWallet
    <3> QED
      BY <3>2, <3>3
  <2> QED
    BY <2>2, <2>3
<1>4. ASSUME NEW s \in Sessions, SessionStep(s)
      PROVE  Goal
  <2>1. \/ UNCHANGED <<accounts, emails, wallets>>
        \/ Commit(s)
        \/ \E a \in AccountIds, row \in AccountRow : UpdateAccountNow(s, a, row)
    BY <1>4 DEF SessionStep, Begin, InsertAccount, InsertEmail, InsertWallet, UpdateAccount,
       DeleteEmail, DeleteAccount, tables
  <2> HIDE DEF Goal
  <2> QED
    BY <1>1, <1>2, <1>3, <2>1
<1>5. CASE UNCHANGED storeVars \/ \E S \in SUBSET Sessions : Rollback(S)
  <2>1. UNCHANGED <<accounts, emails, wallets>>
    BY <1>5 DEF storeVars, Rollback, tables
  <2> QED
    BY <1>1, <2>1
<1> QED
  BY <1>4, <1>5 DEF StoreNext

----------------------------------------------------------------------------
(* What a session that does not move has prepared.                         *)

(* What the conditions of SessionPrepares say of one session is typed.     *)
LEMMA PreparedTyped ==
  ASSUME Base, NEW s \in Sessions, pc[s] # "idle"
  PROVE  /\ Cred(s) \in Wallets \/ (Cred(s) \notin Wallets /\ Normalize[Cred(s)] \in Addresses)
         /\ /\ Op(s) \in {"LinkEmail", "LinkEmailToken"}
            /\ pc[s] \in {"deleteEmail", "insertEmail", "touch", "commit", "tell"}
            => NewAddress(s) \in Addresses /\ Arg(s) \in Addresses
         /\ Op(s) = "LinkWalletToken" /\ pc[s] \in {"touch", "commit", "tell"} => Arg(s) \in Wallets
         /\ pc[s] \in {"insertLink", "tellBeforeCommit", "insertEmail", "touch", "commit",
                        "loadAccount", "loadPeer", "loaded", "checkReferrer", "refer"} =>
              Acct(s) \in AccountIds
<1>1. /\ Cred(s) \in Addresses \cup Wallets /\ Arg(s) \in ArgumentsOf(Op(s))
      /\ ReadyAt(pc[s], ask[s], local[s])
  BY ReadyFacts DEF Base
<1>2. \A e \in Addresses : Normalize[e] \in Addresses
  BY AccountsAssumption
<1>3. ASSUME Op(s) \in {"LinkEmail", "LinkEmailToken"},
             pc[s] \in {"deleteEmail", "insertEmail", "touch", "commit", "tell"}
      PROVE  NewAddress(s) \in Addresses /\ Arg(s) \in Addresses
  BY <1>1, <1>2, <1>3 DEF ReadyAt, ArgumentsOf, NewAddress, Op, Arg
<1>4. ASSUME Op(s) = "LinkWalletToken", pc[s] \in {"touch", "commit", "tell"}
      PROVE  Arg(s) \in Wallets
  BY <1>1, <1>4 DEF ReadyAt, ArgumentsOf, Op, Arg
<1> QED
  BY <1>1, <1>2, <1>3, <1>4 DEF ReadyAt, Acct

LEMMA RestPrepares ==
  ASSUME EffectsBase, AccountsAreKept, [StoreNext]_storeVars,
         NEW t \in Sessions, Rests(t), SameWrites(t)
  PROVE  SessionPrepares(t)'
<1>1. SessionPrepares(t) /\ SessionRemembers(t) /\ Base
  BY DEF EffectsBase, EffectsInvariant, Base, AnswersInvariant
<1>2. WrittenRowsStay(t) /\ NoNewReferences(t)
  BY <1>1, LocksHold
<1>3. /\ Op(t)' = Op(t) /\ Arg(t)' = Arg(t) /\ Cred(t)' = Cred(t) /\ Acct(t)' = Acct(t)
      /\ NewAddress(t)' = NewAddress(t) /\ Confirms(t)' = Confirms(t)
      /\ pc'[t] = pc[t] /\ local'[t] = local[t]
  BY DEF Rests, Op, Arg, Cred, Acct, NewAddress, Confirms
<1>4. /\ NothingWritten(t)' <=> NothingWritten(t)
      /\ NoAccounts(t)' <=> NoAccounts(t)
      /\ NoEmails(t)' <=> NoEmails(t)
      /\ NoWallets(t)' <=> NoWallets(t)
      /\ OnlyAccount(t)' <=> OnlyAccount(t)
      /\ \A e : OnlyEmail(t, e)' <=> OnlyEmail(t, e)
      /\ \A w : OnlyWallet(t, w)' <=> OnlyWallet(t, w)
  BY <1>3 DEF SameWrites, NothingWritten, NoAccounts, NoEmails, NoWallets, OnlyAccount,
     OnlyEmail, OnlyWallet
<1>5. accountWrites'[t] = accountWrites[t] /\ emailWrites'[t] = emailWrites[t]
      /\ walletWrites'[t] = walletWrites[t]
  BY DEF SameWrites
<1>6. Creates(t)'
  <2>1. SUFFICES ASSUME pc[t] \in {"insertLink", "tellBeforeCommit", "commit"},
                        Op(t) = "CreateAccount"
                 PROVE  Live(Acct(t))' = Live(Acct(t))
                        /\ (pc[t] # "insertLink" => CreatesFirstLink(t)')
    BY <1>1, <1>3, <1>4, <1>5 DEF SessionPrepares, Creates
  <2>2. Acct(t) \in AccountIds
        /\ (Cred(t) \in Wallets \/ (Cred(t) \notin Wallets /\ Normalize[Cred(t)] \in Addresses))
    BY <1>1, <2>1, PreparedTyped
  <2>3. \A c \in Codes : NewRow(c) # Kept
    <3>1. \A c \in Codes : NewRow(c) \in AccountRow
      BY DEF NewRow, AccountRow
    <3> QED
      BY <3>1, NullsAreNotValues
  <2>4. accounts'[Acct(t)] = accounts[Acct(t)]
    BY <1>1, <1>2, <2>1, <2>2, <2>3 DEF SessionPrepares, Creates, WrittenRowsStay
  <2>5. ASSUME pc[t] # "insertLink"
        PROVE  CreatesFirstLink(t)'
    <3>1. CreatesFirstLink(t)
      BY <1>1, <2>1, <2>5 DEF SessionPrepares, Creates
    <3>2. CASE Cred(t) \in Wallets
      <4>1. walletWrites[t][Cred(t)] # Kept
        BY <2>2, <3>1, <3>2, NullsAreNotValues DEF CreatesFirstLink
      <4> QED
        BY <1>2, <1>3, <1>4, <1>5, <3>1, <3>2, <4>1 DEF CreatesFirstLink, WrittenRowsStay
    <3>3. CASE Cred(t) \notin Wallets
      <4>1. emailWrites[t][Normalize[Cred(t)]] # Kept
        <5>1. [account |-> Acct(t), confirmed |-> TRUE] \in EmailRow
          BY <2>2 DEF EmailRow
        <5> QED
          BY <3>1, <3>3, <5>1, NullsAreNotValues DEF CreatesFirstLink
      <4> QED
        BY <1>2, <1>3, <1>4, <1>5, <2>2, <3>1, <3>3, <4>1 DEF CreatesFirstLink, WrittenRowsStay
    <3> QED
      BY <3>2, <3>3
  <2> QED
    BY <1>3, <2>4, <2>5 DEF Live
<1>7. ASSUME Touches(t), Acct(t) \in AccountIds
      PROVE  Touches(t)'
  <2>1. CASE pc[t] = "commit"
    <3>1. accountWrites[t][Acct(t)] # Kept
      BY <1>1, <1>7, <2>1, NullsAreNotValues DEF Touches, Base, AccountsTypeOK, TypeOK, Live
    <3> QED
      BY <1>2, <1>3, <1>4, <1>5, <1>7, <2>1, <3>1 DEF Touches, WrittenRowsStay, Live
  <2> QED
    BY <1>3, <1>4, <1>5, <1>7, <2>1 DEF Touches
<1>8. LinksEmail(t)'
  <2> DEFINE e == NewAddress(t)
  <2>1. SUFFICES ASSUME pc[t] \in {"insertEmail", "touch", "commit"},
                        Op(t) \in {"LinkEmail", "LinkEmailToken"}
                 PROVE  /\ Touches(t)'
                        /\ emailWrites[t][e] # Kept => emails'[e] = emails[e]
    <3>1. LinksEmail(t)
      BY <1>1 DEF SessionPrepares
    <3>2. ASSUME NEW row, NEW old, Touches(t)', row # Kept => old = emails[e],
                 row = emailWrites[t][e], old = emails'[e],
                 pc[t] \in {"insertEmail", "touch", "commit"},
                 Op(t) \in {"LinkEmail", "LinkEmailToken"}
          PROVE  LinksEmail(t)'
      <4>1. Replaceable(t, e) /\ row # Kept => Replaceable(t, e)'
        BY <1>3, <3>2 DEF Replaceable, EmailOf
      <4>2. [account |-> Acct(t), confirmed |-> Confirms(t)] # Kept
        <5>1. Acct(t) \in AccountIds
          BY <1>1, <3>2, PreparedTyped
        <5>2. [account |-> Acct(t), confirmed |-> Confirms(t)] \in EmailRow
          BY <5>1 DEF EmailRow, Confirms
        <5> QED
          BY <5>2, NullsAreNotValues
      <4> QED
        BY <1>3, <1>4, <1>5, <3>1, <3>2, <4>1, <4>2, NullsAreNotValues DEF LinksEmail
    <3> QED
      BY <1>3, <3>2 DEF LinksEmail
  <2>2. e \in Addresses /\ Acct(t) \in AccountIds
    BY <1>1, <2>1, PreparedTyped
  <2>3. Touches(t)
    BY <1>1, <2>1 DEF SessionPrepares, LinksEmail
  <2> QED
    BY <1>2, <1>7, <2>2, <2>3 DEF WrittenRowsStay
<1>9. LinksWallet(t)'
  <2>1. SUFFICES ASSUME pc[t] \in {"touch", "commit"}, Op(t) = "LinkWalletToken"
                 PROVE  Touches(t)' /\ wallets'[Arg(t)] = wallets[Arg(t)]
    BY <1>1, <1>3, <1>4 DEF SessionPrepares, LinksWallet
  <2>2. Arg(t) \in Wallets /\ Acct(t) \in AccountIds
    BY <1>1, <2>1, PreparedTyped
  <2>3. Touches(t)
    BY <1>1, <2>1 DEF SessionPrepares, LinksWallet
  <2>4. walletWrites[t][Arg(t)] = Acct(t)
    BY <1>1, <2>1 DEF SessionRemembers, HasPrepared
  <2> QED
    BY <1>2, <1>7, <2>2, <2>3, <2>4, NullsAreNotValues DEF WrittenRowsStay
<1>10. Refers(t)'
  <2> DEFINE a == Acct(t)
             b == local[t].referrer
  <2>1. SUFFICES ASSUME pc[t] \in {"loadPeer", "loaded", "checkReferrer", "refer", "commit"},
                        Op(t) = "SubmitReferralCode"
                 PROVE  ReferralStands(t)'
    BY <1>3 DEF Refers
  <2>2. ReferralStands(t)
    BY <1>1, <2>1 DEF SessionPrepares, Refers
  <2>3. a \in AccountIds /\ a \in issued
    BY <1>1, <2>1, PreparedTyped DEF SessionRemembers, RemembersToken, HasFound
  <2>4. \A x \in issued : accounts'[x] # None =>
          /\ Live(x) /\ Extends(accounts'[x], accounts[x])
          /\ accounts[x] # Kept /\ accounts'[x] # Kept
    <3>1. \A x \in issued : x \in AccountIds /\ accounts[x] # Kept
      BY <1>1, NullsAreNotValues DEF Base, AccountsTypeOK, TypeOK
    <3>2. TypeOK'
      BY <1>1, StoreTypeStep DEF Base, AccountsTypeOK
    <3>3. \A x \in issued : accounts'[x] # Kept
      BY <3>1, <3>2, NullsAreNotValues DEF TypeOK
    <3> QED
      BY <3>1, <3>3 DEF AccountsAreKept, UpdatesAreKept, Live
  <2>5. ASSUME pc[t] \in {"loadPeer", "loaded"}, accounts'[a] # None, local[t].row.referredAt
        PROVE  accounts'[a].referredAt
    <3>1. Live(a) /\ Extends(accounts'[a], accounts[a])
      BY <2>3, <2>4, <2>5
    <3>2. accounts[a].referredAt
      BY <2>2, <2>5, <3>1 DEF ReferralStands
    <3> QED
      BY <3>1, <3>2 DEF Extends
  <2>6. ASSUME pc[t] \in {"checkReferrer", "refer", "commit"}
        PROVE  b \in issued' /\ (accounts'[b] # None => HasCode(accounts'[b], Arg(t)))
    <3>1. b \in issued /\ (Live(b) => HasCode(accounts[b], Arg(t)))
      BY <2>2, <2>6 DEF ReferralStands
    <3>2. accounts'[b] # None => /\ Live(b) /\ Extends(accounts'[b], accounts[b])
                                 /\ accounts'[b] # Kept
      BY <2>4, <3>1
    <3> QED
      BY <3>1, <3>2 DEF Extends, HasCode, AccountsAreKept
  <2>7. ASSUME pc[t] = "checkReferrer", local[t].referrersReferrer # None, accounts'[b] # None
        PROVE  accounts'[b].referredAt
    <3>1. b \in issued
      BY <2>2, <2>7 DEF ReferralStands
    <3>2. Live(b) /\ Extends(accounts'[b], accounts[b])
      BY <2>4, <2>7, <3>1
    <3>3. accounts[b].referredAt
      BY <2>2, <2>7, <3>2 DEF ReferralStands
    <3> QED
      BY <3>2, <3>3 DEF Extends
  <2>8. ASSUME pc[t] = "commit", accountWrites[t][a] # Kept
        PROVE  accounts'[a] = accounts[a]
    BY <1>2, <2>3, <2>8 DEF WrittenRowsStay
  <2> QED
    <3>1. pc[t] = "commit" =>
            /\ OnlyAccount(t)' /\ NoEmails(t)' /\ NoWallets(t)'
            /\ accountWrites'[t][a] # Kept =>
                 /\ accounts'[a] # None
                 /\ accountWrites'[t][a] =
                      [accounts'[a] EXCEPT !.referredBy = b, !.referredAt = TRUE]
      BY <1>4, <1>5, <2>2, <2>8 DEF ReferralStands, Live
    <3>2. a' = a /\ b' = b
      BY <1>3
    <3> QED
      BY <1>3, <2>5, <2>6, <2>7, <3>1, <3>2 DEF ReferralStands, Live, HasCode
<1>11. Removes(t)'
  <2> DEFINE a == Acct(t)
  <2>1. SUFFICES ASSUME pc[t] = "commit", Op(t) = "DeleteUser", Live(a), DeletesAll(t, a)
                 PROVE  Live(a)' /\ DeletesAll(t, a)'
    BY <1>1, <1>3, <1>4 DEF SessionPrepares, Removes, DeletesAll, Live
  <2>2. a \in AccountIds
    BY <1>1, <2>1, PreparedTyped
  <2>3. accountWrites[t][a] = None
    BY <2>1, <2>2 DEF DeletesAll
  <2> QED
    <3>1. accounts'[a] = accounts[a]
      BY <1>2, <2>2, <2>3, NullsAreNotValues DEF WrittenRowsStay
    <3>2. ASSUME NEW b \in AccountIds \ {a}
          PROVE  accountWrites[t][b] = IF ReferredBy(accounts'[b], a) THEN Unreferred(accounts'[b])
                                       ELSE Kept
      <4>1. accountWrites[t][b] = IF ReferredBy(accounts[b], a) THEN Unreferred(accounts[b])
                                  ELSE Kept
        BY <2>1 DEF DeletesAll
      <4>2. CASE accountWrites[t][b] = Kept
        <5>1. accounts[b] \in AccountRow => Unreferred(accounts[b]) \in AccountRow
          BY DEF Unreferred, AccountRow
        <5>2. ~ReferredBy(accounts[b], a)
          BY <1>1, <4>1, <4>2, <5>1, NullsAreNotValues
             DEF ReferredBy, Base, AccountsTypeOK, TypeOK
        <5> QED
          BY <1>2, <2>2, <2>3, <4>2, <5>2 DEF NoNewReferences
      <4>3. CASE accountWrites[t][b] # Kept
        BY <1>2, <4>1, <4>3 DEF WrittenRowsStay
      <4> QED
        BY <4>2, <4>3
    <3>3. ASSUME NEW e \in Addresses
          PROVE  emailWrites[t][e] = IF EmailOf(emails'[e], a) THEN None ELSE Kept
      BY <1>2, <2>1, <2>2, <2>3, NullsAreNotValues
         DEF DeletesAll, WrittenRowsStay, NoNewReferences
    <3>4. ASSUME NEW w \in Wallets
          PROVE  walletWrites[t][w] = IF wallets'[w] = a THEN None ELSE Kept
      BY <1>2, <2>1, <2>2, <2>3, NullsAreNotValues
         DEF DeletesAll, WrittenRowsStay, NoNewReferences
    <3>5. Acct(t)' = a
      BY <1>3
    <3>6. DeletesAll(t, a)'
      BY <1>5, <2>3, <3>2, <3>3, <3>4, <3>5 DEF DeletesAll
    <3> QED
      BY <2>1, <3>1, <3>5, <3>6 DEF Live
<1> QED
  BY <1>6, <1>8, <1>9, <1>10, <1>11 DEF SessionPrepares

----------------------------------------------------------------------------
(* What the session that moves has then prepared.                          *)

LEMMA NothingPrepared ==
  ASSUME NEW s \in Sessions,
         \/ pc'[s] \in {"idle", "start", "loadAccount", "deleteEmail", "tell", "done"}
         \/ pc'[s] = "loaded" /\ ask'[s].op # "SubmitReferralCode"
  PROVE  SessionPrepares(s)'
  BY DEF SessionPrepares, Creates, LinksEmail, LinksWallet, Refers, Removes, Op

LEMMA ReplyPrepares ==
  ASSUME NEW s \in Sessions, NEW result, Reply(s, result)
  PROVE  SessionPrepares(s)'
  BY FinishGoes, NothingPrepared DEF Reply

LEMMA LookupPrepares ==
  ASSUME EffectsBase, NEW s \in Sessions,
         FindLink(s) \/ LoadAccount(s) \/ LoadPeer(s) \/ AnswerLoaded(s)
  PROVE  SessionPrepares(s)'
<1>1. Base /\ SessionRemembers(s) /\ SessionPrepares(s)
  BY DEF EffectsBase, Base, AnswersInvariant, EffectsInvariant
<1>2. CASE FindLink(s)
  BY <1>1, <1>2, KeepGoes, NothingPrepared DEF FindLink
<1>3. CASE AnswerLoaded(s)
  BY <1>3, ReplyPrepares DEF AnswerLoaded
<1>4. ASSUME Moves(s), ask' = ask, UNCHANGED storeVars, pc'[s] \in {"loadPeer", "loaded"},
             local'[s].acct = local[s].acct,
             /\ Live(Acct(s)) /\ local'[s].row.referredAt /\ Op(s) = "SubmitReferralCode"
             => accounts[Acct(s)].referredAt
      PROVE  SessionPrepares(s)'
  <2>1. Op(s)' = Op(s) /\ Acct(s)' = Acct(s) /\ accounts' = accounts
    BY <1>4 DEF Op, Acct, storeVars
  <2>2. Refers(s)'
    BY <1>4, <2>1 DEF Refers, ReferralStands, Live
  <2> QED
    BY <1>4, <2>2 DEF SessionPrepares, Creates, LinksEmail, LinksWallet, Removes
<1>5. CASE LoadAccount(s)
  <2>1. pc[s] = "loadAccount" /\ local[s] \in Locals /\ Acct(s) \in AccountIds
    BY <1>1, <1>5, ReadyFacts DEF LoadAccount, Base, ReadyAt, Acct
  <2>2. NothingWritten(s)
    BY <1>1, <2>1 DEF SessionRemembers, OnlyReads
  <2>3. /\ Moves(s) /\ ask' = ask /\ pc'[s] = "loadPeer" /\ UNCHANGED storeVars
        /\ local'[s] = [local[s] EXCEPT !.row = SeenAccount(s, Acct(s))]
    BY <1>1, <1>5, KeepGoes DEF LoadAccount
  <2>4. local'[s].acct = local[s].acct /\ local'[s].row = accounts[Acct(s)]
    BY <2>1, <2>2, <2>3, SeesCommitted DEF Locals
  <2> QED
    BY <1>4, <2>3, <2>4
<1>6. CASE LoadPeer(s)
  <2>1. pc[s] = "loadPeer" /\ local[s] \in Locals /\ Acct(s) \in AccountIds
    BY <1>1, <1>6, ReadyFacts DEF LoadPeer, Base, ReadyAt, Acct
  <2>2. /\ Moves(s) /\ ask' = ask /\ pc'[s] = "loaded" /\ UNCHANGED storeVars
        /\ \/ local'[s] = [local[s] EXCEPT !.email = EmailOfAccount(s, Acct(s))]
           \/ local'[s] = [local[s] EXCEPT !.wallet = WalletOfAccount(s, Acct(s))]
    BY <1>1, <1>6, KeepGoes DEF LoadPeer
  <2>3. local'[s].acct = local[s].acct /\ local'[s].row = local[s].row
    BY <2>1, <2>2 DEF Locals
  <2> QED
    BY <1>1, <1>4, <2>1, <2>2, <2>3 DEF SessionPrepares, Refers, ReferralStands
<1> QED
  BY <1>2, <1>3, <1>5, <1>6

(* CreateAccount inserts two rows, for an id and a link that are new.      *)
LEMMA CreatePrepares ==
  ASSUME EffectsBase, NEW s \in Sessions,
         \/ BeginCreate(s) \/ DrawCode(s) \/ InsertNewAccount(s)
         \/ InsertFirstWallet(s) \/ InsertFirstEmail(s)
  PROVE  SessionPrepares(s)'
<1>1. Base /\ SessionPrepares(s)
  BY DEF EffectsBase, EffectsInvariant
<1>2. ASSUME pc'[s] \in {"drawCode", "insertAccount", "insertLink", "tellBeforeCommit", "commit"},
             Op(s)' = "CreateAccount", Creates(s)'
      PROVE  SessionPrepares(s)'
  BY <1>2 DEF SessionPrepares, LinksEmail, LinksWallet, Refers, Removes
<1>3. CASE BeginCreate(s)
  <2>1. CASE CreateConflict(s)
    BY <1>3, <2>1, ReplyPrepares DEF BeginCreate
  <2>2. CASE ~CreateConflict(s)
    <3>1. pc[s] = "start" /\ Op(s) = "CreateAccount" /\ Continue(s, "drawCode")
          /\ Begin(s, Isolation[Op(s)])
      BY <1>3, <2>2 DEF BeginCreate
    <3>2. NothingWritten(s)
      BY <1>1, <3>1 DEF Base, HandlersInvariant, SessionKeeps, Unopened, Quiet
    <3>3. NothingWritten(s)'
      BY <3>1, <3>2 DEF Begin, writes, NothingWritten
    <3> QED
      BY <1>1, <1>2, <3>1, <3>3, ContinueGoes DEF Creates, Op
  <2> QED
    BY <2>1, <2>2
<1>4. CASE DrawCode(s)
  <2>1. PICK locals : Keep(s, locals, "insertAccount")
    BY <1>4 DEF DrawCode
  <2>2. pc[s] = "drawCode" /\ Op(s) = "CreateAccount" /\ UNCHANGED storeVars
    BY <1>1, <1>4, ReadyFacts DEF DrawCode, Base, ReadyAt, Op
  <2>3. NothingWritten(s)'
    BY <1>1, <2>2 DEF SessionPrepares, Creates, NothingWritten, storeVars
  <2> QED
    BY <1>1, <1>2, <2>1, <2>2, <2>3, KeepGoes DEF Creates, Op
<1>5. CASE InsertNewAccount(s)
  <2>1. CASE Reply(s, "failed")
    BY <2>1, ReplyPrepares
  <2>2. ASSUME NEW a \in AccountIds, InsertAccount(s, a, local[s].code),
               Keep(s, [local[s] EXCEPT !.acct = a], "insertLink")
        PROVE  SessionPrepares(s)'
    <3>1. /\ pc[s] = "insertAccount" /\ Op(s) = "CreateAccount" /\ local[s].code \in Codes
          /\ local[s] \in Locals
      BY <1>1, <1>5, ReadyFacts DEF InsertNewAccount, Base, ReadyAt, Op
    <3>2. NothingWritten(s)
      BY <1>1, <3>1 DEF SessionPrepares, Creates
    <3>3. ~Live(a)
      BY <1>1, <2>2 DEF InsertAccount, FreshId, Base, HandlersInvariant
    <3>4. /\ accountWrites'[s][a] = NewRow(local[s].code)
          /\ \A b \in AccountIds \ {a} : accountWrites'[s][b] = Kept
          /\ UNCHANGED <<accounts, emailWrites, walletWrites>>
      BY <1>1, <2>2, <3>2 DEF InsertAccount, NewRow, NothingWritten, tables,
         Base, AccountsTypeOK, TypeOK
    <3>5. pc'[s] = "insertLink" /\ Acct(s)' = a /\ Op(s)' = Op(s)
      BY <1>1, <2>2, <3>1, KeepGoes DEF Acct, Op, Locals
    <3>6. Creates(s)'
      BY <3>1, <3>2, <3>3, <3>4, <3>5
         DEF Creates, OnlyAccount, NoEmails, NoWallets, NothingWritten, Live
    <3> QED
      BY <1>2, <3>1, <3>5, <3>6
  <2> QED
    BY <1>5, <2>1, <2>2 DEF InsertNewAccount
<1>6. ASSUME pc[s] = "insertLink", NEW label \in {"tellBeforeCommit", "commit"},
             Continue(s, label), UNCHANGED <<accounts, accountWrites>>,
             CreatesFirstLink(s)'
      PROVE  SessionPrepares(s)'
  <2>1. Op(s) = "CreateAccount"
    BY <1>1, <1>6, ReadyFacts DEF Base, ReadyAt, Op
  <2>2. pc'[s] = label /\ Op(s)' = Op(s) /\ Acct(s)' = Acct(s)
    BY <1>1, <1>6, ContinueGoes DEF Op, Acct
  <2>3. Creates(s)
    BY <1>1 DEF SessionPrepares
  <2>4. Creates(s)'
    BY <1>6, <2>1, <2>2, <2>3 DEF Creates, OnlyAccount, Live
  <2> QED
    BY <1>2, <2>1, <2>2, <2>4
<1>7. pc[s] = "insertLink" => NoEmails(s) /\ NoWallets(s) /\ Acct(s) \in AccountIds
  BY <1>1, PreparedTyped, ReadyFacts DEF Base, ReadyAt, Op, SessionPrepares, Creates
<1>8. CASE InsertFirstWallet(s)
  <2>1. CASE Reply(s, "failed")
    BY <2>1, ReplyPrepares
  <2>2. CASE InsertWallet(s, Cred(s), Acct(s)) /\ Continue(s, "tellBeforeCommit")
    <3>1. pc[s] = "insertLink" /\ Cred(s) \in Wallets
      BY <1>8 DEF InsertFirstWallet
    <3>2. /\ walletWrites'[s][Cred(s)] = Acct(s)
          /\ \A v \in Wallets \ {Cred(s)} : walletWrites'[s][v] = walletWrites[s][v]
          /\ UNCHANGED <<accounts, wallets, accountWrites, emailWrites>>
          /\ SeenWallet(s, Cred(s)) = None
      BY <1>1, <2>2, <3>1 DEF InsertWallet, InsertWalletRefused, tables, Base, AccountsTypeOK, TypeOK
    <3>3. wallets[Cred(s)] = None
      BY <1>7, <3>1, <3>2 DEF NoWallets, SeenWallet
    <3>4. Cred(s)' = Cred(s) /\ Acct(s)' = Acct(s)
      BY <1>1, <2>2, ContinueGoes DEF Cred, Acct
    <3>5. CreatesFirstLink(s)'
      BY <1>7, <3>1, <3>2, <3>3, <3>4 DEF CreatesFirstLink, OnlyWallet, NoEmails, NoWallets
    <3> QED
      BY <1>6, <2>2, <3>1, <3>2, <3>5
  <2> QED
    BY <1>8, <2>1, <2>2 DEF InsertFirstWallet
<1>9. CASE InsertFirstEmail(s)
  <2> DEFINE e == Normalize[Cred(s)]
  <2>1. CASE Reply(s, "failed")
    BY <2>1, ReplyPrepares
  <2>2. CASE InsertEmail(s, e, Acct(s), TRUE) /\ Continue(s, "commit")
    <3>1. pc[s] = "insertLink" /\ Cred(s) \notin Wallets /\ e \in Addresses
      BY <1>9, AccountsAssumption DEF InsertFirstEmail
    <3>2. /\ emailWrites'[s][e] = [account |-> Acct(s), confirmed |-> TRUE]
          /\ \A f \in Addresses \ {e} : emailWrites'[s][f] = emailWrites[s][f]
          /\ UNCHANGED <<accounts, emails, accountWrites, walletWrites>>
          /\ SeenEmail(s, e) = None
      BY <1>1, <2>2, <3>1 DEF InsertEmail, InsertEmailRefused, tables, Base, AccountsTypeOK, TypeOK
    <3>3. emails[e] = None
      BY <1>7, <3>1, <3>2 DEF NoEmails, SeenEmail
    <3>4. Cred(s)' = Cred(s) /\ Acct(s)' = Acct(s)
      BY <1>1, <2>2, ContinueGoes DEF Cred, Acct
    <3>5. CreatesFirstLink(s)'
      BY <1>7, <3>1, <3>2, <3>3, <3>4 DEF CreatesFirstLink, OnlyEmail, NoEmails, NoWallets
    <3> QED
      BY <1>6, <2>2, <3>1, <3>2, <3>5
  <2> QED
    BY <1>9, <2>1, <2>2 DEF InsertFirstEmail
<1> QED
  BY <1>3, <1>4, <1>5, <1>8, <1>9

(* UpdateUser and AcceptTOS answer, DeleteUser deletes what it sees.       *)
LEMMA ProfilePrepares ==
  ASSUME EffectsBase, NEW s \in Sessions, UpdateUser(s) \/ AcceptTOS(s)
  PROVE  SessionPrepares(s)'
<1>1. pc'[s] = "done"
  <2>1. (\E result : Reply(s, result)) \/ (\E row : SaveNow(s, row))
    BY DEF UpdateUser, AcceptTOS
  <2> QED
    BY <2>1, FinishGoes DEF Reply, SaveNow
<1> QED
  BY <1>1, NothingPrepared

LEMMA DeletePrepares ==
  ASSUME EffectsBase, NEW s \in Sessions, DeleteUser(s)
  PROVE  SessionPrepares(s)'
<1> DEFINE a == Acct(s)
<1>1. Base /\ SessionRemembers(s)
  BY DEF EffectsBase, Base, AnswersInvariant
<1>2. pc[s] = "loaded" /\ Op(s) = "DeleteUser" /\ Continue(s, "commit")
  BY DEF DeleteUser
<1>3. NothingWritten(s) /\ a \in AccountIds
  BY <1>1, <1>2, PreparedTyped DEF SessionRemembers, OnlyReads
<1>4. pc'[s] = "commit" /\ Op(s)' = Op(s) /\ Acct(s)' = a
  BY <1>1, <1>2, ContinueGoes DEF Op, Acct
<1>5. /\ \A b \in AccountIds : SeenAccount(s, b) = accounts[b]
      /\ \A e \in Addresses : SeenEmail(s, e) = emails[e]
      /\ \A w \in Wallets : SeenWallet(s, w) = wallets[w]
  BY <1>3, SeesCommitted
<1>6. Removes(s)'
  <2>1. CASE UNCHANGED storeVars
    BY <1>3, <2>1 DEF Removes, NothingWritten, storeVars
  <2>2. CASE DeleteAccount(s, a)
    <3>1. Live(a) /\ accounts' = accounts /\ emails' = emails /\ wallets' = wallets
      BY <1>3, <1>5, <2>2 DEF DeleteAccount, Live, tables
    <3>2. /\ \A b \in AccountIds : accountWrites'[s][b] =
               IF b = a THEN None
               ELSE IF ReferredBy(accounts[b], a) THEN Unreferred(accounts[b])
               ELSE Kept
          /\ \A e \in Addresses :
               emailWrites'[s][e] = IF EmailOf(emails[e], a) THEN None ELSE Kept
          /\ \A w \in Wallets :
               walletWrites'[s][w] = IF wallets[w] = a THEN None ELSE Kept
      BY <1>1, <1>3, <1>5, <2>2
         DEF DeleteAccount, NothingWritten, Base, AccountsTypeOK, TypeOK
    <3>3. DeletesAll(s, Acct(s))'
      BY <1>4, <3>1, <3>2 DEF DeletesAll
    <3> QED
      BY <1>4, <3>1, <3>3 DEF Removes, Live
  <2> QED
    BY <2>1, <2>2 DEF DeleteUser
<1> QED
  BY <1>2, <1>4, <1>6 DEF SessionPrepares, Creates, LinksEmail, LinksWallet, Refers

(* The link handlers write the link, and then the row as it is.            *)
LEMMA LinkBeginPrepares ==
  ASSUME EffectsBase, NEW s \in Sessions, LinkEmail(s) \/ LinkEmailToken(s)
  PROVE  SessionPrepares(s)'
<1>1. Base
  BY DEF EffectsBase
<1>2. CASE \E result : Reply(s, result)
  BY <1>2, ReplyPrepares
<1>3. ASSUME NEW locals, NEW label, Keep(s, locals, label),
             label \in {"insertEmail", "deleteEmail", "loaded"},
             Begin(s, Isolation[Op(s)]), Op(s) \in {"LinkEmail", "LinkEmailToken"},
             pc[s] = "start", NewAddress(s) \in WellFormed \/ Confirms(s)
      PROVE  SessionPrepares(s)'
  <2>1. NothingWritten(s)
    BY <1>1, <1>3 DEF Base, HandlersInvariant, SessionKeeps, Unopened, Quiet
  <2>2. NothingWritten(s)'
    BY <1>3, <2>1 DEF Begin, writes, NothingWritten
  <2>3. /\ pc'[s] = label /\ ask' = ask /\ Op(s)' = Op(s) /\ local'[s] = locals
        /\ NewAddress(s)' = NewAddress(s) /\ Confirms(s)' = Confirms(s)
    BY <1>1, <1>3, KeepGoes DEF Op, Arg, NewAddress, Confirms
  <2>4. CASE label # "insertEmail"
    BY <1>3, <2>3, <2>4, NothingPrepared DEF Op
  <2>5. CASE label = "insertEmail"
    <3>1. Acct(s)' \in AccountIds /\ NewAddress(s)' \in Addresses
      <4>1. HandlersReady'
        BY <1>1, LinkBegins DEF Base, Preserves
      <4>2. Acct(s)' \in AccountIds
        BY <2>3, <2>5, <4>1 DEF HandlersReady, ReadyAt, Acct
      <4>3. Arg(s)' \in Addresses
        <5>1. /\ ask'[s] \in Requests /\ ask'[s].arg # None
              /\ ask'[s].op \in {"LinkEmail", "LinkEmailToken"}
          BY <1>3, <2>3, <2>5, <4>1 DEF HandlersReady, ReadyAt, Op
        <5> QED
          BY <5>1, RequestsTyped DEF Arg, ArgumentsOf
      <4> QED
        BY <4>2, <4>3, AccountsAssumption DEF NewAddress
    <3>2. LinksEmail(s)'
      BY <1>3, <2>2, <2>3, <2>5, <3>1
         DEF LinksEmail, OnlyEmail, NoWallets, Touches, OnlyAccount, NothingWritten
    <3> QED
      BY <2>3, <2>5, <3>2 DEF SessionPrepares, Creates, LinksWallet, Refers, Removes
  <2> QED
    BY <2>4, <2>5
<1> QED
  BY <1>2, <1>3 DEF LinkEmail, LinkEmailRefused, LinkEmailToken, Confirms

LEMMA EmailPrepares ==
  ASSUME EffectsBase, NEW s \in Sessions, DeleteUnconfirmed(s) \/ InsertLinkedEmail(s)
  PROVE  SessionPrepares(s)'
<1> DEFINE e == NewAddress(s)
<1>1. Base /\ SessionPrepares(s) /\ SessionKeeps(s)
  BY DEF EffectsBase, EffectsInvariant, Base, HandlersInvariant
<1>2. /\ pc[s] \in {"deleteEmail", "insertEmail"} /\ pc[s] # "idle"
      /\ Op(s) \in {"LinkEmail", "LinkEmailToken"}
      /\ Acct(s) \in AccountIds /\ e \in Addresses
  <2>1. pc[s] \in {"deleteEmail", "insertEmail"} /\ pc[s] # "idle"
    BY DEF DeleteUnconfirmed, InsertLinkedEmail
  <2>2. Op(s) \in {"LinkEmail", "LinkEmailToken"} /\ Acct(s) \in AccountIds
    BY <1>1, <2>1, ReadyFacts DEF Base, ReadyAt, Op, Acct
  <2> QED
    BY <1>1, <2>1, <2>2, PreparedTyped
<1>3. CASE Reply(s, "failed")
  BY <1>3, ReplyPrepares
<1>4. ASSUME NEW label \in {"insertEmail", "touch"}, Continue(s, label), LinksEmail(s)'
      PROVE  SessionPrepares(s)'
  <2>1. pc'[s] = label /\ Op(s)' = Op(s)
    BY <1>1, <1>4, ContinueGoes DEF Op
  <2> QED
    BY <1>2, <1>4, <2>1 DEF SessionPrepares, Creates, LinksWallet, Refers, Removes
<1>5. ASSUME NEW label, Continue(s, label)
      PROVE  /\ pc'[s] = label /\ Op(s)' = Op(s) /\ Acct(s)' = Acct(s)
             /\ NewAddress(s)' = e /\ Confirms(s)' = Confirms(s)
  BY <1>1, <1>5, ContinueGoes DEF Op, Acct, NewAddress, Arg, Confirms
<1>6. CASE DeleteEmail(s, local[s].email) /\ pc[s] = "deleteEmail" /\ Continue(s, "insertEmail")
  <2>1. NothingWritten(s) /\ Confirms(s) /\ local[s].email = e
    BY <1>1, <1>6 DEF SessionKeeps, ReadyToReplace
  <2>2. EmailOf(emails[e], Acct(s)) /\ ~emails[e].confirmed
    BY <1>1, <1>6, <2>1 DEF SessionKeeps, ReadyToReplace, DeleteEmail, Stale
  <2>3. /\ emailWrites'[s][e] = None
        /\ \A f \in Addresses \ {e} : emailWrites'[s][f] = emailWrites[s][f]
        /\ UNCHANGED <<accounts, emails, accountWrites, walletWrites>>
    BY <1>1, <1>2, <1>6, <2>1 DEF DeleteEmail, tables, Base, AccountsTypeOK, TypeOK
  <2>4. LinksEmail(s)'
    <3>1. /\ NoWallets(s)' /\ Touches(s)'
          /\ \A f \in Addresses \ {e} : emailWrites'[s][f] = Kept
      <4>1. pc'[s] = "insertEmail" /\ Acct(s)' = Acct(s)
        BY <1>5, <1>6
      <4> QED
        BY <1>2, <2>1, <2>3, <4>1
           DEF OnlyEmail, NoWallets, Touches, OnlyAccount, NothingWritten
    <3>2. Replaceable(s, e)'
      BY <1>5, <1>6, <2>1, <2>2, <2>3 DEF Replaceable, EmailOf
    <3> QED
      BY <1>5, <1>6, <2>3, <3>1, <3>2 DEF LinksEmail, OnlyEmail, Replaceable, EmailOf
  <2> QED
    BY <1>4, <1>6, <2>4
<1>7. CASE InsertEmail(s, e, Acct(s), Confirms(s)) /\ pc[s] = "insertEmail" /\ Continue(s, "touch")
  <2>1. LinksEmail(s)
    BY <1>1 DEF SessionPrepares
  <2>2. /\ OnlyEmail(s, e) /\ Touches(s)
        /\ e \in WellFormed \/ Confirms(s)
        /\ \/ emailWrites[s][e] = Kept
           \/ emailWrites[s][e] = None /\ Replaceable(s, e)
    BY <1>2, <1>7, <2>1 DEF LinksEmail
  <2>3. /\ emailWrites'[s][e] = [account |-> Acct(s), confirmed |-> Confirms(s)]
        /\ \A f \in Addresses \ {e} : emailWrites'[s][f] = emailWrites[s][f]
        /\ UNCHANGED <<accounts, emails, accountWrites, walletWrites>>
        /\ SeenEmail(s, e) = None
    BY <1>1, <1>2, <1>7 DEF InsertEmail, InsertEmailRefused, tables, Base, AccountsTypeOK, TypeOK
  <2>4. emails[e] = None \/ Replaceable(s, e)
    BY <2>2, <2>3 DEF SeenEmail
  <2>5. OnlyEmail(s, e)' /\ Touches(s)'
    BY <1>5, <1>7, <2>2, <2>3 DEF OnlyEmail, NoWallets, Touches, OnlyAccount
  <2>6. (emails[e] = None \/ Replaceable(s, e))'
    BY <1>5, <1>7, <2>3, <2>4 DEF Replaceable, EmailOf
  <2>7. LinksEmail(s)'
    BY <1>5, <1>7, <2>2, <2>3, <2>5, <2>6 DEF LinksEmail, OnlyEmail, Replaceable
  <2> QED
    BY <1>4, <1>7, <2>7
<1> QED
  BY <1>3, <1>6, <1>7 DEF DeleteUnconfirmed, InsertLinkedEmail

LEMMA WalletPrepares ==
  ASSUME EffectsBase, NEW s \in Sessions, LinkWalletToken(s)
  PROVE  SessionPrepares(s)'
<1>1. Base /\ SessionRemembers(s)
  BY DEF EffectsBase, Base, AnswersInvariant
<1>2. CASE \E result : Reply(s, result)
  BY <1>2, ReplyPrepares
<1>3. CASE InsertWallet(s, Arg(s), Acct(s)) /\ Continue(s, "touch") /\ Arg(s) # None
  <2>1. pc[s] = "loaded" /\ Op(s) = "LinkWalletToken"
    BY DEF LinkWalletToken
  <2>2. NothingWritten(s)
    BY <1>1, <2>1 DEF SessionRemembers, OnlyReads
  <2>3. Arg(s) \in Wallets
    <3>1. Arg(s) \in ArgumentsOf(Op(s))
      BY <1>1, <2>1, ReadyFacts DEF Base
    <3> QED
      BY <1>3, <2>1, <3>1 DEF ArgumentsOf
  <2>4. /\ pc'[s] = "touch" /\ Op(s)' = Op(s) /\ Arg(s)' = Arg(s) /\ Acct(s)' = Acct(s)
    BY <1>1, <1>3, ContinueGoes DEF Op, Arg, Acct
  <2>5. /\ \A v \in Wallets \ {Arg(s)} : walletWrites'[s][v] = Kept
        /\ UNCHANGED <<wallets, accountWrites, emailWrites>>
        /\ SeenWallet(s, Arg(s)) = None
    BY <1>1, <1>3, <2>2, <2>3
       DEF InsertWallet, InsertWalletRefused, tables, NothingWritten, Base, AccountsTypeOK, TypeOK
  <2>6. wallets[Arg(s)] = None
    BY <2>2, <2>3, <2>5, SeesCommitted
  <2>7. OnlyWallet(s, Arg(s))'
    BY <2>2, <2>4, <2>5 DEF OnlyWallet, NoEmails, NothingWritten
  <2>8. Touches(s)'
    <3>1. Acct(s) \in AccountIds
      BY <1>1, <2>1, PreparedTyped
    <3> QED
      BY <2>2, <2>4, <2>5, <3>1 DEF Touches, OnlyAccount, NothingWritten
  <2>9. LinksWallet(s)'
    BY <2>4, <2>5, <2>6, <2>7, <2>8 DEF LinksWallet
  <2> QED
    BY <2>1, <2>4, <2>9 DEF SessionPrepares, Creates, LinksEmail, Refers, Removes
<1> QED
  BY <1>2, <1>3 DEF LinkWalletToken

LEMMA TouchPrepares ==
  ASSUME EffectsBase, NEW s \in Sessions, Touch(s)
  PROVE  SessionPrepares(s)'
<1> DEFINE a == Acct(s)
<1>1. Base /\ SessionRemembers(s) /\ SessionPrepares(s)
  BY DEF EffectsBase, EffectsInvariant, Base, AnswersInvariant
<1>2. CASE Reply(s, "failed")
  BY <1>2, ReplyPrepares
<1>3. CASE /\ SeenAccount(s, a) # None
           /\ UpdateAccount(s, a, SeenAccount(s, a))
           /\ Continue(s, "commit")
  <2>1. pc[s] = "touch" /\ Op(s) \in {"LinkEmail", "LinkEmailToken", "LinkWalletToken"}
    BY <1>1 DEF Touch, SessionRemembers, HasPrepared
  <2>2. a \in AccountIds /\ Touches(s)
    <3>1. a \in AccountIds
      BY <1>1, <2>1, PreparedTyped
    <3> QED
      BY <1>1, <2>1, <3>1 DEF SessionPrepares, LinksEmail, LinksWallet
  <2>3. SeenAccount(s, a) = accounts[a] /\ Live(a)
    BY <1>3, <2>1, <2>2 DEF Touches, SeenAccount, Live
  <2>4. /\ accountWrites'[s][a] = accounts[a]
        /\ \A b \in AccountIds \ {a} : accountWrites'[s][b] = accountWrites[s][b]
        /\ UNCHANGED <<accounts, emails, wallets, emailWrites, walletWrites>>
    BY <1>1, <1>3, <2>2, <2>3 DEF UpdateAccount, tables, Base, AccountsTypeOK, TypeOK
  <2>5. /\ pc'[s] = "commit" /\ Op(s)' = Op(s) /\ Arg(s)' = Arg(s) /\ Acct(s)' = a
        /\ NewAddress(s)' = NewAddress(s) /\ Confirms(s)' = Confirms(s)
    BY <1>1, <1>3, ContinueGoes DEF Op, Arg, Acct, NewAddress, Confirms
  <2>6. Touches(s)'
    BY <2>1, <2>2, <2>3, <2>4, <2>5 DEF Touches, OnlyAccount, Live
  <2>7. LinksEmail(s)'
    <3>1. LinksEmail(s)
      BY <1>1 DEF SessionPrepares
    <3> QED
      BY <2>1, <2>4, <2>5, <2>6, <3>1 DEF LinksEmail, OnlyEmail, NoWallets, Replaceable, EmailOf
  <2>8. LinksWallet(s)'
    <3>1. LinksWallet(s)
      BY <1>1 DEF SessionPrepares
    <3> QED
      BY <2>1, <2>4, <2>5, <2>6, <3>1 DEF LinksWallet, OnlyWallet, NoEmails
  <2> QED
    BY <2>1, <2>5, <2>7, <2>8 DEF SessionPrepares, Creates, Refers, Removes
<1> QED
  BY <1>2, <1>3 DEF Touch


(* SubmitReferralCode: the code stays the referrer's.                      *)
LEMMA ReferralPrepares ==
  ASSUME EffectsBase, NEW s \in Sessions, FindReferrer(s) \/ CheckReferrer(s) \/ Refer(s)
  PROVE  SessionPrepares(s)'
<1>1. Base /\ SessionRemembers(s) /\ SessionPrepares(s)
  BY DEF EffectsBase, EffectsInvariant, Base, AnswersInvariant
<1>2. CASE \E result : Reply(s, result)
  BY <1>2, ReplyPrepares
<1>3. /\ Op(s) = "SubmitReferralCode" /\ pc[s] \in {"loaded", "checkReferrer", "refer"}
      /\ NothingWritten(s) /\ Acct(s) \in AccountIds /\ local[s] \in Locals
  <2>1. Op(s) = "SubmitReferralCode" /\ pc[s] \in {"loaded", "checkReferrer", "refer"}
    BY <1>1, ReadyFacts DEF FindReferrer, CheckReferrer, Refer, Base, ReadyAt, Op
  <2>2. NothingWritten(s)
    BY <1>1, <2>1 DEF SessionRemembers, OnlyReads
  <2> QED
    BY <1>1, <2>1, <2>2, PreparedTyped, ReadyFacts DEF Base
<1>4. ASSUME Op(s)' = Op(s), pc'[s] \in {"checkReferrer", "refer", "commit"}, ReferralStands(s)'
      PROVE  SessionPrepares(s)'
  BY <1>3, <1>4 DEF SessionPrepares, Creates, LinksEmail, LinksWallet, Refers, Removes
<1>5. ASSUME NEW b \in AccountIds, HasCode(accounts[b], Arg(s)), UNCHANGED storeVars,
             NEW locals, Keep(s, locals, "checkReferrer"), locals.referrer = b,
             locals.referrersReferrer = SeenAccount(s, b).referredBy
      PROVE  SessionPrepares(s)'
  <2>1. /\ pc'[s] = "checkReferrer" /\ Op(s)' = Op(s) /\ Arg(s)' = Arg(s)
        /\ local'[s].referrer = b /\ local'[s].referrersReferrer = accounts[b].referredBy
        /\ UNCHANGED <<accounts, issued>>
    <3>1. pc'[s] = "checkReferrer" /\ ask' = ask /\ local'[s] = locals
      BY <1>1, <1>5, KeepGoes
    <3>2. SeenAccount(s, b) = accounts[b]
      BY <1>3, SeesCommitted
    <3> QED
      BY <1>5, <3>1, <3>2 DEF Op, Arg, storeVars
  <2>2. Live(b) /\ b \in issued
    BY <1>1, <1>5, LinkIsLive DEF HasCode, Live
  <2>3. accounts[b].referredBy # None => accounts[b].referredAt
    BY <1>1, <2>2 DEF Base, StoreInvariant, TablesConsistent, Consistent, ReferrersExist, Live
  <2>4. ReferralStands(s)'
    BY <1>5, <2>1, <2>2, <2>3 DEF ReferralStands, Live
  <2> QED
    BY <1>4, <2>1, <2>4
<1>6. CASE FindReferrer(s) /\ ~Reply(s, "refused")
  <2> DEFINE b == TheOne({x \in AccountIds : HasCode(SeenAccount(s, x), Arg(s))})
             locals == [local[s] EXCEPT !.referrer = b,
                                        !.referrersReferrer = SeenAccount(s, b).referredBy]
  <2>1. b # None /\ UNCHANGED storeVars /\ Keep(s, locals, "checkReferrer")
    BY <1>6 DEF FindReferrer
  <2>2. b \in AccountIds /\ HasCode(SeenAccount(s, b), Arg(s))
    BY <2>1 DEF TheOne
  <2> HIDE DEF b
  <2>3. HasCode(accounts[b], Arg(s))
    BY <1>3, <2>2, SeesCommitted
  <2>4. locals.referrer = b /\ locals.referrersReferrer = SeenAccount(s, b).referredBy
    BY <1>3 DEF Locals
  <2> HIDE DEF locals
  <2> QED
    BY <1>5, <2>1, <2>2, <2>3, <2>4
<1>7. CASE CheckReferrer(s) /\ Continue(s, "refer") /\ UNCHANGED storeVars
  <2>1. /\ pc'[s] = "refer" /\ Op(s)' = Op(s) /\ Arg(s)' = Arg(s) /\ local' = local
        /\ UNCHANGED <<accounts, issued>>
    BY <1>1, <1>7, ContinueGoes DEF Op, Arg, storeVars
  <2>2. ReferralStands(s) /\ pc[s] = "checkReferrer"
    BY <1>1, <1>3, <1>7 DEF SessionPrepares, Refers, CheckReferrer
  <2>3. ReferralStands(s)'
    BY <2>1, <2>2 DEF ReferralStands, Live
  <2> QED
    BY <1>4, <2>1, <2>3
<1>8. ASSUME Refer(s), Continue(s, "commit")
      PROVE  SessionPrepares(s)'
  <2> DEFINE a == Acct(s)
             b == local[s].referrer
  <2>1. /\ pc'[s] = "commit" /\ Op(s)' = Op(s) /\ Arg(s)' = Arg(s) /\ local' = local
    BY <1>1, <1>8, ContinueGoes DEF Op, Arg
  <2>2. ReferralStands(s) /\ pc[s] = "refer"
    BY <1>1, <1>3, <1>8 DEF SessionPrepares, Refers, Refer
  <2>3. b \in issued /\ (Live(b) => HasCode(accounts[b], Arg(s)))
    BY <2>2 DEF ReferralStands
  <2>4. /\ UNCHANGED <<accounts, issued, emailWrites, walletWrites>>
        /\ \/ accountWrites' = accountWrites
           \/ /\ SeenAccount(s, a) # None
              /\ accountWrites' = [accountWrites EXCEPT ![s][a] = ReferralColumns(s)]
    <3>1. ~Reply(s, "failed")
      BY <2>1, FinishGoes DEF Reply
    <3> QED
      BY <1>8, <3>1 DEF Refer, UpdateAccount, storeVars, tables
  <2>5. /\ \A x \in AccountIds \ {a} : accountWrites'[s][x] = Kept
        /\ accountWrites'[s][a] # Kept =>
             /\ Live(a)
             /\ accountWrites'[s][a] =
                  [accounts[a] EXCEPT !.referredBy = b, !.referredAt = TRUE]
    <3>1. SeenAccount(s, a) = accounts[a] /\ \A x \in AccountIds : accountWrites[s][x] = Kept
      BY <1>3, SeesCommitted DEF NothingWritten
    <3> QED
      BY <1>1, <1>3, <2>4, <3>1 DEF ReferralColumns, Live, Base, AccountsTypeOK, TypeOK
  <2>6. ReferralStands(s)'
    <3>1. Acct(s)' = a
      BY <2>1 DEF Acct
    <3>2. OnlyAccount(s)' /\ NoEmails(s)' /\ NoWallets(s)'
      BY <1>3, <2>4, <2>5, <3>1 DEF OnlyAccount, NoEmails, NoWallets, NothingWritten
    <3> QED
      BY <2>1, <2>3, <2>4, <2>5, <3>1, <3>2 DEF ReferralStands, Live
  <2> QED
    BY <1>4, <2>1, <2>6
<1> QED
  BY <1>2, <1>6, <1>7, <1>8 DEF FindReferrer, CheckReferrer, Refer

(* The end of a request.                                                   *)
LEMMA EndPrepares ==
  ASSUME EffectsBase, NEW s \in Sessions,
         CommitRequest(s) \/ CommitUnanswered(s) \/ Tell(s)
  PROVE  SessionPrepares(s)'
<1>1. Base /\ SessionPrepares(s)
  BY DEF EffectsBase, EffectsInvariant
<1>2. CASE \E result : Finish({s}, result)
  BY <1>2, FinishGoes, NothingPrepared
<1>3. CASE Continue(s, "tell")
  BY <1>1, <1>3, ContinueGoes, NothingPrepared
<1>4. CASE CommitRequest(s) /\ Op(s) = "CreateAccount" /\ Continue(s, "findLink")
  <2>1. pc'[s] = "findLink" /\ Op(s)' = "CreateAccount"
    BY <1>1, <1>4, ContinueGoes DEF Op
  <2> QED
    BY <2>1 DEF SessionPrepares, Creates, LinksEmail, LinksWallet, Refers, Removes
<1>5. CASE /\ pc[s] = "tellBeforeCommit" /\ Goto(s, "commit") /\ UNCHANGED storeVars
           /\ UNCHANGED <<ask, local, answer, scenario>>
  <2>1. pc'[s] = "commit" /\ Op(s)' = Op(s) /\ Acct(s)' = Acct(s) /\ Cred(s)' = Cred(s)
    BY <1>1, <1>5 DEF Goto, Op, Acct, Cred, Base, AccountsTypeOK, HandlersReady
  <2>2. Op(s) = "CreateAccount" /\ Creates(s)
    BY <1>1, <1>5, ReadyFacts DEF Base, ReadyAt, Op, SessionPrepares
  <2>3. /\ ~Live(Acct(s)) /\ OnlyAccount(s)
        /\ \E c \in Codes : accountWrites[s][Acct(s)] = NewRow(c)
        /\ CreatesFirstLink(s)
    BY <1>5, <2>2 DEF Creates
  <2>4. Creates(s)'
    BY <1>5, <2>1, <2>2, <2>3 DEF Creates, CreatesFirstLink, OnlyAccount, OnlyEmail, OnlyWallet,
       NoEmails, NoWallets, Live, storeVars
  <2> QED
    BY <2>1, <2>2, <2>4 DEF SessionPrepares, LinksEmail, LinksWallet, Refers, Removes
<1> QED
  BY <1>2, <1>3, <1>4, <1>5 DEF CommitRequest, CommitUnanswered, Tell

----------------------------------------------------------------------------
(* Every step.                                                             *)

LEMMA TurnPrepares ==
  ASSUME EffectsBase, AccountsAreKept, [StoreNext]_storeVars,
         NEW s \in Sessions, Turn(s), SessionPrepares(s)'
  PROVE  EffectsInvariant'
  BY RestPrepares DEF Turn, EffectsInvariant

LEMMA DiePrepares ==
  ASSUME EffectsBase, AccountsAreKept, [StoreNext]_storeVars, NEW replica, Die(replica)
  PROVE  EffectsInvariant'
<1> DEFINE S == {s \in Sessions : Replica[s] = replica /\ ~Idle(s)}
<1>1. /\ Rollback(S) /\ \A t \in S : pc'[t] = "done"
      /\ \A t \in Sessions \ S : Rests(t)
  BY DEF Die, Finish, Rests
<1> HIDE DEF S
<1>2. \A t \in Sessions \ S : SameWrites(t)
  BY <1>1 DEF Rollback, Forget, SameWrites
<1> QED
  BY <1>1, <1>2, NothingPrepared, RestPrepares DEF EffectsInvariant

LEMMA EffectsInvariantStep ==
  ASSUME EffectsBase, [Next]_vars
  PROVE  EffectsInvariant'
<1>1. Base /\ AccountsAreKept /\ [StoreNext]_storeVars
  BY StepKeepsAccounts, StepTyped DEF EffectsBase, Base
<1>2. ASSUME NEW s \in Sessions, Goes(s), SessionPrepares(s)'
      PROVE  EffectsInvariant'
  BY <1>1, <1>2, TurnPrepares DEF Goes
<1>3. ASSUME NEW s \in Sessions, NEW result, Reply(s, result), result # "ok"
      PROVE  EffectsInvariant'
  BY <1>1, <1>2, <1>3, RefusalGoes, ReplyPrepares
<1>4. ASSUME NEW s \in Sessions, Step(s)
      PROVE  EffectsInvariant'
  <2>1. CASE LoadNothing(s) \/ LinkNotFound(s)
    <3>1. (\E result : Reply(s, result) /\ result # "ok") \/ Die(Replica[s])
      BY <2>1 DEF LoadNothing, LinkNotFound
    <3> QED
      BY <1>1, <1>3, <3>1, DiePrepares
  <2>2. CASE ~LoadNothing(s) /\ ~LinkNotFound(s)
    <3>1. Goes(s)
      BY <1>1, <1>4, <2>2, FindLinkGoes, LoadGoes, AnswerLoadedGoes, CreateGoes, ProfileGoes,
         DeleteGoes, LinkBeginGoes, LinkGoes, FindReferrerGoes, CheckReferrerGoes, ReferGoes,
         CommitGoes, TellGoes DEF Step
    <3>2. SessionPrepares(s)'
      BY <1>4, <2>2, LookupPrepares, CreatePrepares, ProfilePrepares, DeletePrepares,
         LinkBeginPrepares, EmailPrepares, WalletPrepares, TouchPrepares, ReferralPrepares,
         EndPrepares DEF Step
    <3> QED
      BY <1>2, <3>1, <3>2
  <2> QED
    BY <2>1, <2>2
<1>5. ASSUME NEW s \in Sessions, NEW r \in Requests, Arrive(s, r)
      PROVE  EffectsInvariant'
  <2>1. pc'[s] = "start"
    BY <1>1, <1>5 DEF Arrive, Goto, Base, AccountsTypeOK, HandlersReady
  <2> QED
    BY <1>1, <1>2, <1>5, <2>1, ArriveGoes, NothingPrepared
<1>6. ASSUME NEW s \in Sessions, StatementFails(s)
      PROVE  EffectsInvariant'
  BY <1>3, <1>6 DEF StatementFails
<1>7. ASSUME NEW s \in Sessions, CommitUnanswered(s)
      PROVE  EffectsInvariant'
  BY <1>1, <1>2, <1>7, CommitGoes, EndPrepares
<1>8. CASE ReplicaDies
  BY <1>1, <1>8, DiePrepares DEF ReplicaDies
<1>9. CASE UNCHANGED vars
  <2>1. \A t \in Sessions : Rests(t) /\ SameWrites(t)
    BY <1>9 DEF vars, handlerVars, storeVars, Rests, SameWrites
  <2> QED
    BY <1>1, <2>1, RestPrepares DEF EffectsInvariant
<1> QED
  BY <1>4, <1>5, <1>6, <1>7, <1>8, <1>9 DEF Next

LEMMA NothingPreparedYet == Init => EffectsInvariant
  BY DEF Init, EffectsInvariant, SessionPrepares, Creates, LinksEmail, LinksWallet, Refers, Removes

----------------------------------------------------------------------------
(* Whatever a transaction commits is the one effect of its request, on an  *)
(* entry that is still as the handler found it: no lost update, no half a  *)
(* deletion, no code or address that somebody else has got meanwhile.      *)
THEOREM EffectsInvariantHolds == Spec => []EffectsInvariant
<1>1. /\ AccountsTypeOK /\ StoreInvariant /\ HandlersInvariant /\ AnswersInvariant
      /\ EffectsInvariant /\ [Next]_vars
      => EffectsInvariant'
  BY EffectsInvariantStep DEF EffectsBase, Base
<1>2. Spec => []StoreInvariant
  BY ServiceImplementsStore, StoreInvariantHolds, PTL
<1> QED
  BY <1>1, <1>2, NothingPreparedYet, AccountsTyped, HandlersInvariantHolds,
     AnswersInvariantHolds, PTL DEF Spec

----------------------------------------------------------------------------
(* 2. The refinement.                                                      *)

PromiseStep == [Promise!DirNext]_(Promise!dirVars)

TargetOf(s) == IF PhaseOf(s) = "found" THEN Acct(s) ELSE None

TablesStay == UNCHANGED <<accounts, emails, wallets, issued>>

----------------------------------------------------------------------------
(* The entries of the directory, read from the tables.                     *)

LEMMA OneFound ==
  ASSUME NEW S, NEW x \in S, \A y \in S : y = x
  PROVE  TheOne(S) = x
  BY DEF TheOne

LEMMA EntryIs ==
  ASSUME Base, NEW a \in AccountIds
  PROVE  /\ LinkedEmail(a) \in Addresses \cup {None}
         /\ \A e \in Addresses : EmailOf(emails[e], a) <=> LinkedEmail(a) = e
         /\ LinkedWallet(a) \in Wallets \cup {None}
         /\ \A w \in Wallets : wallets[w] = a <=> LinkedWallet(a) = w
<1> DEFINE E == {e \in Addresses : EmailOf(emails[e], a)}
           W == {w \in Wallets : wallets[w] = a}
<1>1. \A e, f \in E : e = f
  BY DEF Base, StoreInvariant, TablesConsistent, Consistent, OneEmailPerAccount, EmailOf
<1>2. \A v, w \in W : v = w
  BY NullsAreNotValues DEF Base, StoreInvariant, TablesConsistent, Consistent, OneWalletPerAccount
<1>3. None \notin Addresses \cup Wallets
  BY AccountsAssumption
<1>4. LinkedEmail(a) = TheOne(E) /\ LinkedWallet(a) = TheOne(W)
  BY DEF LinkedEmail, LinkedWallet
<1>5. \A e \in E : TheOne(E) = e
  BY <1>1, OneFound
<1>6. \A w \in W : TheOne(W) = w
  BY <1>2, OneFound
<1>7. /\ E = {} => TheOne(E) = None
      /\ W = {} => TheOne(W) = None
  BY DEF TheOne
<1> QED
  BY <1>3, <1>4, <1>5, <1>6, <1>7

(* What the Directory says of an account, in terms of the tables.          *)
LEMMA EntryRead ==
  ASSUME Base, NEW a \in AccountIds
  PROVE  /\ Promise!Present(a) <=> Live(a)
         /\ Live(a) =>
              /\ EntryOf(a).email = LinkedEmail(a)
              /\ EntryOf(a).confirmed = HasConfirmed(a)
              /\ EntryOf(a).wallet = LinkedWallet(a)
              /\ EntryOf(a).country = accounts[a].country
              /\ EntryOf(a).referredAt = accounts[a].referredAt
              /\ EntryOf(a).acceptedTos = accounts[a].acceptedTos
         /\ \A e \in Addresses : Promise!HasAddress(a, e) <=> EmailOf(emails[e], a)
         /\ \A w \in Wallets : Promise!OwnsWallet(a, w) <=> wallets[w] = a
         /\ \A c \in Codes : Promise!OwnsCode(a, c) <=> HasCode(accounts[a], c)
         /\ \A c \in Addresses \cup Wallets : Promise!Denotes(c, a) <=> Linked(c, a)
<1>1. accounts[a] \in AccountRow \cup {None} /\ accounts[a] # Kept
  BY NullsAreNotValues DEF Base, AccountsTypeOK, TypeOK
<1>2. ASSUME Live(a)
      PROVE  EntryOf(a) \in Promise!Entry
  <2>1. accounts[a] \in AccountRow
    BY <1>1, <1>2 DEF Live
  <2>2. LinkedEmail(a) \in Addresses \cup {None} /\ LinkedWallet(a) \in Wallets \cup {None}
    BY EntryIs
  <2>3. HasConfirmed(a) \in BOOLEAN
    BY DEF HasConfirmed
  <2> QED
    BY <1>2, <2>1, <2>2, <2>3 DEF EntryOf, Promise!Entry, AccountRow, Live
<1>3. EntryOf(a) # None <=> Live(a)
  BY <1>2, NullIsNoEntry DEF EntryOf, Live
<1>4. Promise!Present(a) <=> Live(a)
  BY <1>3 DEF Promise!Present
<1>5. Live(a) =>
        /\ EntryOf(a).email = LinkedEmail(a)
        /\ EntryOf(a).confirmed = HasConfirmed(a)
        /\ EntryOf(a).wallet = LinkedWallet(a)
        /\ EntryOf(a).code = accounts[a].code
        /\ EntryOf(a).country = accounts[a].country
        /\ EntryOf(a).referredAt = accounts[a].referredAt
        /\ EntryOf(a).acceptedTos = accounts[a].acceptedTos
  BY DEF EntryOf, Live
<1>6. /\ \A e \in Addresses : EmailOf(emails[e], a) => Live(a)
      /\ \A w \in Wallets : wallets[w] = a => Live(a)
  BY LinkIsLive
<1>7. \A e \in Addresses : Promise!HasAddress(a, e) <=> EmailOf(emails[e], a)
  BY <1>4, <1>5, <1>6, EntryIs DEF Promise!HasAddress
<1>8. \A w \in Wallets : Promise!OwnsWallet(a, w) <=> wallets[w] = a
  BY <1>4, <1>5, <1>6, EntryIs DEF Promise!OwnsWallet
<1>9. \A c \in Codes : Promise!OwnsCode(a, c) <=> HasCode(accounts[a], c)
  BY <1>1, <1>4, <1>5 DEF Promise!OwnsCode, HasCode, Live
<1>10. \A c \in Addresses \cup Wallets : Promise!Denotes(c, a) <=> Linked(c, a)
  <2>1. \A e \in Addresses : Normalize[e] \in Addresses
    BY AccountsAssumption
  <2> QED
    BY <1>7, <1>8, <2>1 DEF Promise!Denotes, Linked
<1> QED
  BY <1>4, <1>5, <1>7, <1>8, <1>9, <1>10

(* An entry stays as long as its row and its links do.                     *)
LEMMA EntryStays ==
  ASSUME NEW a \in AccountIds, accounts'[a] = accounts[a],
         \A e \in Addresses :
           /\ EmailOf(emails'[e], a) <=> EmailOf(emails[e], a)
           /\ EmailOf(emails[e], a) => emails'[e].confirmed = emails[e].confirmed,
         \A w \in Wallets : wallets'[w] = a <=> wallets[w] = a
  PROVE  EntryOf(a)' = EntryOf(a)
<1>1. /\ {e \in Addresses : EmailOf(emails'[e], a)} = {e \in Addresses : EmailOf(emails[e], a)}
      /\ {w \in Wallets : wallets'[w] = a} = {w \in Wallets : wallets[w] = a}
  OBVIOUS
<1>2. LinkedEmail(a)' = LinkedEmail(a) /\ LinkedWallet(a)' = LinkedWallet(a)
  BY <1>1 DEF LinkedEmail, LinkedWallet
<1>3. HasConfirmed(a)' = HasConfirmed(a)
  BY DEF HasConfirmed
<1> QED
  BY <1>2, <1>3 DEF EntryOf

----------------------------------------------------------------------------
(* How far a request has come.                                             *)

PhaseFollows(s) ==
  /\ pc[s] = "idle" => PhaseOf(s) = "idle"
  /\ pc[s] = "start" => PhaseOf(s) = "asked"
  /\ pc[s] = "tell" => PhaseOf(s) = "performed"
  /\ pc[s] = "done" => PhaseOf(s) = "answered"
  /\ pc[s] \notin {"idle", "start", "tell", "done"} =>
       PhaseOf(s) = IF Op(s) = "CreateAccount"
                      THEN IF pc[s] \in {"findLink", "loadAccount", "loadPeer", "loaded"}
                             THEN "performed" ELSE "asked"
                    ELSE IF pc[s] \in {"loadPeer", "loaded"} /\ SatisfiedByRow(s)
                      THEN "performed" ELSE "found"

LEMMA PhaseIs ==
  ASSUME NEW s
  PROVE  PhaseFollows(s) /\ PhaseFollows(s)'
<1>1. PhaseFollows(s)
  BY DEF PhaseFollows, PhaseOf, HasRow
<1>2. PhaseFollows(s)'
  BY DEF PhaseFollows, PhaseOf, HasRow
<1> QED
  BY <1>1, <1>2

LEMMA ActiveIs ==
  ASSUME NEW s \in Sessions
  PROVE  Promise!Active(s) <=> ~Idle(s)
  BY PhaseIs DEF PhaseFollows, Promise!Active, Idle

LEMMA RestPhase ==
  ASSUME NEW t \in Sessions, Rests(t)
  PROVE  PhaseOf(t)' = PhaseOf(t) /\ TargetOf(t)' = TargetOf(t)
<1>1. /\ pc'[t] = pc[t] /\ Op(t)' = Op(t) /\ Arg(t)' = Arg(t) /\ Acct(t)' = Acct(t)
      /\ local'[t].row = local[t].row
  BY DEF Rests, Op, Arg, Acct
<1>2. SatisfiedByRow(t)' <=> SatisfiedByRow(t)
  BY <1>1 DEF SatisfiedByRow
<1>3. PhaseOf(t)' = PhaseOf(t)
  BY <1>1, <1>2, PhaseIs DEF PhaseFollows, PhaseOf, HasRow
<1> QED
  BY <1>1, <1>3 DEF TargetOf

LEMMA OneGoes ==
  ASSUME NEW s \in Sessions, \A t \in Sessions \ {s} : Rests(t),
         NEW p, NEW a, PhaseOf(s)' = p, TargetOf(s)' = a
  PROVE  Promise!Goes(s, p, a)
<1>1. \A t \in Sessions \ {s} : PhaseOf(t)' = PhaseOf(t) /\ TargetOf(t)' = TargetOf(t)
  BY RestPhase
<1>2. [t \in Sessions |-> PhaseOf(t)'] =
        [[t \in Sessions |-> PhaseOf(t)] EXCEPT ![s] = p]
  BY <1>1
<1>3. [t \in Sessions |-> TargetOf(t)'] =
        [[t \in Sessions |-> TargetOf(t)] EXCEPT ![s] = a]
  BY <1>1
<1> QED
  BY <1>2, <1>3 DEF Promise!Goes, TargetOf

LEMMA PromiseGoes ==
  ASSUME NEW s \in Sessions, Moves(s), NEW p, NEW a, PhaseOf(s)' = p, TargetOf(s)' = a
  PROVE  Promise!Goes(s, p, a)
  BY OneGoes DEF Moves

LEMMA DirectoryStays ==
  ASSUME TablesStay
  PROVE  UNCHANGED Promise!directory
<1>1. \A a \in AccountIds : EntryOf(a)' = EntryOf(a)
  BY EntryStays DEF TablesStay
<1> QED
  BY <1>1 DEF Promise!directory, TablesStay

----------------------------------------------------------------------------
(* The kinds of steps.                                                     *)

LEMMA Stutters ==
  ASSUME Base, NEW s \in Sessions, Moves(s), ask' = ask, answer' = answer, TablesStay,
         PhaseOf(s)' = PhaseOf(s), PhaseOf(s) = "found" => Acct(s)' = Acct(s)
  PROVE  PromiseStep
<1>1. \A t \in Sessions : PhaseOf(t)' = PhaseOf(t) /\ TargetOf(t)' = TargetOf(t)
  <2>1. TargetOf(s)' = TargetOf(s)
    BY DEF TargetOf
  <2> QED
    BY <2>1, RestPhase DEF Moves
<1>2. UNCHANGED Promise!directory
  BY DirectoryStays
<1> QED
  BY <1>1, <1>2 DEF PromiseStep, Promise!dirVars, Promise!directory, TargetOf


LEMMA StepOfSession ==
  ASSUME NEW s \in Sessions,
         \/ Promise!Receive(s) \/ Promise!Find(s) \/ Promise!Perform(s)
         \/ Promise!NothingToDo(s) \/ Promise!Answer(s)
  PROVE  PromiseStep
  BY DEF PromiseStep, Promise!DirNext

LEMMA FinishPhase ==
  ASSUME Base, NEW s \in Sessions, NEW result, Finish({s}, result)
  PROVE  /\ Promise!Goes(s, "answered", None)
         /\ answer' = [answer EXCEPT ![s] = result] /\ ask' = ask
<1>1. Moves(s) /\ pc'[s] = "done" /\ ask' = ask
  BY FinishGoes
<1>2. PhaseOf(s)' = "answered" /\ TargetOf(s)' = None
  BY <1>1, PhaseIs DEF PhaseFollows, TargetOf
<1>3. Promise!Goes(s, "answered", None)
  BY <1>1, <1>2, PromiseGoes
<1>4. answer' = [answer EXCEPT ![s] = result]
  BY DEF Finish, Base, AccountsTypeOK
<1> QED
  BY <1>1, <1>3, <1>4

LEMMA Answers ==
  ASSUME Base, NEW s \in Sessions, NEW result \in {"ok", "refused", "failed"},
         ~Idle(s), Finish({s}, result), TablesStay,
         result = "ok" => PhaseOf(s) = "performed",
         result = "refused" => Promise!MayRefuse(s)
  PROVE  PromiseStep
<1>1. Promise!Active(s) /\ UNCHANGED Promise!directory
  BY ActiveIs, DirectoryStays
<1>2. result \in Promise!Tellable(s)
  BY DEF Promise!Tellable
<1>3. Promise!Answer(s)
  BY <1>1, <1>2, FinishPhase DEF Promise!Answer
<1> QED
  BY <1>3, StepOfSession

LEMMA Replies ==
  ASSUME Base, NEW s \in Sessions, NEW result \in {"ok", "refused", "failed"},
         ~Idle(s), Reply(s, result),
         result = "ok" => PhaseOf(s) = "performed",
         result = "refused" => Promise!MayRefuse(s)
  PROVE  PromiseStep
<1>1. Finish({s}, result) /\ TablesStay
  BY DEF Reply, Rollback, tables, TablesStay
<1> QED
  BY <1>1, Answers

LEMMA Finds ==
  ASSUME Base, NEW s \in Sessions, Moves(s), ask' = ask, answer' = answer, TablesStay,
         pc[s] = "start", Op(s) # "CreateAccount",
         PhaseOf(s)' = "found", Acct(s)' \in AccountIds, Linked(Cred(s), Acct(s)')
  PROVE  PromiseStep
<1>1. PhaseOf(s) = "asked"
  BY PhaseIs DEF PhaseFollows
<1>2. Promise!Denotes(ask[s].cred, Acct(s)')
  <2>1. Cred(s) \in Addresses \cup Wallets
    BY ReadyFacts DEF Base
  <2>2. ASSUME NEW a \in AccountIds, Linked(Cred(s), a)
        PROVE  Promise!Denotes(Cred(s), a)
    BY <2>1, <2>2, EntryRead
  <2> QED
    BY <2>2 DEF Cred
<1>3. Promise!Goes(s, "found", Acct(s)')
  BY PromiseGoes DEF TargetOf
<1>4. Promise!Find(s)
  BY <1>1, <1>2, <1>3, DirectoryStays DEF Promise!Find, Promise!directory, Op
<1> QED
  BY <1>4, StepOfSession

(* A request takes effect, and its client may learn it at once.            *)
LEMMA Takes ==
  ASSUME Base, NEW s \in Sessions,
         \/ /\ Moves(s) /\ ask' = ask /\ answer' = answer
            /\ PhaseOf(s)' = "performed"
         \/ \E told \in {"ok", "failed"} : Finish({s}, told)
  PROVE  Promise!Performed(s)
<1>1. ASSUME NEW told \in {"ok", "failed"}, Finish({s}, told)
      PROVE  Promise!Performed(s)
  BY <1>1, FinishPhase DEF Promise!Performed
<1>2. CASE Moves(s) /\ ask' = ask /\ answer' = answer /\ PhaseOf(s)' = "performed"
  <2>1. TargetOf(s)' = None
    BY <1>2 DEF TargetOf
  <2> QED
    BY <1>2, <2>1, PromiseGoes DEF Promise!Performed
<1> QED
  BY <1>1, <1>2

LEMMA NothingDone ==
  ASSUME NEW s \in Sessions, Promise!Performed(s), TablesStay,
         \/ /\ PhaseOf(s) = "found" /\ Promise!Present(Acct(s))
            /\ Promise!Satisfied(ask[s], Acct(s))
         \/ /\ PhaseOf(s) = "asked"
            /\ \E a \in AccountIds :
                 Promise!Denotes(Cred(s), a) /\ Promise!Satisfied(ask[s], a)
         \/ /\ PhaseOf(s) = "found" /\ ~Promise!Present(Acct(s))
            /\ Op(s) \in Promise!Forgiving
  PROVE  PromiseStep
<1>1. Promise!NothingToDo(s)
  BY DirectoryStays DEF Promise!NothingToDo, Cred, Op, TargetOf
<1> QED
  BY <1>1, StepOfSession

LEMMA Performs ==
  ASSUME NEW s \in Sessions, Promise!Performed(s), PhaseOf(s) = "found",
         Promise!Effect(ask[s], Acct(s))
  PROVE  PromiseStep
<1>1. Promise!Perform(s)
  BY DEF Promise!Perform, TargetOf
<1> QED
  BY <1>1, StepOfSession


----------------------------------------------------------------------------
(* What a session that has written nothing finds.                          *)

LEMMA FoundInDirectory ==
  ASSUME Base, NEW s \in Sessions, pc[s] # "idle", NothingWritten(s)
  PROVE  /\ LinkedAccount(s) = None => Promise!NobodyHas(ask[s])
         /\ LinkedAccount(s) # None =>
              /\ LinkedAccount(s) \in AccountIds /\ Live(LinkedAccount(s))
              /\ Linked(Cred(s), LinkedAccount(s))
              /\ Promise!Denotes(Cred(s), LinkedAccount(s))
         /\ \A a \in AccountIds : SeenAccount(s, a) = accounts[a]
         /\ \A a \in AccountIds : EmailOfAccount(s, a) = LinkedEmail(a)
         /\ \A a \in AccountIds : WalletOfAccount(s, a) = LinkedWallet(a)
         /\ \A e \in Addresses : SeenEmail(s, e) = emails[e]
<1>1. /\ \A a \in AccountIds : SeenAccount(s, a) = accounts[a]
      /\ \A e \in Addresses : SeenEmail(s, e) = emails[e]
      /\ \A w \in Wallets : SeenWallet(s, w) = wallets[w]
  BY SeesCommitted
<1>2. Cred(s) \in Addresses \cup Wallets /\ \A e \in Addresses : Normalize[e] \in Addresses
  BY ReadyFacts, AccountsAssumption DEF Base
<1>3. ASSUME LinkedAccount(s) = None, NEW a \in AccountIds
      PROVE  ~Linked(Cred(s), a)
  <2>1. a # None
    BY NullsAreNotValues
  <2> QED
    BY <1>1, <1>2, <1>3, <2>1 DEF LinkedAccount, EmailOwner, Linked, EmailOf
<1>4. LinkedAccount(s) = None => Promise!NobodyHas(ask[s])
  BY <1>2, <1>3, EntryRead DEF Promise!NobodyHas, Cred
<1>5. LinkedAccount(s) # None =>
        /\ LinkedAccount(s) \in AccountIds /\ Live(LinkedAccount(s))
        /\ Linked(Cred(s), LinkedAccount(s))
  BY FoundIsLinked
<1>6. ASSUME NEW a \in AccountIds, Linked(Cred(s), a)
      PROVE  Promise!Denotes(Cred(s), a)
  BY <1>2, <1>6, EntryRead
<1>7. ASSUME NEW a \in AccountIds
      PROVE  EmailOfAccount(s, a) = LinkedEmail(a) /\ WalletOfAccount(s, a) = LinkedWallet(a)
  <2>1. {e \in Addresses : EmailOf(SeenEmail(s, e), a)} = {e \in Addresses : EmailOf(emails[e], a)}
    BY <1>1
  <2>2. {w \in Wallets : SeenWallet(s, w) = a} = {w \in Wallets : wallets[w] = a}
    BY <1>1
  <2> QED
    BY <2>1, <2>2 DEF EmailOfAccount, WalletOfAccount, LinkedEmail, LinkedWallet
<1> QED
  BY <1>1, <1>4, <1>5, <1>6, <1>7

LEMMA QuietAtStart ==
  ASSUME Base, NEW s \in Sessions, pc[s] = "start"
  PROVE  NothingWritten(s)
  BY DEF Base, HandlersInvariant, SessionKeeps, Unopened, Quiet

----------------------------------------------------------------------------
(* The lookup.                                                             *)

LEMMA LookupKeepsPromise ==
  ASSUME EffectsBase, NEW s \in Sessions,
         FindLink(s) \/ LinkNotFound(s) \/ LoadAccount(s) \/ LoadPeer(s) \/ AnswerLoaded(s)
  PROVE  PromiseStep
<1>1. Base /\ SessionRemembers(s)
  BY DEF EffectsBase, Base, AnswersInvariant
<1>2. Looking(s) =>
        /\ NothingWritten(s) /\ pc[s] # "idle" /\ ~Idle(s)
        /\ \/ pc[s] = "start" /\ Op(s) # "CreateAccount"
           \/ pc[s] = "findLink" /\ Op(s) = "CreateAccount"
  <2>1. CASE pc[s] = "findLink"
    <3>1. Op(s) = "CreateAccount"
      BY <2>1 DEF EffectsBase, EffectsInvariant, SessionPrepares, Creates
    <3> QED
      BY <1>1, <2>1, <3>1 DEF SessionRemembers, OnlyReads, Idle
  <2>2. CASE pc[s] = "start" /\ Isolation[Op(s)] # "serializable"
    <3>1. Op(s) # "CreateAccount"
      BY <2>2, Zenon DEF Isolation, Handlers
    <3> QED
      BY <1>1, <2>2, <3>1, QuietAtStart DEF Idle
  <2> QED
    BY <2>1, <2>2 DEF Looking
<1>3. CASE LinkNotFound(s)
  <2>1. Promise!NobodyHas(ask[s])
    BY <1>1, <1>2, <1>3, FoundInDirectory DEF LinkNotFound
  <2>2. Promise!MayRefuse(s)
    BY <1>2, <1>3, <2>1, PhaseIs DEF LinkNotFound, PhaseFollows, Promise!MayRefuse, Op
  <2> QED
    BY <1>1, <1>2, <1>3, <2>2, Replies DEF LinkNotFound
<1>4. CASE FindLink(s)
  <2> DEFINE a == LinkedAccount(s)
  <2>1. /\ a \in AccountIds /\ Linked(Cred(s), a)
    BY <1>1, <1>2, <1>4, FoundInDirectory DEF FindLink
  <2>2. /\ Moves(s) /\ ask' = ask /\ answer' = answer /\ pc'[s] = "loadAccount"
        /\ local'[s] = [NoLocals EXCEPT
             !.acct = a,
             !.email = IF Cred(s) \in Wallets THEN None ELSE Normalize[Cred(s)],
             !.wallet = IF Cred(s) \in Wallets THEN Cred(s) ELSE None]
    BY <1>1, <1>4, KeepGoes DEF FindLink
  <2>3. Acct(s)' = a /\ Op(s)' = Op(s)
    BY <2>2 DEF Acct, Op, NoLocals
  <2>4. TablesStay
    BY <1>4 DEF FindLink, Open, Begin, tables, TablesStay, storeVars
  <2>5. PhaseOf(s)' = IF Op(s) = "CreateAccount" THEN "performed" ELSE "found"
    BY <2>2, <2>3, PhaseIs DEF PhaseFollows
  <2>6. CASE pc[s] = "start" /\ Op(s) # "CreateAccount"
    BY <1>1, <2>1, <2>2, <2>3, <2>4, <2>5, <2>6, Finds
  <2>7. CASE pc[s] = "findLink" /\ Op(s) = "CreateAccount"
    <3>1. PhaseOf(s) = "performed"
      BY <2>7, PhaseIs DEF PhaseFollows
    <3> QED
      BY <1>1, <2>2, <2>3, <2>4, <2>5, <2>7, <3>1, Stutters
  <2> QED
    BY <1>2, <1>4, <2>6, <2>7 DEF FindLink
<1>5. CASE LoadAccount(s)
  <2> DEFINE a == Acct(s)
             row == SeenAccount(s, a)
             locals == [local[s] EXCEPT !.row = row]
  <2>1. /\ pc[s] = "loadAccount" /\ row # None /\ UNCHANGED storeVars
        /\ Keep(s, locals, "loadPeer")
    BY <1>5 DEF LoadAccount
  <2>2. NothingWritten(s) /\ a \in AccountIds /\ local[s] \in Locals
    BY <1>1, <2>1, PreparedTyped, ReadyFacts DEF SessionRemembers, OnlyReads, Base
  <2>3. row = accounts[a] /\ Live(a)
    BY <2>1, <2>2, SeesCommitted DEF Live
  <2>4. locals.acct = a /\ locals.row = row
    BY <2>2 DEF Locals, Acct
  <2> HIDE DEF row, locals
  <2>5. /\ Moves(s) /\ ask' = ask /\ answer' = answer /\ pc'[s] = "loadPeer"
        /\ Acct(s)' = a /\ local'[s].row = row /\ Op(s)' = Op(s) /\ Arg(s)' = Arg(s)
        /\ TablesStay
    BY <1>1, <2>1, <2>4, KeepGoes DEF Acct, Op, Arg, storeVars, TablesStay
  <2>6. CASE Op(s) # "CreateAccount" /\ SatisfiedByRow(s)'
    <3>1. PhaseOf(s) = "found" /\ PhaseOf(s)' = "performed"
      BY <2>1, <2>5, <2>6, PhaseIs DEF PhaseFollows
    <3>2. Op(s) # "LinkEmail"
      BY <1>1, <2>1 DEF SessionRemembers, RemembersEmail
    <3>3. \/ Op(s) = "GetUserAccount"
          \/ Op(s) = "UpdateUser" /\ Arg(s) \in {None, accounts[a].country}
          \/ Op(s) = "AcceptTOS" /\ accounts[a].acceptedTos
      BY <2>3, <2>5, <2>6, <3>2 DEF SatisfiedByRow
    <3>4. Promise!Satisfied(ask[s], a) /\ Promise!Present(a)
      BY <1>1, <2>2, <2>3, <3>3, EntryRead DEF Promise!Satisfied, Op, Arg
    <3> QED
      BY <1>1, <2>5, <3>1, <3>4, Takes, NothingDone
  <2>7. CASE ~(Op(s) # "CreateAccount" /\ SatisfiedByRow(s)')
    <3>1. PhaseOf(s)' = PhaseOf(s)
      BY <2>1, <2>5, <2>7, PhaseIs DEF PhaseFollows
    <3> QED
      BY <1>1, <2>5, <3>1, Stutters
  <2> QED
    BY <2>6, <2>7
<1>6. CASE LoadPeer(s)
  <2>1. pc[s] = "loadPeer" /\ local[s] \in Locals
    BY <1>1, <1>6, ReadyFacts DEF LoadPeer, Base
  <2>2. PICK locals : /\ locals.acct = local[s].acct /\ locals.row = local[s].row
                      /\ Keep(s, locals, "loaded") /\ UNCHANGED storeVars
    BY <1>6, <2>1 DEF LoadPeer, Locals
  <2>3. /\ Moves(s) /\ ask' = ask /\ answer' = answer /\ pc'[s] = "loaded"
        /\ Acct(s)' = Acct(s) /\ local'[s].row = local[s].row
        /\ Op(s)' = Op(s) /\ Arg(s)' = Arg(s) /\ TablesStay
    BY <1>1, <2>2, KeepGoes DEF Acct, Op, Arg, storeVars, TablesStay
  <2>4. SatisfiedByRow(s)' <=> SatisfiedByRow(s)
    BY <2>3 DEF SatisfiedByRow
  <2>5. PhaseOf(s)' = PhaseOf(s)
    BY <2>1, <2>3, <2>4, PhaseIs DEF PhaseFollows
  <2> QED
    BY <1>1, <2>3, <2>5, Stutters
<1>7. CASE AnswerLoaded(s)
  <2>1. pc[s] = "loaded" /\ Reply(s, "ok") /\ ~Idle(s)
    BY <1>7 DEF AnswerLoaded, Idle
  <2>2. PhaseOf(s) = "performed"
    BY <1>7, <2>1, PhaseIs DEF AnswerLoaded, PhaseFollows, SatisfiedByRow
  <2> QED
    BY <1>1, <2>1, <2>2, Replies
<1> QED
  BY <1>3, <1>4, <1>5, <1>6, <1>7


----------------------------------------------------------------------------
(* The statements of a transaction change nothing that is committed.       *)

LEMMA GoesOn ==
  ASSUME Base, NEW s \in Sessions, NEW label, Continue(s, label), TablesStay,
         pc[s] \notin {"idle", "start", "tell", "done", "loadPeer"},
         label \notin {"idle", "start", "tell", "done", "loadPeer", "loaded",
                       "findLink", "loadAccount"},
         Op(s) = "CreateAccount" => pc[s] \notin {"loaded", "loadAccount", "findLink"},
         pc[s] = "loaded" => ~SatisfiedByRow(s)
  PROVE  PromiseStep
<1>1. Moves(s) /\ ask' = ask /\ answer' = answer /\ pc'[s] = label /\ local' = local
  BY ContinueGoes
<1>2. Op(s)' = Op(s) /\ Acct(s)' = Acct(s)
  BY <1>1 DEF Op, Acct
<1>3. PhaseOf(s)' = PhaseOf(s)
  BY <1>1, <1>2, PhaseIs DEF PhaseFollows
<1> QED
  BY <1>1, <1>2, <1>3, Stutters

LEMMA CreateKeepsPromise ==
  ASSUME Base, NEW s \in Sessions,
         \/ BeginCreate(s) \/ DrawCode(s) \/ InsertNewAccount(s)
         \/ InsertFirstWallet(s) \/ InsertFirstEmail(s)
  PROVE  PromiseStep
<1>1. /\ Op(s) = "CreateAccount" /\ ~Idle(s) /\ pc[s] # "idle"
      /\ pc[s] \in {"start", "drawCode", "insertAccount", "insertLink"}
  <2>1. /\ pc[s] \in {"start", "drawCode", "insertAccount", "insertLink"}
        /\ pc[s] = "start" => Op(s) = "CreateAccount"
    BY DEF BeginCreate, DrawCode, InsertNewAccount, InsertFirstWallet, InsertFirstEmail
  <2> QED
    BY <2>1, ReadyFacts DEF Base, ReadyAt, Op, Idle
<1>2. PhaseOf(s) = "asked"
  BY <1>1, PhaseIs DEF PhaseFollows
<1>3. ASSUME NEW locals, NEW label \in {"drawCode", "insertAccount", "insertLink",
                                        "tellBeforeCommit", "commit"},
             Keep(s, locals, label) \/ Continue(s, label), TablesStay
      PROVE  PromiseStep
  <2>1. Moves(s) /\ ask' = ask /\ answer' = answer /\ pc'[s] = label
    BY <1>3, KeepGoes, ContinueGoes
  <2>2. Op(s)' = "CreateAccount"
    BY <1>1, <2>1 DEF Op
  <2>3. PhaseOf(s)' = "asked"
    BY <2>1, <2>2, PhaseIs DEF PhaseFollows
  <2> QED
    BY <1>2, <1>3, <2>1, <2>3, Stutters
<1>4. CASE Reply(s, "failed")
  BY <1>1, <1>4, Replies
<1>5. CASE BeginCreate(s) /\ CreateConflict(s)
  <2>1. pc[s] = "start" /\ NothingWritten(s)
    BY <1>5, QuietAtStart DEF BeginCreate
  <2>2. LinkedAccount(s) \in AccountIds /\ Promise!Denotes(Cred(s), LinkedAccount(s))
    BY <1>1, <1>5, <2>1, FoundInDirectory DEF CreateConflict
  <2>3. ~Promise!NobodyHas(ask[s])
    BY <2>2 DEF Promise!NobodyHas, Cred
  <2>4. Promise!MayRefuse(s)
    BY <1>1, <1>2, <2>3 DEF Promise!MayRefuse, Op
  <2> QED
    BY <1>1, <1>5, <2>4, Replies DEF BeginCreate
<1>6. CASE BeginCreate(s) /\ ~CreateConflict(s)
  <2>1. Continue(s, "drawCode") /\ TablesStay
    BY <1>6 DEF BeginCreate, Begin, tables, TablesStay
  <2> QED
    BY <1>3, <2>1
<1>7. CASE DrawCode(s)
  <2>1. TablesStay /\ \E locals : Keep(s, locals, "insertAccount")
    BY <1>7 DEF DrawCode, storeVars, TablesStay
  <2> QED
    BY <1>3, <2>1
<1>8. CASE InsertNewAccount(s) /\ ~Reply(s, "failed")
  <2>1. TablesStay /\ \E locals : Keep(s, locals, "insertLink")
    BY <1>8 DEF InsertNewAccount, InsertAccount, tables, TablesStay
  <2> QED
    BY <1>3, <2>1
<1>9. CASE InsertFirstWallet(s) /\ ~Reply(s, "failed")
  <2>1. TablesStay /\ Continue(s, "tellBeforeCommit")
    BY <1>9 DEF InsertFirstWallet, InsertWallet, tables, TablesStay
  <2> QED
    BY <1>3, <2>1
<1>10. CASE InsertFirstEmail(s) /\ ~Reply(s, "failed")
  <2>1. TablesStay /\ Continue(s, "commit")
    BY <1>10 DEF InsertFirstEmail, InsertEmail, tables, TablesStay
  <2> QED
    BY <1>3, <2>1
<1> QED
  BY <1>4, <1>5, <1>6, <1>7, <1>8, <1>9, <1>10

LEMMA StatementKeepsPromise ==
  ASSUME Base, NEW s \in Sessions,
         \/ DeleteUser(s) \/ DeleteUnconfirmed(s) \/ InsertLinkedEmail(s)
         \/ Touch(s) \/ Refer(s)
  PROVE  PromiseStep
<1>1. /\ pc[s] \in {"loaded", "deleteEmail", "insertEmail", "touch", "refer"}
      /\ pc[s] = "loaded" => Op(s) = "DeleteUser"
      /\ ~Idle(s)
  BY DEF DeleteUser, DeleteUnconfirmed, InsertLinkedEmail, Touch, Refer, Idle
<1>2. CASE Reply(s, "failed")
  BY <1>1, <1>2, Replies
<1>3. ASSUME NEW label \in {"commit", "insertEmail", "touch"}, Continue(s, label), TablesStay
      PROVE  PromiseStep
  <2>1. pc[s] = "loaded" => ~SatisfiedByRow(s)
    BY <1>1 DEF SatisfiedByRow
  <2>2. Op(s) = "CreateAccount" => pc[s] \notin {"loaded", "loadAccount", "findLink"}
    BY <1>1
  <2> QED
    BY <1>1, <1>3, <2>1, <2>2, GoesOn
<1>4. ASSUME ~Reply(s, "failed")
      PROVE  TablesStay /\ \E label \in {"commit", "insertEmail", "touch"} : Continue(s, label)
  <2>1. CASE DeleteUser(s)
    BY <2>1 DEF DeleteUser, DeleteAccount, tables, storeVars, TablesStay
  <2>2. CASE DeleteUnconfirmed(s)
    BY <1>4, <2>2 DEF DeleteUnconfirmed, DeleteEmail, tables, TablesStay
  <2>3. CASE InsertLinkedEmail(s)
    BY <1>4, <2>3 DEF InsertLinkedEmail, InsertEmail, tables, TablesStay
  <2>4. CASE Touch(s)
    BY <1>4, <2>4 DEF Touch, UpdateAccount, tables, TablesStay
  <2>5. CASE Refer(s)
    BY <1>4, <2>5 DEF Refer, UpdateAccount, tables, storeVars, TablesStay
  <2> QED
    BY <2>1, <2>2, <2>3, <2>4, <2>5
<1> QED
  BY <1>2, <1>3, <1>4


----------------------------------------------------------------------------
(* The entry of a live account: its links and its row.                     *)
EntryWith(e, confirmed, w, row) ==
  [email |-> e, confirmed |-> confirmed, wallet |-> w, code |-> row.code,
   country |-> row.country, referredBy |-> row.referredBy,
   referredAt |-> row.referredAt, acceptedTos |-> row.acceptedTos]

LEMMA EntryLive ==
  ASSUME NEW a \in AccountIds
  PROVE  /\ Live(a) =>
              EntryOf(a) = EntryWith(LinkedEmail(a), HasConfirmed(a), LinkedWallet(a), accounts[a])
         /\ accounts'[a] # None =>
              EntryOf(a)' = EntryWith(LinkedEmail(a)', HasConfirmed(a)', LinkedWallet(a)', accounts'[a])
<1>1. Live(a) =>
        EntryOf(a) = EntryWith(LinkedEmail(a), HasConfirmed(a), LinkedWallet(a), accounts[a])
  BY DEF EntryOf, EntryWith, Live
<1>2. accounts'[a] # None =>
        EntryOf(a)' = EntryWith(LinkedEmail(a)', HasConfirmed(a)', LinkedWallet(a)', accounts'[a])
  BY DEF EntryOf, EntryWith
<1> QED
  BY <1>1, <1>2

LEMMA LinksStay ==
  ASSUME UNCHANGED <<emails, wallets>>, NEW a
  PROVE  /\ LinkedEmail(a)' = LinkedEmail(a) /\ LinkedWallet(a)' = LinkedWallet(a)
         /\ HasConfirmed(a)' = HasConfirmed(a)
<1>1. LinkedEmail(a)' = LinkedEmail(a) /\ LinkedWallet(a)' = LinkedWallet(a)
  BY DEF LinkedEmail, LinkedWallet
<1>2. HasConfirmed(a)' = HasConfirmed(a)
  BY DEF HasConfirmed
<1> QED
  BY <1>1, <1>2

(* The entry with other columns or links.                                  *)
LEMMA CountryExcept ==
  ASSUME NEW e, NEW confirmed, NEW w, NEW row \in AccountRow, NEW x
  PROVE  EntryWith(e, confirmed, w, [row EXCEPT !.country = x]) =
           [EntryWith(e, confirmed, w, row) EXCEPT !.country = x]
  BY DEF EntryWith, AccountRow

LEMMA TermsExcept ==
  ASSUME NEW e, NEW confirmed, NEW w, NEW row \in AccountRow
  PROVE  EntryWith(e, confirmed, w, [row EXCEPT !.acceptedTos = TRUE]) =
           [EntryWith(e, confirmed, w, row) EXCEPT !.acceptedTos = TRUE]
<1>1. \A x : EntryWith(e, confirmed, w, [row EXCEPT !.acceptedTos = x]) =
               [EntryWith(e, confirmed, w, row) EXCEPT !.acceptedTos = x]
  BY DEF EntryWith, AccountRow
<1> QED
  BY <1>1, Zenon

LEMMA ReferrerExcept ==
  ASSUME NEW e, NEW confirmed, NEW w, NEW row \in AccountRow, NEW x
  PROVE  EntryWith(e, confirmed, w, [row EXCEPT !.referredBy = x]) =
           [EntryWith(e, confirmed, w, row) EXCEPT !.referredBy = x]
  BY DEF EntryWith, AccountRow

Referring(r, x, y) == [r EXCEPT !.referredBy = x, !.referredAt = y]

LEMMA ReferralExcept ==
  ASSUME NEW e, NEW confirmed, NEW w, NEW row \in AccountRow, NEW x, NEW y
  PROVE  EntryWith(e, confirmed, w, Referring(row, x, y)) =
           Referring(EntryWith(e, confirmed, w, row), x, y)
<1> DEFINE old == EntryWith(e, confirmed, w, row)
           mid == EntryWith(e, confirmed, w, [row EXCEPT !.referredBy = x])
           twice == [[row EXCEPT !.referredBy = x] EXCEPT !.referredAt = y]
<1>1. mid = [old EXCEPT !.referredBy = x]
  BY ReferrerExcept
<1>2. EntryWith(e, confirmed, w, twice) = [mid EXCEPT !.referredAt = y]
  BY DEF EntryWith, AccountRow
<1> HIDE DEF old, mid
<1>3. /\ Referring(row, x, y) = twice
      /\ Referring(old, x, y) = [[old EXCEPT !.referredBy = x] EXCEPT !.referredAt = y]
  BY DEF Referring
<1> HIDE DEF twice
<1>4. EntryWith(e, confirmed, w, Referring(row, x, y)) = Referring(old, x, y)
  BY <1>1, <1>2, <1>3
<1> QED
  BY <1>4 DEF old

LEMMA EmailExcept ==
  ASSUME NEW e, NEW confirmed, NEW w, NEW row, NEW x
  PROVE  EntryWith(x, confirmed, w, row) =
           [EntryWith(e, confirmed, w, row) EXCEPT !.email = x]
  BY DEF EntryWith

Confirming(entry, x, y) == [entry EXCEPT !.email = x, !.confirmed = y]

LEMMA ConfirmedExcept ==
  ASSUME NEW e, NEW confirmed, NEW w, NEW row, NEW x, NEW y
  PROVE  EntryWith(x, y, w, row) = Confirming(EntryWith(e, confirmed, w, row), x, y)
<1> DEFINE old == EntryWith(e, confirmed, w, row)
           mid == EntryWith(x, confirmed, w, row)
<1>1. mid = [old EXCEPT !.email = x]
  BY EmailExcept
<1>2. EntryWith(x, y, w, row) = [mid EXCEPT !.confirmed = y]
  BY DEF EntryWith
<1> HIDE DEF old, mid
<1>3. [old EXCEPT !.email = x, !.confirmed = y] =
        [[old EXCEPT !.email = x] EXCEPT !.confirmed = y]
  OBVIOUS
<1>4. EntryWith(x, y, w, row) = [old EXCEPT !.email = x, !.confirmed = y]
  BY <1>1, <1>2, <1>3
<1> QED
  BY <1>4 DEF old, Confirming

LEMMA WalletExcept ==
  ASSUME NEW e, NEW confirmed, NEW w, NEW row, NEW x
  PROVE  EntryWith(e, confirmed, x, row) =
           [EntryWith(e, confirmed, w, row) EXCEPT !.wallet = x]
  BY DEF EntryWith

LEMMA Puts ==
  ASSUME NEW a \in AccountIds, NEW entry, EntryOf(a)' = entry, issued' = issued,
         \A b \in AccountIds \ {a} : EntryOf(b)' = EntryOf(b)
  PROVE  Promise!Put(a, entry)
<1>1. [b \in AccountIds |-> EntryOf(b)'] = [[b \in AccountIds |-> EntryOf(b)] EXCEPT ![a] = entry]
  OBVIOUS
<1> QED
  BY <1>1 DEF Promise!Put

(* The columns of one live account change.                                 *)
LEMMA RowChanges ==
  ASSUME Base, NEW a \in AccountIds, Live(a), UNCHANGED <<emails, wallets, issued>>,
         NEW row, accounts'[a] = row, row # None,
         \A b \in AccountIds \ {a} : accounts'[b] = accounts[b]
  PROVE  /\ accounts[a] \in AccountRow
         /\ EntryOf(a) = EntryWith(LinkedEmail(a), HasConfirmed(a), LinkedWallet(a), accounts[a])
         /\ Promise!Put(a, EntryWith(LinkedEmail(a), HasConfirmed(a), LinkedWallet(a), row))
<1>1. accounts[a] \in AccountRow
  BY DEF Live, Base, AccountsTypeOK, TypeOK
<1>2. EntryOf(a) = EntryWith(LinkedEmail(a), HasConfirmed(a), LinkedWallet(a), accounts[a])
  BY EntryLive
<1>3. EntryOf(a)' = EntryWith(LinkedEmail(a), HasConfirmed(a), LinkedWallet(a), row)
  <2>1. EntryOf(a)' = EntryWith(LinkedEmail(a)', HasConfirmed(a)', LinkedWallet(a)', row)
    BY EntryLive
  <2> QED
    BY <2>1, LinksStay
<1>4. ASSUME NEW b \in AccountIds \ {a}
      PROVE  EntryOf(b)' = EntryOf(b)
  BY EntryStays
<1> QED
  BY <1>1, <1>2, <1>3, <1>4, Puts

----------------------------------------------------------------------------
(* UpdateUser and AcceptTOS take effect at once.                           *)

LEMMA SaveKeepsPromise ==
  ASSUME Base, NEW s \in Sessions, NEW row, SaveNow(s, row), pc[s] = "loaded",
         PhaseOf(s) = "found",
         \/ Op(s) = "UpdateUser" /\ Arg(s) \in KnownCountries
         \/ Op(s) = "AcceptTOS",
         Live(Acct(s)) =>
           row = IF Op(s) = "UpdateUser" THEN [accounts[Acct(s)] EXCEPT !.country = Arg(s)]
                 ELSE [accounts[Acct(s)] EXCEPT !.acceptedTos = TRUE]
  PROVE  PromiseStep
<1> DEFINE a == Acct(s)
           entry == EntryOf(a)
<1>1. a \in AccountIds
  BY PreparedTyped
<1>2. Promise!Performed(s)
  BY Takes DEF SaveNow
<1>3. CASE ~Live(a)
  <2>1. TablesStay /\ ~Promise!Present(a) /\ Op(s) \in Promise!Forgiving
    BY <1>1, <1>3, EntryRead DEF SaveNow, Live, storeVars, TablesStay, Promise!Forgiving
  <2> QED
    BY <1>2, <2>1, NothingDone
<1>4. CASE Live(a)
  <2>1. UpdateAccountNow(s, a, row) /\ accounts[a] \in AccountRow
    BY <1>1, <1>4 DEF SaveNow, Live, Base, AccountsTypeOK, TypeOK
  <2>2. /\ accounts'[a] = row /\ \A b \in AccountIds \ {a} : accounts'[b] = accounts[b]
        /\ UNCHANGED <<emails, wallets, issued>>
    BY <1>1, <2>1 DEF UpdateAccountNow, Base, AccountsTypeOK, TypeOK
  <2>3. row # None
    <3>1. row \in AccountRow
      <4>1. Arg(s) \in Countries \/ Op(s) # "UpdateUser"
        BY AccountsAssumption
      <4> QED
        BY <1>4, <2>1, <4>1 DEF AccountRow
    <3> QED
      BY <3>1, NullsAreNotValues
  <2>4. /\ entry = EntryWith(LinkedEmail(a), HasConfirmed(a), LinkedWallet(a), accounts[a])
        /\ Promise!Put(a, EntryWith(LinkedEmail(a), HasConfirmed(a), LinkedWallet(a), row))
    BY <1>1, <1>4, <2>2, <2>3, RowChanges
  <2>5. Promise!Present(a)
    BY <1>1, <1>4, EntryRead
  <2>6. CASE Op(s) = "UpdateUser"
    <3>1. Promise!Put(a, [entry EXCEPT !.country = Arg(s)])
      <4> DEFINE old == accounts[a]
                 E == LinkedEmail(a)
                 C == HasConfirmed(a)
                 W == LinkedWallet(a)
      <4>1. row = [old EXCEPT !.country = Arg(s)] /\ old \in AccountRow
        BY <1>4, <2>1, <2>6
      <4>2. entry = EntryWith(E, C, W, old) /\ Promise!Put(a, EntryWith(E, C, W, row))
        BY <2>4
      <4> HIDE DEF old, E, C, W, entry
      <4>3. EntryWith(E, C, W, [old EXCEPT !.country = Arg(s)]) =
              [EntryWith(E, C, W, old) EXCEPT !.country = Arg(s)]
        BY <4>1, CountryExcept
      <4> QED
        BY <4>1, <4>2, <4>3
    <3>2. Promise!SetCountry(ask[s], a)
      BY <1>1, <2>6, <3>1 DEF Promise!SetCountry, Op, Arg
    <3> QED
      BY <1>2, <2>5, <3>2, Performs DEF Promise!Effect
  <2>7. CASE Op(s) = "AcceptTOS"
    <3>1. Promise!Put(a, [entry EXCEPT !.acceptedTos = TRUE])
      <4> DEFINE old == accounts[a]
                 E == LinkedEmail(a)
                 C == HasConfirmed(a)
                 W == LinkedWallet(a)
      <4>1. row = [old EXCEPT !.acceptedTos = TRUE] /\ old \in AccountRow
        BY <1>4, <2>1, <2>7
      <4>2. entry = EntryWith(E, C, W, old) /\ Promise!Put(a, EntryWith(E, C, W, row))
        BY <2>4
      <4> HIDE DEF old, E, C, W, entry
      <4>3. EntryWith(E, C, W, [old EXCEPT !.acceptedTos = TRUE]) =
              [EntryWith(E, C, W, old) EXCEPT !.acceptedTos = TRUE]
        BY <4>1, TermsExcept
      <4> QED
        BY <4>1, <4>2, <4>3
    <3>2. Promise!AcceptTerms(ask[s], a)
      BY <1>1, <2>7, <3>1 DEF Promise!AcceptTerms, Op
    <3> QED
      BY <1>2, <2>5, <3>2, Performs DEF Promise!Effect
  <2> QED
    BY <2>6, <2>7
<1> QED
  BY <1>3, <1>4


LEMMA ProfileKeepsPromise ==
  ASSUME EffectsBase, NEW s \in Sessions, UpdateUser(s) \/ AcceptTOS(s)
  PROVE  PromiseStep
<1> DEFINE a == Acct(s)
<1>1. /\ Base /\ pc[s] = "loaded" /\ ~Idle(s)
      /\ Op(s) = "UpdateUser" \/ Op(s) = "AcceptTOS"
  BY DEF EffectsBase, UpdateUser, AcceptTOS, Idle
<1>2. PhaseOf(s) = IF SatisfiedByRow(s) THEN "performed" ELSE "found"
  BY <1>1, PhaseIs DEF PhaseFollows
<1>3. CASE Reply(s, "ok") /\ SatisfiedByRow(s)
  BY <1>1, <1>2, <1>3, Replies
<1>4. CASE UpdateUser(s)
  <2>1. CASE Arg(s) \notin KnownCountries \cup {None}
    <3>1. Reply(s, "refused")
      BY <1>4, <2>1 DEF UpdateUser
    <3>2. PhaseOf(s) = "found" /\ Op(s) = "UpdateUser"
      BY <1>2, <1>4, <2>1 DEF SatisfiedByRow, UpdateUser
    <3>3. Promise!MayRefuse(s)
      BY <2>1, <3>2 DEF Promise!MayRefuse, Op, Arg
    <3> QED
      BY <1>1, <3>1, <3>2, <3>3, Replies
  <2>2. CASE Arg(s) \in KnownCountries \cup {None} /\ Arg(s) \in {None, local[s].row.country}
    <3>1. Reply(s, "ok") /\ SatisfiedByRow(s)
      BY <1>4, <2>2 DEF UpdateUser, SatisfiedByRow
    <3> QED
      BY <1>3, <3>1
  <2>3. CASE Arg(s) \in KnownCountries \cup {None} /\ Arg(s) \notin {None, local[s].row.country}
    <3>1. SaveNow(s, CountryOnly(s)) /\ ~SatisfiedByRow(s) /\ Op(s) = "UpdateUser"
      BY <1>4, <2>3 DEF UpdateUser, SatisfiedByRow
    <3>2. Live(a) => CountryOnly(s) = [accounts[a] EXCEPT !.country = Arg(s)]
      BY DEF CountryOnly, CurrentRow, Live
    <3>3. Arg(s) \in KnownCountries /\ PhaseOf(s) = "found"
      BY <1>2, <2>3, <3>1
    <3> QED
      BY <1>1, <3>1, <3>2, <3>3, SaveKeepsPromise
  <2> QED
    BY <2>1, <2>2, <2>3
<1>5. CASE AcceptTOS(s)
  <2>1. CASE local[s].row.acceptedTos
    BY <1>3, <1>5, <2>1 DEF AcceptTOS, SatisfiedByRow
  <2>2. CASE ~local[s].row.acceptedTos
    <3>1. SaveNow(s, TosOnly(s)) /\ ~SatisfiedByRow(s) /\ Op(s) = "AcceptTOS"
      BY <1>5, <2>2 DEF AcceptTOS, SatisfiedByRow
    <3>2. Live(a) => TosOnly(s) = [accounts[a] EXCEPT !.acceptedTos = TRUE]
      BY DEF TosOnly, CurrentRow, Live
    <3>3. PhaseOf(s) = "found"
      BY <1>2, <3>1
    <3> QED
      BY <1>1, <3>1, <3>2, <3>3, SaveKeepsPromise
  <2> QED
    BY <2>1, <2>2
<1> QED
  BY <1>4, <1>5

----------------------------------------------------------------------------
(* LinkEmail and LinkEmailToken read everything at once.                   *)

(* What the two handlers read speaks against the address, or does not.     *)
LEMMA EmailRead ==
  ASSUME Base, NEW s \in Sessions, pc[s] = "start", NEW e \in Addresses,
         NEW a \in AccountIds, Live(a)
  PROVE  /\ EntryOf(a).email = EmailOfAccount(s, a)
         /\ EmailOwner(s, e) \notin {None, a} => ~Promise!FreeAddress(e, a)
         /\ EmailOfAccount(s, a) = e /\ SeenEmail(s, e).confirmed => EntryOf(a).confirmed
<1>1. /\ EmailOfAccount(s, a) = LinkedEmail(a)
      /\ SeenEmail(s, e) = emails[e]
  BY QuietAtStart, FoundInDirectory
<1>2. /\ EntryOf(a).email = LinkedEmail(a)
      /\ EntryOf(a).confirmed = HasConfirmed(a)
  BY EntryRead
<1>3. ASSUME EmailOwner(s, e) \notin {None, a}
      PROVE  ~Promise!FreeAddress(e, a)
  <2> DEFINE b == EmailOwner(s, e)
  <2>1. emails[e] # None /\ b = emails[e].account
    BY <1>1, <1>3 DEF EmailOwner
  <2>2. b \in AccountIds \ {a} /\ EmailOf(emails[e], b)
    BY <1>3, <2>1, NullsAreNotValues DEF Base, AccountsTypeOK, TypeOK, EmailRow, EmailOf
  <2>3. Promise!HasAddress(b, e)
    BY <2>2, EntryRead
  <2> QED
    BY <2>2, <2>3 DEF Promise!FreeAddress
<1>4. ASSUME EmailOfAccount(s, a) = e, SeenEmail(s, e).confirmed
      PROVE  EntryOf(a).confirmed
  <2>1. EmailOf(emails[e], a)
    BY <1>1, <1>4, EntryIs
  <2> QED
    BY <1>1, <1>2, <1>4, <2>1 DEF HasConfirmed
<1> QED
  BY <1>1, <1>2, <1>3, <1>4

LEMMA LinkBeginKeepsPromise ==
  ASSUME EffectsBase, NEW s \in Sessions, LinkEmail(s) \/ LinkEmailToken(s)
  PROVE  PromiseStep
<1> DEFINE a == LinkedAccount(s)
           e == NewAddress(s)
<1>1. /\ Base /\ pc[s] = "start" /\ ~Idle(s) /\ pc[s] # "idle"
      /\ Op(s) = "LinkEmail" \/ Op(s) = "LinkEmailToken"
  BY DEF EffectsBase, LinkEmail, LinkEmailToken, Idle
<1>2. PhaseOf(s) = "asked" /\ NothingWritten(s)
  BY <1>1, PhaseIs, QuietAtStart DEF PhaseFollows
<1>3. /\ Op(s) = "LinkEmail" => Arg(s) \in Addresses
      /\ Arg(s) \in Addresses \cup {None}
      /\ Arg(s) # None => e \in Addresses
  <2>1. Arg(s) \in ArgumentsOf(Op(s))
    BY <1>1, ReadyFacts DEF Base
  <2> QED
    BY <1>1, <2>1, AccountsAssumption DEF ArgumentsOf, NewAddress
<1>4. a # None =>
        /\ a \in AccountIds /\ Live(a) /\ Linked(Cred(s), a)
        /\ Promise!Denotes(Cred(s), a)
  BY <1>1, <1>2, FoundInDirectory
<1>5. CASE Reply(s, "refused") /\ a = None
  <2>1. Promise!NobodyHas(ask[s])
    BY <1>1, <1>2, <1>5, FoundInDirectory
  <2>2. Promise!MayRefuse(s)
    BY <1>1, <1>2, <2>1 DEF Promise!MayRefuse, Op
  <2> QED
    BY <1>1, <1>5, <2>2, Replies
<1>6. ASSUME Reply(s, "refused"), a # None, Promise!BadEmail(ask[s], a)
      PROVE  PromiseStep
  <2>1. Promise!MayRefuse(s)
    BY <1>2, <1>4, <1>6 DEF Promise!MayRefuse, Cred
  <2> QED
    BY <1>1, <1>6, <2>1, Replies
<1>7. a # None /\ Arg(s) # None =>
        /\ EntryOf(a).email = EmailOfAccount(s, a)
        /\ EmailOwner(s, e) \notin {None, a} => ~Promise!FreeAddress(e, a)
        /\ EmailOfAccount(s, a) = e /\ SeenEmail(s, e).confirmed => EntryOf(a).confirmed
  BY <1>1, <1>3, <1>4, EmailRead
<1>8. a # None /\ Arg(s) # None =>
        (EmailOfAccount(s, a) \notin {None, e} \/ EmailOwner(s, e) \notin {None, a}
          => Promise!EmailTaken(ask[s], a))
  BY <1>4, <1>7 DEF Promise!EmailTaken, NewAddress, Arg
<1>9. ASSUME NEW label \in {"insertEmail", "deleteEmail"}, NEW locals, locals.acct = a,
             Keep(s, locals, label), Begin(s, Isolation[Op(s)]), a # None
      PROVE  PromiseStep
  <2>1. Moves(s) /\ ask' = ask /\ answer' = answer /\ pc'[s] = label /\ local'[s] = locals
    BY <1>1, <1>9, KeepGoes
  <2>2. Acct(s)' = a /\ Op(s)' = Op(s) /\ TablesStay
    BY <1>9, <2>1 DEF Acct, Op, Begin, tables, TablesStay
  <2>3. PhaseOf(s)' = "found"
    BY <1>1, <2>1, <2>2, PhaseIs DEF PhaseFollows
  <2> QED
    BY <1>1, <1>4, <1>9, <2>1, <2>2, <2>3, Finds
<1>10. CASE LinkEmail(s)
  <2>1. Op(s) = "LinkEmail" /\ Arg(s) \in Addresses /\ Arg(s) # None
    BY <1>3, <1>10, AccountsAssumption DEF LinkEmail
  <2>2. CASE LinkEmailRefused(s, e, a)
    <3>1. Reply(s, "refused")
      BY <1>10, <2>2 DEF LinkEmail
    <3>2. a # None => Promise!BadEmail(ask[s], a)
      BY <1>8, <2>1, <2>2 DEF LinkEmailRefused, Promise!BadEmail, NewAddress, Arg, Op
    <3> QED
      BY <1>5, <1>6, <3>1, <3>2
  <2>3. CASE ~LinkEmailRefused(s, e, a)
    <3> DEFINE locals == [NoLocals EXCEPT !.acct = a]
    <3>1. /\ a # None /\ EmailOfAccount(s, a) \in {None, e}
          /\ Begin(s, Isolation[Op(s)])
          /\ Keep(s, locals, IF EmailOfAccount(s, a) = None THEN "insertEmail" ELSE "loaded")
      BY <1>10, <2>3 DEF LinkEmail, LinkEmailRefused
    <3>2. locals.acct = a
      BY DEF NoLocals
    <3> HIDE DEF locals
    <3>3. CASE EmailOfAccount(s, a) = None
      BY <1>9, <3>1, <3>2, <3>3
    <3>4. CASE EmailOfAccount(s, a) # None
      <4>1. Moves(s) /\ ask' = ask /\ answer' = answer /\ pc'[s] = "loaded"
        BY <1>1, <3>1, <3>4, KeepGoes
      <4>2. Op(s)' = Op(s) /\ TablesStay
        BY <3>1, <4>1 DEF Op, Begin, tables, TablesStay
      <4>3. PhaseOf(s)' = "performed"
        BY <2>1, <4>1, <4>2, PhaseIs DEF PhaseFollows, SatisfiedByRow
      <4>4. Promise!Satisfied(ask[s], a)
        BY <1>4, <1>7, <2>1, <3>1, <3>4 DEF Promise!Satisfied, NewAddress, Arg, Op
      <4> QED
        BY <1>1, <1>2, <1>4, <3>1, <4>1, <4>2, <4>3, <4>4, Takes, NothingDone
    <3> QED
      BY <3>3, <3>4
  <2> QED
    BY <2>2, <2>3
<1>11. CASE LinkEmailToken(s)
  <2>1. Op(s) = "LinkEmailToken"
    BY <1>11 DEF LinkEmailToken
  <2>2. CASE a = None
    BY <1>5, <1>11, <2>2 DEF LinkEmailToken
  <2>3. CASE a # None /\ Arg(s) = None
    <3>1. Promise!BadEmail(ask[s], a)
      BY <2>1, <2>3 DEF Promise!BadEmail, Arg, Op
    <3> QED
      BY <1>6, <1>11, <2>3, <3>1 DEF LinkEmailToken
  <2>4. CASE a # None /\ Arg(s) # None /\ LinkTokenRefused(s, e, a)
    <3>1. Promise!EmailTaken(ask[s], a) \/ EntryOf(a).confirmed
      BY <1>7, <1>8, <2>4 DEF LinkTokenRefused
    <3>2. Promise!BadEmail(ask[s], a)
      BY <1>4, <2>1, <2>4, <3>1 DEF Promise!BadEmail, Op
    <3> QED
      BY <1>6, <1>11, <2>4, <3>2 DEF LinkEmailToken
  <2>5. CASE a # None /\ Arg(s) # None /\ ~LinkTokenRefused(s, e, a)
    <3> DEFINE locals == [NoLocals EXCEPT !.acct = a, !.email = EmailOfAccount(s, a)]
    <3>1. /\ Begin(s, Isolation[Op(s)])
          /\ Keep(s, locals, IF EmailOfAccount(s, a) = None THEN "insertEmail" ELSE "deleteEmail")
      BY <1>11, <2>5 DEF LinkEmailToken
    <3>2. locals.acct = a
      BY DEF NoLocals
    <3> HIDE DEF locals
    <3>3. PICK label \in {"insertEmail", "deleteEmail"} : Keep(s, locals, label)
      BY <3>1
    <3> QED
      BY <1>9, <2>5, <3>1, <3>2, <3>3
  <2> QED
    BY <2>2, <2>3, <2>4, <2>5
<1> QED
  BY <1>10, <1>11

----------------------------------------------------------------------------
(* LinkWalletToken and SubmitReferralCode have their account's row.        *)

(* The wallet a handler has read is its account's, if there is one.        *)
LEMMA WalletRead ==
  ASSUME Base, NEW s \in Sessions, pc[s] \in {"loaded", "checkReferrer", "refer"},
         local[s].wallet # None, Live(Acct(s))
  PROVE  /\ Acct(s) \in AccountIds
         /\ local[s].wallet \in Wallets /\ wallets[local[s].wallet] = Acct(s)
         /\ EntryOf(Acct(s)).wallet = local[s].wallet
<1>1. Acct(s) \in AccountIds /\ local[s].wallet \in Wallets
  BY PreparedTyped, ReadyFacts DEF Base, Locals
<1>2. wallets[local[s].wallet] = Acct(s)
  BY DEF Base, AnswersInvariant, SessionRemembers, RemembersWallet
<1>3. EntryOf(Acct(s)).wallet = LinkedWallet(Acct(s))
  BY <1>1, EntryRead
<1> QED
  BY <1>1, <1>2, <1>3, EntryIs

LEMMA LinkWalletKeepsPromise ==
  ASSUME EffectsBase, NEW s \in Sessions, LinkWalletToken(s)
  PROVE  PromiseStep
<1> DEFINE a == Acct(s)
<1>1. /\ Base /\ pc[s] = "loaded" /\ ~Idle(s) /\ Op(s) = "LinkWalletToken" /\ a \in AccountIds
  BY PreparedTyped DEF EffectsBase, LinkWalletToken, Idle
<1>2. PhaseOf(s) = "found" /\ ~SatisfiedByRow(s)
  BY <1>1, PhaseIs DEF PhaseFollows, SatisfiedByRow
<1>3. CASE local[s].wallet # None
  <2>1. Live(a) => EntryOf(a).wallet # None
    BY <1>1, <1>3, WalletRead
  <2>2. Promise!Present(a) => EntryOf(a).wallet # None
    BY <1>1, <2>1, EntryRead
  <2>3. Promise!MayRefuse(s)
    BY <1>1, <1>2, <2>2 DEF Promise!MayRefuse, Op
  <2> QED
    BY <1>1, <1>3, <2>3, Replies DEF LinkWalletToken
<1>4. CASE local[s].wallet = None /\ local[s].email # None /\ Arg(s) = None
  <2>1. Promise!MayRefuse(s)
    BY <1>1, <1>2, <1>4 DEF Promise!MayRefuse, Op, Arg
  <2> QED
    BY <1>1, <1>4, <2>1, Replies DEF LinkWalletToken
<1>5. CASE Reply(s, "failed")
  BY <1>1, <1>5, Replies
<1>6. CASE InsertWallet(s, Arg(s), a) /\ Continue(s, "touch")
  <2>1. TablesStay
    BY <1>6 DEF InsertWallet, tables, TablesStay
  <2> QED
    BY <1>1, <1>2, <1>6, <2>1, GoesOn
<1> QED
  BY <1>3, <1>4, <1>5, <1>6 DEF LinkWalletToken

LEMMA ReferralKeepsPromise ==
  ASSUME EffectsBase, NEW s \in Sessions, FindReferrer(s) \/ CheckReferrer(s)
  PROVE  PromiseStep
<1> DEFINE a == Acct(s)
           r == local[s].referrer
<1>1. /\ Base /\ pc[s] \in {"loaded", "checkReferrer"} /\ ~Idle(s) /\ pc[s] # "idle"
      /\ a \in AccountIds
  BY PreparedTyped DEF EffectsBase, FindReferrer, CheckReferrer, Idle
<1>2. /\ Op(s) = "SubmitReferralCode" /\ Arg(s) \in Codes \cup {None}
      /\ pc[s] = "checkReferrer" => r \in AccountIds
  <2>1. Arg(s) \in ArgumentsOf(Op(s)) /\ ReadyAt(pc[s], ask[s], local[s])
    BY <1>1, ReadyFacts DEF Base
  <2>2. Op(s) = "SubmitReferralCode"
    BY <2>1 DEF FindReferrer, CheckReferrer, ReadyAt, Op
  <2> QED
    BY <2>1, <2>2 DEF ReadyAt, ArgumentsOf
<1>3. PhaseOf(s) = "found" /\ ~SatisfiedByRow(s)
  BY <1>1, <1>2, PhaseIs DEF PhaseFollows, SatisfiedByRow
<1>4. NothingWritten(s) /\ ReferralStands(s)
  BY <1>1, <1>2 DEF Base, AnswersInvariant, SessionRemembers, OnlyReads,
     EffectsBase, EffectsInvariant, SessionPrepares, Refers
<1>5. ASSUME Reply(s, "refused"), Live(a) => Promise!BadReferral(ask[s], a)
      PROVE  PromiseStep
  <2>1. Promise!Present(a) => Promise!BadReferral(ask[s], a)
    BY <1>1, <1>5, EntryRead
  <2>2. Promise!MayRefuse(s)
    BY <1>2, <1>3, <2>1 DEF Promise!MayRefuse, Op
  <2> QED
    BY <1>1, <1>5, <2>2, Replies
<1>6. CASE FindReferrer(s)
  <2> DEFINE S == {x \in AccountIds : HasCode(SeenAccount(s, x), Arg(s))}
             b == TheOne(S)
  <2>1. CASE local[s].row.referredAt
    <3>1. Live(a) => EntryOf(a).referredAt
      BY <1>1, <1>4, <1>6, <2>1, EntryRead DEF ReferralStands, FindReferrer
    <3>2. Live(a) => Promise!BadReferral(ask[s], a)
      BY <1>1, <3>1 DEF Promise!BadReferral
    <3> QED
      BY <1>5, <1>6, <2>1, <3>2 DEF FindReferrer
  <2>2. CASE Arg(s) = None
    <3>1. Promise!BadReferral(ask[s], a)
      BY <2>2 DEF Promise!BadReferral, Arg
    <3> QED
      BY <1>5, <1>6, <2>2, <3>1 DEF FindReferrer
  <2>3. CASE Arg(s) # None /\ b = None
    <3>1. S = {}
      BY <2>3, NullsAreNotValues DEF TheOne
    <3>2. \A x \in AccountIds : ~HasCode(accounts[x], Arg(s))
      BY <1>4, <3>1, SeesCommitted
    <3>3. ASSUME NEW x \in AccountIds
          PROVE  ~Promise!OwnsCode(x, Arg(s))
      <4>1. Arg(s) \in Codes
        BY <1>2, <2>3
      <4>2. Promise!OwnsCode(x, Arg(s)) <=> HasCode(accounts[x], Arg(s))
        BY <1>1, <4>1, EntryRead
      <4> QED
        BY <3>2, <4>2
    <3>4. Promise!BadReferral(ask[s], a)
      BY <3>3 DEF Promise!BadReferral, Arg
    <3> QED
      BY <1>5, <1>6, <2>3, <3>4 DEF FindReferrer
  <2>4. CASE ~local[s].row.referredAt /\ Arg(s) # None /\ b # None
    <3> DEFINE locals == [local[s] EXCEPT
                            !.referrer = b,
                            !.referrersReferrer = SeenAccount(s, b).referredBy]
    <3>1. Keep(s, locals, "checkReferrer") /\ UNCHANGED storeVars
      BY <1>6, <2>4 DEF FindReferrer
    <3>2. local[s] \in Locals
      BY <1>1, ReadyFacts DEF Base
    <3>3. locals.acct = a
      BY <3>2 DEF Locals, Acct
    <3> HIDE DEF locals
    <3>4. /\ Moves(s) /\ ask' = ask /\ answer' = answer /\ pc'[s] = "checkReferrer"
          /\ Acct(s)' = a /\ Op(s)' = Op(s) /\ TablesStay
      BY <1>1, <3>1, <3>3, KeepGoes DEF Acct, Op, storeVars, TablesStay
    <3>5. PhaseOf(s)' = "found"
      BY <1>2, <3>4, PhaseIs DEF PhaseFollows
    <3> QED
      BY <1>1, <1>3, <3>4, <3>5, Stutters
  <2> QED
    BY <2>1, <2>2, <2>3, <2>4
<1>7. CASE CheckReferrer(s)
  <2> DEFINE w == WalletOfAccount(s, r)
  <2>1. pc[s] = "checkReferrer" /\ r \in AccountIds
    BY <1>2, <1>7 DEF CheckReferrer
  <2>2. CASE w = None \/ local[s].wallet = None
    BY <1>1, <1>7, <2>2, Replies DEF CheckReferrer
  <2>3. CASE w # None /\ local[s].wallet # None /\ (local[s].wallet = w \/ local[s].referrersReferrer = a)
    <3>1. Reply(s, "refused")
      BY <1>7, <2>3 DEF CheckReferrer
    <3>2. w \in Wallets /\ wallets[w] = r
      BY <1>4, <2>3, SeesCommitted
    <3>3. Live(r) /\ HasCode(accounts[r], Arg(s))
      BY <1>1, <1>4, <2>1, <3>2, LinkIsLive DEF ReferralStands
    <3>4. \A x \in AccountIds : HasCode(accounts[x], Arg(s)) => x = r
      BY <2>1, <3>3 DEF Base, EffectsBase, StoreInvariant, TablesConsistent, Consistent,
         UniqueCodes, HasCode
    <3>5. \A x \in AccountIds : Arg(s) # None /\ Promise!OwnsCode(x, Arg(s)) => x = r
      BY <1>1, <1>2, <3>4, EntryRead
    <3>6. ASSUME Live(a)
          PROVE  r = a \/ EntryOf(r).referredAt
      <4>1. CASE local[s].wallet = w
        BY <1>1, <2>1, <2>3, <3>2, <3>6, <4>1, WalletRead
      <4>2. CASE local[s].referrersReferrer = a
        <5>1. a # None
          BY <1>1, NullsAreNotValues
        <5>2. accounts[r].referredAt
          BY <1>4, <2>1, <3>3, <4>2, <5>1 DEF ReferralStands
        <5> QED
          BY <1>1, <2>1, <3>3, <5>2, EntryRead
      <4> QED
        BY <2>3, <4>1, <4>2
    <3>7. Live(a) => Promise!BadReferral(ask[s], a)
      BY <2>1, <3>5, <3>6 DEF Promise!BadReferral, Arg
    <3> QED
      BY <1>5, <3>1, <3>7
  <2>4. CASE /\ w # None /\ local[s].wallet # None
             /\ ~(local[s].wallet = w \/ local[s].referrersReferrer = a)
    <3>1. Continue(s, "refer") /\ TablesStay
      BY <1>7, <2>4 DEF CheckReferrer, storeVars, TablesStay
    <3> QED
      BY <1>1, <1>2, <1>3, <2>1, <3>1, GoesOn
  <2> QED
    BY <2>2, <2>3, <2>4
<1> QED
  BY <1>6, <1>7

----------------------------------------------------------------------------
(* The links of an account after a commit.                                 *)

LEMMA EmailNext ==
  ASSUME NEW a
  PROVE  /\ \A e \in Addresses :
              /\ EmailOf(emails'[e], a)
              /\ \A f \in Addresses \ {e} : ~EmailOf(emails'[f], a)
              => /\ LinkedEmail(a)' = e
                 /\ emails'[e].confirmed => HasConfirmed(a)' = TRUE
                 /\ ~emails'[e].confirmed => HasConfirmed(a)' = FALSE
         /\ (\A f \in Addresses : ~EmailOf(emails'[f], a)) =>
              /\ LinkedEmail(a)' = None
              /\ HasConfirmed(a)' = FALSE
<1>1. ASSUME NEW e \in Addresses, EmailOf(emails'[e], a),
             \A f \in Addresses \ {e} : ~EmailOf(emails'[f], a)
      PROVE  /\ LinkedEmail(a)' = e
             /\ emails'[e].confirmed => HasConfirmed(a)' = TRUE
             /\ ~emails'[e].confirmed => HasConfirmed(a)' = FALSE
  <2> DEFINE S == {f \in Addresses : EmailOf(emails'[f], a)}
  <2>1. e \in S /\ \A f \in S : f = e
    BY <1>1
  <2>2. TheOne(S) = e
    <3> HIDE DEF S
    <3> QED
      BY <2>1, OneFound
  <2>3. LinkedEmail(a)' = e
    BY <2>2 DEF LinkedEmail
  <2>4. emails'[e].confirmed => HasConfirmed(a)' = TRUE
    BY <1>1 DEF HasConfirmed
  <2>5. ~emails'[e].confirmed => HasConfirmed(a)' = FALSE
    BY <1>1 DEF HasConfirmed
  <2> QED
    BY <2>3, <2>4, <2>5
<1>2. ASSUME \A f \in Addresses : ~EmailOf(emails'[f], a)
      PROVE  LinkedEmail(a)' = None /\ HasConfirmed(a)' = FALSE
  <2>1. {f \in Addresses : EmailOf(emails'[f], a)} = {}
    BY <1>2
  <2>2. LinkedEmail(a)' = None
    BY <2>1 DEF LinkedEmail, TheOne
  <2>3. HasConfirmed(a)' = FALSE
    BY <1>2 DEF HasConfirmed
  <2> QED
    BY <2>2, <2>3
<1> QED
  BY <1>1, <1>2

LEMMA WalletNext ==
  ASSUME NEW a
  PROVE  /\ \A w \in Wallets :
              wallets'[w] = a /\ (\A v \in Wallets \ {w} : wallets'[v] # a)
              => LinkedWallet(a)' = w
         /\ (\A v \in Wallets : wallets'[v] # a) => LinkedWallet(a)' = None
<1>1. ASSUME NEW w \in Wallets, wallets'[w] = a, \A v \in Wallets \ {w} : wallets'[v] # a
      PROVE  LinkedWallet(a)' = w
  <2> DEFINE S == {v \in Wallets : wallets'[v] = a}
  <2>1. w \in S /\ \A v \in S : v = w
    BY <1>1
  <2>2. TheOne(S) = w
    <3> HIDE DEF S
    <3> QED
      BY <2>1, OneFound
  <2> QED
    BY <2>2 DEF LinkedWallet
<1>2. ASSUME \A v \in Wallets : wallets'[v] # a
      PROVE  LinkedWallet(a)' = None
  <2>1. {v \in Wallets : wallets'[v] = a} = {}
    BY <1>2
  <2> QED
    BY <2>1 DEF LinkedWallet, TheOne
<1> QED
  BY <1>1, <1>2

(* A commit leaves what its session has seen.                              *)
LEMMA Committed ==
  ASSUME Base, NEW s \in Sessions, Commit(s)
  PROVE  /\ \A x \in AccountIds : accounts'[x] = SeenAccount(s, x)
         /\ \A e \in Addresses : emails'[e] = SeenEmail(s, e)
         /\ \A w \in Wallets : wallets'[w] = SeenWallet(s, w)
         /\ issued' = issued \cup {x \in AccountIds : accountWrites[s][x] \notin {None, Kept}}
         /\ \A e, f \in Addresses : emails'[e] # None /\ emails'[f] # None
              /\ emails'[e].account = emails'[f].account => e = f
         /\ \A v, w \in Wallets : wallets'[v] # None /\ wallets'[v] = wallets'[w] => v = w
         /\ \A x, y \in AccountIds : accounts'[x] # None /\ accounts'[y] # None
              /\ accounts'[x].code = accounts'[y].code => x = y
<1>1. /\ accounts' = SeenAccounts(s) /\ emails' = SeenEmails(s) /\ wallets' = SeenWallets(s)
      /\ issued' = issued \cup {x \in AccountIds : accountWrites[s][x] \notin {None, Kept}}
  BY DEF Commit
<1>2. Consistent(SeenAccounts(s), SeenEmails(s), SeenWallets(s))
  BY DEF Base, StoreInvariant, SessionsConsistent
<1>3. /\ UniqueCodes(accounts') /\ OneEmailPerAccount(emails') /\ OneWalletPerAccount(wallets')
  BY <1>1, <1>2 DEF Consistent
<1>4. /\ \A x \in AccountIds : accounts'[x] = SeenAccount(s, x)
      /\ \A e \in Addresses : emails'[e] = SeenEmail(s, e)
      /\ \A w \in Wallets : wallets'[w] = SeenWallet(s, w)
  BY <1>1 DEF SeenAccounts, SeenEmails, SeenWallets
<1> QED
  BY <1>1, <1>3, <1>4 DEF UniqueCodes, OneEmailPerAccount, OneWalletPerAccount

LEMMA CommitTakes ==
  ASSUME Base, NEW s \in Sessions, CommitRequest(s) \/ CommitUnanswered(s)
  PROVE  /\ Promise!Performed(s)
         /\ Commit(s) /\ pc[s] = "commit" /\ Acct(s) \in AccountIds
         /\ PhaseOf(s) = IF Op(s) = "CreateAccount" THEN "asked" ELSE "found"
<1>1. Commit(s) /\ pc[s] = "commit"
  BY DEF CommitRequest, CommitUnanswered
<1>2. ASSUME Finish({s}, "ok") \/ Finish({s}, "failed")
      PROVE  Promise!Performed(s)
  BY <1>2, Takes
<1>3. ASSUME Op(s) = "CreateAccount" /\ Continue(s, "findLink")
      PROVE  Promise!Performed(s)
  <2>1. Moves(s) /\ ask' = ask /\ answer' = answer /\ pc'[s] = "findLink"
    BY <1>3, ContinueGoes
  <2>2. Op(s)' = "CreateAccount"
    BY <1>3, <2>1 DEF Op
  <2>3. PhaseOf(s)' = "performed"
    BY <2>1, <2>2, PhaseIs DEF PhaseFollows
  <2> QED
    BY <2>1, <2>3, Takes
<1>4. ASSUME Continue(s, "tell")
      PROVE  Promise!Performed(s)
  <2>1. Moves(s) /\ ask' = ask /\ answer' = answer /\ pc'[s] = "tell"
    BY <1>4, ContinueGoes
  <2>2. PhaseOf(s)' = "performed"
    BY <2>1, PhaseIs DEF PhaseFollows
  <2> QED
    BY <2>1, <2>2, Takes
<1>5. Promise!Performed(s)
  BY <1>2, <1>3, <1>4 DEF CommitRequest, CommitUnanswered
<1>6. Acct(s) \in AccountIds
  BY <1>1, PreparedTyped
<1>7. PhaseOf(s) = IF Op(s) = "CreateAccount" THEN "asked" ELSE "found"
  BY <1>1, PhaseIs DEF PhaseFollows
<1> QED
  BY <1>1, <1>5, <1>6, <1>7

----------------------------------------------------------------------------
(* The effect of each commit.                                              *)

(* Ids that a commit of rows that were there already issues.               *)
LEMMA NothingIssued ==
  ASSUME Base, NEW s \in Sessions, Commit(s),
         \A x \in AccountIds : accountWrites[s][x] \notin {None, Kept} => Live(x)
  PROVE  issued' = issued
  BY Committed, LinkIsLive

LEMMA NothingCommitted ==
  ASSUME Base, NEW s \in Sessions, Commit(s), NothingWritten(s)
  PROVE  TablesStay
<1>1. /\ \A x \in AccountIds : accounts'[x] = accounts[x]
      /\ \A e \in Addresses : emails'[e] = emails[e]
      /\ \A w \in Wallets : wallets'[w] = wallets[w]
  BY SeesCommitted, Committed
<1>2. issued' = issued
  BY NothingIssued DEF NothingWritten
<1>3. /\ accounts' = [x \in AccountIds |-> accounts'[x]] /\ accounts = [x \in AccountIds |-> accounts[x]]
      /\ emails' = [e \in Addresses |-> emails'[e]] /\ emails = [e \in Addresses |-> emails[e]]
      /\ wallets' = [w \in Wallets |-> wallets'[w]] /\ wallets = [w \in Wallets |-> wallets[w]]
  BY DEF Commit, SeenAccounts, SeenEmails, SeenWallets, Base, AccountsTypeOK, TypeOK
<1> QED
  BY <1>1, <1>2, <1>3 DEF TablesStay

LEMMA LinkEmailCommits ==
  ASSUME EffectsBase, NEW s \in Sessions, CommitRequest(s) \/ CommitUnanswered(s),
         Op(s) \in {"LinkEmail", "LinkEmailToken"}
  PROVE  PromiseStep
<1>1. /\ Base /\ Commit(s) /\ pc[s] = "commit" /\ Acct(s) \in AccountIds
      /\ PhaseOf(s) = "found" /\ Promise!Performed(s)
  BY CommitTakes DEF EffectsBase
<1>2. NewAddress(s) \in Addresses /\ Arg(s) \in Addresses
  BY <1>1, PreparedTyped
<1>3. PICK a \in AccountIds : a = Acct(s)
  BY <1>1
<1>4. PICK e \in Addresses : e = NewAddress(s)
  BY <1>2
<1> DEFINE row == accounts[a]
           W == LinkedWallet(a)
<1>5. /\ LinksEmail(s)
      /\ EmailOf(emailWrites[s][e], a)
      /\ Confirms(s) => emailWrites[s][e].confirmed
  BY <1>1, <1>3, <1>4 DEF Base, AnswersInvariant, SessionRemembers, HasPrepared,
     EffectsBase, EffectsInvariant, SessionPrepares
<1>6. /\ Live(a) /\ accountWrites[s][a] = row
      /\ \A x \in AccountIds \ {a} : accountWrites[s][x] = Kept
      /\ \A w \in Wallets : walletWrites[s][w] = Kept
      /\ \A f \in Addresses \ {e} : emailWrites[s][f] = Kept
      /\ emails[e] = None \/ Replaceable(s, e)
      /\ e \in WellFormed \/ Confirms(s)
  BY <1>1, <1>5, <1>3, <1>4 DEF LinksEmail, Touches, OnlyAccount, OnlyEmail, NoWallets
<1>7. ~Confirms(s) => ~emailWrites[s][e].confirmed
  <2>1. emailWrites[s][e] = [account |-> Acct(s), confirmed |-> Confirms(s)]
    BY <1>1, <1>5, <1>4 DEF LinksEmail
  <2> QED
    BY <2>1
<1>8. /\ \A x \in AccountIds : accounts'[x] = accounts[x]
      /\ \A w \in Wallets : wallets'[w] = wallets[w]
      /\ \A f \in Addresses \ {e} : emails'[f] = emails[f]
      /\ emails'[e] = emailWrites[s][e]
  BY <1>1, <1>5, <1>6, Committed DEF SeenAccount, SeenEmail, SeenWallet, EmailOf
<1>9. issued' = issued
  BY <1>1, <1>6, NothingIssued
<1>10. /\ EmailOf(emails'[e], a) /\ (emails'[e].confirmed <=> Confirms(s))
      /\ \A b \in AccountIds \ {a} : ~EmailOf(emails'[e], b) /\ ~EmailOf(emails[e], b)
  BY <1>5, <1>6, <1>8, <1>3, <1>7 DEF EmailOf, Replaceable
<1>11. \A f \in Addresses \ {e} : ~EmailOf(emails'[f], a) /\ ~EmailOf(emails[f], a)
  <2>1. \A f \in Addresses : EmailOf(emails'[f], a) => f = e
    BY <1>1, <1>10, Committed DEF EmailOf
  <2> QED
    BY <1>8, <2>1
<1>12. /\ LinkedEmail(a)' = e
      /\ HasConfirmed(a)' = (Op(s) = "LinkEmailToken")
  BY <1>10, <1>11, EmailNext, Zenon DEF Confirms
<1>13. LinkedWallet(a)' = W
  <2>1. {w \in Wallets : wallets'[w] = a} = {w \in Wallets : wallets[w] = a}
    BY <1>8
  <2> QED
    BY <2>1 DEF LinkedWallet
<1>14. /\ EntryOf(a) = EntryWith(LinkedEmail(a), HasConfirmed(a), W, row)
       /\ EntryOf(a)' = EntryWith(e, Op(s) = "LinkEmailToken", W, row)
  <2>1. EntryOf(a)' = EntryWith(LinkedEmail(a)', HasConfirmed(a)', LinkedWallet(a)', row)
    BY <1>6, <1>8, EntryLive DEF Live
  <2>2. EntryOf(a)' = EntryWith(e, Op(s) = "LinkEmailToken", W, row)
    BY <1>12, <1>13, <2>1, Zenon
  <2>3. EntryOf(a) = EntryWith(LinkedEmail(a), HasConfirmed(a), W, row)
    BY <1>6, EntryLive
  <2> QED
    BY <2>2, <2>3
<1>15. \A b \in AccountIds \ {a} : EntryOf(b)' = EntryOf(b)
  <2> TAKE b \in AccountIds \ {a}
  <2>1. accounts'[b] = accounts[b] /\ \A w \in Wallets : wallets'[w] = b <=> wallets[w] = b
    BY <1>8
  <2>2. \A f \in Addresses :
          /\ EmailOf(emails'[f], b) <=> EmailOf(emails[f], b)
          /\ EmailOf(emails[f], b) => emails'[f].confirmed = emails[f].confirmed
    BY <1>8, <1>10
  <2> QED
    BY <2>1, <2>2, EntryStays
<1>16. Promise!FreeAddress(e, a) /\ Promise!Present(a)
  <2>1. \A b \in AccountIds \ {a} : ~Promise!HasAddress(b, e)
    BY <1>1, <1>10, EntryRead
  <2> QED
    BY <1>1, <1>6, <2>1, EntryRead DEF Promise!FreeAddress
<1>17. /\ LinkedEmail(a) = EntryOf(a).email /\ LinkedEmail(a) \in {None, e}
       /\ emails[e] = None => LinkedEmail(a) = None
       /\ HasConfirmed(a) = FALSE /\ EntryOf(a).confirmed = HasConfirmed(a)
  <2>1. LinkedEmail(a) \in {None, e}
    BY <1>1, <1>11, EntryIs
  <2>2. emails[e] = None => ~EmailOf(emails[e], a)
    BY DEF EmailOf
  <2>3. HasConfirmed(a) = FALSE
    BY <1>6, <1>11, <2>2 DEF HasConfirmed, Replaceable
  <2>4. emails[e] = None => LinkedEmail(a) = None
    BY <1>1, <2>1, <2>2, EntryIs
  <2> QED
    BY <1>1, <1>6, <2>1, <2>3, <2>4, EntryRead
<1> HIDE DEF row, W
<1>18. CASE Op(s) = "LinkEmail"
  <2>1. ~Confirms(s) /\ emails[e] = None /\ e \in WellFormed
    BY <1>6, <1>18 DEF Confirms, Replaceable
  <2>2. (Op(s) = "LinkEmailToken") = HasConfirmed(a)
    BY <1>17, <1>18
  <2>3. EntryOf(a)' = EntryWith(e, HasConfirmed(a), W, row)
    BY <1>14, <2>2, Zenon
  <2>4. EntryWith(e, HasConfirmed(a), W, row) = [EntryOf(a) EXCEPT !.email = e]
    <3> DEFINE L == LinkedEmail(a)
               C == HasConfirmed(a)
    <3>1. EntryOf(a) = EntryWith(L, C, W, row)
      BY <1>14
    <3> HIDE DEF L, C
    <3>2. EntryWith(e, C, W, row) = [EntryWith(L, C, W, row) EXCEPT !.email = e]
      BY EmailExcept
    <3>3. EntryWith(e, C, W, row) = [EntryOf(a) EXCEPT !.email = e]
      BY <3>1, <3>2
    <3> QED
      BY <3>3 DEF C
  <2>5. Promise!Put(a, [EntryOf(a) EXCEPT !.email = e])
    <3> DEFINE new == [EntryOf(a) EXCEPT !.email = e]
    <3>1. EntryOf(a)' = new
      BY <2>3, <2>4
    <3> HIDE DEF new
    <3>2. Promise!Put(a, new)
      BY <1>9, <1>15, <3>1, Puts
    <3> QED
      BY <3>2 DEF new
  <2>6. Promise!AddEmail(ask[s], a)
    BY <1>16, <1>17, <1>18, <1>4, <2>1, <2>5 DEF Promise!AddEmail, NewAddress, Op, Arg
  <2> QED
    BY <1>1, <1>16, <1>3, <2>6, Performs DEF Promise!Effect
<1>19. CASE Op(s) = "LinkEmailToken"
  <2>1. (Op(s) = "LinkEmailToken") = TRUE
    BY <1>19
  <2>2. EntryOf(a)' = EntryWith(e, TRUE, W, row)
    BY <1>14, <2>1, Zenon
  <2>3. EntryWith(e, TRUE, W, row) = Confirming(EntryOf(a), e, TRUE)
    <3> DEFINE L == LinkedEmail(a)
               C == HasConfirmed(a)
    <3>1. EntryOf(a) = EntryWith(L, C, W, row)
      BY <1>14
    <3> HIDE DEF L, C
    <3>2. \A y : EntryWith(e, y, W, row) = Confirming(EntryWith(L, C, W, row), e, y)
      BY ConfirmedExcept
    <3> QED
      BY <3>1, <3>2, Zenon
  <2>4. Promise!Put(a, [EntryOf(a) EXCEPT !.email = e, !.confirmed = TRUE])
    <3> DEFINE new == Confirming(EntryOf(a), e, TRUE)
    <3>1. EntryOf(a)' = new
      BY <2>2, <2>3, Zenon
    <3> HIDE DEF new
    <3>2. Promise!Put(a, new)
      BY <1>9, <1>15, <3>1, Puts
    <3> QED
      BY <3>2 DEF new, Confirming
  <2>5. ~EntryOf(a).confirmed /\ Arg(s) # None
    BY <1>2, <1>17, AccountsAssumption
  <2>6. Promise!AddConfirmedEmail(ask[s], a)
    BY <1>16, <1>17, <1>19, <1>4, <2>4, <2>5 DEF Promise!AddConfirmedEmail, NewAddress, Op, Arg
  <2> QED
    BY <1>1, <1>16, <1>3, <2>6, Performs DEF Promise!Effect
<1> QED
  BY <1>18, <1>19

LEMMA LinkWalletCommits ==
  ASSUME EffectsBase, NEW s \in Sessions, CommitRequest(s) \/ CommitUnanswered(s),
         Op(s) = "LinkWalletToken"
  PROVE  PromiseStep
<1>1. /\ Base /\ Commit(s) /\ pc[s] = "commit" /\ Acct(s) \in AccountIds
      /\ PhaseOf(s) = "found" /\ Promise!Performed(s)
  BY CommitTakes DEF EffectsBase
<1>2. Arg(s) \in Wallets
  BY <1>1, PreparedTyped
<1>3. PICK a \in AccountIds : a = Acct(s)
  BY <1>1
<1>4. PICK w \in Wallets : w = Arg(s)
  BY <1>2
<1> DEFINE row == accounts[a]
<1>5. /\ LinksWallet(s) /\ walletWrites[s][w] = a
      /\ Live(a) => Linked(Cred(s), a)
  BY <1>1, <1>3, <1>4 DEF Base, AnswersInvariant, SessionRemembers, HasPrepared,
     RemembersToken, HasFound, EffectsBase, EffectsInvariant, SessionPrepares
<1>6. /\ Live(a) /\ accountWrites[s][a] = row
      /\ \A x \in AccountIds \ {a} : accountWrites[s][x] = Kept
      /\ \A e \in Addresses : emailWrites[s][e] = Kept
      /\ \A v \in Wallets \ {w} : walletWrites[s][v] = Kept
      /\ wallets[w] = None
  BY <1>1, <1>3, <1>4, <1>5 DEF LinksWallet, Touches, OnlyAccount, OnlyWallet, NoEmails
<1>7. a # Kept /\ a # None
  BY NullsAreNotValues
<1>8. /\ \A x \in AccountIds : accounts'[x] = accounts[x]
      /\ \A e \in Addresses : emails'[e] = emails[e]
      /\ \A v \in Wallets \ {w} : wallets'[v] = wallets[v]
      /\ wallets'[w] = a
  BY <1>1, <1>5, <1>6, <1>7, Committed DEF SeenAccount, SeenEmail, SeenWallet
<1>9. issued' = issued
  BY <1>1, <1>6, NothingIssued
<1>10. \A v \in Wallets \ {w} : wallets'[v] # a /\ wallets[v] # a
  <2>1. \A v \in Wallets : wallets'[v] = a => v = w
    BY <1>1, <1>7, <1>8, Committed
  <2> QED
    BY <1>8, <2>1
<1>11. LinkedWallet(a)' = w
  BY <1>8, <1>10, WalletNext
<1>12. LinkedEmail(a)' = LinkedEmail(a) /\ HasConfirmed(a)' = HasConfirmed(a)
  <2>1. {e \in Addresses : EmailOf(emails'[e], a)} = {e \in Addresses : EmailOf(emails[e], a)}
    BY <1>8
  <2>2. LinkedEmail(a)' = LinkedEmail(a)
    BY <2>1 DEF LinkedEmail
  <2>3. HasConfirmed(a)' = HasConfirmed(a)
    BY <1>8 DEF HasConfirmed
  <2> QED
    BY <2>2, <2>3
<1>13. Promise!Put(a, [EntryOf(a) EXCEPT !.wallet = w])
  <2> DEFINE E == LinkedEmail(a)
             C == HasConfirmed(a)
             W == LinkedWallet(a)
             new == [EntryOf(a) EXCEPT !.wallet = w]
  <2>1. EntryOf(a) = EntryWith(E, C, W, row)
    BY <1>6, EntryLive
  <2>2. EntryOf(a)' = EntryWith(E, C, w, row)
    <3>1. EntryOf(a)' = EntryWith(LinkedEmail(a)', HasConfirmed(a)', LinkedWallet(a)', row)
      BY <1>6, <1>8, EntryLive DEF Live
    <3> QED
      BY <1>11, <1>12, <3>1, Zenon
  <2> HIDE DEF E, C, W, row
  <2>3. EntryWith(E, C, w, row) = [EntryWith(E, C, W, row) EXCEPT !.wallet = w]
    BY WalletExcept
  <2>4. EntryOf(a)' = new
    BY <2>1, <2>2, <2>3
  <2>5. \A b \in AccountIds \ {a} : EntryOf(b)' = EntryOf(b)
    <3> TAKE b \in AccountIds \ {a}
    <3>1. accounts'[b] = accounts[b] /\ \A v \in Wallets : wallets'[v] = b <=> wallets[v] = b
      BY <1>6, <1>8, NullsAreNotValues
    <3>2. \A f \in Addresses :
            /\ EmailOf(emails'[f], b) <=> EmailOf(emails[f], b)
            /\ EmailOf(emails[f], b) => emails'[f].confirmed = emails[f].confirmed
      BY <1>8
    <3> QED
      BY <3>1, <3>2, EntryStays
  <2> HIDE DEF new
  <2>6. Promise!Put(a, new)
    BY <1>9, <2>4, <2>5, Puts
  <2> QED
    BY <2>6 DEF new
<1>14. EntryOf(a).wallet = None /\ EntryOf(a).email # None
  <2>1. LinkedWallet(a) = None
    BY <1>1, <1>6, <1>7, <1>10, EntryIs
  <2>2. Cred(s) \notin Wallets
    BY <1>5, <1>6, <1>7, <1>10 DEF Linked
  <2>3. Cred(s) \in Addresses /\ Normalize[Cred(s)] \in Addresses
    BY <1>1, <2>2, ReadyFacts, AccountsAssumption DEF Base
  <2>4. LinkedEmail(a) \in Addresses
    BY <1>1, <1>5, <1>6, <2>2, <2>3, EntryIs DEF Linked
  <2> QED
    BY <1>1, <1>6, <2>1, <2>4, EntryRead, AccountsAssumption
<1>15. Promise!Present(a) /\ \A b \in AccountIds : ~Promise!OwnsWallet(b, w)
  <2>1. \A b \in AccountIds : ~Promise!OwnsWallet(b, w)
    BY <1>1, <1>6, EntryRead, NullsAreNotValues
  <2> QED
    BY <1>1, <1>6, <2>1, EntryRead
<1>16. w # None
  BY AccountsAssumption
<1>17. Promise!AddWallet(ask[s], a)
  BY <1>4, <1>13, <1>14, <1>15, <1>16 DEF Promise!AddWallet, Op, Arg
<1> QED
  BY <1>1, <1>3, <1>15, <1>17, Performs DEF Promise!Effect

LEMMA ReferralCommits ==
  ASSUME EffectsBase, NEW s \in Sessions, CommitRequest(s) \/ CommitUnanswered(s),
         Op(s) = "SubmitReferralCode"
  PROVE  PromiseStep
<1>1. /\ Base /\ Commit(s) /\ pc[s] = "commit" /\ Acct(s) \in AccountIds
      /\ PhaseOf(s) = "found" /\ Promise!Performed(s)
  BY CommitTakes DEF EffectsBase
<1>2. PICK a \in AccountIds : a = Acct(s)
  BY <1>1
<1> DEFINE row == accounts[a]
           r == local[s].referrer
<1>3. /\ ReferralStands(s) /\ OwnersRefer
      /\ Live(a) => accountWrites[s][a] # Kept
  BY <1>1, <1>2 DEF Base, AnswersInvariant, SessionRemembers, HasPrepared,
     EffectsBase, EffectsInvariant, SessionPrepares, Refers
<1>4. /\ \A x \in AccountIds \ {a} : accountWrites[s][x] = Kept
      /\ \A e \in Addresses : emailWrites[s][e] = Kept
      /\ \A w \in Wallets : walletWrites[s][w] = Kept
  BY <1>1, <1>2, <1>3 DEF ReferralStands, OnlyAccount, NoEmails, NoWallets
<1>5. CASE accountWrites[s][a] = Kept
  <2>1. NothingWritten(s)
    BY <1>4, <1>5 DEF NothingWritten
  <2>2. ~Promise!Present(a)
    BY <1>1, <1>3, <1>5, EntryRead
  <2> QED
    BY <1>1, <1>2, <2>1, <2>2, NothingCommitted, NothingDone DEF Promise!Forgiving
<1>6. CASE accountWrites[s][a] # Kept
  <2>1. /\ Live(a) /\ r \in issued
        /\ accountWrites[s][a] = Referring(row, r, TRUE)
        /\ Live(r) => HasCode(accounts[r], Arg(s))
    BY <1>1, <1>2, <1>3, <1>6 DEF ReferralStands, Referring
  <2>2. PICK b \in AccountIds : b = r
    BY <1>1, <2>1 DEF Base, AccountsTypeOK, TypeOK
  <2>3. row \in AccountRow
    BY <1>1, <2>1 DEF Live, Base, AccountsTypeOK, TypeOK
  <2>4. ReferredBy(accountWrites[s][a], b)
    <3>1. accountWrites[s][a] # None /\ accountWrites[s][a] # Kept
      <4>1. accountWrites[s][a] \in AccountRow
        BY <2>1, <2>2, <2>3 DEF Referring, AccountRow
      <4> QED
        BY <4>1, NullsAreNotValues
    <3>2. accountWrites[s][a].referredBy = b
      BY <2>1, <2>2, <2>3 DEF Referring, AccountRow
    <3> QED
      BY <3>1, <3>2 DEF ReferredBy
  <2>5. a # b /\ Live(b) /\ HasWallet(a) /\ HasWallet(b)
    BY <1>3, <2>4 DEF OwnersRefer, BetweenOwners
  <2>6. /\ accounts'[a] = accountWrites[s][a]
        /\ \A x \in AccountIds \ {a} : accounts'[x] = accounts[x]
        /\ \A e \in Addresses : emails'[e] = emails[e]
        /\ \A w \in Wallets : wallets'[w] = wallets[w]
    BY <1>1, <1>4, <1>6, Committed DEF SeenAccount, SeenEmail, SeenWallet
  <2>7. issued' = issued
    BY <1>1, <1>4, <2>1, NothingIssued
  <2>8. UNCHANGED <<emails, wallets>>
    <3>1. /\ emails' = [e \in Addresses |-> emails'[e]] /\ emails = [e \in Addresses |-> emails[e]]
          /\ wallets' = [w \in Wallets |-> wallets'[w]] /\ wallets = [w \in Wallets |-> wallets[w]]
      BY <1>1 DEF Commit, SeenEmails, SeenWallets, Base, AccountsTypeOK, TypeOK
    <3> QED
      BY <2>6, <3>1
  <2> DEFINE E == LinkedEmail(a)
             C == HasConfirmed(a)
             W == LinkedWallet(a)
             entry == EntryOf(a)
  <2>9. /\ entry = EntryWith(E, C, W, row)
        /\ Promise!Put(a, EntryWith(E, C, W, accountWrites[s][a]))
    <3>1. accountWrites[s][a] # None
      BY <2>4 DEF ReferredBy
    <3> QED
      BY <1>1, <2>1, <2>6, <2>7, <2>8, <3>1, RowChanges
  <2>10. Promise!Put(a, [entry EXCEPT !.referredBy = b, !.referredAt = TRUE])
    <3> HIDE DEF E, C, W, entry, row
    <3>1. \A y : EntryWith(E, C, W, Referring(row, b, y)) = Referring(EntryWith(E, C, W, row), b, y)
      BY <2>3, ReferralExcept
    <3>2. EntryWith(E, C, W, accountWrites[s][a]) = Referring(entry, b, TRUE)
      BY <2>1, <2>2, <2>9, <3>1, Zenon
    <3>3. Promise!Put(a, Referring(entry, b, TRUE))
      BY <2>9, <3>2, Zenon
    <3> QED
      BY <3>3 DEF Referring
  <2>11. EntryOf(a).wallet # None /\ EntryOf(b).wallet # None
    <3>1. \A x \in AccountIds : HasWallet(x) => LinkedWallet(x) # None
      BY <1>1, EntryIs, AccountsAssumption DEF HasWallet
    <3> QED
      BY <1>1, <2>1, <2>5, <3>1, EntryRead
  <2>12. Promise!OwnsCode(b, Arg(s)) /\ Promise!Present(a)
    <3>1. Arg(s) \in Codes /\ HasCode(accounts[b], Arg(s))
      BY <1>1, <2>1, <2>2, <2>5 DEF HasCode, Base, AccountsTypeOK, TypeOK, AccountRow
    <3> QED
      BY <1>1, <2>1, <3>1, EntryRead
  <2>13. Promise!SetReferrer(ask[s], a)
    <3>1. /\ [x \in AccountIds |-> EntryOf(x)][a] = entry
          /\ [x \in AccountIds |-> EntryOf(x)][b] = EntryOf(b)
      OBVIOUS
    <3>2. ask[s].op = "SubmitReferralCode" /\ Promise!OwnsCode(b, ask[s].arg) /\ b \in AccountIds \ {a}
      BY <2>5, <2>12 DEF Op, Arg
    <3> QED
      BY <2>10, <2>11, <3>1, <3>2, Zenon DEF Promise!SetReferrer
  <2> QED
    BY <1>1, <1>2, <2>12, <2>13, Performs DEF Promise!Effect
<1> QED
  BY <1>5, <1>6

LEMMA DeleteCommits ==
  ASSUME EffectsBase, NEW s \in Sessions, CommitRequest(s) \/ CommitUnanswered(s),
         Op(s) = "DeleteUser"
  PROVE  PromiseStep
<1>1. /\ Base /\ Commit(s) /\ pc[s] = "commit" /\ Acct(s) \in AccountIds
      /\ PhaseOf(s) = "found" /\ Promise!Performed(s)
  BY CommitTakes DEF EffectsBase
<1>2. PICK a \in AccountIds : a = Acct(s)
  BY <1>1
<1>3. /\ NothingWritten(s) \/ (Live(a) /\ DeletesAll(s, a))
      /\ Live(a) => Deletes(s, a)
  BY <1>1, <1>2 DEF Base, AnswersInvariant, SessionRemembers, HasPrepared,
     EffectsBase, EffectsInvariant, SessionPrepares, Removes
<1>4. CASE NothingWritten(s)
  <2>1. ~Live(a)
    BY <1>3, <1>4, NullsAreNotValues DEF Deletes, NothingWritten
  <2>2. ~Promise!Present(a)
    BY <1>1, <2>1, EntryRead
  <2> QED
    BY <1>1, <1>2, <1>4, <2>2, NothingCommitted, NothingDone DEF Promise!Forgiving
<1>5. CASE Live(a) /\ DeletesAll(s, a)
  <2>1. /\ \A b \in AccountIds :
             accountWrites[s][b] = IF b = a THEN None
                                   ELSE IF ReferredBy(accounts[b], a) THEN Unreferred(accounts[b])
                                   ELSE Kept
        /\ \A e \in Addresses :
             emailWrites[s][e] = IF EmailOf(emails[e], a) THEN None ELSE Kept
        /\ \A w \in Wallets :
             walletWrites[s][w] = IF wallets[w] = a THEN None ELSE Kept
    BY <1>5 DEF DeletesAll
  <2>2. \A b \in AccountIds : ReferredBy(accounts[b], a) =>
          /\ accounts[b] \in AccountRow /\ Live(b)
          /\ Unreferred(accounts[b]) \notin {None, Kept}
    <3> TAKE b \in AccountIds
    <3> HAVE ReferredBy(accounts[b], a)
    <3>1. accounts[b] \in AccountRow /\ Live(b)
      BY <1>1 DEF Base, AccountsTypeOK, TypeOK, ReferredBy, Live
    <3>2. Unreferred(accounts[b]) \in AccountRow
      BY <3>1 DEF Unreferred, AccountRow
    <3> QED
      BY <3>1, <3>2, NullsAreNotValues
  <2>3. /\ \A b \in AccountIds :
             accounts'[b] = IF b = a THEN None
                            ELSE IF ReferredBy(accounts[b], a) THEN Unreferred(accounts[b])
                            ELSE accounts[b]
        /\ \A e \in Addresses : emails'[e] = IF EmailOf(emails[e], a) THEN None ELSE emails[e]
        /\ \A w \in Wallets : wallets'[w] = IF wallets[w] = a THEN None ELSE wallets[w]
    <3>1. /\ \A b \in AccountIds : accounts'[b] = SeenAccount(s, b)
          /\ \A e \in Addresses : emails'[e] = SeenEmail(s, e)
          /\ \A w \in Wallets : wallets'[w] = SeenWallet(s, w)
      BY <1>1, Committed
    <3>2. ASSUME NEW b \in AccountIds
          PROVE  SeenAccount(s, b) = IF b = a THEN None
                                     ELSE IF ReferredBy(accounts[b], a) THEN Unreferred(accounts[b])
                                     ELSE accounts[b]
      <4>1. CASE b = a
        BY <2>1, <4>1, NullsAreNotValues DEF SeenAccount
      <4>2. CASE b # a /\ ReferredBy(accounts[b], a)
        <5>1. accountWrites[s][b] = Unreferred(accounts[b]) /\ accountWrites[s][b] # Kept
          BY <2>1, <2>2, <4>2
        <5> QED
          BY <4>2, <5>1 DEF SeenAccount
      <4>3. CASE b # a /\ ~ReferredBy(accounts[b], a)
        BY <2>1, <4>3 DEF SeenAccount
      <4> QED
        BY <4>1, <4>2, <4>3
    <3>3. /\ \A e \in Addresses :
               SeenEmail(s, e) = IF EmailOf(emails[e], a) THEN None ELSE emails[e]
          /\ \A w \in Wallets :
               SeenWallet(s, w) = IF wallets[w] = a THEN None ELSE wallets[w]
      BY <2>1, NullsAreNotValues DEF SeenEmail, SeenWallet
    <3> QED
      BY <3>1, <3>2, <3>3
  <2>4. issued' = issued
    <3>1. \A x \in AccountIds : accountWrites[s][x] \notin {None, Kept} => Live(x)
      BY <2>1, <2>2
    <3> QED
      BY <1>1, <3>1, NothingIssued
  <2>5. \A b \in AccountIds \ {a} :
          /\ LinkedEmail(b)' = LinkedEmail(b) /\ LinkedWallet(b)' = LinkedWallet(b)
          /\ HasConfirmed(b)' = HasConfirmed(b)
    <3> TAKE b \in AccountIds \ {a}
    <3>1. \A e \in Addresses :
            /\ EmailOf(emails'[e], b) <=> EmailOf(emails[e], b)
            /\ EmailOf(emails[e], b) => emails'[e] = emails[e]
      BY <2>3 DEF EmailOf
    <3>2. \A w \in Wallets : wallets'[w] = b <=> wallets[w] = b
      BY <2>3, NullsAreNotValues
    <3>3. /\ {e \in Addresses : EmailOf(emails'[e], b)} = {e \in Addresses : EmailOf(emails[e], b)}
          /\ {w \in Wallets : wallets'[w] = b} = {w \in Wallets : wallets[w] = b}
      BY <3>1, <3>2
    <3>4. LinkedEmail(b)' = LinkedEmail(b) /\ LinkedWallet(b)' = LinkedWallet(b)
      BY <3>3 DEF LinkedEmail, LinkedWallet
    <3>5. HasConfirmed(b)' = HasConfirmed(b)
      BY <3>1 DEF HasConfirmed
    <3> QED
      BY <3>4, <3>5
  <2>6. \A b \in AccountIds :
          EntryOf(b)' = IF b = a THEN None
                        ELSE IF Promise!Present(b) /\ EntryOf(b).referredBy = a
                          THEN [EntryOf(b) EXCEPT !.referredBy = None]
                        ELSE EntryOf(b)
    <3> TAKE b \in AccountIds
    <3> DEFINE E == LinkedEmail(b)
               C == HasConfirmed(b)
               W == LinkedWallet(b)
               row == accounts[b]
    <3>1. CASE b = a
      BY <2>3, <3>1 DEF EntryOf
    <3>2. CASE b # a /\ ~Live(b)
      <4>1. accounts'[b] = None /\ accounts[b] = None
        BY <2>2, <2>3, <3>2 DEF Live
      <4>2. EntryOf(b)' = None /\ EntryOf(b) = None
        BY <4>1 DEF EntryOf
      <4> QED
        BY <1>1, <3>2, <4>2, EntryRead
    <3>3. CASE b # a /\ Live(b)
      <4>1. EntryOf(b) = EntryWith(E, C, W, row) /\ Promise!Present(b)
        BY <1>1, <3>3, EntryLive, EntryRead
      <4>2. accounts'[b] # None =>
              EntryOf(b)' = EntryWith(E, C, W, accounts'[b])
        <5>1. accounts'[b] # None =>
                EntryOf(b)' = EntryWith(LinkedEmail(b)', HasConfirmed(b)', LinkedWallet(b)', accounts'[b])
          BY EntryLive
        <5>2. LinkedEmail(b)' = E /\ HasConfirmed(b)' = C /\ LinkedWallet(b)' = W
          BY <2>5, <3>3
        <5> QED
          BY <5>1, <5>2, Zenon
      <4>3. EntryOf(b).referredBy = accounts[b].referredBy
        BY <4>1 DEF EntryWith
      <4>4. row # Kept /\ row # None
        BY <1>1, <3>3, NullsAreNotValues DEF Live, Base, AccountsTypeOK, TypeOK
      <4>5. CASE ReferredBy(row, a)
        <5>1. accounts'[b] = [row EXCEPT !.referredBy = None] /\ accounts'[b] # None
              /\ row \in AccountRow
          BY <2>2, <2>3, <3>3, <4>5 DEF Unreferred
        <5>2. EntryOf(b)' = [EntryOf(b) EXCEPT !.referredBy = None]
          <6> HIDE DEF E, C, W, row
          <6>1. EntryWith(E, C, W, [row EXCEPT !.referredBy = None]) =
                  [EntryWith(E, C, W, row) EXCEPT !.referredBy = None]
            BY <5>1, ReferrerExcept
          <6> QED
            BY <4>1, <4>2, <5>1, <6>1
        <5>3. EntryOf(b).referredBy = a
          BY <4>3, <4>5 DEF ReferredBy
        <5> QED
          BY <3>3, <4>1, <5>2, <5>3
      <4>6. CASE ~ReferredBy(row, a)
        <5>1. accounts'[b] = row
          BY <2>3, <3>3, <4>6
        <5>2. EntryOf(b)' = EntryOf(b)
          BY <4>1, <4>2, <4>4, <5>1, Zenon
        <5>3. EntryOf(b).referredBy # a
          BY <4>3, <4>4, <4>6 DEF ReferredBy
        <5> QED
          BY <3>3, <5>2, <5>3
      <4> QED
        BY <4>5, <4>6
    <3> QED
      BY <3>1, <3>2, <3>3
  <2>7. Promise!RemoveEntry(ask[s], a)
    BY <2>4, <2>6 DEF Promise!RemoveEntry, Op
  <2>8. Promise!Present(a)
    BY <1>1, <1>5, EntryRead
  <2> QED
    BY <1>1, <1>2, <2>7, <2>8, Performs DEF Promise!Effect
<1> QED
  BY <1>3, <1>4, <1>5

(* A credential whose link is not there denotes nobody; a code that would  *)
(* be the second of its kind is not committed (the primary and unique keys).*)
LEMMA NobodyLinked ==
  ASSUME Base, NEW cred \in Addresses \cup Wallets,
         cred \in Wallets => wallets[cred] = None,
         cred \notin Wallets => emails[Normalize[cred]] = None
  PROVE  \A x \in AccountIds : ~Promise!Denotes(cred, x)
<1>1. ASSUME NEW x \in AccountIds
      PROVE  ~Promise!Denotes(cred, x)
  <2>1. x # None
    BY NullsAreNotValues
  <2>2. ~Linked(cred, x)
    <3>1. CASE cred \in Wallets
      BY <2>1, <3>1 DEF Linked
    <3>2. CASE cred \notin Wallets
      <4>1. ~EmailOf(emails[Normalize[cred]], x)
        BY <3>2 DEF EmailOf
      <4> QED
        BY <3>2, <4>1 DEF Linked
    <3> QED
      BY <3>1, <3>2
  <2>3. Promise!Denotes(cred, x) <=> Linked(cred, x)
    BY EntryRead
  <2> QED
    BY <2>2, <2>3
<1> QED
  BY <1>1

LEMMA CodeUnowned ==
  ASSUME Base, NEW code \in Codes, \A x \in AccountIds : ~HasCode(accounts[x], code)
  PROVE  \A x \in AccountIds : ~Promise!OwnsCode(x, code)
<1>1. ASSUME NEW x \in AccountIds
      PROVE  ~Promise!OwnsCode(x, code)
  <2>1. Promise!OwnsCode(x, code) <=> HasCode(accounts[x], code)
    BY EntryRead
  <2> QED
    BY <2>1
<1> QED
  BY <1>1

LEMMA CreateCommits ==
  ASSUME EffectsBase, NEW s \in Sessions, CommitRequest(s) \/ CommitUnanswered(s),
         Op(s) = "CreateAccount"
  PROVE  PromiseStep
<1>1. /\ Base /\ Commit(s) /\ pc[s] = "commit" /\ Acct(s) \in AccountIds
      /\ PhaseOf(s) = "asked" /\ Promise!Performed(s)
  BY CommitTakes DEF EffectsBase
<1>2. PICK a \in AccountIds : a = Acct(s)
  BY <1>1
<1>3. /\ ~Live(a) /\ CreatesFirstLink(s) /\ IdsAreFresh
      /\ \A x \in AccountIds \ {a} : accountWrites[s][x] = Kept
      /\ \E c \in Codes : accountWrites[s][a] = NewRow(c)
  BY <1>1, <1>2 DEF Base, AnswersInvariant, EffectsBase, EffectsInvariant,
     SessionPrepares, Creates, OnlyAccount
<1>4. PICK c \in Codes : accountWrites[s][a] = NewRow(c)
  BY <1>3
<1> DEFINE row == NewRow(c)
           cred == Cred(s)
<1>5. row \in AccountRow /\ row \notin {None, Kept} /\ row.code = c
  <2>1. row \in AccountRow
    BY DEF NewRow, AccountRow
  <2> QED
    BY <2>1, NullsAreNotValues DEF NewRow
<1>6. /\ accounts'[a] = row
      /\ \A x \in AccountIds \ {a} : accounts'[x] = accounts[x]
      /\ \A e \in Addresses : emails'[e] = SeenEmail(s, e)
      /\ \A w \in Wallets : wallets'[w] = SeenWallet(s, w)
  BY <1>1, <1>3, <1>4, <1>5, Committed DEF SeenAccount
<1>7. a \notin issued /\ issued' = issued \cup {a}
  BY <1>1, <1>3, <1>4, <1>5, Committed DEF IdsAreFresh
<1>8. /\ cred \in Addresses \cup Wallets
      /\ cred \notin Wallets => cred \in Addresses /\ Normalize[cred] \in Addresses
  BY <1>1, ReadyFacts, AccountsAssumption DEF Base
<1>9. /\ \A e \in Addresses : ~EmailOf(emails[e], a)
      /\ \A w \in Wallets : wallets[w] # a
  BY <1>1, <1>3, LinkIsLive
<1>10. a # None /\ a # Kept
  BY NullsAreNotValues
<1>11. /\ cred \in Wallets => wallets[cred] = None
       /\ cred \notin Wallets => emails[Normalize[cred]] = None
  BY <1>3 DEF CreatesFirstLink
<1>12. Promise!NobodyHas(ask[s])
  <2> HIDE DEF cred
  <2>1. \A x \in AccountIds : ~Promise!Denotes(cred, x)
    BY <1>1, <1>8, <1>11, NobodyLinked
  <2> QED
    BY <2>1 DEF Promise!NobodyHas, Cred, cred
<1>13. \A b \in AccountIds : ~Promise!OwnsCode(b, c)
  <2>1. ASSUME NEW b \in AccountIds
        PROVE  ~HasCode(accounts[b], c)
    <3>1. CASE b = a
      BY <1>3, <3>1 DEF Live, HasCode
    <3>2. CASE b # a /\ HasCode(accounts[b], c)
      <4>1. accounts[b] # None /\ accounts[b].code = c
        BY <3>2 DEF HasCode
      <4>2. accounts'[b] = accounts[b] /\ accounts'[a] = row
        BY <1>6, <3>2
      <4>3. accounts'[b] # None /\ accounts'[a] # None /\ accounts'[b].code = accounts'[a].code
        BY <1>5, <4>1, <4>2
      <4>4. b = a
        BY <1>1, <4>3, Committed
      <4> QED
        BY <3>2, <4>4
    <3> QED
      BY <3>1, <3>2
  <2> QED
    BY <1>1, <2>1, CodeUnowned
<1>14. EntryOf(a)' = Promise!NewEntry(cred, c)
  <2>1. EntryOf(a)' = EntryWith(LinkedEmail(a)', HasConfirmed(a)', LinkedWallet(a)', row)
    <3>1. accounts'[a] # None
      BY <1>5, <1>6
    <3>2. EntryOf(a)' = EntryWith(LinkedEmail(a)', HasConfirmed(a)', LinkedWallet(a)', accounts'[a])
      BY <3>1, EntryLive
    <3> QED
      BY <1>6, <3>2
  <2>2. CASE cred \in Wallets
    <3>1. /\ \A e \in Addresses : emailWrites[s][e] = Kept
          /\ \A v \in Wallets \ {cred} : walletWrites[s][v] = Kept
          /\ walletWrites[s][cred] = a
      BY <1>2, <1>3, <2>2 DEF CreatesFirstLink, OnlyWallet, NoEmails
    <3>2. \A e \in Addresses : ~EmailOf(emails'[e], a)
      BY <1>6, <1>9, <3>1 DEF SeenEmail
    <3>3. wallets'[cred] = a /\ \A v \in Wallets \ {cred} : wallets'[v] # a
      BY <1>6, <1>9, <1>10, <2>2, <3>1 DEF SeenWallet
    <3>4. LinkedEmail(a)' = None /\ HasConfirmed(a)' = FALSE
      BY <3>2, EmailNext
    <3>5. LinkedWallet(a)' = cred
      <4> HIDE DEF cred
      <4> QED
        BY <2>2, <3>3, WalletNext
    <3>6. EntryOf(a)' = EntryWith(None, FALSE, cred, row)
      BY <2>1, <3>4, <3>5, Zenon
    <3>7. EntryWith(None, FALSE, cred, row) = Promise!NewEntry(cred, c)
      <4>1. /\ row.code = c /\ row.country = None /\ row.referredBy = None
            /\ row.referredAt = FALSE /\ row.acceptedTos = FALSE
        BY DEF NewRow
      <4>2. cred \notin Wallets <=> FALSE
        BY <2>2
      <4> HIDE DEF row, cred
      <4> QED
        BY <2>2, <4>1, <4>2, Zenon DEF EntryWith, Promise!NewEntry
    <3> QED
      BY <3>6, <3>7
  <2>3. CASE cred \notin Wallets
    <3> DEFINE e == Normalize[cred]
    <3>1. /\ \A w \in Wallets : walletWrites[s][w] = Kept
          /\ \A f \in Addresses \ {e} : emailWrites[s][f] = Kept
          /\ emailWrites[s][e] = [account |-> a, confirmed |-> TRUE]
      BY <1>2, <1>3, <2>3 DEF CreatesFirstLink, OnlyEmail, NoWallets
    <3>2. [account |-> a, confirmed |-> TRUE] \notin {None, Kept}
      <4>1. [account |-> a, confirmed |-> TRUE] \in EmailRow
        BY DEF EmailRow
      <4> QED
        BY <4>1, NullsAreNotValues
    <3>3. emails'[e] = [account |-> a, confirmed |-> TRUE]
      BY <1>6, <1>8, <2>3, <3>1, <3>2 DEF SeenEmail
    <3>4. EmailOf(emails'[e], a) /\ emails'[e].confirmed
      BY <3>2, <3>3 DEF EmailOf
    <3>5. \A f \in Addresses \ {e} : ~EmailOf(emails'[f], a)
      BY <1>6, <1>9, <3>1 DEF SeenEmail
    <3>6. \A v \in Wallets : wallets'[v] # a
      BY <1>6, <1>9, <3>1 DEF SeenWallet
    <3>7. LinkedEmail(a)' = e /\ HasConfirmed(a)' = TRUE
      <4>1. e \in Addresses
        BY <1>8, <2>3
      <4> HIDE DEF e
      <4> QED
        BY <3>4, <3>5, <4>1, EmailNext
    <3>8. LinkedWallet(a)' = None
      BY <3>6, WalletNext
    <3>9. EntryOf(a)' = EntryWith(e, TRUE, None, row)
      BY <2>1, <3>7, <3>8, Zenon
    <3>10. EntryWith(e, TRUE, None, row) = Promise!NewEntry(cred, c)
      BY <2>3 DEF EntryWith, NewRow, Promise!NewEntry
    <3> QED
      BY <3>9, <3>10
  <2> QED
    BY <2>2, <2>3
<1>15. \A b \in AccountIds \ {a} : EntryOf(b)' = EntryOf(b)
  <2> SUFFICES ASSUME NEW b \in AccountIds \ {a}
               PROVE  EntryOf(b)' = EntryOf(b)
    OBVIOUS
  <2>1. accounts'[b] = accounts[b]
    BY <1>6
  <2>2. \A f \in Addresses :
          emailWrites[s][f] # Kept => EmailOf(emailWrites[s][f], a) /\ emails[f] = None
    <3>1. CASE cred \in Wallets
      BY <1>3, <3>1 DEF CreatesFirstLink, OnlyWallet, NoEmails
    <3>2. CASE cred \notin Wallets
      <4>1. /\ \A f \in Addresses \ {Normalize[cred]} : emailWrites[s][f] = Kept
            /\ emailWrites[s][Normalize[cred]] = [account |-> a, confirmed |-> TRUE]
            /\ emails[Normalize[cred]] = None
        BY <1>2, <1>3, <3>2 DEF CreatesFirstLink, OnlyEmail
      <4>2. [account |-> a, confirmed |-> TRUE] \notin {None, Kept}
        <5>1. [account |-> a, confirmed |-> TRUE] \in EmailRow
          BY DEF EmailRow
        <5> QED
          BY <5>1, NullsAreNotValues
      <4>3. EmailOf(emailWrites[s][Normalize[cred]], a)
        BY <4>1, <4>2 DEF EmailOf
      <4> QED
        BY <4>1, <4>3
    <3> QED
      BY <3>1, <3>2
  <2>3. \A v \in Wallets :
          walletWrites[s][v] # Kept => walletWrites[s][v] = a /\ wallets[v] = None
    BY <1>2, <1>3 DEF CreatesFirstLink, OnlyEmail, OnlyWallet, NoWallets
  <2>4. b # None /\ b # Kept
    BY NullsAreNotValues
  <2>5. \A f \in Addresses :
          /\ EmailOf(emails'[f], b) <=> EmailOf(emails[f], b)
          /\ EmailOf(emails[f], b) => emails'[f].confirmed = emails[f].confirmed
    BY <1>6, <2>2 DEF SeenEmail, EmailOf
  <2>6. \A v \in Wallets : wallets'[v] = b <=> wallets[v] = b
    BY <1>6, <2>3, <2>4 DEF SeenWallet
  <2> QED
    BY <2>1, <2>5, <2>6, EntryStays
<1>16. [b \in AccountIds |-> EntryOf(b)'] =
         [[b \in AccountIds |-> EntryOf(b)] EXCEPT ![a] = Promise!NewEntry(cred, c)]
  <2> DEFINE new == Promise!NewEntry(cred, c)
  <2> HIDE DEF new
  <2>1. EntryOf(a)' = new
    BY <1>14 DEF new
  <2>2. [b \in AccountIds |-> EntryOf(b)'] = [[b \in AccountIds |-> EntryOf(b)] EXCEPT ![a] = new]
    BY <1>15, <2>1
  <2> QED
    BY <2>2 DEF new
<1>17. Promise!Create(ask[s], a)
  BY <1>7, <1>12, <1>13, <1>16 DEF Promise!Create, Op, Cred
<1>18. Promise!Perform(s)
  BY <1>1, <1>17 DEF Promise!Perform
<1> QED
  BY <1>18, StepOfSession

----------------------------------------------------------------------------
(* The ends of requests.                                                   *)

LEMMA EndKeepsPromise ==
  ASSUME EffectsBase, NEW s \in Sessions, CommitRequest(s) \/ CommitUnanswered(s)
  PROVE  PromiseStep
<1>1. Base /\ Commit(s) /\ pc[s] = "commit"
  BY CommitTakes DEF EffectsBase
<1>2. Isolation[Op(s)] # "none" /\ Op(s) \in Handlers
  <2>1. isolation[s] # "none"
    BY <1>1 DEF Commit
  <2>2. ~Quiet(s)
    BY <1>1, <2>1 DEF Base, HandlersInvariant, SessionKeeps, Unopened
  <2> QED
    BY <1>1, <2>2, ReadyFacts DEF Quiet, Base
<1>3. \/ Op(s) = "CreateAccount" \/ Op(s) = "LinkEmail" \/ Op(s) = "LinkEmailToken"
      \/ Op(s) = "LinkWalletToken" \/ Op(s) = "SubmitReferralCode" \/ Op(s) = "DeleteUser"
  <2> DEFINE op == Op(s)
  <2>1. op \in Handlers /\ Isolation[op] # "none"
    BY <1>2
  <2> HIDE DEF op
  <2>2. \/ op = "CreateAccount" \/ op = "LinkEmail" \/ op = "LinkEmailToken"
        \/ op = "LinkWalletToken" \/ op = "SubmitReferralCode" \/ op = "DeleteUser"
    BY <2>1, Zenon DEF Isolation, Handlers
  <2> QED
    BY <2>2 DEF op
<1> QED
  BY <1>3, CreateCommits, LinkEmailCommits, LinkWalletCommits, ReferralCommits, DeleteCommits

LEMMA TellKeepsPromise ==
  ASSUME Base, NEW s \in Sessions, Tell(s)
  PROVE  PromiseStep
<1>1. TablesStay /\ pc[s] \in {"tell", "tellBeforeCommit"} /\ ~Idle(s)
  BY DEF Tell, storeVars, TablesStay, Idle
<1>2. CASE pc[s] = "tell" /\ Finish({s}, "ok")
  <2>1. PhaseOf(s) = "performed"
    BY <1>2, PhaseIs DEF PhaseFollows
  <2> QED
    BY <1>1, <1>2, <2>1, Answers
<1>3. CASE /\ pc[s] = "tellBeforeCommit" /\ Goto(s, "commit")
           /\ UNCHANGED <<ask, local, answer, scenario>>
  <2>1. Moves(s) /\ pc'[s] = "commit" /\ ask' = ask /\ answer' = answer
    BY <1>3 DEF Goto, Moves, Rests, Base, AccountsTypeOK, HandlersReady
  <2>2. Op(s) = "CreateAccount" /\ Op(s)' = "CreateAccount"
    BY <1>3, <2>1, ReadyFacts DEF Base, ReadyAt, Op
  <2>3. PhaseOf(s) = "asked"
    BY <1>3, <2>2, PhaseIs DEF PhaseFollows
  <2>4. PhaseOf(s)' = "asked"
    BY <2>1, <2>2, PhaseIs DEF PhaseFollows
  <2> QED
    BY <1>1, <2>1, <2>3, <2>4, Stutters
<1> QED
  BY <1>2, <1>3 DEF Tell

LEMMA ArriveKeepsPromise ==
  ASSUME Base, NEW s \in Sessions, NEW r \in Requests, Arrive(s, r)
  PROVE  PromiseStep
<1>1. /\ pc'[s] = "start" /\ TablesStay /\ ~Promise!Active(s)
      /\ \A t \in Sessions \ {s} : Rests(t)
      /\ ask' = [ask EXCEPT ![s] = r] /\ answer' = [answer EXCEPT ![s] = "none"]
  BY ActiveIs DEF Arrive, Goto, Rests, storeVars, TablesStay, Base, AccountsTypeOK,
     HandlersReady
<1>2. PhaseOf(s)' = "asked" /\ TargetOf(s)' = None
  BY <1>1, PhaseIs DEF PhaseFollows, TargetOf
<1>3. Promise!Goes(s, "asked", None) /\ UNCHANGED Promise!directory
  BY <1>1, <1>2, OneGoes, DirectoryStays
<1>4. Promise!Receive(s)
  BY <1>1, <1>3 DEF Promise!Receive
<1> QED
  BY <1>4, StepOfSession

LEMMA DieKeepsPromise ==
  ASSUME Base, NEW replica, Die(replica)
  PROVE  PromiseStep
<1> DEFINE S == {s \in Sessions : Replica[s] = replica /\ ~Idle(s)}
<1>1. /\ TablesStay /\ ask' = ask /\ \A t \in S : pc'[t] = "done"
      /\ \A t \in Sessions \ S : Rests(t)
      /\ answer' = [t \in Sessions |-> IF t \in S THEN "lost" ELSE answer[t]]
  BY DEF Die, Finish, Rests, Rollback, tables, TablesStay
<1>2. S \in SUBSET {s \in Sessions : Promise!Active(s)}
  BY ActiveIs
<1> HIDE DEF S
<1>3. ASSUME NEW t \in Sessions
      PROVE  /\ PhaseOf(t)' = IF t \in S THEN "answered" ELSE PhaseOf(t)
             /\ TargetOf(t)' = IF t \in S THEN None ELSE TargetOf(t)
  <2>1. CASE t \in S
    <3>1. PhaseOf(t)' = "answered"
      BY <1>1, <2>1, PhaseIs DEF PhaseFollows
    <3> QED
      BY <2>1, <3>1 DEF TargetOf
  <2>2. CASE t \notin S
    BY <1>1, <2>2, RestPhase
  <2> QED
    BY <2>1, <2>2
<1>4. [t \in Sessions |-> PhaseOf(t)'] =
        [t \in Sessions |-> IF t \in S THEN "answered" ELSE [u \in Sessions |-> PhaseOf(u)][t]]
  BY <1>3
<1>5. [t \in Sessions |-> TargetOf(t)'] =
        [t \in Sessions |-> IF t \in S THEN None ELSE [u \in Sessions |-> TargetOf(u)][t]]
  BY <1>3
<1>6. UNCHANGED Promise!directory
  BY <1>1, DirectoryStays
<1>7. Promise!Lose(S)
  BY <1>1, <1>4, <1>5, <1>6 DEF Promise!Lose, TargetOf
<1> QED
  BY <1>2, <1>7 DEF PromiseStep, Promise!DirNext


----------------------------------------------------------------------------
(* Every step.                                                             *)

LEMMA StepKeepsPromise ==
  ASSUME EffectsBase, [Next]_vars
  PROVE  PromiseStep
<1>1. Base
  BY DEF EffectsBase
<1>2. ASSUME NEW s \in Sessions, Step(s)
      PROVE  PromiseStep
  <2>1. CASE LoadNothing(s)
    <3>1. pc[s] = "loadAccount" /\ ~Idle(s)
      BY <2>1 DEF LoadNothing, Idle
    <3> QED
      BY <1>1, <2>1, <3>1, Replies, DieKeepsPromise DEF LoadNothing
  <2>2. CASE ~LoadNothing(s)
    BY <1>1, <1>2, <2>2, LookupKeepsPromise, CreateKeepsPromise, ProfileKeepsPromise,
       StatementKeepsPromise, LinkBeginKeepsPromise, LinkWalletKeepsPromise,
       ReferralKeepsPromise, EndKeepsPromise, TellKeepsPromise DEF Step
  <2> QED
    BY <2>1, <2>2
<1>3. ASSUME NEW s \in Sessions, StatementFails(s)
      PROVE  PromiseStep
  BY <1>1, <1>3, Replies DEF StatementFails
<1>4. CASE ReplicaDies
  BY <1>1, <1>4, DieKeepsPromise DEF ReplicaDies
<1>5. CASE UNCHANGED vars
  <2>1. /\ TablesStay /\ ask' = ask /\ answer' = answer
        /\ \A t \in Sessions : Rests(t)
    BY <1>5 DEF vars, handlerVars, storeVars, TablesStay, Rests
  <2>2. UNCHANGED Promise!directory
    BY <2>1, DirectoryStays
  <2>3. \A t \in Sessions : PhaseOf(t)' = PhaseOf(t) /\ TargetOf(t)' = TargetOf(t)
    BY <2>1, RestPhase
  <2> QED
    BY <2>1, <2>2, <2>3 DEF PromiseStep, Promise!dirVars, Promise!directory, TargetOf
<1> QED
  BY <1>1, <1>2, <1>3, <1>4, <1>5, ArriveKeepsPromise, EndKeepsPromise DEF Next

LEMMA PromiseStarts == Init => Promise!DirInit
<1> SUFFICES ASSUME Init
             PROVE  Promise!DirInit
  OBVIOUS
<1>1. \A a \in AccountIds : EntryOf(a) = None
  BY DEF Init, StoreInit, EntryOf
<1>2. \A s \in Sessions : PhaseOf(s) = "idle"
  BY PhaseIs DEF Init, PhaseFollows
<1>3. \A s \in Sessions : TargetOf(s) = None
  BY <1>2 DEF TargetOf
<1>4. /\ [a \in AccountIds |-> EntryOf(a)] = [a \in AccountIds |-> None]
      /\ [s \in Sessions |-> PhaseOf(s)] = [s \in Sessions |-> "idle"]
      /\ [s \in Sessions |-> TargetOf(s)] = [s \in Sessions |-> None]
  BY <1>1, <1>2, <1>3
<1> QED
  BY <1>4 DEF Promise!DirInit, Promise!Empty, TargetOf, Init, StoreInit

----------------------------------------------------------------------------
(* For any number of accounts, addresses, wallets, codes, sessions and     *)
(* processes, the nine handlers implement the Directory: every request     *)
(* takes effect at most once, in one step, on the account its token        *)
(* denotes, whatever the statements of other requests do in between; a     *)
(* success is told only after the effect, and a refusal has a reason.      *)
THEOREM HandlersKeepThePromise == Spec => KeepsThePromise
<1>1. /\ AccountsTypeOK /\ StoreInvariant /\ HandlersInvariant /\ AnswersInvariant
      /\ EffectsInvariant /\ [Next]_vars
      => [Promise!DirNext]_(Promise!dirVars)
  BY StepKeepsPromise DEF EffectsBase, Base, PromiseStep
<1>2. Spec => []StoreInvariant
  BY ServiceImplementsStore, StoreInvariantHolds, PTL
<1> QED
  BY <1>1, <1>2, PromiseStarts, AccountsTyped, HandlersInvariantHolds, AnswersInvariantHolds,
     EffectsInvariantHolds, PTL DEF Spec, KeepsThePromise, Promise!DirSpec

----------------------------------------------------------------------------
(* What Reads and CustomerIO take for granted of the requests that change  *)
(* accounts beside the one they look at.                                   *)
ChangesByEffects ==
  [][\E r \in Requests, a \in AccountIds : Promise!Effect(r, a)]_(Promise!directory)

LEMMA FoundIsAnAccount ==
  ASSUME EffectsBase, NEW s \in Sessions
  PROVE  /\ PhaseOf(s) # "idle" => ask[s] \in Requests
         /\ PhaseOf(s) = "found" => Acct(s) \in AccountIds
<1>1. ReadyAt(pc[s], ask[s], local[s])
  BY DEF EffectsBase, Base, AccountsTypeOK, HandlersReady
<1>2. PhaseFollows(s)
  BY PhaseIs
<1>3. PhaseOf(s) # "idle" => ask[s] \in Requests
  BY <1>1, <1>2 DEF ReadyAt, PhaseFollows
<1>4. ASSUME PhaseOf(s) = "found"
      PROVE  Acct(s) \in AccountIds
  <2>1. pc[s] \notin {"idle", "start", "tell", "done"} /\ Op(s) # "CreateAccount"
    BY <1>2, <1>4 DEF PhaseFollows
  <2>2. pc[s] # "findLink"
    BY <2>1 DEF EffectsBase, EffectsInvariant, SessionPrepares, Creates
  <2>3. pc[s] \notin {"drawCode", "insertAccount"}
    BY <1>1, <2>1 DEF ReadyAt, Op
  <2> QED
    BY <1>1, <2>1, <2>2, <2>3 DEF ReadyAt, Acct
<1> QED
  BY <1>3, <1>4

(* However the statements of the handlers interleave, their clients see the*)
(* accounts change by whole effects of requests only, one at a time.       *)
THEOREM OnlyEffectsAreSeen == Spec => ChangesByEffects
<1>1. /\ AccountsTypeOK /\ StoreInvariant /\ HandlersInvariant /\ AnswersInvariant
      /\ EffectsInvariant /\ [Next]_vars
      => [\E r \in Requests, a \in AccountIds : Promise!Effect(r, a)]_(Promise!directory)
  <2> SUFFICES ASSUME EffectsBase, PromiseStep, ~UNCHANGED Promise!directory
               PROVE  \E r \in Requests, a \in AccountIds : Promise!Effect(r, a)
    BY StepKeepsPromise DEF EffectsBase, Base
  <2>1. PICK s \in Sessions : Promise!Perform(s)
    BY DEF PromiseStep, Promise!DirNext, Promise!dirVars, Promise!directory, Promise!Receive,
           Promise!Find, Promise!NothingToDo, Promise!Answer, Promise!Lose
  <2>2. /\ [t \in Sessions |-> PhaseOf(t)][s] = PhaseOf(s)
        /\ PhaseOf(s) = "found" =>
             [t \in Sessions |-> IF PhaseOf(t) = "found" THEN Acct(t) ELSE None][s] = Acct(s)
    OBVIOUS
  <2>3. \/ PhaseOf(s) = "asked" /\ \E a \in AccountIds : Promise!Create(ask[s], a)
        \/ PhaseOf(s) = "found" /\ Promise!Effect(ask[s], Acct(s))
    BY <2>1, <2>2 DEF Promise!Perform
  <2>4. /\ PhaseOf(s) # "idle" => ask[s] \in Requests
        /\ PhaseOf(s) = "found" => Acct(s) \in AccountIds
    BY FoundIsAnAccount
  <2> QED
    BY <2>3, <2>4 DEF Promise!Effect
<1>2. Spec => []StoreInvariant
  BY ServiceImplementsStore, StoreInvariantHolds, PTL
<1> QED
  BY <1>1, <1>2, AccountsTyped, HandlersInvariantHolds, AnswersInvariantHolds,
     EffectsInvariantHolds, PTL DEF Spec, ChangesByEffects

=============================================================================
