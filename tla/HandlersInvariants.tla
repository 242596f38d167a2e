------------------------- MODULE HandlersInvariants -------------------------
(***************************************************************************)
(* Why the handlers keep what they promise: three inductive invariants.    *)
(* HandlersInvariant is about what open transactions take from others,     *)
(* AnswersInvariant about what a handler has read and goes by later, and   *)
(* EffectsInvariant about what a commit will change.                       *)
(***************************************************************************)
EXTENDS Accounts

(* Why accounts stay reachable, mailboxes have one account, links stay and *)
(* no transaction is leaked, as an inductive invariant of the handlers.    *)

(* Where a handler has no transaction open.                                *)
Quiet(s) == pc[s] \in {"idle", "start", "tell", "done"} \/ Isolation[Op(s)] = "none"

Unopened(s) ==
  /\ isolation[s] = "none" => NothingWritten(s)
  /\ Quiet(s) => isolation[s] = "none"

(* LinkEmailToken deletes an unconfirmed email of its own account, unless  *)
(* the row has changed since it was read, which makes the DELETE fail,     *)
ReadyToReplace(s) ==
  pc[s] = "deleteEmail" =>
    /\ isolation[s] = "serializable" /\ NothingWritten(s)
    /\ Confirms(s) /\ local[s].email = NewAddress(s)
    /\ local[s].email \notin missed[s] =>
         EmailOf(emails[local[s].email], Acct(s)) /\ ~emails[local[s].email].confirmed

Deletes(s, a) == accountWrites[s][a] = None

(* and then inserts the same address for the same account.                 *)
ReplacesEmail(s, e, a) ==
  \/ EmailOf(emailWrites[s][e], a) /\ emailWrites[s][e].confirmed
  \/ /\ pc[s] = "insertEmail" /\ Confirms(s)
     /\ Acct(s) = a /\ NewAddress(s) = e

KeepsEmails(s) ==
  \A e \in Addresses, a \in AccountIds :
    EmailOf(emails[e], a) /\ emailWrites[s][e] # Kept =>
      Deletes(s, a) \/ ReplacesEmail(s, e, a)

KeepsWallets(s) ==
  \A w \in Wallets, a \in AccountIds :
    wallets[w] = a /\ walletWrites[s][w] # Kept => Deletes(s, a)

LinksNewAccounts(s) ==
  \A a \in AccountIds : ~Live(a) /\ accountWrites[s][a] \notin {None, Kept} =>
    \/ pc[s] = "insertLink" /\ Acct(s) = a
    \/ \E e \in Addresses : EmailOf(emailWrites[s][e], a)
    \/ \E w \in Wallets : walletWrites[s][w] = a

ExtendsRows(s) ==
  \A a \in AccountIds : Live(a) /\ accountWrites[s][a] \notin {None, Kept} =>
    Extends(accountWrites[s][a], accounts[a])

Spelled(rows) == \A e \in Addresses : rows[e] \notin {None, Kept} => Normalize[e] = e

SessionKeeps(s) ==
  /\ Unopened(s) /\ ReadyToReplace(s)
  /\ KeepsEmails(s) /\ KeepsWallets(s)
  /\ LinksNewAccounts(s) /\ ExtendsRows(s) /\ Spelled(emailWrites[s])

(* No open transaction takes a link or an update from an account that      *)
(* stays, and none is about to leave an account without a link.            *)
HandlersInvariant ==
  /\ EveryAccountReachable /\ Spelled(emails)
  /\ \A a \in AccountIds : Live(a) => a \in issued
  /\ \A s \in Sessions : SessionKeeps(s)

----------------------------------------------------------------------------
(* Why answers hold and referrals are between owners of wallets: what a    *)
(* handler has read of an account stays true as long as the account lives, *)
(* and an id that is gone does not come back.                              *)

IdsAreFresh ==
  \A s \in Sessions, a \in AccountIds :
    ~Live(a) /\ accountWrites[s][a] \notin {None, Kept} => a \notin issued

(* A handler that has written nothing yet reads what is committed.         *)
OnlyReads(s) ==
  pc[s] \in {"findLink", "loadAccount", "loadPeer", "loaded", "checkReferrer", "refer"} =>
    NothingWritten(s)

HasFound(s) ==
  \/ pc[s] \in {"loadAccount", "loadPeer", "loaded", "deleteEmail", "insertEmail",
                "touch", "checkReferrer", "refer", "tell"}
  \/ pc[s] = "commit" /\ Op(s) # "CreateAccount"

Linked(c, a) ==
  IF c \in Wallets THEN wallets[c] = a ELSE EmailOf(emails[Normalize[c]], a)

RemembersToken(s) ==
  HasFound(s) =>
    Acct(s) \in issued /\ (Live(Acct(s)) => Linked(Cred(s), Acct(s)))

RemembersRow(s) ==
  /\ pc[s] \in {"loadPeer", "loaded"} /\ Op(s) \in {"UpdateUser", "AcceptTOS"}
  /\ Live(Acct(s))
  => Extends(accounts[Acct(s)], local[s].row)

RemembersWallet(s) ==
  /\ pc[s] \in {"loadAccount", "loadPeer", "loaded", "checkReferrer", "refer"}
  /\ local[s].wallet # None /\ Live(Acct(s))
  => wallets[local[s].wallet] = Acct(s)

RemembersEmail(s) ==
  /\ pc[s] \in {"findLink", "loadAccount", "loadPeer", "loaded"} /\ Op(s) = "LinkEmail"
  => /\ pc[s] = "loaded"
     /\ Live(Acct(s)) => EmailOf(emails[NewAddress(s)], Acct(s))

RemembersReferrer(s) ==
  LET b == local[s].referrer
  IN pc[s] = "refer" =>
       /\ local[s].wallet # None
       /\ b # Acct(s) /\ b \in issued
       /\ Live(b) => HasWallet(b)

(* What a transaction is about to commit,                                  *)
HasPrepared(s) ==
  /\ pc[s] = "touch" => Op(s) \in {"LinkEmail", "LinkEmailToken", "LinkWalletToken"}
  /\ pc[s] \in {"touch", "commit"} /\ Op(s) \in {"LinkEmail", "LinkEmailToken"} =>
       LET row == emailWrites[s][NewAddress(s)]
       IN EmailOf(row, Acct(s)) /\ (Confirms(s) => row.confirmed)
  /\ pc[s] \in {"touch", "commit"} /\ Op(s) = "LinkWalletToken" =>
       walletWrites[s][Arg(s)] = Acct(s)
  /\ pc[s] = "commit" /\ Op(s) = "SubmitReferralCode" /\ Live(Acct(s)) =>
       LET row == accountWrites[s][Acct(s)]
       IN row \notin {None, Kept} /\ row.referredAt
  /\ pc[s] = "commit" /\ Op(s) = "DeleteUser" /\ Live(Acct(s)) =>
       Deletes(s, Acct(s))

(* and what it has committed when it tells Customer.io or answers.         *)
HasDone(s) ==
  pc[s] = "tell" \/ answer[s] = "ok" =>
    /\ Acct(s) \in issued /\ (Live(Acct(s)) => Effect(s))
    /\ Op(s) \in {"LinkEmail", "LinkEmailToken", "LinkWalletToken"} => Arg(s) # None

AnswersLast(s) == answer[s] = "ok" => pc[s] = "done"

SessionRemembers(s) ==
  /\ OnlyReads(s) /\ RemembersToken(s) /\ RemembersRow(s) /\ RemembersWallet(s)
  /\ RemembersEmail(s) /\ RemembersReferrer(s)
  /\ HasPrepared(s) /\ HasDone(s) /\ AnswersLast(s)

(* An uncommitted referral too is between two owners of wallets.           *)
BetweenOwners(a, b) == a # b /\ Live(a) /\ Live(b) /\ HasWallet(a) /\ HasWallet(b)

OwnersRefer ==
  \A s \in Sessions, a, b \in AccountIds :
    ReferredBy(accountWrites[s][a], b) => BetweenOwners(a, b)

(* A handler never goes by, or answers, what is no longer true of an       *)
(* account that lives, although it read it in earlier snapshots.           *)
AnswersInvariant ==
  /\ IdsAreFresh /\ OwnersRefer /\ ReferralPartiesHaveWallets
  /\ \A s \in Sessions : SessionRemembers(s)

----------------------------------------------------------------------------
(* Why a commit is the one effect of its request: a transaction has written*)
(* what the effect takes, and nothing else, and locks keep the rows that it*)
(* has not written from changing what the effect depends on.               *)

NoAccounts(s) == \A a \in AccountIds : accountWrites[s][a] = Kept
NoEmails(s)   == \A e \in Addresses : emailWrites[s][e] = Kept
NoWallets(s)  == \A w \in Wallets : walletWrites[s][w] = Kept

OnlyAccount(s) == \A a \in AccountIds \ {Acct(s)} : accountWrites[s][a] = Kept
OnlyEmail(s, e)  == NoWallets(s) /\ \A f \in Addresses \ {e} : emailWrites[s][f] = Kept
OnlyWallet(s, w) == NoEmails(s) /\ \A v \in Wallets \ {w} : walletWrites[s][v] = Kept

NewRow(c) == [code |-> c, country |-> None, referredBy |-> None,
              referredAt |-> FALSE, acceptedTos |-> FALSE]

(* CreateAccount: the row, and then its link, which nobody has.            *)
CreatesFirstLink(s) ==
  IF Cred(s) \in Wallets
    THEN /\ OnlyWallet(s, Cred(s))
         /\ walletWrites[s][Cred(s)] = Acct(s) /\ wallets[Cred(s)] = None
  ELSE /\ OnlyEmail(s, Normalize[Cred(s)])
       /\ emailWrites[s][Normalize[Cred(s)]] = [account |-> Acct(s), confirmed |-> TRUE]
       /\ emails[Normalize[Cred(s)]] = None

Creates(s) ==
  /\ pc[s] \in {"drawCode", "insertAccount"} => NothingWritten(s)
  /\ pc[s] \in {"insertLink", "tellBeforeCommit", "commit"} /\ Op(s) = "CreateAccount" =>
       /\ ~Live(Acct(s)) /\ OnlyAccount(s)
       /\ \E c \in Codes : accountWrites[s][Acct(s)] = NewRow(c)
       /\ IF pc[s] = "insertLink" THEN NoEmails(s) /\ NoWallets(s) ELSE CreatesFirstLink(s)
  /\ pc[s] = "findLink" => Op(s) = "CreateAccount"

(* The row is written last, as it is.                                      *)
Touches(s) ==
  /\ OnlyAccount(s)
  /\ IF pc[s] = "commit"
       THEN Live(Acct(s)) /\ accountWrites[s][Acct(s)] = accounts[Acct(s)]
     ELSE accountWrites[s][Acct(s)] = Kept

(* The email is new, or was the account's own and unconfirmed.             *)
Replaceable(s, e) ==
  Confirms(s) /\ EmailOf(emails[e], Acct(s)) /\ ~emails[e].confirmed

LinksEmail(s) ==
  /\ pc[s] \in {"insertEmail", "touch", "commit"}
  /\ Op(s) \in {"LinkEmail", "LinkEmailToken"}
  => LET e == NewAddress(s)
     IN /\ OnlyEmail(s, e) /\ Touches(s)
        /\ e \in WellFormed \/ Confirms(s)
        /\ IF pc[s] = "insertEmail"
             THEN \/ emailWrites[s][e] = Kept
                  \/ emailWrites[s][e] = None /\ Replaceable(s, e)
           ELSE /\ emailWrites[s][e] = [account |-> Acct(s), confirmed |-> Confirms(s)]
                /\ emails[e] = None \/ Replaceable(s, e)

LinksWallet(s) ==
  pc[s] \in {"touch", "commit"} /\ Op(s) = "LinkWalletToken" =>
    OnlyWallet(s, Arg(s)) /\ Touches(s) /\ wallets[Arg(s)] = None

(* SubmitReferralCode: the code is still the referrer's, and what speaks   *)
(* against the referral still does.                                        *)
ReferralStands(s) ==
  LET a == Acct(s)
      b == local[s].referrer
  IN /\ pc[s] \in {"loadPeer", "loaded"} /\ Live(a) /\ local[s].row.referredAt =>
          accounts[a].referredAt
     /\ pc[s] \in {"checkReferrer", "refer", "commit"} =>
          b \in issued /\ (Live(b) => HasCode(accounts[b], Arg(s)))
     /\ pc[s] = "checkReferrer" /\ local[s].referrersReferrer # None /\ Live(b) =>
          accounts[b].referredAt
     /\ pc[s] = "commit" =>
          /\ OnlyAccount(s) /\ NoEmails(s) /\ NoWallets(s)
          /\ accountWrites[s][a] # Kept =>
               /\ Live(a)
               /\ accountWrites[s][a] =
                    [accounts[a] EXCEPT !.referredBy = b, !.referredAt = TRUE]

Refers(s) ==
  /\ pc[s] \in {"loadPeer", "loaded", "checkReferrer", "refer", "commit"}
  /\ Op(s) = "SubmitReferralCode"
  => ReferralStands(s)

DeletesAll(s, a) ==
  /\ \A b \in AccountIds :
       accountWrites[s][b] = IF b = a THEN None
                             ELSE IF ReferredBy(accounts[b], a) THEN Unreferred(accounts[b])
                             ELSE Kept
  /\ \A e \in Addresses :
       emailWrites[s][e] = IF EmailOf(emails[e], a) THEN None ELSE Kept
  /\ \A w \in Wallets :
       walletWrites[s][w] = IF wallets[w] = a THEN None ELSE Kept

(* DeleteUser: the account with all that is its own, or nothing.           *)
Removes(s) ==
  pc[s] = "commit" /\ Op(s) = "DeleteUser" =>
    NothingWritten(s) \/ (Live(Acct(s)) /\ DeletesAll(s, Acct(s)))

SessionPrepares(s) ==
  Creates(s) /\ LinksEmail(s) /\ LinksWallet(s) /\ Refers(s) /\ Removes(s)

(* A commit does what its request asks for and nothing else, although the  *)
(* handler checked it, and wrote its rows, several statements ago.         *)
EffectsInvariant == \A s \in Sessions : SessionPrepares(s)

=============================================================================
