------------------------------ MODULE Accounts ------------------------------
(***************************************************************************)
(* The nine HTTP handlers of internal/controller, running concurrently     *)
(* over Store.  A session is one request slot: the goroutine that serves a *)
(* request and the database session it uses.  Each action is the code up   *)
(* to and including one statement, so that other requests may run between  *)
(* any two statements.  The exceptions are the reads of a serializable     *)
(* transaction, which all come from one snapshot: they are one action.     *)
(*                                                                         *)
(* The deferred tx.Rollback() runs with every answer (Reply).  A statement *)
(* may fail at any time (StatementFails), a process may die (ReplicaDies), *)
(* a commit may succeed without the client learning it (CommitUnanswered). *)
(* The queries that only fill in a response (the referrer's wallet) are    *)
(* left out.                                                               *)
(***************************************************************************)
EXTENDS Store, FiniteSets, Integers

CONSTANTS Scenarios,       \* the requests [op, cred, arg] of each scenario
          Normalize,       \* normalizeEmail, on Addresses
          WellFormed,      \* addresses that match emailPattern
          KnownCountries,  \* the embedded ISO 3166 list
          Replica          \* the process that serves each session

Handlers == {"CreateAccount", "GetUserAccount", "UpdateUser", "DeleteUser",
             "AcceptTOS", "LinkEmail", "LinkEmailToken", "LinkWalletToken",
             "SubmitReferralCode"}

(* What clients may send.  In one behaviour they follow one scenario.       *)
Requests == UNION {Scenarios[x] : x \in DOMAIN Scenarios}

(* What a request carries besides its token: the body's field, or the claim*)
(* of the token in the body; None when it is missing or malformed.         *)
ArgumentsOf(op) ==
  CASE op = "UpdateUser" -> Countries \cup {None}
    [] op = "LinkEmail" -> Addresses
    [] op = "LinkEmailToken" -> Addresses \cup {None}
    [] op = "LinkWalletToken" -> Wallets \cup {None}
    [] op = "SubmitReferralCode" -> Codes \cup {None}
    [] OTHER -> {None}

ASSUME AccountsAssumption ==
  /\ Addresses \cap Wallets = {}
  /\ None \notin Addresses \cup Wallets \cup Codes
  /\ Normalize \in [Addresses -> Addresses]
  /\ \A e \in Addresses : Normalize[Normalize[e]] = Normalize[e]
  /\ WellFormed \subseteq Addresses
  /\ KnownCountries \subseteq Countries
  /\ DOMAIN Replica = Sessions
  /\ \A r \in Requests :
       /\ r.op \in Handlers
       /\ r.cred \in WellFormed \cup Wallets
       /\ r.arg \in ArgumentsOf(r.op)

VARIABLES ask,         \* the request each session serves
          pc,          \* the statement it runs next
          local,       \* what the handler holds in its variables
          answer,      \* what the client got
          identified,  \* Customer.io Identify messages enqueued so far
          scenario     \* the scenario that clients follow

handlerVars == <<ask, pc, local, answer, identified, scenario>>
vars == <<storeVars, handlerVars>>

Op(s)   == ask[s].op
Cred(s) == ask[s].cred
Arg(s)  == ask[s].arg
Acct(s) == local[s].acct

NoLocals == [acct |-> None, row |-> None, email |-> None, wallet |-> None,
             code |-> None, referrer |-> None, referrersReferrer |-> None]

Idle(s) == pc[s] \in {"idle", "done"}

(* The transaction each handler opens; the others use the Reader handle.   *)
Isolation ==
  [op \in Handlers |->
     IF op \in {"CreateAccount", "LinkEmail", "LinkEmailToken"}
       THEN "serializable"
     ELSE IF op \in {"DeleteUser", "LinkWalletToken", "SubmitReferralCode"}
       THEN "read committed"
     ELSE "none"]

----------------------------------------------------------------------------
(* Control.                                                                *)

Goto(s, label) == pc' = [pc EXCEPT ![s] = label]

Finish(S, result) ==
  /\ pc' = [s \in Sessions |-> IF s \in S THEN "done" ELSE pc[s]]
  /\ answer' = [s \in Sessions |-> IF s \in S THEN result ELSE answer[s]]
  /\ local' = [s \in Sessions |-> IF s \in S
                 THEN [NoLocals EXCEPT !.acct = Acct(s)] ELSE local[s]]
  /\ UNCHANGED <<ask, scenario>>

(* FAULT, for a mutant: no deferred rollback.                              *)
ReplyWithoutRollback(s, result) ==
  Finish({s}, result) /\ UNCHANGED <<storeVars, identified>>

(* A return from the handler: the deferred rollback, then the answer.      *)
Reply(s, result) == Rollback({s}) /\ Finish({s}, result) /\ UNCHANGED identified

(* The process dies with every request it serves.                          *)
Die(replica) ==
  LET S == {s \in Sessions : Replica[s] = replica /\ ~Idle(s)}
  IN Rollback(S) /\ Finish(S, "lost") /\ UNCHANGED identified

(* The next statement is at label; nothing but the store has changed.      *)
Continue(s, label) ==
  Goto(s, label) /\ UNCHANGED <<ask, local, answer, identified, scenario>>

(* The handler keeps what it read.                                         *)
Keep(s, locals, label) ==
  /\ local' = [local EXCEPT ![s] = locals]
  /\ Goto(s, label)
  /\ UNCHANGED <<ask, answer, identified, scenario>>

Open(s) ==
  IF Isolation[Op(s)] = "none" THEN UNCHANGED storeVars
  ELSE Begin(s, Isolation[Op(s)])

----------------------------------------------------------------------------
(* Rows a query of session s finds; None when it finds nothing.            *)

TheOne(S) == IF S = {} THEN None ELSE CHOOSE x \in S : TRUE

EmailOfAccount(s, a)  == TheOne({e \in Addresses : EmailOf(SeenEmail(s, e), a)})
WalletOfAccount(s, a) == TheOne({w \in Wallets : SeenWallet(s, w) = a})
(* FAULT: the email row instead of the account it names.                   *)
EmailOwnerAsRow(s, e) == SeenEmail(s, e)

EmailOwner(s, e) == IF SeenEmail(s, e) = None THEN None ELSE SeenEmail(s, e).account

LinkedAccount(s) ==
  IF Cred(s) \in Wallets THEN SeenWallet(s, Cred(s))
  ELSE EmailOwner(s, Normalize[Cred(s)])

----------------------------------------------------------------------------
(* getUserAccount, query by query, for the handlers that do not read from  *)
(* one snapshot, and for the read of CreateAccount after its commit.       *)

Looking(s) ==
  \/ pc[s] = "findLink"
  \/ pc[s] = "start" /\ Isolation[Op(s)] # "serializable"

FindLink(s) ==
  /\ Looking(s)
  /\ LinkedAccount(s) # None
  /\ IF pc[s] = "start" THEN Open(s) ELSE UNCHANGED storeVars
  /\ Keep(s, [NoLocals EXCEPT
                !.acct = LinkedAccount(s),
                !.email = IF Cred(s) \in Wallets THEN None ELSE Normalize[Cred(s)],
                !.wallet = IF Cred(s) \in Wallets THEN Cred(s) ELSE None],
          "loadAccount")

LinkNotFound(s) ==
  /\ Looking(s)
  /\ LinkedAccount(s) = None
  /\ Reply(s, "refused")

LoadAccount(s) ==
  /\ pc[s] = "loadAccount"
  /\ SeenAccount(s, Acct(s)) # None
  /\ Keep(s, [local[s] EXCEPT !.row = SeenAccount(s, Acct(s))], "loadPeer")
  /\ UNCHANGED storeVars

(* The account was deleted since the link was read: getUserAccount returns *)
(* nil.  Delete refuses a nil account, every other handler dereferences it.*)
LoadNothing(s) ==
  /\ pc[s] = "loadAccount"
  /\ SeenAccount(s, Acct(s)) = None
  /\ IF Op(s) = "DeleteUser" THEN Reply(s, "failed") ELSE Die(Replica[s])

LoadPeer(s) ==
  /\ pc[s] = "loadPeer"
  /\ Keep(s, IF Cred(s) \in Wallets
               THEN [local[s] EXCEPT !.email = EmailOfAccount(s, Acct(s))]
               ELSE [local[s] EXCEPT !.wallet = WalletOfAccount(s, Acct(s))],
          "loaded")
  /\ UNCHANGED storeVars

(* CreateAccount, after its commit, and GetUserAccount have what they need;*)
(* so does LinkEmail when the email is already linked to the account.      *)
AnswerLoaded(s) ==
  /\ pc[s] = "loaded"
  /\ Op(s) \in {"CreateAccount", "GetUserAccount", "LinkEmail"}
  /\ Reply(s, "ok")

----------------------------------------------------------------------------
(* CreateAccount: createUser in a transaction, then the lookup.            *)

CreateConflict(s) == LinkedAccount(s) # None

BeginCreate(s) ==
  /\ pc[s] = "start" /\ Op(s) = "CreateAccount"
  /\ IF CreateConflict(s) THEN Reply(s, "refused")
     ELSE Begin(s, Isolation[Op(s)]) /\ Continue(s, "drawCode")

(* GenerateReferralCode reads outside the transaction, and draws again     *)
(* while the code is taken.                                                *)
UnusedCode(c) == \A a \in AccountIds : ~HasCode(accounts[a], c)

DrawCode(s) ==
  /\ pc[s] = "drawCode"
  /\ \E c \in Codes :
       /\ UnusedCode(c)
       /\ Keep(s, [local[s] EXCEPT !.code = c], "insertAccount")
  /\ UNCHANGED storeVars

InsertNewAccount(s) ==
  /\ pc[s] = "insertAccount"
  /\ \/ \E a \in AccountIds :
          /\ InsertAccount(s, a, local[s].code)
          /\ Keep(s, [local[s] EXCEPT !.acct = a], "insertLink")
     \/ /\ ~CodeBusy(s, local[s].code)
        /\ InsertAccountRefused(s, local[s].code)
        /\ Reply(s, "failed")

(* FAULT: the error of the email's INSERT is dropped.                      *)
InsertFirstEmailUnchecked(s) ==
  /\ pc[s] = "insertLink" /\ Cred(s) \in Addresses
  /\ LET e == Normalize[Cred(s)]
     IN \/ InsertEmail(s, e, Acct(s), TRUE) /\ Continue(s, "commit")
        \/ /\ ~InsertEmailBlocked(s, e, Acct(s))
           /\ InsertEmailRefused(s, e, Acct(s))
           /\ Continue(s, "commit") /\ UNCHANGED storeVars

(* Customer.io learns of the wallet before the commit.                     *)
InsertFirstWallet(s) ==
  /\ pc[s] = "insertLink" /\ Cred(s) \in Wallets
  /\ \/ InsertWallet(s, Cred(s), Acct(s)) /\ Continue(s, "tellBeforeCommit")
     \/ /\ ~InsertWalletBlocked(s, Cred(s), Acct(s))
        /\ InsertWalletRefused(s, Cred(s), Acct(s))
        /\ Reply(s, "failed")

InsertFirstEmail(s) ==
  /\ pc[s] = "insertLink" /\ Cred(s) \in Addresses
  /\ LET e == Normalize[Cred(s)]
     IN \/ InsertEmail(s, e, Acct(s), TRUE) /\ Continue(s, "commit")
        \/ /\ ~InsertEmailBlocked(s, e, Acct(s))
           /\ InsertEmailRefused(s, e, Acct(s))
           /\ Reply(s, "failed")

----------------------------------------------------------------------------
(* UpdateUser and AcceptTOS: an UPDATE by id, outside any transaction, of  *)
(* the one column.  An UPDATE that finds no row is not an error.           *)

SaveNow(s, row) ==
  /\ IF accounts[Acct(s)] = None THEN UNCHANGED storeVars
     ELSE UpdateAccountNow(s, Acct(s), row)
  /\ Finish({s}, "ok")
  /\ UNCHANGED identified

CurrentRow(s) == IF accounts[Acct(s)] = None THEN local[s].row ELSE accounts[Acct(s)]

(* FAULT: the UPDATE writes every column of the row read earlier.          *)
CountryAndStaleRow(s) == [local[s].row EXCEPT !.country = Arg(s)]

CountryOnly(s) == [CurrentRow(s) EXCEPT !.country = Arg(s)]

UpdateUser(s) ==
  /\ pc[s] = "loaded" /\ Op(s) = "UpdateUser"
  /\ IF Arg(s) \notin KnownCountries \cup {None} THEN Reply(s, "refused")
     ELSE IF Arg(s) \in {None, local[s].row.country} THEN Reply(s, "ok")
     ELSE SaveNow(s, CountryOnly(s))

TosOnly(s) == [CurrentRow(s) EXCEPT !.acceptedTos = TRUE]

AcceptTOS(s) ==
  /\ pc[s] = "loaded" /\ Op(s) = "AcceptTOS"
  /\ IF local[s].row.acceptedTos THEN Reply(s, "ok") ELSE SaveNow(s, TosOnly(s))

----------------------------------------------------------------------------
(* DeleteUser.  A DELETE that finds no row is not an error either.         *)

DeleteUser(s) ==
  /\ pc[s] = "loaded" /\ Op(s) = "DeleteUser"
  /\ \/ DeleteAccount(s, Acct(s))
     \/ SeenAccount(s, Acct(s)) = None /\ UNCHANGED storeVars
  /\ Continue(s, "commit")

----------------------------------------------------------------------------
(* LinkEmail: an unconfirmed email, all reads from one snapshot.           *)

(* FAULT: the address is linked as it was spelled.                         *)
NewAddressAsSpelled(s) == Arg(s)

NewAddress(s) == Normalize[Arg(s)]

LinkEmailRefused(s, e, a) ==
  \/ e \notin WellFormed
  \/ a = None
  \/ EmailOfAccount(s, a) \notin {None, e}
  \/ EmailOwner(s, e) \notin {None, a}

LinkEmail(s) ==
  /\ pc[s] = "start" /\ Op(s) = "LinkEmail"
  /\ LET a == LinkedAccount(s)
     IN IF LinkEmailRefused(s, NewAddress(s), a) THEN Reply(s, "refused")
        ELSE /\ Begin(s, Isolation[Op(s)])
             /\ Keep(s, [NoLocals EXCEPT !.acct = a],
                     IF EmailOfAccount(s, a) = None THEN "insertEmail"
                                                    ELSE "loaded")

(* LinkEmailToken: a confirmed email, replacing the same address when it   *)
(* is linked but not confirmed.                                            *)
LinkTokenReplacesAny(s, e, a) ==
  \/ EmailOwner(s, e) \notin {None, a}
  \/ EmailOfAccount(s, a) = e /\ SeenEmail(s, e).confirmed

LinkTokenRefused(s, e, a) ==
  \/ EmailOwner(s, e) \notin {None, a}
  \/ EmailOfAccount(s, a) \notin {None, e}
  \/ EmailOfAccount(s, a) = e /\ SeenEmail(s, e).confirmed

LinkEmailToken(s) ==
  /\ pc[s] = "start" /\ Op(s) = "LinkEmailToken"
  /\ LET a == LinkedAccount(s)
     IN IF a = None \/ Arg(s) = None THEN Reply(s, "refused")
        ELSE IF LinkTokenRefused(s, NewAddress(s), a) THEN Reply(s, "refused")
        ELSE /\ Begin(s, Isolation[Op(s)])
             /\ Keep(s, [NoLocals EXCEPT !.acct = a, !.email = EmailOfAccount(s, a)],
                     IF EmailOfAccount(s, a) = None THEN "insertEmail"
                                                    ELSE "deleteEmail")

DeleteUnconfirmed(s) ==
  /\ pc[s] = "deleteEmail"
  /\ \/ DeleteEmail(s, local[s].email) /\ Continue(s, "insertEmail")
     \/ /\ ~EmailBusy(s, local[s].email)
        /\ Stale(s, local[s].email)
        /\ Reply(s, "failed")

Confirms(s) == Op(s) = "LinkEmailToken"

InsertLinkedEmail(s) ==
  /\ pc[s] = "insertEmail"
  /\ \/ InsertEmail(s, NewAddress(s), Acct(s), Confirms(s)) /\ Continue(s, "touch")
     \/ /\ ~InsertEmailBlocked(s, NewAddress(s), Acct(s))
        /\ InsertEmailRefused(s, NewAddress(s), Acct(s))
        /\ Reply(s, "failed")

----------------------------------------------------------------------------
(* FAULT: the error of the insert is dropped.                              *)
LinkWalletTokenUnchecked(s) ==
  /\ pc[s] = "loaded" /\ Op(s) = "LinkWalletToken"
  /\ IF local[s].wallet # None THEN Reply(s, "refused")
     ELSE IF local[s].email = None THEN Reply(s, "failed")
     ELSE IF Arg(s) = None THEN Reply(s, "refused")
     ELSE \/ InsertWallet(s, Arg(s), Acct(s)) /\ Continue(s, "touch")
          \/ /\ ~InsertWalletBlocked(s, Arg(s), Acct(s))
             /\ InsertWalletRefused(s, Arg(s), Acct(s))
             /\ Continue(s, "touch") /\ UNCHANGED storeVars

(* LinkWalletToken: each read its own snapshot.                            *)

LinkWalletToken(s) ==
  /\ pc[s] = "loaded" /\ Op(s) = "LinkWalletToken"
  /\ IF local[s].wallet # None THEN Reply(s, "refused")
     ELSE IF local[s].email = None THEN Reply(s, "failed")
     ELSE IF Arg(s) = None THEN Reply(s, "refused")
     ELSE \/ InsertWallet(s, Arg(s), Acct(s)) /\ Continue(s, "touch")
          \/ /\ ~InsertWalletBlocked(s, Arg(s), Acct(s))
             /\ InsertWalletRefused(s, Arg(s), Acct(s))
             /\ Reply(s, "failed")

(* Which handlers tell Customer.io after their commit.                     *)
EmailIsTold(s) == Op(s) \in {"LinkEmail", "LinkEmailToken"} /\ Cred(s) \in Wallets
WalletIsTold(s) == Op(s) = "LinkWalletToken"

(* FAULT: Customer.io is told before the commit.                           *)
TouchThenTell(s) ==
  /\ pc[s] = "touch"
  /\ \/ /\ SeenAccount(s, Acct(s)) # None
        /\ UpdateAccount(s, Acct(s), SeenAccount(s, Acct(s)))
        /\ Continue(s, IF EmailIsTold(s) THEN "tell" ELSE "commit")
     \/ Stale(s, Acct(s)) /\ ~AccountBusy(s, Acct(s)) /\ Reply(s, "failed")

(* The three link handlers set updated_at last.                            *)
Touch(s) ==
  /\ pc[s] = "touch"
  /\ \/ /\ SeenAccount(s, Acct(s)) # None
        /\ UpdateAccount(s, Acct(s), SeenAccount(s, Acct(s)))
        /\ Continue(s, "commit")
     \/ Stale(s, Acct(s)) /\ ~AccountBusy(s, Acct(s)) /\ Reply(s, "failed")

----------------------------------------------------------------------------
(* SubmitReferralCode: each read its own snapshot.                         *)

FindReferrer(s) ==
  /\ pc[s] = "loaded" /\ Op(s) = "SubmitReferralCode"
  /\ LET b == TheOne({x \in AccountIds : HasCode(SeenAccount(s, x), Arg(s))})
     IN IF local[s].row.referredAt \/ Arg(s) = None \/ b = None
          THEN Reply(s, "refused")
        ELSE /\ Keep(s, [local[s] EXCEPT
                           !.referrer = b,
                           !.referrersReferrer = SeenAccount(s, b).referredBy],
                     "checkReferrer")
             /\ UNCHANGED storeVars

(* FAULT: only the account's own wallet is checked for.                    *)
CheckOwnWalletOnly(s) ==
  /\ pc[s] = "checkReferrer"
  /\ IF local[s].wallet = None THEN Reply(s, "failed")
     ELSE IF \/ local[s].wallet = WalletOfAccount(s, local[s].referrer)
             \/ local[s].referrersReferrer = Acct(s)
       THEN Reply(s, "refused")
     ELSE Continue(s, "refer") /\ UNCHANGED storeVars

CheckReferrer(s) ==
  /\ pc[s] = "checkReferrer"
  /\ LET referrerWallet == WalletOfAccount(s, local[s].referrer)
     IN IF referrerWallet = None \/ local[s].wallet = None THEN Reply(s, "failed")
        ELSE IF \/ local[s].wallet = referrerWallet
                \/ local[s].referrersReferrer = Acct(s)
          THEN Reply(s, "refused")
        ELSE Continue(s, "refer") /\ UNCHANGED storeVars

ReferralColumns(s) ==
  [SeenAccount(s, Acct(s)) EXCEPT !.referredBy = local[s].referrer,
                                  !.referredAt = TRUE]

Refer(s) ==
  /\ pc[s] = "refer"
  /\ \/ /\ SeenAccount(s, Acct(s)) # None
        /\ \/ /\ UpdateAccount(s, Acct(s), ReferralColumns(s))
              /\ Continue(s, "commit")
           \/ /\ ~UpdateBlocked(s, Acct(s), ReferralColumns(s))
              /\ UpdateRefused(s, Acct(s), ReferralColumns(s))
              /\ Reply(s, "failed")
     \/ /\ SeenAccount(s, Acct(s)) = None
        /\ Continue(s, "commit")
        /\ UNCHANGED storeVars

----------------------------------------------------------------------------
(* The end of every transaction, and the Identify calls to Customer.io.    *)

CommitRequest(s) ==
  /\ pc[s] = "commit"
  /\ Commit(s)
  /\ IF Op(s) = "CreateAccount" THEN Continue(s, "findLink")
     ELSE IF EmailIsTold(s) \/ WalletIsTold(s) THEN Continue(s, "tell")
     ELSE Finish({s}, "ok") /\ UNCHANGED identified

Message(s) ==
  IF Op(s) = "CreateAccount" THEN <<Cred(s), None>>
  ELSE IF WalletIsTold(s) THEN <<Arg(s), None>>
  ELSE <<Cred(s), NewAddress(s)>>

(* Enqueue may fail; the handler only logs it.                             *)
Tell(s) ==
  /\ pc[s] \in {"tell", "tellBeforeCommit"}
  /\ identified' \in {identified, identified \cup {Message(s)}}
  /\ \/ pc[s] = "tell" /\ Finish({s}, "ok")
     \/ pc[s] = "tellBeforeCommit" /\ Goto(s, "commit")
        /\ UNCHANGED <<ask, local, answer, scenario>>
  /\ UNCHANGED storeVars

----------------------------------------------------------------------------
(* What the handlers do not control.                                       *)

(* BOUND: CreateAccount is only asked while every request that creates an  *)
(* account can still draw a fresh id from the finite set AccountIds.       *)
Creating == {s \in Sessions : ~Idle(s) /\ Op(s) = "CreateAccount"}
IdsLeft  == Cardinality(issued) + Cardinality(Creating) < Cardinality(AccountIds)

Arrive(s, r) ==
  /\ Idle(s) /\ r \in Scenarios[scenario]
  /\ r.op = "CreateAccount" => IdsLeft
  /\ ask' = [ask EXCEPT ![s] = r]
  /\ local' = [local EXCEPT ![s] = NoLocals]
  /\ answer' = [answer EXCEPT ![s] = "none"]
  /\ Goto(s, "start")
  /\ UNCHANGED <<storeVars, identified, scenario>>

(* A lost connection, a serialization failure, a deadlock victim.          *)
StatementFails(s) == ~Idle(s) /\ Reply(s, "failed")

(* The connection is lost after the commit, before its acknowledgement.    *)
CommitUnanswered(s) ==
  pc[s] = "commit" /\ Commit(s) /\ Finish({s}, "failed") /\ UNCHANGED identified

ReplicaDies ==
  \E r \in {Replica[s] : s \in {t \in Sessions : ~Idle(t)}} : Die(r)

----------------------------------------------------------------------------
Step(s) ==
  \/ FindLink(s) \/ LinkNotFound(s) \/ LoadAccount(s) \/ LoadNothing(s)
  \/ LoadPeer(s) \/ AnswerLoaded(s)
  \/ BeginCreate(s) \/ DrawCode(s) \/ InsertNewAccount(s)
  \/ InsertFirstWallet(s) \/ InsertFirstEmail(s)
  \/ UpdateUser(s) \/ AcceptTOS(s) \/ DeleteUser(s)
  \/ LinkEmail(s) \/ LinkEmailToken(s) \/ DeleteUnconfirmed(s)
  \/ InsertLinkedEmail(s) \/ LinkWalletToken(s) \/ Touch(s)
  \/ FindReferrer(s) \/ CheckReferrer(s) \/ Refer(s)
  \/ CommitRequest(s) \/ Tell(s)

Init ==
  /\ StoreInit
  /\ ask = [s \in Sessions |-> None]
  /\ pc = [s \in Sessions |-> "idle"]
  /\ local = [s \in Sessions |-> NoLocals]
  /\ answer = [s \in Sessions |-> "none"]
  /\ identified = {}
  /\ scenario \in DOMAIN Scenarios

Next ==
  \/ \E s \in Sessions :
       \/ Step(s)
       \/ \E r \in Requests : Arrive(s, r)
       \/ StatementFails(s)
       \/ CommitUnanswered(s)
  \/ ReplicaDies

Spec == Init /\ [][Next]_vars

(* A handler goroutine is scheduled and its queries are answered.  A lock  *)
(* is granted in the order of arrival, so a statement whose lock is free   *)
(* again and again is not passed over for ever: strong fairness.  Drawing a*)
(* referral code is one step, taken when an unused code comes up: that the *)
(* draws do not avoid the unused codes for ever is part of the assumption. *)
FairSpec == Spec /\ \A s \in Sessions : SF_vars(Step(s))

----------------------------------------------------------------------------
Labels == {"idle", "start", "findLink", "loadAccount", "loadPeer", "loaded",
           "drawCode", "insertAccount", "insertLink", "tellBeforeCommit",
           "deleteEmail", "insertEmail", "touch", "checkReferrer", "refer",
           "commit", "tell", "done"}
Locals == [acct : AccountIds \cup {None}, row : AccountRow \cup {None},
           email : Addresses \cup {None}, wallet : Wallets \cup {None},
           code : Codes \cup {None}, referrer : AccountIds \cup {None},
           referrersReferrer : AccountIds \cup {None}]

(* What the statement at label needs of the request and the locals.        *)
ReadyAt(label, r, l) ==
  /\ label # "idle" => r \in Requests
  /\ label \notin {"idle", "start", "findLink", "drawCode", "insertAccount", "done"} =>
       l.acct \in AccountIds
  /\ label = "insertAccount" => l.code \in Codes
  /\ label \in {"drawCode", "insertAccount", "insertLink", "tellBeforeCommit"} =>
       r.op = "CreateAccount"
  /\ label = "tellBeforeCommit" => r.cred \in Wallets
  /\ label \in {"deleteEmail", "insertEmail"} => r.op \in {"LinkEmail", "LinkEmailToken"}
  /\ label = "deleteEmail" => l.email \in Addresses
  /\ label \in {"checkReferrer", "refer"} =>
       r.op = "SubmitReferralCode" /\ l.referrer \in AccountIds
  /\ /\ label \in {"deleteEmail", "insertEmail", "touch", "commit", "tell"}
     /\ r.op \in {"LinkEmail", "LinkEmailToken", "LinkWalletToken"}
     => r.arg # None
  /\ label = "tell" =>
       \/ r.op = "LinkWalletToken"
       \/ r.op \in {"LinkEmail", "LinkEmailToken"} /\ r.cred \in Wallets

HandlersReady ==
  /\ ask \in [Sessions -> Requests \cup {None}]
  /\ pc \in [Sessions -> Labels]
  /\ local \in [Sessions -> Locals]
  /\ \A s \in Sessions : ReadyAt(pc[s], ask[s], local[s])

(* The tables and handlers have their types, and no statement runs before  *)
(* the handler has found, and checked for null, what it passes to it.      *)
AccountsTypeOK ==
  /\ TypeOK
  /\ HandlersReady
  /\ answer \in [Sessions -> {"none", "ok", "refused", "failed", "lost"}]
  /\ identified \subseteq Wallets \X (Addresses \cup {None})

Live(a) == accounts[a] # None
HasEmail(a)  == \E e \in Addresses : EmailOf(emails[e], a)
HasWallet(a) == \E w \in Wallets : wallets[w] = a

(* An account can always be reached: every committed account has an email  *)
(* or a wallet, although it is inserted before its link, and LinkEmailToken*)
(* deletes an email row before it inserts the confirmed one.               *)
EveryAccountReachable == \A a \in AccountIds : Live(a) => HasEmail(a) \/ HasWallet(a)

(* Two spellings of a mailbox never belong to two accounts: the primary key*)
(* of emails compares text, so this rests on every handler normalising.    *)
OneAccountPerMailbox ==
  \A e, f \in Addresses :
    emails[e] # None /\ emails[f] # None /\ Normalize[e] = Normalize[f] => e = f

(* Whoever referred or was referred has a wallet, and is not its own       *)
(* referrer, whatever was deleted between the checks of SubmitReferralCode *)
(* and its UPDATE.                                                         *)
ReferralPartiesHaveWallets ==
  \A a \in AccountIds : Live(a) /\ accounts[a].referredBy # None =>
    /\ accounts[a].referredBy # a
    /\ HasWallet(a) /\ HasWallet(accounts[a].referredBy)

NothingWritten(s) ==
  /\ \A a \in AccountIds : accountWrites[s][a] = Kept
  /\ \A e \in Addresses : emailWrites[s][e] = Kept
  /\ \A w \in Wallets : walletWrites[s][w] = Kept

(* A transaction does not outlive its request: a lock left behind would    *)
(* block every later request for the account.                              *)
NoLeakedTransactions ==
  \A s \in Sessions : Idle(s) => isolation[s] = "none" /\ NothingWritten(s)

(* While an account lives, no request of anybody takes a linked email or   *)
(* wallet from it, and a confirmed email stays confirmed.                  *)
LinksAreKept ==
  \A a \in AccountIds : Live(a) /\ Live(a)' =>
    /\ \A e \in Addresses : EmailOf(emails[e], a) =>
         /\ EmailOf(emails'[e], a)
         /\ emails[e].confirmed => emails'[e].confirmed
    /\ \A w \in Wallets : wallets[w] = a => wallets'[w] = a
LinksSticky == [][LinksAreKept]_vars

(* What an update of a row may not take back.                              *)
Extends(row, old) ==
  /\ row.code = old.code
  /\ old.acceptedTos => row.acceptedTos
  /\ old.referredAt => row.referredAt
  /\ old.country # None => row.country # None

(* No request undoes another's update: the terms stay accepted, the        *)
(* referral time and a chosen country stay set, the code never changes,    *)
(* although every handler updates from a row it read earlier.              *)
UpdatesAreKept ==
  \A a \in AccountIds : Live(a) /\ Live(a)' => Extends(accounts'[a], accounts[a])
NothingWithdrawn == [][UpdatesAreKept]_vars

(* A success answer is kept: as long as the account lives, what the client *)
(* was told has been done stays visible in the committed tables.           *)
Effect(s) ==
  LET a == Acct(s)
  IN CASE Op(s) = "CreateAccount" ->
            IF Cred(s) \in Wallets THEN wallets[Cred(s)] = a
            ELSE EmailOf(emails[Normalize[Cred(s)]], a)
       [] Op(s) = "AcceptTOS" -> accounts[a].acceptedTos
       [] Op(s) = "UpdateUser" -> Arg(s) # None => accounts[a].country # None
       [] Op(s) = "LinkEmail" -> EmailOf(emails[NewAddress(s)], a)
       [] Op(s) = "LinkEmailToken" ->
            /\ EmailOf(emails[NewAddress(s)], a)
            /\ emails[NewAddress(s)].confirmed
       [] Op(s) = "LinkWalletToken" -> wallets[Arg(s)] = a
       [] Op(s) = "SubmitReferralCode" -> accounts[a].referredAt
       [] Op(s) = "DeleteUser" -> FALSE
       [] OTHER -> TRUE
AnswersHold ==
  \A s \in Sessions : answer[s] = "ok" /\ Live(Acct(s)) => Effect(s)

(* Customer.io is told of an email only for an account that then has both  *)
(* that email and that wallet, unless the account is gone by then.         *)
ToldEmailIsLinked ==
  \A s \in Sessions : pc[s] = "tell" /\ EmailIsTold(s) =>
    \/ ~Live(Acct(s))
    \/ wallets[Cred(s)] = Acct(s) /\ EmailOf(emails[NewAddress(s)], Acct(s))

(* Every request is answered: no handler waits for ever for a lock.        *)
EveryRequestAnswered ==
  \A s \in Sessions : pc[s] = "start" ~> pc[s] = "done"

----------------------------------------------------------------------------
(* What comments and messages of the code say and the code does not do.    *)

(* "No circular referrals." (referral_handlers.go:107), of any number of   *)
(* accounts.                                                               *)
NoReferralCycle ==
  \A C \in SUBSET AccountIds : C # {} =>
    \E a \in C : \A b \in C : ~ReferredBy(accounts[a], b)

(* "Already entered a referral code.": an account enters only one.         *)
ReferredOnce ==
  [][\A a \in AccountIds : Live(a) /\ Live(a)' /\ accounts[a].referredAt =>
       accounts'[a].referredBy \in {accounts[a].referredBy, None}]_vars

(* "No account found with email %s.": an account that is not there is an   *)
(* error of getUserAccount, never a nil account without an error.          *)
NoNilAccount ==
  \A s \in Sessions : pc[s] = "loadAccount" => SeenAccount(s, Acct(s)) # None

=============================================================================
