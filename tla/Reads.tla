-------------------------------- MODULE Reads --------------------------------
(***************************************************************************)
(* The reading calls: ListAccounts, GetAccount and TempReferral of the gRPC*)
(* service and GetUserAccount of the HTTP service.  Each is several queries*)
(* on the Reader handle, outside any transaction, so every query sees the  *)
(* accounts as they are at its time: here, the entries of Entries, changed *)
(* between any two queries by the effects of other requests.               *)
(*                                                                         *)
(* There is one caller.  Calls write nothing, so any number of them see    *)
(* what one sees.  Substrings are the set of addresses that contain them;  *)
(* created_at is the place in order, newest first.  It is read from the    *)
(* clock before the row is committed, so an account may appear anywhere.   *)
(***************************************************************************)
EXTENDS Entries, FiniteSets, SequencesExt, Integers

CONSTANTS Calls,      \* the calls the caller may make
          Limit,      \* rows ListAccounts returns at most: 100
          Malformed   \* an id, code or wallet that does not parse

(* Calls are records:                                                      *)
(*   ListAccounts    emails, wallets: the addresses that contain the part  *)
(*   GetAccount      id, email, wallet, code                               *)
(*   TempReferral    wallet                                                *)
(*   GetUserAccount  email, wallet: the claims of the token                *)
(* with None for what is not given.                                        *)
Fields == [ListAccounts   |-> {"emails", "wallets"},
           GetAccount     |-> {"id", "email", "wallet", "code"},
           TempReferral   |-> {"wallet"},
           GetUserAccount |-> {"email", "wallet"}]

ValuesOf(f) ==
  CASE f = "id" -> AccountIds
    [] f = "code" -> Codes
    [] f = "email" -> Addresses
    [] f = "wallet" -> Wallets
    [] f = "emails" -> SUBSET Addresses
    [] f = "wallets" -> SUBSET Wallets

ASSUME ReadsAssumption ==
  /\ Limit \in Nat \ {0}
  /\ \A c \in Calls :
       /\ c.method \in DOMAIN Fields
       /\ DOMAIN c = {"method"} \cup Fields[c.method]
       /\ \A f \in Fields[c.method] : c[f] \in {None, Malformed} \/ c[f] \in ValuesOf(f)

VARIABLES order,    \* ids ever created, newest created_at first
          call,     \* the call being served
          at,       \* its next query
          rows,     \* what its queries have returned
          reply,    \* its status
          before    \* the entries when it arrived

readVars == <<call, at, rows, reply, before>>
vars == <<dir, used, order, readVars>>

Given(c) == {f \in Fields[c.method] : c[f] # None}

(* The columns of accounts a reply uses, and what is loaded after them.    *)
RowWith(a, email, wallet) ==
  [id |-> a, code |-> dir[a].code, country |-> dir[a].country,
   referredBy |-> dir[a].referredBy, referredAt |-> dir[a].referredAt,
   email |-> email, wallet |-> wallet, referrer |-> None, referrerWallet |-> None]

RowOf(a) == RowWith(a, None, None)

Column(a, f) == IF Present(a) THEN dir[a][f] ELSE None

----------------------------------------------------------------------------
(* Validation.  The claims are matched against emailPattern as they are    *)
(* spelled, GetAccount's address after it is normalised.                   *)

Rejected(c) ==
  \/ \E f \in Given(c) : c[f] = Malformed
  \/ c.method = "TempReferral" /\ c.wallet = None
  \/ /\ c.method = "GetAccount"
     /\ \/ Cardinality(Given(c)) # 1
        \/ c.email # None /\ Normalize[c.email] \notin WellFormed
  \/ /\ c.method = "GetUserAccount"
     /\ \/ Cardinality(Given(c)) # 1
        \/ c.email # None /\ c.email \notin WellFormed

----------------------------------------------------------------------------
(* The first query.                                                        *)

(* FAULT, for a mutant: the code is not part of the condition.             *)
MatchesWithoutCode(c, a) ==
  CASE c.method = "ListAccounts" ->
         /\ c.emails # None => dir[a].email \in c.emails
         /\ c.wallets # None => dir[a].wallet \in c.wallets
    [] c.method = "GetAccount" ->
         /\ c.id # None => a = c.id
         /\ c.email # None => dir[a].email = Normalize[c.email]
         /\ c.wallet # None => dir[a].wallet = c.wallet

(* FAULT: the address is looked up as it was spelled.                      *)
MatchesAsSpelled(c, a) ==
  CASE c.method = "ListAccounts" ->
         /\ c.emails # None => dir[a].email \in c.emails
         /\ c.wallets # None => dir[a].wallet \in c.wallets
    [] c.method = "GetAccount" ->
         /\ c.id # None => a = c.id
         /\ c.email # None => dir[a].email = c.email
         /\ c.wallet # None => dir[a].wallet = c.wallet
         /\ c.code # None => dir[a].code = c.code

(* The WHERE of accounts, left joined with emails and wallets.             *)
Matches(c, a) ==
  CASE c.method = "ListAccounts" ->
         /\ c.emails # None => dir[a].email \in c.emails
         /\ c.wallets # None => dir[a].wallet \in c.wallets
    [] c.method = "GetAccount" ->
         /\ c.id # None => a = c.id
         /\ c.email # None => dir[a].email = Normalize[c.email]
         /\ c.wallet # None => dir[a].wallet = c.wallet
         /\ c.code # None => dir[a].code = c.code

Hits(c) == {a \in AccountIds : Present(a) /\ Matches(c, a)}

Newer(a, b) == \E i, j \in DOMAIN order : i < j /\ order[i] = a /\ order[j] = b

(* ORDER BY created_at DESC LIMIT: N is what it leaves of S.               *)
NewestOf(N, S) ==
  /\ N \subseteq S /\ Cardinality(N) <= Limit
  /\ N # S => Cardinality(N) = Limit
  /\ \A a \in N, b \in S \ N : Newer(a, b)

(* FAULT: the filter is applied to the newest accounts only.               *)
NewestThenFiltered(N, c) ==
  \E M \in SUBSET AccountIds :
    /\ NewestOf(M, {a \in AccountIds : Present(a)})
    /\ N = {a \in M : Matches(c, a)}

NewestMatches(N, c) == NewestOf(N, Hits(c))

Goto(label) == at' = label

Replies(status) == Goto("replied") /\ reply' = status

Reads(result, label) ==
  /\ rows' = result /\ Goto(label)
  /\ UNCHANGED <<call, reply, before>>

Reject ==
  /\ at = "arrived" /\ Rejected(call)
  /\ Replies("invalid")
  /\ UNCHANGED <<call, rows, before>>

Accepted(method) == at = "arrived" /\ call.method = method /\ ~Rejected(call)

ListAccounts ==
  /\ Accepted("ListAccounts")
  /\ \E N \in SUBSET AccountIds :
       /\ NewestMatches(N, call)
       /\ IF N = {} THEN Replies("ok") /\ UNCHANGED <<call, rows, before>>
          ELSE Reads({RowOf(a) : a \in N}, "emails")

(* LIMIT 1: any row that matches.                                          *)
GetAccount ==
  /\ Accepted("GetAccount")
  /\ IF Hits(call) = {} THEN Replies("notFound") /\ UNCHANGED <<call, rows, before>>
     ELSE \E a \in Hits(call) : Reads({RowOf(a)}, "emails")

(* FAULT: only confirmed addresses are loaded.                             *)
LoadConfirmedEmails ==
  /\ at = "emails"
  /\ Reads({[x EXCEPT !.email = IF Column(x.id, "confirmed") = TRUE
                                  THEN Column(x.id, "email") ELSE None] : x \in rows},
           "wallets")

(* SELECT ... FROM emails WHERE account_id IN (ids), then the same of      *)
(* wallets; each address goes to the row with its account's id.            *)
LoadEmails ==
  /\ at = "emails"
  /\ Reads({[x EXCEPT !.email = Column(x.id, "email")] : x \in rows}, "wallets")

(* FAULT: every row gets the first address.                                *)
LoadFirstWallet ==
  /\ at = "wallets"
  /\ \E y \in rows : rows' = {[x EXCEPT !.wallet = Column(y.id, "wallet")] : x \in rows}
  /\ Replies("ok")
  /\ UNCHANGED <<call, before>>

(* FAULT: the key of the loaded row instead of its address.                *)
LoadWalletOwners ==
  /\ at = "wallets"
  /\ rows' = {[x EXCEPT !.wallet = IF Column(x.id, "wallet") = None THEN None ELSE x.id] :
                x \in rows}
  /\ Replies("ok")
  /\ UNCHANGED <<call, before>>

LoadWallets ==
  /\ at = "wallets"
  /\ rows' = {[x EXCEPT !.wallet = Column(x.id, "wallet")] : x \in rows}
  /\ Replies("ok")
  /\ UNCHANGED <<call, before>>

----------------------------------------------------------------------------
(* TempReferral and GetUserAccount: the link, its account, the other link  *)
(* (of GetUserAccount), the referrer, the referrer's wallet.               *)

Linked(c, a) ==
  IF c.wallet # None THEN OwnsWallet(a, c.wallet)
  ELSE HasAddress(a, Normalize[c.email])

FindLink ==
  /\ Accepted("TempReferral") \/ Accepted("GetUserAccount")
  /\ IF \A a \in AccountIds : ~Linked(call, a)
       THEN Replies("notFound") /\ UNCHANGED <<call, rows, before>>
     ELSE \E a \in AccountIds :
            /\ Linked(call, a)
            /\ Reads({IF call.wallet # None THEN RowWith(a, None, call.wallet)
                      ELSE RowWith(a, Normalize[call.email], None)}, "account")

(* The account was deleted since: the reply is built from a nil account,   *)
(* and nothing recovers the panic.                                         *)
LoadNothing ==
  /\ at = "account" /\ \E x \in rows : ~Present(x.id)
  /\ Replies("died")
  /\ UNCHANGED <<call, rows, before>>

LoadAccount ==
  /\ at = "account"
  /\ \E x \in rows :
       /\ Present(x.id)
       /\ Reads({RowWith(x.id, x.email, x.wallet)},
                IF call.method = "GetUserAccount" THEN "peer" ELSE "referrer")

LoadPeer ==
  /\ at = "peer"
  /\ \E x \in rows :
       Reads({IF call.wallet # None THEN [x EXCEPT !.email = Column(x.id, "email")]
              ELSE [x EXCEPT !.wallet = Column(x.id, "wallet")]}, "referrer")

HasReferrer(x) == x.referredBy # None /\ Present(x.referredBy)

(* FAULT: the referrer's wallet is not loaded with it.                     *)
LoadReferrerOnly ==
  /\ at = "referrer"
  /\ \E x \in rows :
       /\ rows' = {IF HasReferrer(x) THEN [x EXCEPT !.referrer = x.referredBy] ELSE x}
       /\ Replies("ok") /\ UNCHANGED <<call, before>>

LoadReferrer ==
  /\ at = "referrer"
  /\ \E x \in rows :
       IF HasReferrer(x) THEN Reads({[x EXCEPT !.referrer = x.referredBy]}, "referrerWallet")
       ELSE Replies("ok") /\ UNCHANGED <<call, rows, before>>

LoadReferrerWallet ==
  /\ at = "referrerWallet"
  /\ \E x \in rows :
       rows' = {[x EXCEPT !.referrerWallet = Column(x.referrer, "wallet")]}
  /\ Replies("ok")
  /\ UNCHANGED <<call, before>>

----------------------------------------------------------------------------
(* The environment: a call arrives, a query fails, another request takes   *)
(* effect.                                                                 *)

Arrive(c) ==
  /\ at \in {"idle", "replied"}
  /\ call' = c /\ before' = dir /\ rows' = {} /\ reply' = "none"
  /\ Goto("arrived")

QueryFails ==
  /\ at \notin {"idle", "replied"}
  /\ Replies("error")
  /\ UNCHANGED <<call, rows, before>>

Change ==
  /\ \E r \in Requests, a \in AccountIds :
       /\ Effect(r, a)
       /\ IF a \in used THEN order' = order
          ELSE \E i \in 1 .. Len(order) + 1 : order' = InsertAt(order, i, a)
  /\ UNCHANGED readVars

Query ==
  \/ Reject \/ ListAccounts \/ GetAccount \/ LoadEmails \/ LoadWallets
  \/ FindLink \/ LoadNothing \/ LoadAccount \/ LoadPeer
  \/ LoadReferrer \/ LoadReferrerWallet

Init ==
  /\ Empty
  /\ order = <<>> /\ call = None /\ at = "idle" /\ rows = {}
  /\ reply = "none" /\ before = dir

Next ==
  \/ (Query \/ QueryFails \/ \E c \in Calls : Arrive(c)) /\ UNCHANGED <<dir, used, order>>
  \/ Change

Spec == Init /\ [][Next]_vars

----------------------------------------------------------------------------
Row == [id : AccountIds, code : Codes, country : Countries \cup {None},
        referredBy : AccountIds \cup {None}, referredAt : BOOLEAN,
        email : Addresses \cup {None}, wallet : Wallets \cup {None},
        referrer : AccountIds \cup {None}, referrerWallet : Wallets \cup {None}]

(* Rows, call and reply have their types; order lists every id once.       *)
TypeOK ==
  /\ dir \in [AccountIds -> Entry \cup {None}]
  /\ used \subseteq AccountIds
  /\ order \in Seq(AccountIds) /\ ToSet(order) = used /\ IsInjective(order)
  /\ call \in Calls \cup {None}
  /\ at \in {"idle", "arrived", "emails", "wallets", "account", "peer",
             "referrer", "referrerWallet", "replied"}
  /\ rows \subseteq Row
  /\ reply \in {"none", "ok", "invalid", "notFound", "error", "died"}

Ids == {x.id : x \in rows}
Replied(status) == at = "replied" /\ reply = status
Gone(a) == a \in used /\ ~Present(a)

(* Every address a call reports belonged to the account it is reported for,*)
(* and still does unless that account was deleted, although the account,   *)
(* its links and its referrer's come from different snapshots.             *)
ReportedLinksAreReal ==
  \A x \in rows :
    /\ x.email # None => HasAddress(x.id, x.email) \/ Gone(x.id)
    /\ x.wallet # None => OwnsWallet(x.id, x.wallet) \/ Gone(x.id)
    /\ x.referrerWallet # None =>
         /\ x.referredAt
         /\ OwnsWallet(x.referrer, x.referrerWallet) \/ Gone(x.referrer)

(* The account GetAccount returns has the identifier that was asked for; it*)
(* lacks the address or wallet only when it was deleted meanwhile.         *)
ReturnsWhatWasAsked ==
  Replied("ok") /\ call.method = "GetAccount" =>
    \E x \in rows :
       /\ rows = {x}
       /\ call.id # None => x.id = call.id
       /\ call.code # None => x.code = call.code
       /\ call.email # None => x.email = Normalize[call.email] \/ Gone(x.id)
       /\ call.wallet # None => x.wallet = call.wallet \/ Gone(x.id)

Throughout(a) == before[a] # None /\ Present(a)

IdentifiedIn(D, a) ==
  /\ D[a] # None
  /\ "id" \in Given(call) => a = call.id
  /\ "code" \in Given(call) => D[a].code = call.code
  /\ "email" \in Given(call) => D[a].email = Normalize[call.email]
  /\ "wallet" \in Given(call) => D[a].wallet = call.wallet

(* An account that has the identifier during the whole call is found.      *)
FoundIfThere ==
  Replied("notFound") =>
    ~\E a \in AccountIds : IdentifiedIn(before, a) /\ IdentifiedIn(dir, a)

(* A reply is not older than its call: what an account that lives through  *)
(* the call had at its start is in the reply.                              *)
ReplyCoversStart ==
  Replied("ok") /\ call.method # "TempReferral" =>
    \A x \in rows : Throughout(x.id) =>
      /\ before[x.id].email # None => x.email = before[x.id].email
      /\ before[x.id].wallet # None => x.wallet = before[x.id].wallet

(* ListAccounts cuts off the oldest matches only: an account that matches  *)
(* from start to end is missing only when Limit newer ones are returned.   *)
OnlyOldestMissing ==
  \A a \in AccountIds :
    /\ Throughout(a)
    /\ call.emails # None => before[a].email \in call.emails
    /\ call.wallets # None => before[a].wallet \in call.wallets
    /\ a \notin Ids
    => Cardinality(Ids) = Limit /\ \A b \in Ids : Newer(b, a)

ListIsNewest ==
  Replied("ok") /\ call.method = "ListAccounts" => OnlyOldestMissing

(* "It's possible for this to be empty while ReferredAt is not, in the case*)
(* when the referring user has deleted their account" (models.go:34): and  *)
(* in no other case.                                                       *)
ReferrerHiddenOnlyIfGone ==
  Replied("ok") /\ call.method \in {"TempReferral", "GetUserAccount"} =>
    \A x \in rows :
      x.referredBy # None /\ x.referrerWallet = None => Gone(x.referredBy)

----------------------------------------------------------------------------
(* Why these hold: what every query leaves behind for the next ones.       *)

(* Accounts that were there when the call arrived keep their links and     *)
(* codes, or are gone for good.                                            *)
BeforeLasts ==
  /\ before \in [AccountIds -> Entry \cup {None}]
  /\ \A a \in AccountIds : before[a] # None =>
       /\ a \in used
       /\ Present(a) =>
            /\ before[a].email # None => dir[a].email = before[a].email
            /\ before[a].wallet # None => dir[a].wallet = before[a].wallet
            /\ dir[a].code = before[a].code

(* What a row says of an account, and of its referrer, is still so, or the *)
(* account is gone.  A referrer has a wallet while it lives.               *)
RowReal(x) ==
  /\ x.id \in used
  /\ x.email # None => HasAddress(x.id, x.email) \/ Gone(x.id)
  /\ x.wallet # None => OwnsWallet(x.id, x.wallet) \/ Gone(x.id)
  /\ x.referredBy # None =>
       /\ x.referredAt /\ x.referredBy \in used
       /\ Present(x.referredBy) => dir[x.referredBy].wallet # None
  /\ x.referrer \in {None, x.referredBy}
  /\ x.referrerWallet # None =>
       /\ x.referrer # None
       /\ OwnsWallet(x.referrer, x.referrerWallet) \/ Gone(x.referrer)

(* The rows of a call that has not failed.                                 *)
Reading ==
  \/ at \in {"emails", "wallets", "account", "peer", "referrer", "referrerWallet"}
  \/ Replied("ok")

Single == \E x \in rows : rows = {x}

(* The queries come in the order of their method; all but ListAccounts read*)
(* one account.                                                            *)
ControlFits ==
  /\ at # "idle" => call \in Calls
  /\ at \in {"idle", "arrived"} => rows = {} /\ reply = "none"
  /\ at \in {"emails", "wallets"} => call.method \in {"ListAccounts", "GetAccount"}
  /\ at \in {"account", "peer", "referrer", "referrerWallet"} =>
       call.method \in {"TempReferral", "GetUserAccount"}
  /\ at = "peer" => call.method = "GetUserAccount"
  /\ at = "referrerWallet" => \A x \in rows : x.referrer # None
  /\ Replied("ok") /\ call.method \in {"TempReferral", "GetUserAccount"} =>
       \A x \in rows : x.referredBy # None /\ x.referrerWallet = None => Gone(x.referredBy)
  /\ Reading => ~Rejected(call) /\ (call.method # "ListAccounts" => Single)

(* A row lacks a link that its account had all along only before the query *)
(* for it; the link that GetUserAccount was called with is there at once.  *)
LinksLoaded ==
  /\ at \in {"account", "peer"} =>
       \A x \in rows : IF call.wallet # None THEN x.wallet # None ELSE x.email # None
  /\ /\ at \in {"wallets", "referrer", "referrerWallet"} \/ Replied("ok")
     /\ call.method # "TempReferral"
     => \A x \in rows : Throughout(x.id) /\ before[x.id].email # None => x.email # None
  /\ /\ at \in {"referrer", "referrerWallet"} \/ Replied("ok")
     /\ call.method # "TempReferral"
     => \A x \in rows : Throughout(x.id) /\ before[x.id].wallet # None => x.wallet # None

(* The account of GetAccount is the one asked for as long as it lives, and *)
(* so are the links that are loaded after it.                              *)
AskedFor ==
  Reading /\ call.method = "GetAccount" =>
    \A x \in rows :
      /\ call.id # None => x.id = call.id
      /\ call.code # None => x.code = call.code
      /\ call.email # None => \/ Gone(x.id)
                              \/ /\ HasAddress(x.id, Normalize[call.email])
                                 /\ at = "emails" \/ x.email = Normalize[call.email]
      /\ call.wallet # None => \/ Gone(x.id)
                               \/ /\ OwnsWallet(x.id, call.wallet)
                                  /\ at \in {"emails", "wallets"} \/ x.wallet = call.wallet

(* Whoever had the identifier from the start of a call that has not found  *)
(* it is gone.                                                             *)
NotFoundHolds ==
  Replied("notFound") => \A a \in AccountIds : IdentifiedIn(before, a) => ~Present(a)

ReadsInvariant ==
  /\ TypeOK /\ EntriesTyped /\ EntriesConsistent
  /\ BeforeLasts /\ (\A x \in rows : RowReal(x))
  /\ ControlFits /\ LinksLoaded /\ AskedFor /\ NotFoundHolds
  /\ Reading /\ call.method = "ListAccounts" => OnlyOldestMissing

=============================================================================
