------------------------------ MODULE Entries ------------------------------
(***************************************************************************)
(* The accounts as clients see them, and what each request does to them:   *)
(* one entry per account, one effect per request, no tables, statements,   *)
(* transactions or locks.  Directory adds the requests and their answers,  *)
(* Reads the queries that look at the entries while they change.           *)
(***************************************************************************)
CONSTANTS AccountIds, Addresses, Wallets, Codes, Countries, None,
          Requests,        \* [op, cred, arg]: what clients may ask
          Normalize,       \* the spelling an address is kept in
          WellFormed,      \* addresses LinkEmail takes
          KnownCountries   \* countries UpdateUser takes

VARIABLES dir,   \* the entry of each account; None when there is none
          used   \* account ids given out so far

directory == <<dir, used>>

Entry == [email       : Addresses \cup {None},
          confirmed   : BOOLEAN,
          wallet      : Wallets \cup {None},
          code        : Codes,
          country     : Countries \cup {None},
          referredBy  : AccountIds \cup {None},
          referredAt  : BOOLEAN,
          acceptedTos : BOOLEAN]

(* What a request carries besides its token.                               *)
ArgumentsOf(op) ==
  CASE op = "LinkEmail" -> Addresses
    [] op = "LinkEmailToken" -> Addresses \cup {None}
    [] op = "LinkWalletToken" -> Wallets \cup {None}
    [] op = "SubmitReferralCode" -> Codes \cup {None}
    [] op = "UpdateUser" -> Countries \cup {None}
    [] OTHER -> {None}

ASSUME EntriesAssumption ==
  /\ None \notin AccountIds \cup Addresses \cup Wallets \cup Codes \cup Entry
  /\ Addresses \cap Wallets = {}
  /\ Normalize \in [Addresses -> Addresses]
  /\ KnownCountries \subseteq Countries
  /\ \A r \in Requests : r.cred \in Addresses \cup Wallets /\ r.arg \in ArgumentsOf(r.op)

Present(a) == dir[a] # None

HasAddress(a, e) == Present(a) /\ dir[a].email = e
OwnsWallet(a, w) == Present(a) /\ dir[a].wallet = w
OwnsCode(a, c)   == Present(a) /\ dir[a].code = c

Denotes(cred, a) ==
  IF cred \in Wallets THEN OwnsWallet(a, cred) ELSE HasAddress(a, Normalize[cred])

----------------------------------------------------------------------------
(* No account has this wallet or address.                                  *)
NobodyHas(r) == \A b \in AccountIds : ~Denotes(r.cred, b)

(* The effect of each request on the account it acts on.                   *)

Put(a, entry) == dir' = [dir EXCEPT ![a] = entry] /\ UNCHANGED used

NewEntry(cred, c) ==
  [email       |-> IF cred \in Wallets THEN None ELSE Normalize[cred],
   confirmed   |-> cred \notin Wallets,
   wallet      |-> IF cred \in Wallets THEN cred ELSE None,
   code        |-> c,
   country     |-> None,
   referredBy  |-> None,
   referredAt  |-> FALSE,
   acceptedTos |-> FALSE]

Create(r, a) ==
  /\ r.op = "CreateAccount"
  /\ a \notin used
  /\ NobodyHas(r)
  /\ \E c \in Codes :
       /\ \A b \in AccountIds : ~OwnsCode(b, c)
       /\ dir' = [dir EXCEPT ![a] = NewEntry(r.cred, c)]
  /\ used' = used \cup {a}

SetCountry(r, a) ==
  /\ r.op = "UpdateUser" /\ r.arg \in KnownCountries
  /\ Put(a, [dir[a] EXCEPT !.country = r.arg])

AcceptTerms(r, a) ==
  /\ r.op = "AcceptTOS"
  /\ Put(a, [dir[a] EXCEPT !.acceptedTos = TRUE])

RemoveEntry(r, a) ==
  /\ r.op = "DeleteUser"
  /\ dir' = [b \in AccountIds |->
               IF b = a THEN None
               ELSE IF Present(b) /\ dir[b].referredBy = a
                 THEN [dir[b] EXCEPT !.referredBy = None]
               ELSE dir[b]]
  /\ UNCHANGED used

(* FAULT, for a mutant: an account that has confirmed the address is not   *)
(* looked for.                                                             *)
FreeUnlessConfirmed(e, a) ==
  \A b \in AccountIds \ {a} : ~(HasAddress(b, e) /\ ~dir[b].confirmed)

FreeAddress(e, a) == \A b \in AccountIds \ {a} : ~HasAddress(b, e)

AddEmail(r, a) ==
  /\ r.op = "LinkEmail" /\ Normalize[r.arg] \in WellFormed
  /\ dir[a].email = None
  /\ FreeAddress(Normalize[r.arg], a)
  /\ Put(a, [dir[a] EXCEPT !.email = Normalize[r.arg]])

AddConfirmedEmail(r, a) ==
  /\ r.op = "LinkEmailToken" /\ r.arg # None
  /\ ~dir[a].confirmed
  /\ dir[a].email \in {None, Normalize[r.arg]}
  /\ FreeAddress(Normalize[r.arg], a)
  /\ Put(a, [dir[a] EXCEPT !.email = Normalize[r.arg], !.confirmed = TRUE])

AddWallet(r, a) ==
  /\ r.op = "LinkWalletToken" /\ r.arg # None
  /\ dir[a].email # None /\ dir[a].wallet = None
  /\ \A b \in AccountIds : ~OwnsWallet(b, r.arg)
  /\ Put(a, [dir[a] EXCEPT !.wallet = r.arg])

SetReferrer(r, a) ==
  /\ r.op = "SubmitReferralCode"
  /\ \E b \in AccountIds \ {a} :
       /\ OwnsCode(b, r.arg)
       /\ dir[a].wallet # None /\ dir[b].wallet # None
       /\ Put(a, [dir[a] EXCEPT !.referredBy = b, !.referredAt = TRUE])

Effect(r, a) ==
  \/ Create(r, a)
  \/ /\ Present(a)
     /\ \/ SetCountry(r, a) \/ AcceptTerms(r, a) \/ RemoveEntry(r, a)
        \/ AddEmail(r, a) \/ AddConfirmedEmail(r, a)
        \/ AddWallet(r, a) \/ SetReferrer(r, a)

----------------------------------------------------------------------------
EntriesTyped == dir \in [AccountIds -> Entry \cup {None}] /\ used \subseteq AccountIds

(* No two accounts share an address, a wallet or a code.                   *)
NothingShared ==
  \A a, b \in AccountIds : Present(a) /\ Present(b) /\ a # b =>
    /\ dir[a].email # None => dir[a].email # dir[b].email
    /\ dir[a].wallet # None => dir[a].wallet # dir[b].wallet
    /\ dir[a].code # dir[b].code

(* Every account has an address or wallet that denotes it; only an address *)
(* is confirmed; ids are not used again.                                   *)
AllReachable ==
  \A a \in AccountIds : Present(a) =>
    /\ a \in used
    /\ dir[a].email # None \/ dir[a].wallet # None
    /\ dir[a].confirmed => dir[a].email # None

(* The referrer of an account is another account; both have wallets.       *)
ReferrersReal ==
  \A a \in AccountIds : Present(a) /\ dir[a].referredBy # None =>
    LET b == dir[a].referredBy
    IN /\ b # a /\ Present(b)
       /\ dir[a].referredAt
       /\ dir[a].wallet # None /\ dir[b].wallet # None

(* Whatever requests take effect, in whatever order, the accounts stay     *)
(* consistent.                                                             *)
EntriesConsistent == NothingShared /\ AllReachable /\ ReferrersReal

Empty == dir = [a \in AccountIds |-> None] /\ used = {}

=============================================================================
