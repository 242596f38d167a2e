-------------------------- MODULE AccountsImplement --------------------------
(***************************************************************************)
(* The nine handlers over the tables implement the Directory: the refinement*)
(* mapping.  The directory is the committed rows of the three tables; a     *)
(* request takes effect when its transaction commits, when its UPDATE       *)
(* outside a transaction runs, or, if it has nothing to do, when it reads   *)
(* the row that says so.                                                    *)
(***************************************************************************)
EXTENDS Accounts

LinkedEmail(a)  == TheOne({e \in Addresses : EmailOf(emails[e], a)})
LinkedWallet(a) == TheOne({w \in Wallets : wallets[w] = a})
HasConfirmed(a) == \E e \in Addresses : EmailOf(emails[e], a) /\ emails[e].confirmed

EntryOf(a) ==
  IF accounts[a] = None THEN None
  ELSE [email       |-> LinkedEmail(a),
        confirmed   |-> HasConfirmed(a),
        wallet      |-> LinkedWallet(a),
        code        |-> accounts[a].code,
        country     |-> accounts[a].country,
        referredBy  |-> accounts[a].referredBy,
        referredAt  |-> accounts[a].referredAt,
        acceptedTos |-> accounts[a].acceptedTos]

(* The row that was read already is what the request asks for.             *)
SatisfiedByRow(s) ==
  \/ Op(s) \in {"GetUserAccount", "LinkEmail"}
  \/ Op(s) = "UpdateUser" /\ Arg(s) = None
  \/ Op(s) = "UpdateUser" /\ Arg(s) \in KnownCountries /\ local[s].row.country = Arg(s)
  \/ Op(s) = "AcceptTOS" /\ local[s].row.acceptedTos

HasRow(s) == pc[s] \in {"loadPeer", "loaded"}

PhaseOf(s) ==
  CASE pc[s] = "idle" -> "idle"
    [] pc[s] = "done" -> "answered"
    [] pc[s] = "start" -> "asked"
    [] pc[s] = "tell" -> "performed"
    [] pc[s] \notin {"idle", "done", "start", "tell"} ->
         IF Op(s) = "CreateAccount"
           THEN IF pc[s] = "findLink" \/ pc[s] = "loadAccount" \/ HasRow(s)
                  THEN "performed" ELSE "asked"
         ELSE IF HasRow(s) /\ SatisfiedByRow(s) THEN "performed" ELSE "found"

Promise == INSTANCE Directory WITH
  dir     <- [a \in AccountIds |-> EntryOf(a)],
  used    <- issued,
  request <- ask,
  phase   <- [s \in Sessions |-> PhaseOf(s)],
  target  <- [s \in Sessions |->
                IF PhaseOf(s) = "found" THEN Acct(s) ELSE None]

(* No entry is taken for NULL.                                            *)
ASSUME NullIsNoEntry == None \notin Promise!Entry

(* Every request takes effect at most once, in one step, on the account its*)
(* token denotes: nothing else ever changes an account; a success is told  *)
(* only after the effect; a refusal has a reason and no effect.            *)
KeepsThePromise == Promise!DirSpec

=============================================================================
