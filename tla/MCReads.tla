------------------------------ MODULE MCReads ------------------------------
(* A small instance of Reads for TLC: every kind of call, while accounts    *)
(* are created, linked, referred and deleted.                               *)
EXTENDS Reads, TLC

CONSTANTS e1, upperE1, w1, w2

Ask(ops, creds, args) ==
  {[op |-> op, cred |-> cred, arg |-> arg] : op \in ops, cred \in creds, arg \in args}

Lower == [e \in Addresses |-> IF e = upperE1 THEN e1 ELSE e]

(* Everything that happens to the accounts while they are read.             *)
Changes ==
  Ask({"CreateAccount"}, {w1, w2, e1}, {None})
    \cup Ask({"LinkEmail", "LinkEmailToken"}, {w1}, {upperE1})
    \cup Ask({"LinkWalletToken"}, {e1}, {w1})
    \cup Ask({"SubmitReferralCode"}, {w1}, Codes)
    \cup Ask({"DeleteUser"}, {w1, w2}, {None})

(* Accounts are listed,                                                     *)
ListCalls ==
  [method : {"ListAccounts"}, emails : {None, {e1}},
   wallets : {None, {w1, w2}, {w2}, Malformed}]

(* one is looked up by each identifier, by two of them, by none, by claims, *)
Get(ids, emails, wallets, codes) ==
  [method : {"GetAccount"}, id : ids, email : emails, wallet : wallets, code : codes]

GetCalls ==
  Get(AccountIds, {None}, {None}, {None})
    \cup Get({None}, {upperE1}, {None, w1}, {None})
    \cup Get({None}, {None}, {w1, Malformed}, {None})
    \cup Get({None}, {None}, {None}, Codes \cup {None})
    \cup [method : {"GetUserAccount"}, email : {None, e1}, wallet : {None, w1}]

(* or one is read with its referrer and the referrer's wallet.              *)
ReferralCalls ==
  [method : {"TempReferral"}, wallet : {w1, Malformed}]
    \cup [method : {"GetUserAccount"}, email : {None}, wallet : {w1}]

CallsOf(name) ==
  CASE name = "list" -> ListCalls [] name = "get" -> GetCalls [] name = "referral" -> ReferralCalls

AllCalls == {c : c \in UNION {CallsOf(name) : name \in {"list", "get", "referral"}}}

(* Accounts a scenario leaves out, because its calls do not look at them.   *)
Outside(name, entry) ==
  CASE name = "list"     -> entry.referredAt \/ (entry.confirmed /\ entry.wallet # None)
    [] name = "get"      -> entry.referredAt \/ entry.wallet = w2
    [] name = "referral" -> entry.email # None

VARIABLE scenario

(* Three accounts at a time are listed, two are enough for the others.      *)
Follows ==
  /\ call' \in CallsOf(scenario) \cup {None}
  /\ \A a \in AccountIds : (Present(a) => ~Outside(scenario, dir[a]))'
  /\ scenario # "list" => Cardinality({a \in AccountIds : Present(a)}') <= 2

ScenarioInit == Init /\ scenario \in {"list", "get", "referral"}

ScenarioSpec ==
  ScenarioInit /\ [][Next /\ UNCHANGED scenario /\ Follows]_<<vars, scenario>>

Symmetry == Permutations(AccountIds) \cup Permutations(Codes)
=============================================================================
