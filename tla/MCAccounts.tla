----------------------------- MODULE MCAccounts -----------------------------
(* Small instances of Accounts, and of its refinement of the Directory, for*)
(* TLC.  In each scenario clients send a subset of the requests, chosen so *)
(* that the handlers it is about meet.                                     *)
EXTENDS AccountsImplement, HandlersInvariants, TLC

CONSTANTS e1, upperE1, e2, e3,   \* upperE1 is another spelling of e1
          w1, w2, w3, usa, zzz

Ask(ops, creds, args) ==
  {[op |-> op, cred |-> cred, arg |-> arg] : op \in ops, cred \in creds, arg \in args}

Lower == [e \in Addresses |-> IF e = upperE1 THEN e1 ELSE e]

OneReplica  == [s \in Sessions |-> "replica"]
TwoReplicas == [s \in Sessions |-> s]

(* Emails linked, confirmed, contested and deleted.                        *)
EmailRequests ==
  Ask({"CreateAccount"}, {upperE1, w1}, {None})
    \cup Ask({"DeleteUser"}, {e1, w1}, {None})
    \cup Ask({"LinkEmail", "LinkEmailToken"}, {w1}, {upperE1, e2})
    \cup Ask({"LinkEmailToken"}, {e1}, {e1, e2, None})

(* Wallets linked, contested and deleted.                                  *)
WalletRequests ==
  Ask({"CreateAccount"}, {e1, e3, w1}, {None})
    \cup Ask({"DeleteUser"}, {w1}, {None})
    \cup Ask({"LinkWalletToken"}, {e1}, {w1, w2, None})
    \cup Ask({"LinkWalletToken"}, {e3}, {w1})

(* An email and a wallet that are linked, confirmed and deleted.            *)
LinkRequests ==
  Ask({"CreateAccount"}, {w1, e1}, {None})
    \cup Ask({"DeleteUser"}, {w1}, {None})
    \cup Ask({"LinkEmail", "LinkEmailToken"}, {w1}, {e1})
    \cup Ask({"LinkWalletToken"}, {e1}, {w1})

(* A wallet's account that is read, updated and deleted.                    *)
OwnerRequests ==
  Ask({"CreateAccount", "GetUserAccount", "AcceptTOS", "DeleteUser"}, {w1}, {None})
    \cup Ask({"UpdateUser"}, {w1}, {usa, zzz})

(* Wallets that refer each other and are deleted.                           *)
ReferRequests ==
  Ask({"CreateAccount"}, {w1, w2, e1}, {None})
    \cup Ask({"DeleteUser"}, {w1}, {None})
    \cup Ask({"SubmitReferralCode"}, {w1, w2}, Codes)

(* Three wallets that refer each other, and one with two referrers.        *)
CycleRequests ==
  Ask({"CreateAccount"}, {w1, w2, w3}, {None})
    \cup Ask({"SubmitReferralCode"}, {w1, w2, w3}, Codes)
TwiceRequests ==
  Ask({"CreateAccount"}, {w1, w2, w3}, {None})
    \cup Ask({"SubmitReferralCode"}, {w1}, Codes)

(* An account that is read while it is deleted.                           *)
DeletedRequests == Ask({"CreateAccount", "GetUserAccount", "DeleteUser"}, {w1}, {None})

(* Requests that wait for each other's locks on one account, for liveness. *)
LockRequests ==
  Ask({"CreateAccount", "DeleteUser"}, {w1}, {None})
    \cup Ask({"LinkEmailToken"}, {w1}, {e1})
    \cup Ask({"CreateAccount"}, {e1}, {None})

LinksScenarios   == [emails |-> EmailRequests, wallets |-> WalletRequests]
PromiseScenarios == [links |-> LinkRequests, owner |-> OwnerRequests, referrals |-> ReferRequests]
LockScenario     == [locks |-> LockRequests]
CycleScenario    == [cycle |-> CycleRequests]
TwiceScenario    == [twice |-> TwiceRequests]
DeletedScenario  == [deleted |-> DeletedRequests]

Symmetry == Permutations(AccountIds) \cup Permutations(Codes)
              \cup Permutations(Sessions)
=============================================================================
