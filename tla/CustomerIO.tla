----------------------------- MODULE CustomerIO -----------------------------
(***************************************************************************)
(* What Customer.io learns of the accounts.  After a link is committed the *)
(* handler gives an Identify message to the analytics client of its        *)
(* process, which keeps it in memory, sends its batches concurrently and   *)
(* gives up after some retries.  Nothing is stored: a process that dies    *)
(* between the commit and the delivery takes the message with it, and main *)
(* never closes the client.                                                *)
(*                                                                         *)
(* The accounts are the entries of Entries.  Customer.io and the client    *)
(* library are not in this repository; they keep, per user id, the traits  *)
(* that arrived last.                                                      *)
(***************************************************************************)
EXTENDS Entries, FiniteSets, Integers

CONSTANTS Replicas,   \* processes
          Disabled,   \* DISABLE_CUSTOMER_IO_EVENTS: main installs noOpCIO
          MaxMoving   \* bound: messages on their way at one time

ASSUME CustomerIOAssumption == Disabled \in BOOLEAN /\ MaxMoving \in Nat

VARIABLES telling,    \* calls of SetEmail and SetWallet about to be made
          moving,     \* messages in the client of each process
          profile,    \* the traits of each user at Customer.io
          delivered,  \* every message that arrived
          lost,       \* every message that was given up
          freed       \* wallets that a deleted account has had

cioVars == <<telling, moving, profile, delivered, lost, freed>>
vars == <<dir, used, cioVars>>

(* UserId is the wallet.  The account, and the process, are not sent.      *)
Message(p, w, e, a) == [process |-> p, user |-> w, email |-> e, account |-> a]

NoProfile == [known |-> FALSE, email |-> None]

----------------------------------------------------------------------------
(* Every message so far, and those of one account.                         *)
Sent == telling \cup moving \cup delivered \cup lost
About(a) == {m \in Sent : m.account = a}

(* FAULT, for a mutant: the address is told as it was spelled.             *)
CallsAsSpelled(p, r, a) ==
  IF r.op \in {"LinkEmail", "LinkEmailToken"} /\ r.cred \in Wallets
    THEN {Message(p, r.cred, r.arg, a)}
  ELSE IF r.op = "LinkWalletToken" THEN {Message(p, r.arg, None, a)}
  ELSE {}

(* FAULT: LinkEmail does not tell, since its email is not confirmed.       *)
CallsWhenConfirmed(p, r, a) ==
  IF r.op = "LinkEmailToken" /\ r.cred \in Wallets
    THEN {Message(p, r.cred, Normalize[r.arg], a)}
  ELSE IF r.op = "LinkWalletToken" THEN {Message(p, r.arg, None, a)}
  ELSE {}

(* What the handler of r tells after its commit: the email, when the caller*)
(* came with a wallet; the wallet that was linked, but not the email that  *)
(* the account already had.                                                *)
Calls(p, r, a) ==
  IF r.op \in {"LinkEmail", "LinkEmailToken"} /\ r.cred \in Wallets
    THEN {Message(p, r.cred, Normalize[r.arg], a)}
  ELSE IF r.op = "LinkWalletToken" THEN {Message(p, r.arg, None, a)}
  ELSE {}

(* The request may take effect on a.  CreateAccount has told the wallet of *)
(* its new id, and its call has returned; any other request takes effect on*)
(* the account of its token, which it found earlier: a live account keeps  *)
(* its links (FoundIsStillDenoted of DirectoryProofs).                     *)
Commits(p, r, a) ==
  LET first == Message(p, r.cred, None, a)
  IN IF r.op = "CreateAccount"
       THEN /\ About(a) = IF r.cred \in Wallets THEN {first} ELSE {}
            /\ first \notin telling
     ELSE Denotes(r.cred, a)

(* FAULT: the handler tells before it commits, and may then roll back.     *)
LinkOrOnlyTell(p, r, a) ==
  /\ Commits(p, r, a)
  /\ Effect(r, a) \/ (r.op = "LinkEmail" /\ UNCHANGED directory)
  /\ telling' = telling \cup Calls(p, r, a)

Link(p, r, a) ==
  /\ Commits(p, r, a)
  /\ Effect(r, a)
  /\ telling' = telling \cup Calls(p, r, a)

Commit(p) ==
  /\ \E r \in Requests, a \in AccountIds :
       /\ Link(p, r, a)
       /\ freed' = IF r.op = "DeleteUser" /\ dir[a].wallet # None
                     THEN freed \cup {dir[a].wallet} ELSE freed
  /\ UNCHANGED <<moving, profile, delivered, lost>>

(* CreateAccount tells the wallet before its commit, which may not happen: *)
(* its id, a new one for every attempt, is then the id of no account.      *)
TellFirst(p) ==
  /\ \E r \in Requests, a \in AccountIds \ used :
       /\ r.op = "CreateAccount" /\ r.cred \in Wallets /\ NobodyHas(r)
       /\ About(a) = {}
       /\ telling' = telling \cup {Message(p, r.cred, None, a)}
  /\ UNCHANGED <<directory, moving, profile, delivered, lost, freed>>

(* SetEmail and SetWallet.  An error is logged and the message lost; so it *)
(* is when a commit succeeds without its answer and the handler returns the*)
(* error.  The client that does nothing loses them all.                    *)
Enqueue(m) ==
  /\ telling' = telling \ {m}
  /\ \/ ~Disabled /\ moving' = moving \cup {m} /\ UNCHANGED lost
     \/ lost' = lost \cup {m} /\ UNCHANGED moving
  /\ UNCHANGED <<directory, profile, delivered, freed>>

Deliver(m) ==
  /\ moving' = moving \ {m}
  /\ profile' = [profile EXCEPT ![m.user] =
       [known   |-> TRUE,
        email   |-> IF m.email = None THEN profile[m.user].email ELSE m.email]]
  /\ delivered' = delivered \cup {m}
  /\ UNCHANGED <<directory, telling, lost, freed>>

GiveUp(m) ==
  /\ moving' = moving \ {m}
  /\ lost' = lost \cup {m}
  /\ UNCHANGED <<directory, telling, profile, delivered, freed>>

ReplicaDies(p) ==
  LET gone == {m \in telling \cup moving : m.process = p}
  IN /\ gone # {}
     /\ telling' = telling \ gone
     /\ moving' = moving \ gone
     /\ lost' = lost \cup gone
     /\ UNCHANGED <<directory, profile, delivered, freed>>

Init ==
  /\ Empty
  /\ telling = {} /\ moving = {} /\ delivered = {} /\ lost = {} /\ freed = {}
  /\ profile = [w \in Wallets |-> NoProfile]

Room == Cardinality(telling \cup moving) < MaxMoving

Next ==
  \/ \E p \in Replicas :
       (Room /\ (Commit(p) \/ TellFirst(p))) \/ ReplicaDies(p)
  \/ \E m \in telling : Enqueue(m)
  \/ \E m \in moving : Deliver(m) \/ GiveUp(m)

Spec == Init /\ [][Next]_vars

Messages == [process : Replicas, user : Wallets,
             email : Addresses \cup {None}, account : AccountIds]

(* A handler that has committed goes on to its call; the client tries what *)
(* it holds until it arrives or is given up.                               *)
FairSpec ==
  /\ Spec
  /\ \A m \in Messages :
       /\ WF_vars(m \in telling /\ Enqueue(m))
       /\ WF_vars(m \in moving /\ (Deliver(m) \/ GiveUp(m)))

----------------------------------------------------------------------------
TypeOK ==
  /\ dir \in [AccountIds -> Entry \cup {None}]
  /\ telling \cup moving \cup delivered \cup lost \subseteq Messages
  /\ profile \in [Wallets -> [known : BOOLEAN, email : Addresses \cup {None}]]
  /\ freed \subseteq Wallets

(* The email Customer.io has for a wallet is the email of the wallet's     *)
(* account, whatever order messages arrive in, as long as no account with  *)
(* this wallet has been deleted.                                           *)
EmailIsCurrent ==
  \A w \in Wallets \ freed :
    profile[w].email # None =>
      \E a \in AccountIds : OwnsWallet(a, w) /\ HasAddress(a, profile[w].email)

(* What is on its way, or arrived, of an account that exists is true of it:*)
(* no message speaks of an email that was not committed, nor of a wallet   *)
(* that another account got although it was told before the commit.        *)
MessagesAreTrue ==
  \A m \in telling \cup moving \cup delivered :
    Present(m.account) =>
      /\ OwnsWallet(m.account, m.user)
      /\ m.email # None => HasAddress(m.account, m.email)

(* Why these hold: a message is of an id that is not given out again.  It  *)
(* is true until its account is deleted, which frees the wallet it names;  *)
(* before its account is committed it names no email.                      *)
Accounted(m) ==
  \/ m.account \notin used /\ m.email = None
  \/ /\ m.account \in used /\ OwnsWallet(m.account, m.user)
     /\ m.email # None => HasAddress(m.account, m.email)
  \/ m.account \in used /\ ~Present(m.account) /\ m.user \in freed

MessagesInvariant ==
  /\ TypeOK /\ EntriesTyped /\ EntriesConsistent
  /\ \A m \in telling \cup moving \cup delivered : Accounted(m)
  /\ EmailIsCurrent

Heard(w, e, a) == \E m \in delivered \cup lost : m.user = w /\ m.email = e /\ m.account = a

(* From the commit on: every wallet that an account has is told, and every *)
(* email that is linked to an account with a wallet, unless a failed call, *)
(* the retry limit or a dead process has lost the message.  The email of an*)
(* account that had it before its wallet is not told by any handler.       *)
ToldOrLost ==
  \A a \in AccountIds, w \in Wallets :
    /\ OwnsWallet(a, w) ~> Heard(w, None, a)
    /\ \A e \in Addresses :
         [](OwnsWallet(a, w) /\ dir[a].email = None => (HasAddress(a, e) ~> Heard(w, e, a)))

=============================================================================
