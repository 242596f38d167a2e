----------------------------- MODULE Directory -----------------------------
(***************************************************************************)
(* What accounts-api promises its clients: a directory of accounts on      *)
(* which every request takes effect at most once, in one step, between its *)
(* arrival and its answer.  There are no tables, statements, transactions  *)
(* or locks here.  Module AccountsImplement shows that the handlers keep   *)
(* this promise.                                                           *)
(*                                                                         *)
(* Two steps of a request are visible.  It is found the account it acts on,*)
(* and later it takes effect on that account, or on nothing when the       *)
(* account was deleted in between.                                         *)
(***************************************************************************)
EXTENDS Entries

CONSTANT Sessions

VARIABLES request,  \* the request each session serves
          phase,    \* how far it has come
          target,   \* the account it has been found, until it takes effect
          answer    \* what its client was told

dirVars == <<dir, used, request, phase, target, answer>>

(* The account already is what the request asks for.                       *)
Satisfied(r, a) ==
  \/ r.op = "GetUserAccount"
  \/ r.op = "UpdateUser" /\ r.arg \in {None, dir[a].country}
  \/ r.op = "AcceptTOS" /\ dir[a].acceptedTos
  \/ r.op = "LinkEmail" /\ dir[a].email = Normalize[r.arg]

(* The only requests that succeed on an account that is gone.              *)
Forgiving == {"UpdateUser", "AcceptTOS", "DeleteUser", "SubmitReferralCode"}

----------------------------------------------------------------------------
(* Why a request may be refused.                                           *)

EmailTaken(r, a) ==
  \/ dir[a].email \notin {None, Normalize[r.arg]}
  \/ ~FreeAddress(Normalize[r.arg], a)

BadEmail(r, a) ==
  \/ r.op = "LinkEmail" /\ (Normalize[r.arg] \notin WellFormed \/ EmailTaken(r, a))
  \/ /\ r.op = "LinkEmailToken"
     /\ r.arg = None \/ EmailTaken(r, a) \/ dir[a].confirmed

BadReferral(r, a) ==
  \/ r.arg = None
  \/ dir[a].referredAt
  \/ \A b \in AccountIds : OwnsCode(b, r.arg) => b = a \/ dir[b].referredAt

MayRefuse(s) ==
  LET r == request[s]
      a == target[s]
  IN \/ r.op = "CreateAccount" /\ phase[s] = "asked" /\ ~NobodyHas(r)
     \/ r.op = "CreateAccount" /\ phase[s] = "performed" /\ NobodyHas(r)
     \/ r.op # "CreateAccount" /\ phase[s] = "asked" /\ NobodyHas(r)
     \/ /\ phase[s] = "asked"
        /\ \E b \in AccountIds : Denotes(r.cred, b) /\ BadEmail(r, b)
     \/ /\ phase[s] = "found"
        /\ \/ ~Present(a)
           \/ r.op = "UpdateUser" /\ r.arg \notin KnownCountries \cup {None}
           \/ r.op = "LinkWalletToken" /\ (r.arg = None \/ dir[a].wallet # None)
           \/ r.op = "SubmitReferralCode" /\ BadReferral(r, a)

----------------------------------------------------------------------------
Active(s) == phase[s] \in {"asked", "found", "performed"}

Goes(s, p, a) ==
  /\ phase' = [phase EXCEPT ![s] = p]
  /\ target' = [target EXCEPT ![s] = a]

Receive(s) ==
  /\ ~Active(s)
  /\ Goes(s, "asked", None)
  /\ answer' = [answer EXCEPT ![s] = "none"]
  /\ \E r \in Requests : request' = [request EXCEPT ![s] = r]
  /\ UNCHANGED directory

Find(s) ==
  /\ phase[s] = "asked" /\ request[s].op # "CreateAccount"
  /\ \E a \in AccountIds : Denotes(request[s].cred, a) /\ Goes(s, "found", a)
  /\ UNCHANGED <<directory, request, answer>>

(* The effect may be reported at once, in a later step, or never.          *)
Performed(s) ==
  /\ \/ Goes(s, "performed", None) /\ UNCHANGED answer
     \/ /\ Goes(s, "answered", None)
        /\ \E told \in {"ok", "failed"} : answer' = [answer EXCEPT ![s] = told]
  /\ UNCHANGED request

Perform(s) ==
  /\ \/ phase[s] = "asked" /\ \E a \in AccountIds : Create(request[s], a)
     \/ phase[s] = "found" /\ Effect(request[s], target[s])
  /\ Performed(s)

NothingToDo(s) ==
  /\ \/ /\ phase[s] = "found"
        /\ Present(target[s]) /\ Satisfied(request[s], target[s])
     \/ /\ phase[s] = "asked"
        /\ \E a \in AccountIds :
             Denotes(request[s].cred, a) /\ Satisfied(request[s], a)
     \/ /\ phase[s] = "found" /\ ~Present(target[s])
        /\ request[s].op \in Forgiving
  /\ Performed(s)
  /\ UNCHANGED directory

(* A success needs the effect, a refusal a reason.                         *)
Tellable(s) ==
  {told \in {"ok", "refused", "failed"} :
     /\ told = "ok" => phase[s] = "performed"
     /\ told = "refused" => MayRefuse(s)}

Answer(s) ==
  /\ Active(s)
  /\ Goes(s, "answered", None)
  /\ \E told \in Tellable(s) : answer' = [answer EXCEPT ![s] = told]
  /\ UNCHANGED <<directory, request>>

(* The clients of a process that dies get no answer.                       *)
Lose(S) ==
  /\ phase' = [s \in Sessions |-> IF s \in S THEN "answered" ELSE phase[s]]
  /\ target' = [s \in Sessions |-> IF s \in S THEN None ELSE target[s]]
  /\ answer' = [s \in Sessions |-> IF s \in S THEN "lost" ELSE answer[s]]
  /\ UNCHANGED <<directory, request>>

DirInit ==
  /\ Empty
  /\ request = [s \in Sessions |-> None]
  /\ phase = [s \in Sessions |-> "idle"]
  /\ target = [s \in Sessions |-> None]
  /\ answer = [s \in Sessions |-> "none"]

DirNext ==
  \/ \E s \in Sessions :
       \/ Receive(s)
       \/ Find(s) \/ Perform(s) \/ NothingToDo(s) \/ Answer(s)
  \/ \E S \in SUBSET {s \in Sessions : Active(s)} : Lose(S)

DirSpec == DirInit /\ [][DirNext]_dirVars

=============================================================================
