----------------------------- MODULE Timestamps -----------------------------
(***************************************************************************)
(* created_at and updated_at of one account.  The models package takes both*)
(* from the clock of its process when a handler calls Insert or Update:    *)
(* after the handler's reads, before the statement has its lock.  Replicas *)
(* have clocks of their own, at most MaxSkew apart.                        *)
(*                                                                         *)
(* Each handler here is its first read, its clock reading, its statement on*)
(* the accounts row and its commit.                                        *)
(***************************************************************************)
EXTENDS Integers

CONSTANTS Sessions, Replicas,
          Replica,   \* the process of each session
          Asked,     \* the handlers that are called
          MaxSkew,   \* how far two clocks are apart at most
          MaxTime,   \* bound: clocks stop there
          None

Serializable == {"LinkEmail", "LinkEmailToken"}
ReadCommitted == {"LinkWalletToken", "SubmitReferralCode", "DeleteUser"}
NoTransaction == {"UpdateUser", "AcceptTOS"}
Handlers == {"CreateAccount"} \cup Serializable \cup ReadCommitted \cup NoTransaction

ASSUME TimestampsAssumption ==
  /\ Replica \in [Sessions -> Replicas]
  /\ MaxSkew \in Nat /\ MaxTime \in Nat
  /\ None \notin Nat
  /\ Asked \subseteq Handlers

VARIABLES clock,    \* of each process
          row,      \* the committed row
          pc, op,   \* what each session does
          arrived,  \* its process's clock when its request arrived
          stamp,    \* its clock reading
          missed    \* the row was committed since its snapshot

vars == <<clock, row, pc, op, arrived, stamp, missed>>

Now(s) == clock[Replica[s]]
Goto(s, label) == pc' = [pc EXCEPT ![s] = label]

(* Another session has written the row and not committed.                  *)
Locked(s) == \E t \in Sessions \ {s} : pc[t] = "written"

(* FAULT, for a mutant: updated_at is not among the updated columns.       *)
SavedUnstamped(s) ==
  CASE op[s] = "CreateAccount" ->
         [created |-> stamp[s], updated |-> stamp[s], referred |-> FALSE]
    [] op[s] = "DeleteUser" -> None
    [] OTHER -> [row EXCEPT !.referred = @ \/ op[s] = "SubmitReferralCode"]

(* The row that the statement of s leaves.                                 *)
Saved(s) ==
  CASE op[s] = "CreateAccount" ->
         [created |-> stamp[s], updated |-> stamp[s], referred |-> FALSE]
    [] op[s] = "DeleteUser" -> None
    [] OTHER -> [row EXCEPT !.updated = stamp[s],
                            !.referred = @ \/ op[s] = "SubmitReferralCode"]

(* The row is committed by S: snapshots that are open do not have it.      *)
Publish(r, S) ==
  /\ row' = r
  /\ missed' = [s \in Sessions |->
                  s \notin S /\ pc[s] \in {"read", "stamped"}]

(* The request is over; its variables are gone.                            *)
Forget(s) ==
  /\ Goto(s, "idle")
  /\ op' = [op EXCEPT ![s] = "none"]
  /\ arrived' = [arrived EXCEPT ![s] = 0]
  /\ stamp' = [stamp EXCEPT ![s] = 0]
  /\ UNCHANGED clock

Keep(s) == row' = row /\ missed' = [missed EXCEPT ![s] = FALSE]

----------------------------------------------------------------------------
Arrive(s) ==
  /\ pc[s] = "idle"
  /\ \E h \in Asked : op' = [op EXCEPT ![s] = h]
  /\ arrived' = [arrived EXCEPT ![s] = Now(s)]
  /\ Goto(s, "arrived")
  /\ UNCHANGED <<clock, row, stamp, missed>>

(* getUserAccount, and CreateAccount's check that there is no account.     *)
Read(s) ==
  /\ pc[s] = "arrived"
  /\ op[s] = "CreateAccount" <=> row = None
  /\ missed' = [missed EXCEPT ![s] = FALSE]
  /\ Goto(s, "read")
  /\ UNCHANGED <<clock, row, op, arrived, stamp>>

(* time.Now() in Insert and Update.                                        *)
Stamp(s) ==
  /\ pc[s] = "read"
  /\ stamp' = [stamp EXCEPT ![s] = Now(s)]
  /\ Goto(s, "stamped")
  /\ UNCHANGED <<clock, row, op, arrived, missed>>

(* FAULT: the link handlers run at read committed.                         *)
NeverRefused(s) == op[s] = "CreateAccount" /\ row # None

(* A serializable transaction does not update a row committed after its    *)
(* snapshot; a second account with the same email or wallet is refused.    *)
Refused(s) ==
  \/ op[s] \in Serializable /\ missed[s]
  \/ op[s] = "CreateAccount" /\ row # None

(* INSERT, UPDATE or DELETE in a transaction.  An UPDATE or DELETE that    *)
(* finds no row is not an error, and changes nothing.                      *)
Write(s) ==
  /\ pc[s] = "stamped" /\ op[s] \notin NoTransaction
  /\ ~Locked(s) /\ ~Refused(s)
  /\ IF op[s] # "CreateAccount" /\ row = None THEN Forget(s) /\ Keep(s)
     ELSE Goto(s, "written") /\ UNCHANGED <<clock, row, op, arrived, stamp, missed>>

Commit(s) ==
  /\ pc[s] = "written"
  /\ Publish(Saved(s), {s})
  /\ Forget(s)

(* UpdateUser and AcceptTOS.                                               *)
UpdateNow(s) ==
  /\ pc[s] = "stamped" /\ op[s] \in NoTransaction
  /\ ~Locked(s)
  /\ IF row = None THEN Keep(s) ELSE Publish(Saved(s), {s})
  /\ Forget(s)

(* Any error, and any return without a change.                             *)
Fail(s) == pc[s] # "idle" /\ Forget(s) /\ Keep(s)

(* The referrer's account is deleted: ON DELETE SET NULL.                  *)
Unrefer ==
  /\ row # None /\ row.referred
  /\ \A s \in Sessions : pc[s] # "written"
  /\ Publish([row EXCEPT !.referred = FALSE], {})
  /\ UNCHANGED <<clock, pc, op, arrived, stamp>>

Tick(p) ==
  /\ clock[p] < MaxTime
  /\ \A q \in Replicas : clock[p] + 1 - clock[q] <= MaxSkew
                         \/ q = p
  /\ clock' = [clock EXCEPT ![p] = @ + 1]
  /\ UNCHANGED <<row, pc, op, arrived, stamp, missed>>

Init ==
  /\ clock = [p \in Replicas |-> 0]
  /\ row = None
  /\ pc = [s \in Sessions |-> "idle"]
  /\ op = [s \in Sessions |-> "none"]
  /\ arrived = [s \in Sessions |-> 0]
  /\ stamp = [s \in Sessions |-> 0]
  /\ missed = [s \in Sessions |-> FALSE]

Next ==
  \/ \E s \in Sessions : \/ Arrive(s) \/ Read(s) \/ Stamp(s) \/ Write(s)
                         \/ Commit(s) \/ UpdateNow(s) \/ Fail(s)
  \/ \E p \in Replicas : Tick(p)
  \/ Unrefer

Spec == Init /\ [][Next]_vars

----------------------------------------------------------------------------
(* Clocks, row and sessions have their types.                              *)
TypeOK ==
  /\ clock \in [Replicas -> 0 .. MaxTime]
  /\ row \in [created : 0 .. MaxTime, updated : 0 .. MaxTime, referred : BOOLEAN]
               \cup {None}
  /\ pc \in [Sessions -> {"idle", "arrived", "read", "stamped", "written"}]
  /\ op \in [Sessions -> Asked \cup {"none"}]
  /\ arrived \in [Sessions -> 0 .. MaxTime]
  /\ stamp \in [Sessions -> 0 .. MaxTime]
  /\ missed \in [Sessions -> BOOLEAN]

Saves(s) == pc[s] \in {"written", "stamped"} /\ pc'[s] = "idle" /\ row' # row

(* Whatever a handler commits to an account, in whichever order requests   *)
(* get their locks, updated_at is then a time within its own request.      *)
StampsAreFresh ==
  [][\A s \in Sessions : Saves(s) /\ row' # None =>
       row'.updated \in arrived[s] .. Now(s)]_vars

(* A link or confirmation of an email never puts updated_at back by more   *)
(* than the clocks of the processes differ: its snapshot, and so its clock *)
(* reading, is later than every change it overwrites.  This does not hold  *)
(* of the handlers at read committed or outside a transaction.             *)
LinksMoveForward ==
  [][\A s \in Sessions :
       Saves(s) /\ op[s] \in Serializable => row.updated - MaxSkew <= row'.updated]_vars

----------------------------------------------------------------------------
(* Why these hold.                                                         *)

ClocksApart == \A p, q \in Replicas : clock[p] - clock[q] <= MaxSkew

(* One handler at a time has written, and the row stays as it found it.    *)
OneWriter ==
  /\ \A s, t \in Sessions : pc[s] = "written" /\ pc[t] = "written" => s = t
  /\ \A s \in Sessions : pc[s] = "written" =>
       /\ op[s] \notin NoTransaction
       /\ op[s] = "CreateAccount" <=> row = None

StampsWithin ==
  \A s \in Sessions :
    /\ pc[s] # "idle" => op[s] \in Asked /\ arrived[s] <= Now(s)
    /\ pc[s] \in {"stamped", "written"} => arrived[s] <= stamp[s] /\ stamp[s] <= Now(s)

(* Some clock has shown the time of the row; a snapshot that has missed    *)
(* nothing had it before its own clock was read.                           *)
RowInPast ==
  row # None =>
    /\ \E p \in Replicas : row.updated <= clock[p]
    /\ \A s \in Sessions :
         \/ pc[s] = "stamped" /\ ~missed[s]
         \/ pc[s] = "written" /\ op[s] \in Serializable
         => row.updated - MaxSkew <= stamp[s]

(* Clocks, locks and snapshots fit together, so that a stamp is of its own *)
(* request, and a serializable one is of a later time than what it replaces*)
(* but for the skew.                                                       *)
ClocksInvariant == TypeOK /\ ClocksApart /\ OneWriter /\ StampsWithin /\ RowInPast

=============================================================================
