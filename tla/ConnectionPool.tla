--------------------------- MODULE ConnectionPool ---------------------------
(***************************************************************************)
(* The two connection pools of a process, and the handlers that wait for   *)
(* them.  db.Store gives a Writer and a Reader handle, each a database/sql *)
(* pool of MAX_OPEN_CONNECTIONS.  A transaction keeps a Writer connection  *)
(* from BeginTx to its end; a query on the Reader keeps one while it runs. *)
(* CreateAccount needs a Reader connection, to draw its referral code,     *)
(* while it keeps a Writer connection; UpdateUser and AcceptTOS keep a     *)
(* Reader connection while their UPDATE waits for a row that a transaction *)
(* on the Writer has locked.                                               *)
(*                                                                         *)
(* A request waits for at most one lock here: the order in which one       *)
(* transaction locks several rows is the subject of Accounts.              *)
(***************************************************************************)
EXTENDS Integers, FiniteSets

CONSTANTS Sessions,      \* request slots
          Locks,         \* rows and index entries that requests contend for
          WriterConns,   \* capacities of the pools
          ReaderConns,
          None

ASSUME PoolAssumption ==
  /\ WriterConns \in Nat \ {0}
  /\ ReaderConns \in Nat \ {0}
  /\ None \notin Sessions
  /\ IsFiniteSet(Sessions)

VARIABLES pc,       \* what each request does or waits for
          kind,     \* the handler it runs
          wants,    \* the row or index entry it writes
          writer,   \* sessions that keep a Writer connection
          reader,   \* sessions that keep a Reader connection
          owner     \* the session that has locked a row

vars == <<pc, kind, wants, writer, reader, owner>>

(* create: CreateAccount.  update: UpdateUser, AcceptTOS.                  *)
(* read: GetUserAccount and the gRPC calls.  change: the others.           *)
Kinds == {"create", "update", "read", "change"}

(* FAULT, for a mutant: the two handles share one pool.                    *)
SharedPoolFull == Cardinality(reader) + Cardinality(writer) >= WriterConns

ReaderFull == Cardinality(reader) >= ReaderConns
WriterFull == Cardinality(writer) >= WriterConns

Goto(s, label) == pc' = [pc EXCEPT ![s] = label]

Take(s, label) ==
  /\ ~ReaderFull
  /\ reader' = reader \cup {s}
  /\ Goto(s, label)
  /\ UNCHANGED <<kind, wants, writer, owner>>

Release(s, label) ==
  /\ reader' = reader \ {s}
  /\ Goto(s, label)
  /\ UNCHANGED <<kind, wants, writer, owner>>

FreeOf(s) == owner[wants[s]] \in {None, s}
Unlocked(s) == [l \in Locks |-> IF owner[l] = s THEN None ELSE owner[l]]

(* FAULT: a handler returns an error without its deferred rollback.        *)
EndWithoutRollback(s, label) ==
  /\ reader' = reader \ {s}
  /\ Goto(s, label)
  /\ UNCHANGED <<kind, wants, writer, owner>>

(* The connections go back to their pools, the locks are released.         *)
End(s, label) ==
  /\ writer' = writer \ {s}
  /\ reader' = reader \ {s}
  /\ owner' = Unlocked(s)
  /\ Goto(s, label)
  /\ UNCHANGED <<kind, wants>>

----------------------------------------------------------------------------
(* BeginTx, the locking statement, the end of the transaction.             *)

Begin(s) ==
  /\ pc[s] = "begin"
  /\ ~WriterFull
  /\ writer' = writer \cup {s}
  /\ Goto(s, IF kind[s] = "create" THEN "draw" ELSE "lock")
  /\ UNCHANGED <<kind, wants, reader, owner>>

Lock(s) ==
  /\ pc[s] = "lock" /\ FreeOf(s)
  /\ owner' = [owner EXCEPT ![wants[s]] = s]
  /\ Goto(s, "commit")
  /\ UNCHANGED <<kind, wants, writer, reader>>

(* FAULT: the answer is read on the Reader before the commit.              *)
ReadsBeforeCommit(s) ==
  /\ pc[s] = "commit"
  /\ Goto(s, "query")
  /\ UNCHANGED <<kind, wants, writer, reader, owner>>

(* CreateAccount reads the account again, after its commit.                *)
Commit(s) ==
  /\ pc[s] = "commit"
  /\ End(s, IF kind[s] = "create" THEN "query" ELSE "idle")

----------------------------------------------------------------------------
(* GenerateReferralCode: a query on the Reader per code drawn.             *)

Draw(s) == pc[s] = "draw" /\ Take(s, "drawing")

CodeTaken(s)  == pc[s] = "drawing" /\ Release(s, "draw")
CodeUnused(s) == pc[s] = "drawing" /\ Release(s, "lock")

----------------------------------------------------------------------------
(* Queries on the Reader, and the UPDATE on it.                            *)

Query(s) == pc[s] = "query" /\ Take(s, "querying")

Queried(s) ==
  /\ pc[s] = "querying"
  /\ Release(s, IF kind[s] = "update" THEN "update" ELSE "idle")

Update(s) == pc[s] = "update" /\ Take(s, "updating")

Updated(s) == pc[s] = "updating" /\ FreeOf(s) /\ Release(s, "idle")

----------------------------------------------------------------------------
Arrive(s, k, l) ==
  /\ pc[s] = "idle"
  /\ kind' = [kind EXCEPT ![s] = k]
  /\ wants' = [wants EXCEPT ![s] = l]
  /\ Goto(s, IF k \in {"create", "change"} THEN "begin" ELSE "query")
  /\ UNCHANGED <<writer, reader, owner>>

(* A statement fails or a check refuses: the handler returns.              *)
Fail(s) == pc[s] # "idle" /\ End(s, "idle")

Step(s) ==
  \/ Begin(s) \/ Lock(s) \/ Commit(s) \/ Draw(s) \/ CodeTaken(s) \/ CodeUnused(s)
  \/ Query(s) \/ Queried(s) \/ Update(s) \/ Updated(s)

Init ==
  /\ pc = [s \in Sessions |-> "idle"]
  /\ kind = [s \in Sessions |-> "read"]
  /\ wants \in [Sessions -> Locks]
  /\ writer = {} /\ reader = {}
  /\ owner = [l \in Locks |-> None]

Next ==
  \E s \in Sessions :
    \/ Step(s) \/ Fail(s)
    \/ \E k \in Kinds, l \in Locks : Arrive(s, k, l)

Spec == Init /\ [][Next]_vars

(* A goroutine runs, its statement is answered, and the queue of a pool or *)
(* of a lock does not pass it over for ever.  The draws come upon an unused*)
(* code sooner or later: there are 36^6 codes.                             *)
FairSpec ==
  /\ Spec
  /\ \A s \in Sessions : SF_vars(Step(s)) /\ SF_vars(CodeUnused(s))

----------------------------------------------------------------------------
KeepsWriter == {"draw", "drawing", "lock", "commit"}
KeepsReader == {"drawing", "querying", "updating"}

TypeOK ==
  /\ pc \in [Sessions -> {"idle", "begin", "query", "update"}
                           \cup KeepsWriter \cup KeepsReader]
  /\ kind \in [Sessions -> Kinds]
  /\ wants \in [Sessions -> Locks]
  /\ writer \subseteq Sessions
  /\ reader \subseteq Sessions
  /\ owner \in [Locks -> Sessions \cup {None}]

(* A request keeps a connection or a lock exactly while it is in the       *)
(* statements that need it, whichever of its error paths it takes.         *)
NothingLeaks ==
  \A s \in Sessions :
    /\ s \in writer <=> pc[s] \in KeepsWriter
    /\ s \in reader <=> pc[s] \in KeepsReader
    /\ \A l \in Locks : owner[l] = s => pc[s] = "commit" /\ wants[s] = l

(* Neither pool ever loses a connection to a request that is over.         *)
PoolInvariant == TypeOK /\ NothingLeaks

(* The requests one of which has to move before s can.                     *)
WaitsFor(s) ==
  CASE pc[s] = "begin" -> IF WriterFull THEN writer ELSE {}
    [] pc[s] \in {"draw", "query", "update"} -> IF ReaderFull THEN reader ELSE {}
    [] pc[s] \in {"lock", "updating"} -> {owner[wants[s]]} \ {None, s}
    [] OTHER -> {}

(* Requests that keep one connection and wait for another never wait in a  *)
(* circle, however small the pools are: a creator that waits for a Reader  *)
(* connection has locked no row that the UPDATEs on the Reader wait for.   *)
NoCircularWait ==
  \A S \in SUBSET Sessions :
    S # {} => \E s \in S : WaitsFor(s) = {} \/ ~(WaitsFor(s) \subseteq S)

(* Every request is answered, with any mix of handlers at the limits of    *)
(* both pools.                                                             *)
EveryRequestEnds == \A s \in Sessions : pc[s] # "idle" ~> pc[s] = "idle"

=============================================================================
