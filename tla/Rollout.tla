------------------------------ MODULE Rollout ------------------------------
(***************************************************************************)
(* The start of replicas.  A pod runs "accounts-api migrate" in its init   *)
(* container, then the service.  Nothing keeps the migrations of two pods  *)
(* apart: goose takes no lock here.  The service starts its monitoring     *)
(* server in a goroutine, then its gRPC server, then its HTTP server.      *)
(*                                                                         *)
(* goose is not in this repository: it keeps one row per applied migration *)
(* in accounts_api.migrations, takes the version of the newest row as the  *)
(* current one, and runs each migration and its row in one transaction.    *)
(***************************************************************************)
EXTENDS Integers, Sequences

CONSTANTS Replicas, Addresses,
          MaxCrashes,   \* bound: processes that die
          None

ASSUME RolloutAssumption ==
  MaxCrashes \in Nat /\ None \notin {"old", "unconfirmed", "confirmed"}

VARIABLES log,      \* rows of accounts_api.migrations, oldest first
          schema,   \* what the committed migrations have made
          emails,   \* the emails: old rows have no confirmed_at column
          at,       \* what each replica does
          next,     \* the migration its goose runs
          mon, grpc, http,   \* replicas that listen on each port
          crashes

schemaVars == <<log, schema, emails>>
ports == <<mon, grpc, http>>
vars == <<schemaVars, at, next, ports, crashes>>

(* 0 creates the version table, 1 .. 4 are the files of migrations/.       *)
Migrations == 0 .. 4

Version == IF log = <<>> THEN -1 ELSE log[Len(log)]

(* FAULT, for a mutant: ADD COLUMN IF NOT EXISTS.                          *)
AppliesAgain(n) ==
  CASE n = 0 -> log = <<>>
    [] n = 1 -> ~schema.tables
    [] n = 2 -> schema.tables
    [] n = 3 -> schema.tables /\ ~schema.confirmations
    [] n = 4 -> schema.tables /\ schema.confirmations

(* The statements of the file do not fail.  SET NOT NULL succeeds again and*)
(* again; every account is taken to have a referral code by then.          *)
Applies(n) ==
  CASE n = 0 -> log = <<>>
    [] n = 1 -> ~schema.tables
    [] n = 2 -> schema.tables
    [] n = 3 -> schema.tables /\ ~schema.confirmations
    [] n = 4 -> schema.tables /\ schema.confirmations /\ ~schema.confirmedAt

(* What they change.  4 confirms every email there is.                     *)
Migrated(n) ==
  /\ schema' = CASE n = 0 -> schema
                 [] n = 1 -> [schema EXCEPT !.tables = TRUE]
                 [] n = 2 -> [schema EXCEPT !.required = TRUE]
                 [] n = 3 -> [schema EXCEPT !.confirmations = TRUE]
                 [] n = 4 -> [schema EXCEPT !.confirmations = FALSE, !.confirmedAt = TRUE]
  /\ emails' = [e \in Addresses |->
                  IF n = 4 /\ emails[e] # None THEN "confirmed" ELSE emails[e]]

(* A migration locks the tables it alters until it is committed.           *)
Altering == \E r \in Replicas : at[r] = "altered"

Goto(r, label) == at' = [at EXCEPT ![r] = label]

Restart(r, label) ==
  /\ Goto(r, label)
  /\ mon' = mon \ {r} /\ grpc' = grpc \ {r} /\ http' = http \ {r}

----------------------------------------------------------------------------
(* migrateDatabase.                                                        *)

ReadVersion(r) ==
  /\ at[r] = "migrate"
  /\ IF Version = 4 THEN Goto(r, "main") /\ UNCHANGED next
     ELSE Goto(r, "alter") /\ next' = [next EXCEPT ![r] = Version + 1]
  /\ UNCHANGED <<schemaVars, ports, crashes>>

(* FAULT: the file is marked NO TRANSACTION.                               *)
AlterAtOnce(r) ==
  /\ at[r] = "alter" /\ ~Altering
  /\ Applies(next[r])
  /\ Goto(r, "altered")
  /\ Migrated(next[r])
  /\ UNCHANGED <<log, next, ports, crashes>>

Alter(r) ==
  /\ at[r] = "alter" /\ ~Altering
  /\ Applies(next[r])
  /\ Goto(r, "altered")
  /\ UNCHANGED <<schemaVars, next, ports, crashes>>

Commit(r) ==
  /\ at[r] = "altered"
  /\ log' = Append(log, next[r])
  /\ Migrated(next[r])
  /\ Goto(r, "migrate")
  /\ UNCHANGED <<next, ports, crashes>>

(* FAULT: main goes on after the error.                                    *)
AlterFailsAndGoesOn(r) ==
  /\ at[r] = "alter" /\ ~Altering
  /\ ~Applies(next[r])
  /\ Goto(r, "main")
  /\ UNCHANGED <<schemaVars, next, ports, crashes>>

(* logger.Fatal: the container exits and is started again.                 *)
AlterFails(r) ==
  /\ at[r] = "alter" /\ ~Altering
  /\ ~Applies(next[r])
  /\ Goto(r, "migrate")
  /\ UNCHANGED <<schemaVars, next, ports, crashes>>

----------------------------------------------------------------------------
(* The service.                                                            *)

(* The goroutine that main starts, whatever main does meanwhile.           *)
ListenMonitoring(r) ==
  /\ at[r] \in {"main", "controller", "serving"} /\ r \notin mon
  /\ mon' = mon \cup {r}
  /\ UNCHANGED <<schemaVars, at, next, grpc, http, crashes>>

ListenGrpc(r) ==
  /\ at[r] = "main"
  /\ Goto(r, "controller")
  /\ grpc' = grpc \cup {r}
  /\ UNCHANGED <<schemaVars, next, mon, http, crashes>>

ListenHttp(r) ==
  /\ at[r] = "controller"
  /\ Goto(r, "serving")
  /\ http' = http \cup {r}
  /\ UNCHANGED <<schemaVars, next, mon, grpc, crashes>>

(* A request of this version of the service: an email without confirmed_at.*)
LinkEmail(r, e) ==
  /\ r \in http /\ ~Altering
  /\ schema.confirmedAt /\ emails[e] = None
  /\ emails' = [emails EXCEPT ![e] = "unconfirmed"]
  /\ UNCHANGED <<log, schema, at, next, ports, crashes>>

(* A process dies, or ends with logger.Fatal: its transaction is rolled    *)
(* back, its container started again, or the whole pod.                    *)
Crash(r) ==
  /\ crashes < MaxCrashes
  /\ crashes' = crashes + 1
  /\ \/ at[r] \in {"main", "controller", "serving"} /\ Restart(r, "main")
     \/ Restart(r, "migrate")
  /\ UNCHANGED <<schemaVars, next>>

----------------------------------------------------------------------------
(* The database as an earlier release left it, old emails included.        *)
Init ==
  /\ \E n \in -1 .. 3 :
       /\ log = [i \in 1 .. n + 1 |-> i - 1]
       /\ schema = [tables |-> n >= 1, required |-> n >= 2,
                    confirmations |-> n >= 3, confirmedAt |-> FALSE]
       /\ emails \in [Addresses -> IF n >= 1 THEN {None, "old"} ELSE {None}]
  /\ at = [r \in Replicas |-> "migrate"]
  /\ next = [r \in Replicas |-> 0]
  /\ mon = {} /\ grpc = {} /\ http = {}
  /\ crashes = 0

Step(r) ==
  \/ ReadVersion(r) \/ Alter(r) \/ Commit(r) \/ AlterFails(r)
  \/ ListenGrpc(r) \/ ListenHttp(r)

Next ==
  \E r \in Replicas :
    \/ Step(r) \/ ListenMonitoring(r) \/ Crash(r)
    \/ \E e \in Addresses : LinkEmail(r, e)

Spec == Init /\ [][Next]_vars

(* A container that runs makes progress; its port is free.                 *)
FairSpec ==
  Spec /\ \A r \in Replicas : WF_vars(Step(r)) /\ WF_vars(ListenMonitoring(r))

----------------------------------------------------------------------------
(* The rows, the schema and the replicas have their types.                 *)
TypeOK ==
  /\ log \in Seq(Migrations)
  /\ schema \in [tables : BOOLEAN, required : BOOLEAN,
                 confirmations : BOOLEAN, confirmedAt : BOOLEAN]
  /\ emails \in [Addresses -> {None, "old", "unconfirmed", "confirmed"}]
  /\ at \in [Replicas -> {"migrate", "alter", "altered", "main", "controller", "serving"}]
  /\ next \in [Replicas -> Migrations]
  /\ mon \subseteq Replicas /\ grpc \subseteq Replicas /\ http \subseteq Replicas
  /\ crashes \in 0 .. MaxCrashes

(* No replica serves a request before every migration is committed, however*)
(* many replicas migrate at a time and die in the middle.                  *)
ServesOnItsSchema ==
  http \cup grpc # {} => schema.tables /\ schema.required /\ schema.confirmedAt

(* "Grandfather these in" (migration 4) is for the emails of earlier       *)
(* releases: a late migrator never confirms an email that LinkEmail stored.*)
OnlyOldEmailsGrandfathered ==
  [][\A e \in Addresses : emails[e] = "unconfirmed" => emails'[e] = "unconfirmed"]_vars

(* Why these hold: what migrations 1 .. n have made is never undone.  3 is *)
(* not among them: 4 takes away what it made.                              *)
Reached(n) ==
  /\ n >= 1 => schema.tables
  /\ n >= 2 => schema.required
  /\ n >= 4 => schema.confirmedAt

(* Up to the version, and to the migration before that of each replica; all*)
(* where a replica is past its migrations, whoever ran them.               *)
SchemaFollowsLog ==
  /\ Reached(Version)
  /\ \A r \in Replicas :
       /\ at[r] \in {"alter", "altered"} => Reached(next[r] - 1)
       /\ at[r] \in {"main", "controller", "serving"} => Reached(4)
  /\ mon \cup grpc \cup http # {} => Reached(4)

(* One replica holds the tables; no email of this version is stored before *)
(* migration 4, and 4 is not under way once it is committed.               *)
MigrationsExclude ==
  /\ \A r, q \in Replicas : at[r] = "altered" /\ at[q] = "altered" => r = q
  /\ \A r \in Replicas : at[r] = "altered" /\ next[r] = 4 => ~schema.confirmedAt
  /\ \A e \in Addresses : emails[e] = "unconfirmed" => schema.confirmedAt

(* The service serves on its schema, and no late migrator confirms a new   *)
(* email, in every state a step can be taken from.                         *)
RolloutInvariant == TypeOK /\ SchemaFollowsLog /\ MigrationsExclude

(* Two replicas are between reading the version and committing.            *)
Overlap ==
  \E r, q \in Replicas : r # q /\ at[r] \in {"alter", "altered"} /\ at[q] \in {"alter", "altered"}

(* Every replica comes up from any earlier schema, although replicas die   *)
(* between any two statements of their migrations, unless two of them      *)
(* migrate at the same time: then one may run a migration that is applied. *)
EveryReplicaServes == <>Overlap \/ \A r \in Replicas : []<>(r \in http)

=============================================================================
