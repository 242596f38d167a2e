---------------------------- MODULE RolloutProofs ----------------------------
(***************************************************************************)
(* Proofs about the start of replicas, for any number of replicas, emails  *)
(* and crashes: migrations are not kept apart by a lock, and the service   *)
(* still never serves on a schema that is behind it.                       *)
(***************************************************************************)
EXTENDS Rollout, TLAPS

(* The steps that leave the database alone.                                *)
DatabaseStays == UNCHANGED schemaVars

(* What a step that commits a migration, or an email, promises the others. *)
NothingUndone ==
  /\ schema.tables => schema'.tables
  /\ schema.required => schema'.required
  /\ schema.confirmedAt => schema'.confirmedAt

LEMMA VersionTyped == ASSUME TypeOK PROVE Version \in -1 .. 4
  BY DEF TypeOK, Version, Migrations

LEMMA ReachedStays ==
  ASSUME NothingUndone, NEW n \in -1 .. 4, Reached(n)
  PROVE  Reached(n)'
  BY DEF NothingUndone, Reached

(* A step of replica r that leaves the database alone: it need only know,  *)
(* where it goes, what that place stands for.                              *)
LEMMA MoveKeeps ==
  ASSUME RolloutInvariant, DatabaseStays, TypeOK', NEW r \in Replicas,
         \A q \in Replicas \ {r} : at'[q] = at[q] /\ next'[q] = next[q],
         at'[r] \in {"alter", "altered"} => Reached(next'[r] - 1),
         at'[r] \in {"main", "controller", "serving"} => Reached(4),
         at'[r] = "altered" =>
           /\ \A q \in Replicas : at[q] # "altered"
           /\ next'[r] = 4 => ~schema.confirmedAt,
         mon' \cup grpc' \cup http' # {} => Reached(4)
  PROVE  RolloutInvariant'
<1>1. log' = log /\ schema' = schema /\ emails' = emails
  BY DEF DatabaseStays, schemaVars
<1>2. \A n \in -1 .. 4 : Reached(n) => Reached(n)'
  BY <1>1 DEF Reached
<1>3. next \in [Replicas -> 0 .. 4] /\ next' \in [Replicas -> 0 .. 4]
  BY DEF RolloutInvariant, TypeOK, Migrations
<1>4. Reached(Version)'
  BY <1>1 DEF RolloutInvariant, SchemaFollowsLog, Version, Reached
<1>5. ASSUME NEW q \in Replicas
      PROVE  /\ at'[q] \in {"alter", "altered"} => Reached(next[q] - 1)'
             /\ at'[q] \in {"main", "controller", "serving"} => Reached(4)'
  <2>1. CASE q = r
    BY <1>1, <2>1 DEF Reached
  <2>2. CASE q # r
    BY <1>1, <2>2 DEF RolloutInvariant, SchemaFollowsLog, Reached
  <2>3. QED
    BY <2>1, <2>2
<1>6. mon' \cup grpc' \cup http' # {} => Reached(4)'
  BY <1>1 DEF Reached
<1>7. SchemaFollowsLog'
  BY <1>4, <1>5, <1>6 DEF SchemaFollowsLog
<1>8. MigrationsExclude'
  BY <1>1 DEF RolloutInvariant, MigrationsExclude
<1>9. QED
  BY <1>7, <1>8 DEF RolloutInvariant

----------------------------------------------------------------------------
(* migrateDatabase.                                                        *)

LEMMA ReadVersionKeeps ==
  ASSUME RolloutInvariant, NEW r \in Replicas, ReadVersion(r)
  PROVE  RolloutInvariant'
<1>1. Version \in -1 .. 4 /\ Reached(Version)
  BY VersionTyped DEF RolloutInvariant, SchemaFollowsLog
<1>2. TypeOK'
  BY <1>1 DEF RolloutInvariant, TypeOK, ReadVersion, Goto, schemaVars, ports, Migrations
<1>3. mon \cup grpc \cup http # {} => Reached(4)
  BY DEF RolloutInvariant, SchemaFollowsLog
<1>4. CASE Version = 4
  BY <1>1, <1>2, <1>3, <1>4, MoveKeeps
     DEF ReadVersion, Goto, DatabaseStays, ports, RolloutInvariant, TypeOK
<1>5. CASE Version # 4
  <2>1. next'[r] = Version + 1 /\ at'[r] = "alter"
    BY <1>5 DEF ReadVersion, Goto, RolloutInvariant, TypeOK
  <2>2. Reached(next'[r] - 1)
    BY <1>1, <2>1
  <2>3. \A q \in Replicas \ {r} : at'[q] = at[q] /\ next'[q] = next[q]
    BY <1>5 DEF ReadVersion, Goto, RolloutInvariant, TypeOK
  <2>4. QED
    BY <1>2, <1>3, <2>1, <2>2, <2>3, MoveKeeps DEF ReadVersion, DatabaseStays, ports
<1>6. QED
  BY <1>4, <1>5

LEMMA AlterKeeps ==
  ASSUME RolloutInvariant, NEW r \in Replicas, Alter(r)
  PROVE  RolloutInvariant'
<1>1. TypeOK'
  BY DEF RolloutInvariant, TypeOK, Alter, Goto, schemaVars, ports
<1>2. /\ mon \cup grpc \cup http # {} => Reached(4)
      /\ Reached(next[r] - 1)
  BY DEF RolloutInvariant, SchemaFollowsLog, Alter
<1>3. /\ \A q \in Replicas : at[q] # "altered"
      /\ next[r] = 4 => ~schema.confirmedAt
  <2>1. Applies(next[r]) /\ \A q \in Replicas : at[q] # "altered"
    BY DEF Alter, Altering
  <2>2. ASSUME next[r] = 4 PROVE ~schema.confirmedAt
    <3>1. Applies(4)
      BY <2>1, <2>2
    <3>2. QED
      BY <3>1 DEF Applies
  <2>3. QED
    BY <2>1, <2>2
<1>4. QED
  BY <1>1, <1>2, <1>3, MoveKeeps
     DEF Alter, Goto, DatabaseStays, ports, RolloutInvariant, TypeOK

LEMMA AlterFailsKeeps ==
  ASSUME RolloutInvariant, NEW r \in Replicas, AlterFails(r)
  PROVE  RolloutInvariant'
<1>1. TypeOK'
  BY DEF RolloutInvariant, TypeOK, AlterFails, Goto, schemaVars, ports
<1>2. mon \cup grpc \cup http # {} => Reached(4)
  BY DEF RolloutInvariant, SchemaFollowsLog
<1>3. QED
  BY <1>1, <1>2, MoveKeeps
     DEF AlterFails, Goto, DatabaseStays, ports, RolloutInvariant, TypeOK

(* What each migration makes of the schema.                                *)
LEMMA MigratedIs ==
  ASSUME schema \in [tables : BOOLEAN, required : BOOLEAN,
                    confirmations : BOOLEAN, confirmedAt : BOOLEAN],
         NEW n \in 0 .. 4, Migrated(n)
  PROVE  /\ schema' \in [tables : BOOLEAN, required : BOOLEAN,
                         confirmations : BOOLEAN, confirmedAt : BOOLEAN]
         /\ schema'.tables <=> (schema.tables \/ n = 1)
         /\ schema'.required <=> (schema.required \/ n = 2)
         /\ schema'.confirmedAt <=> (schema.confirmedAt \/ n = 4)
<1> DEFINE S == [tables : BOOLEAN, required : BOOLEAN,
                 confirmations : BOOLEAN, confirmedAt : BOOLEAN]
<1>1. CASE n = 0
  <2>1. schema' = schema
    BY <1>1 DEF Migrated
  <2>2. QED
    BY <1>1, <2>1
<1>2. CASE n = 1
  <2>1. schema' = [schema EXCEPT !.tables = TRUE]
    BY <1>2 DEF Migrated
  <2>2. schema' \in S
    BY <2>1
  <2>3. schema'.tables /\ schema'.required = schema.required
        /\ schema'.confirmedAt = schema.confirmedAt
    BY <2>1
  <2>4. QED
    BY <1>2, <2>2, <2>3
<1>3. CASE n = 2
  <2>1. schema' = [schema EXCEPT !.required = TRUE]
    BY <1>3 DEF Migrated
  <2>2. schema' \in S
    BY <2>1
  <2>3. schema'.required /\ schema'.tables = schema.tables
        /\ schema'.confirmedAt = schema.confirmedAt
    BY <2>1
  <2>4. QED
    BY <1>3, <2>2, <2>3
<1>4. CASE n = 3
  <2>1. schema' = [schema EXCEPT !.confirmations = TRUE]
    BY <1>4 DEF Migrated
  <2>2. schema' \in S
    BY <2>1
  <2>3. schema'.required = schema.required /\ schema'.tables = schema.tables
        /\ schema'.confirmedAt = schema.confirmedAt
    BY <2>1
  <2>4. QED
    BY <1>4, <2>2, <2>3
<1>5. CASE n = 4
  <2> DEFINE T == [schema EXCEPT !.confirmations = FALSE]
  <2>1. schema' = [T EXCEPT !.confirmedAt = TRUE]
    BY <1>5 DEF Migrated
  <2>2. T \in S
    OBVIOUS
  <2>3. T.required = schema.required /\ T.tables = schema.tables
    OBVIOUS
  <2> HIDE DEF T
  <2>4. schema' \in S
    BY <2>1, <2>2
  <2>5. schema'.required = schema.required /\ schema'.tables = schema.tables
        /\ schema'.confirmedAt
    BY <2>1, <2>2, <2>3
  <2>6. QED
    BY <1>5, <2>4, <2>5
<1>6. QED
  BY <1>1, <1>2, <1>3, <1>4, <1>5

(* A commit undoes nothing, makes what its migration stands for, and leaves*)
(* the emails of this version alone: 4 is not committed after it.          *)
LEMMA CommitIs ==
  ASSUME RolloutInvariant, NEW r \in Replicas, Commit(r)
  PROVE  /\ NothingUndone
         /\ Reached(next[r])'
         /\ \A e \in Addresses : emails[e] = "unconfirmed" => emails'[e] = "unconfirmed"
         /\ \A e \in Addresses : emails'[e] = "unconfirmed" => emails[e] = "unconfirmed"
<1>1. /\ at[r] = "altered" /\ next[r] \in 0 .. 4 /\ Migrated(next[r]) /\ next' = next
      /\ schema \in [tables : BOOLEAN, required : BOOLEAN,
                     confirmations : BOOLEAN, confirmedAt : BOOLEAN]
  BY DEF Commit, RolloutInvariant, TypeOK, Migrations
<1>2. /\ Reached(next[r] - 1)
      /\ next[r] = 4 => ~schema.confirmedAt
  BY <1>1 DEF RolloutInvariant, SchemaFollowsLog, MigrationsExclude
<1>3. /\ schema'.tables <=> (schema.tables \/ next[r] = 1)
      /\ schema'.required <=> (schema.required \/ next[r] = 2)
      /\ schema'.confirmedAt <=> (schema.confirmedAt \/ next[r] = 4)
  BY <1>1, MigratedIs
<1>4. NothingUndone
  BY <1>3 DEF NothingUndone
<1>5. Reached(next[r])'
  <2>1. CASE next[r] = 4
    BY <1>2, <1>3, <2>1 DEF Reached
  <2>2. CASE next[r] \in 0 .. 3
    BY <1>1, <1>2, <1>3, <2>2 DEF Reached
  <2>3. QED
    BY <1>1, <2>1, <2>2
<1>6. \A e \in Addresses :
        emails'[e] = IF next[r] = 4 /\ emails[e] # None THEN "confirmed" ELSE emails[e]
  BY <1>1 DEF Migrated
<1>7. \A e \in Addresses : emails[e] = "unconfirmed" => next[r] # 4
  BY <1>2 DEF RolloutInvariant, MigrationsExclude
<1>8. QED
  BY <1>4, <1>5, <1>6, <1>7

LEMMA CommitKeeps ==
  ASSUME RolloutInvariant, NEW r \in Replicas, Commit(r)
  PROVE  RolloutInvariant'
<1>1. /\ at[r] = "altered" /\ next[r] \in 0 .. 4 /\ next' = next
      /\ at' = [at EXCEPT ![r] = "migrate"] /\ log' = Append(log, next[r])
      /\ mon' = mon /\ grpc' = grpc /\ http' = http /\ crashes' = crashes
  BY DEF Commit, Goto, ports, RolloutInvariant, TypeOK, Migrations
<1>2. \A n \in -1 .. 4 : Reached(n) => Reached(n)'
  BY CommitIs, ReachedStays
<1>3. TypeOK'
  <2>1. log' \in Seq(Migrations)
    BY <1>1 DEF RolloutInvariant, TypeOK, Migrations
  <2>2. schema' \in [tables : BOOLEAN, required : BOOLEAN,
                     confirmations : BOOLEAN, confirmedAt : BOOLEAN]
    BY <1>1, MigratedIs DEF RolloutInvariant, TypeOK, Commit
  <2>3. emails' \in [Addresses -> {None, "old", "unconfirmed", "confirmed"}]
    BY DEF RolloutInvariant, TypeOK, Commit, Migrated
  <2>4. QED
    BY <1>1, <2>1, <2>2, <2>3 DEF RolloutInvariant, TypeOK
<1>4. Version' = next[r]
  BY <1>1 DEF Version, RolloutInvariant, TypeOK
<1>5. SchemaFollowsLog'
  <2>1. Reached(Version)'
    BY <1>1, <1>4, CommitIs DEF Reached
  <2>2. \A q \in Replicas :
          /\ at'[q] \in {"alter", "altered"} => q # r /\ at[q] = at'[q]
          /\ at'[q] \in {"main", "controller", "serving"} => at[q] = at'[q]
    BY <1>1 DEF RolloutInvariant, TypeOK
  <2>3. \A q \in Replicas : next[q] - 1 \in -1 .. 4 /\ next'[q] = next[q]
    BY <1>1 DEF RolloutInvariant, TypeOK, Migrations
  <2>4. \A q \in Replicas : at'[q] \in {"alter", "altered"} => Reached(next[q] - 1)'
    BY <1>1, <1>2, <2>2, <2>3 DEF RolloutInvariant, SchemaFollowsLog
  <2>5. \A q \in Replicas : at'[q] \in {"main", "controller", "serving"} => Reached(4)'
    BY <1>2, <2>2 DEF RolloutInvariant, SchemaFollowsLog
  <2>6. mon' \cup grpc' \cup http' # {} => Reached(4)'
    BY <1>1, <1>2 DEF RolloutInvariant, SchemaFollowsLog
  <2>7. QED
    BY <2>1, <2>4, <2>5, <2>6 DEF SchemaFollowsLog
<1>6. MigrationsExclude'
  <2>1. \A q \in Replicas : at'[q] # "altered"
    BY <1>1 DEF RolloutInvariant, TypeOK, MigrationsExclude
  <2>2. \A e \in Addresses : emails'[e] = "unconfirmed" => schema'.confirmedAt
    BY CommitIs DEF RolloutInvariant, MigrationsExclude, NothingUndone
  <2>3. QED
    BY <2>1, <2>2 DEF MigrationsExclude
<1>7. QED
  BY <1>3, <1>5, <1>6 DEF RolloutInvariant

----------------------------------------------------------------------------
(* The service.                                                            *)

LEMMA ListenKeeps ==
  ASSUME RolloutInvariant, NEW r \in Replicas,
         ListenMonitoring(r) \/ ListenGrpc(r) \/ ListenHttp(r)
  PROVE  RolloutInvariant'
<1>1. TypeOK'
  BY DEF RolloutInvariant, TypeOK, ListenMonitoring, ListenGrpc, ListenHttp, Goto, schemaVars
<1>2. Reached(4)
  BY DEF RolloutInvariant, SchemaFollowsLog, ListenMonitoring, ListenGrpc, ListenHttp
<1>3. UNCHANGED schemaVars /\ next' = next
  BY DEF ListenMonitoring, ListenGrpc, ListenHttp
<1>4. /\ \A q \in Replicas \ {r} : at'[q] = at[q]
      /\ at'[r] \in {"main", "controller", "serving"}
  BY DEF ListenMonitoring, ListenGrpc, ListenHttp, Goto, RolloutInvariant, TypeOK
<1>5. QED
  BY <1>1, <1>2, <1>3, <1>4, MoveKeeps DEF DatabaseStays

LEMMA CrashKeeps ==
  ASSUME RolloutInvariant, NEW r \in Replicas, Crash(r)
  PROVE  RolloutInvariant'
<1>1. /\ crashes < MaxCrashes /\ crashes' = crashes + 1
      /\ UNCHANGED schemaVars /\ next' = next
      /\ mon' = mon \ {r} /\ grpc' = grpc \ {r} /\ http' = http \ {r}
      /\ \/ at[r] \in {"main", "controller", "serving"} /\ at' = [at EXCEPT ![r] = "main"]
         \/ at' = [at EXCEPT ![r] = "migrate"]
  BY DEF Crash, Restart, Goto
<1>2. TypeOK'
  BY <1>1, RolloutAssumption DEF RolloutInvariant, TypeOK, schemaVars
<1>3. /\ \A q \in Replicas \ {r} : at'[q] = at[q]
      /\ at'[r] = "main" => Reached(4)
      /\ at'[r] \in {"main", "migrate"}
  BY <1>1 DEF RolloutInvariant, TypeOK, SchemaFollowsLog
<1>4. mon' \cup grpc' \cup http' # {} => Reached(4)
  BY <1>1 DEF RolloutInvariant, SchemaFollowsLog
<1>5. QED
  BY <1>1, <1>2, <1>3, <1>4, MoveKeeps DEF DatabaseStays

LEMMA LinkEmailKeeps ==
  ASSUME RolloutInvariant, NEW r \in Replicas, NEW e \in Addresses, LinkEmail(r, e)
  PROVE  RolloutInvariant'
<1>1. /\ schema.confirmedAt /\ emails[e] = None
      /\ emails' = [emails EXCEPT ![e] = "unconfirmed"]
      /\ log' = log /\ schema' = schema /\ at' = at /\ next' = next
      /\ mon' = mon /\ grpc' = grpc /\ http' = http /\ crashes' = crashes
  BY DEF LinkEmail, ports
<1>2. TypeOK'
  BY <1>1 DEF RolloutInvariant, TypeOK
<1>3. SchemaFollowsLog'
  BY <1>1 DEF RolloutInvariant, SchemaFollowsLog, Version, Reached
<1>4. MigrationsExclude'
  BY <1>1 DEF RolloutInvariant, TypeOK, MigrationsExclude
<1>5. QED
  BY <1>2, <1>3, <1>4 DEF RolloutInvariant

----------------------------------------------------------------------------
LEMMA RolloutStarts == Init => RolloutInvariant
<1> SUFFICES ASSUME Init PROVE RolloutInvariant
  OBVIOUS
<1>1. PICK n \in -1 .. 3 :
        /\ log = [i \in 1 .. n + 1 |-> i - 1]
        /\ schema = [tables |-> n >= 1, required |-> n >= 2,
                     confirmations |-> n >= 3, confirmedAt |-> FALSE]
        /\ emails \in [Addresses -> IF n >= 1 THEN {None, "old"} ELSE {None}]
  BY DEF Init
<1>2. log \in Seq(Migrations) /\ Len(log) = n + 1
  BY <1>1 DEF Migrations
<1>3. Version = n
  <2>1. CASE n = -1
    <3>1. log = <<>>
      BY <1>2, <2>1
    <3>2. QED
      BY <2>1, <3>1 DEF Version
  <2>2. CASE n \in 0 .. 3
    <3>1. log # <<>> /\ log[Len(log)] = log[n + 1]
      BY <1>2, <2>2
    <3>2. n + 1 \in 1 .. n + 1 /\ n + 1 - 1 = n
      BY <2>2
    <3>3. log[n + 1] = n
      BY <1>1, <3>2
    <3>4. QED
      BY <3>1, <3>3 DEF Version
  <2>3. QED
    BY <2>1, <2>2
<1>4. emails \in [Addresses -> {None, "old"}]
  BY <1>1
<1>5. TypeOK
  BY <1>1, <1>2, <1>4, RolloutAssumption DEF Init, TypeOK, Migrations
<1>6. SchemaFollowsLog
  <2>1. /\ schema.tables <=> n >= 1
        /\ schema.required <=> n >= 2
    BY <1>1
  <2>2. Reached(n)
    BY <2>1 DEF Reached
  <2>3. QED
    BY <1>3, <2>2 DEF Init, SchemaFollowsLog, Reached
<1>7. MigrationsExclude
  BY <1>4, RolloutAssumption DEF Init, MigrationsExclude
<1>8. QED
  BY <1>5, <1>6, <1>7 DEF RolloutInvariant

LEMMA RolloutStep == RolloutInvariant /\ [Next]_vars => RolloutInvariant'
<1> SUFFICES ASSUME RolloutInvariant, [Next]_vars PROVE RolloutInvariant'
  OBVIOUS
<1>1. CASE UNCHANGED vars
  BY <1>1 DEF vars, schemaVars, ports, RolloutInvariant, TypeOK, SchemaFollowsLog,
              MigrationsExclude, Reached, Version
<1>2. ASSUME NEW r \in Replicas, Step(r) PROVE RolloutInvariant'
  BY <1>2, ReadVersionKeeps, AlterKeeps, CommitKeeps, AlterFailsKeeps, ListenKeeps DEF Step
<1>3. QED
  BY <1>1, <1>2, ListenKeeps, CrashKeeps, LinkEmailKeeps DEF Next

(* The strengthened invariant, with the types of the rows, the schema and  *)
(* the replicas.                                                           *)
THEOREM RolloutIsSafe == Spec => []RolloutInvariant
  BY RolloutStarts, RolloutStep, PTL DEF Spec

(* However many replicas migrate at a time, die in the middle and run a    *)
(* migration that another has run, none listens for requests before every  *)
(* migration is committed.                                                 *)
THEOREM ServesOnlyOnItsSchema == Spec => []ServesOnItsSchema
<1>1. RolloutInvariant => ServesOnItsSchema
  BY DEF RolloutInvariant, SchemaFollowsLog, Reached, ServesOnItsSchema
<1>2. QED
  BY <1>1, RolloutIsSafe, PTL

(* Migration 4 confirms the emails of earlier releases only: an email that *)
(* a new replica has stored stays unconfirmed, whoever migrates beside it. *)
THEOREM NewEmailsStayUnconfirmed == Spec => OnlyOldEmailsGrandfathered
<1> DEFINE Kept == \A e \in Addresses : emails[e] = "unconfirmed" => emails'[e] = "unconfirmed"
<1>1. RolloutInvariant /\ [Next]_vars => [Kept]_vars
  <2> SUFFICES ASSUME RolloutInvariant, Next PROVE Kept
    BY DEF vars, schemaVars
  <2>1. PICK r \in Replicas : Step(r) \/ ListenMonitoring(r) \/ Crash(r)
                                \/ \E e \in Addresses : LinkEmail(r, e)
    BY DEF Next
  <2>2. CASE Commit(r)
    BY <2>2, CommitIs
  <2>3. CASE \E e \in Addresses : LinkEmail(r, e)
    BY <2>3 DEF LinkEmail, RolloutInvariant, TypeOK
  <2>4. CASE emails' = emails
    BY <2>4
  <2>5. QED
    BY <2>1, <2>2, <2>3, <2>4
       DEF Step, ReadVersion, Alter, AlterFails, ListenMonitoring, ListenGrpc, ListenHttp,
           Crash, schemaVars
<1>2. QED
  BY <1>1, RolloutIsSafe, PTL DEF Spec, OnlyOldEmailsGrandfathered

=============================================================================
