--------------------------- MODULE TimestampsProofs ---------------------------
(***************************************************************************)
(* Proofs about updated_at, for any processes, handlers and skew of their  *)
(* clocks: it is a time of the request that wrote it, and a serializable   *)
(* transaction does not put it back by more than the skew.                 *)
(***************************************************************************)
EXTENDS Timestamps, TLAPS

Times == [created : 0 .. MaxTime, updated : 0 .. MaxTime, referred : BOOLEAN]

(* What the statement of a handler leaves, when it finds its row.          *)
LEMMA SavedIs ==
  ASSUME TypeOK, NEW s \in Sessions, op[s] = "CreateAccount" \/ row # None
  PROVE  \/ op[s] = "DeleteUser" /\ Saved(s) = None
         \/ op[s] # "DeleteUser" /\ Saved(s) \in Times /\ Saved(s).updated = stamp[s]
<1>1. stamp[s] \in 0 .. MaxTime /\ row \in Times \cup {None}
  BY DEF TypeOK, Times
<1>2. CASE op[s] = "CreateAccount"
  <2>1. Saved(s) = [created |-> stamp[s], updated |-> stamp[s], referred |-> FALSE]
    BY <1>2 DEF Saved
  <2>2. QED
    BY <1>1, <1>2, <2>1 DEF Times
<1>3. CASE op[s] = "DeleteUser"
  BY <1>3 DEF Saved
<1>4. CASE op[s] \notin {"CreateAccount", "DeleteUser"}
  <2> DEFINE f == row.referred \/ op[s] = "SubmitReferralCode"
  <2>1. Saved(s) = [row EXCEPT !.updated = stamp[s], !.referred = f]
    BY <1>4 DEF Saved
  <2>2. f \in BOOLEAN
    OBVIOUS
  <2> HIDE DEF f
  <2>3. row \in Times
    BY <1>1, <1>4
  <2>4. Saved(s) \in Times /\ Saved(s).updated = stamp[s]
    BY <1>1, <2>1, <2>2, <2>3 DEF Times
  <2>5. QED
    BY <1>4, <2>4
<1>5. QED
  BY <1>2, <1>3, <1>4

(* Sessions, when s is over and r is the row.                              *)
LEMMA OverKeeps ==
  ASSUME ClocksInvariant, NEW s \in Sessions, Forget(s), pc[s] # "idle",
         \/ row' = row /\ missed' = [missed EXCEPT ![s] = FALSE]
         \/ /\ \A t \in Sessions \ {s} : pc[t] # "written"
            /\ row' \in Times \cup {None}
            /\ row' # None => \E p \in Replicas : row'.updated <= clock[p]
            /\ missed' = [t \in Sessions |-> t \notin {s} /\ pc[t] \in {"read", "stamped"}]
  PROVE  ClocksInvariant'
<1>0. TypeOK /\ ClocksApart /\ OneWriter /\ StampsWithin /\ RowInPast
  BY DEF ClocksInvariant
<1>1. /\ clock' = clock /\ pc' = [pc EXCEPT ![s] = "idle"] /\ op' = [op EXCEPT ![s] = "none"]
      /\ arrived' = [arrived EXCEPT ![s] = 0] /\ stamp' = [stamp EXCEPT ![s] = 0]
  BY DEF Forget, Goto
<1>2. /\ pc'[s] = "idle"
      /\ \A t \in Sessions \ {s} : /\ pc'[t] = pc[t] /\ op'[t] = op[t]
                                   /\ arrived'[t] = arrived[t] /\ stamp'[t] = stamp[t]
  BY <1>0, <1>1 DEF TypeOK
<1>3. MaxTime \in Nat /\ MaxSkew \in Nat
  BY TimestampsAssumption
<1>4. TypeOK'
  <2>1. row' \in Times \cup {None}
    BY <1>0 DEF TypeOK, Times
  <2>2. missed' \in [Sessions -> BOOLEAN]
    BY <1>0 DEF TypeOK
  <2>3. QED
    BY <1>0, <1>1, <1>3, <2>1, <2>2 DEF TypeOK, Times
<1>5. ClocksApart'
  BY <1>0, <1>1 DEF ClocksApart
<1>6. OneWriter'
  BY <1>0, <1>2 DEF OneWriter
<1>7. StampsWithin'
  BY <1>0, <1>1, <1>2 DEF StampsWithin, Now
<1>8. RowInPast'
  <2>1. CASE row' = row /\ missed' = [missed EXCEPT ![s] = FALSE]
    <3>1. \A t \in Sessions \ {s} : missed'[t] = missed[t]
      BY <1>0, <2>1 DEF TypeOK
    <3>2. QED
      BY <1>0, <1>1, <1>2, <2>1, <3>1 DEF RowInPast
  <2>2. CASE /\ \A t \in Sessions \ {s} : pc[t] # "written"
             /\ row' \in Times \cup {None}
             /\ row' # None => \E p \in Replicas : row'.updated <= clock[p]
             /\ missed' = [t \in Sessions |-> t \notin {s} /\ pc[t] \in {"read", "stamped"}]
    <3>1. \A t \in Sessions \ {s} : pc'[t] = "stamped" => missed'[t]
      BY <1>2, <2>2
    <3>2. QED
      BY <1>1, <1>2, <2>2, <3>1 DEF RowInPast
  <2>3. QED
    BY <2>1, <2>2
<1>9. QED
  BY <1>4, <1>5, <1>6, <1>7, <1>8 DEF ClocksInvariant

(* The row that s leaves is of the present.                                *)
LEMMA SavedIsPresent ==
  ASSUME ClocksInvariant, NEW s \in Sessions, pc[s] \in {"stamped", "written"},
         op[s] = "CreateAccount" \/ row # None
  PROVE  /\ Saved(s) \in Times \cup {None}
         /\ Saved(s) # None => \E p \in Replicas : Saved(s).updated <= clock[p]
<1>1. Replica[s] \in Replicas
  BY TimestampsAssumption
<1>2. stamp[s] <= clock[Replica[s]]
  BY DEF ClocksInvariant, StampsWithin, Now
<1>3. \/ op[s] = "DeleteUser" /\ Saved(s) = None
      \/ op[s] # "DeleteUser" /\ Saved(s) \in Times /\ Saved(s).updated = stamp[s]
  BY SavedIs DEF ClocksInvariant
<1>4. QED
  BY <1>1, <1>2, <1>3
LEMMA CommitKeeps ==
  ASSUME ClocksInvariant, NEW s \in Sessions, Commit(s)
  PROVE  ClocksInvariant'
<1>1. /\ pc[s] = "written" /\ Forget(s) /\ row' = Saved(s)
      /\ missed' = [t \in Sessions |-> t \notin {s} /\ pc[t] \in {"read", "stamped"}]
  BY DEF Commit, Publish
<1>2. op[s] = "CreateAccount" \/ row # None
  BY <1>1 DEF ClocksInvariant, OneWriter
<1>3. \A t \in Sessions \ {s} : pc[t] # "written"
  BY <1>1 DEF ClocksInvariant, OneWriter
<1>4. /\ row' \in Times \cup {None}
      /\ row' # None => \E p \in Replicas : row'.updated <= clock[p]
  BY <1>1, <1>2, SavedIsPresent
<1>5. QED
  BY <1>1, <1>3, <1>4, OverKeeps

LEMMA UpdateKeeps ==
  ASSUME ClocksInvariant, NEW s \in Sessions, UpdateNow(s)
  PROVE  ClocksInvariant'
<1>1. pc[s] = "stamped" /\ Forget(s) /\ \A t \in Sessions \ {s} : pc[t] # "written"
  BY DEF UpdateNow, Locked
<1>2. CASE row = None
  BY <1>1, <1>2, OverKeeps DEF UpdateNow, Keep
<1>3. CASE row # None
  <2>1. /\ row' = Saved(s)
        /\ missed' = [t \in Sessions |-> t \notin {s} /\ pc[t] \in {"read", "stamped"}]
    BY <1>3 DEF UpdateNow, Publish
  <2>2. /\ row' \in Times \cup {None}
        /\ row' # None => \E p \in Replicas : row'.updated <= clock[p]
    BY <1>1, <1>3, <2>1, SavedIsPresent
  <2>3. QED
    BY <1>1, <2>1, <2>2, OverKeeps
<1>4. QED
  BY <1>2, <1>3

LEMMA FailKeeps ==
  ASSUME ClocksInvariant, NEW s \in Sessions, Fail(s)
  PROVE  ClocksInvariant'
  BY OverKeeps DEF Fail, Keep

LEMMA WriteKeeps ==
  ASSUME ClocksInvariant, NEW s \in Sessions, Write(s)
  PROVE  ClocksInvariant'
<1>1. /\ pc[s] = "stamped" /\ op[s] \notin NoTransaction /\ ~Refused(s)
      /\ \A t \in Sessions \ {s} : pc[t] # "written"
  BY DEF Write, Locked
<1>2. CASE op[s] # "CreateAccount" /\ row = None
  BY <1>1, <1>2, OverKeeps DEF Write, Keep
<1>3. CASE ~(op[s] # "CreateAccount" /\ row = None)
  <2>1. /\ pc' = [pc EXCEPT ![s] = "written"] /\ clock' = clock /\ row' = row /\ op' = op
        /\ arrived' = arrived /\ stamp' = stamp /\ missed' = missed
    BY <1>3 DEF Write, Goto
  <2>2. pc'[s] = "written" /\ \A t \in Sessions \ {s} : pc'[t] = pc[t]
    BY <2>1 DEF ClocksInvariant, TypeOK
  <2>3. TypeOK' /\ ClocksApart'
    BY <2>1 DEF ClocksInvariant, TypeOK, ClocksApart
  <2>4. op[s] = "CreateAccount" <=> row = None
    BY <1>1, <1>3 DEF Refused
  <2>5. OneWriter'
    BY <1>1, <2>1, <2>2, <2>4 DEF OneWriter
  <2>6. StampsWithin'
    BY <1>1, <2>1, <2>2 DEF ClocksInvariant, StampsWithin, Now
  <2>7. op[s] \in Serializable => ~missed[s]
    BY <1>1 DEF Refused
  <2>8. RowInPast'
    BY <1>1, <2>1, <2>2, <2>7 DEF ClocksInvariant, RowInPast
  <2>9. QED
    BY <2>3, <2>5, <2>6, <2>8 DEF ClocksInvariant
<1>4. QED
  BY <1>2, <1>3

LEMMA ArriveKeeps ==
  ASSUME ClocksInvariant, NEW s \in Sessions, Arrive(s)
  PROVE  ClocksInvariant'
<1>1. PICK h \in Asked : op' = [op EXCEPT ![s] = h]
  BY DEF Arrive
<1>2. /\ pc[s] = "idle" /\ pc' = [pc EXCEPT ![s] = "arrived"]
      /\ arrived' = [arrived EXCEPT ![s] = Now(s)]
      /\ clock' = clock /\ row' = row /\ stamp' = stamp /\ missed' = missed
  BY DEF Arrive, Goto
<1>3. Now(s) \in 0 .. MaxTime
  BY TimestampsAssumption DEF ClocksInvariant, TypeOK, Now
<1>4. /\ pc'[s] = "arrived" /\ op'[s] = h /\ arrived'[s] = Now(s)
      /\ \A t \in Sessions \ {s} : /\ pc'[t] = pc[t] /\ op'[t] = op[t]
                                   /\ arrived'[t] = arrived[t]
  BY <1>1, <1>2 DEF ClocksInvariant, TypeOK
<1>5. TypeOK'
  BY <1>1, <1>2, <1>3 DEF ClocksInvariant, TypeOK
<1>6. ClocksApart' /\ OneWriter'
  BY <1>2, <1>4 DEF ClocksInvariant, ClocksApart, OneWriter
<1>7. StampsWithin'
  BY <1>2, <1>3, <1>4 DEF ClocksInvariant, StampsWithin, Now
<1>8. RowInPast'
  BY <1>2, <1>4 DEF ClocksInvariant, RowInPast
<1>9. QED
  BY <1>5, <1>6, <1>7, <1>8 DEF ClocksInvariant

LEMMA ReadKeeps ==
  ASSUME ClocksInvariant, NEW s \in Sessions, Read(s)
  PROVE  ClocksInvariant'
<1>1. /\ pc[s] = "arrived" /\ pc' = [pc EXCEPT ![s] = "read"]
      /\ missed' = [missed EXCEPT ![s] = FALSE]
      /\ clock' = clock /\ row' = row /\ op' = op /\ arrived' = arrived /\ stamp' = stamp
  BY DEF Read, Goto
<1>2. /\ pc'[s] = "read"
      /\ \A t \in Sessions \ {s} : pc'[t] = pc[t] /\ missed'[t] = missed[t]
  BY <1>1 DEF ClocksInvariant, TypeOK
<1>3. TypeOK'
  BY <1>1 DEF ClocksInvariant, TypeOK
<1>4. ClocksApart' /\ OneWriter'
  BY <1>1, <1>2 DEF ClocksInvariant, ClocksApart, OneWriter
<1>5. StampsWithin'
  BY <1>1, <1>2 DEF ClocksInvariant, StampsWithin, Now
<1>6. RowInPast'
  BY <1>1, <1>2 DEF ClocksInvariant, RowInPast
<1>7. QED
  BY <1>3, <1>4, <1>5, <1>6 DEF ClocksInvariant

(* The row is there when the clock is read, or the snapshot misses it.     *)
LEMMA StampKeeps ==
  ASSUME ClocksInvariant, NEW s \in Sessions, Stamp(s)
  PROVE  ClocksInvariant'
<1>1. /\ pc[s] = "read" /\ pc' = [pc EXCEPT ![s] = "stamped"]
      /\ stamp' = [stamp EXCEPT ![s] = Now(s)]
      /\ clock' = clock /\ row' = row /\ op' = op /\ arrived' = arrived /\ missed' = missed
  BY DEF Stamp, Goto
<1>2. Now(s) \in 0 .. MaxTime /\ Replica[s] \in Replicas
  BY TimestampsAssumption DEF ClocksInvariant, TypeOK, Now
<1>3. /\ pc'[s] = "stamped" /\ stamp'[s] = Now(s)
      /\ \A t \in Sessions \ {s} : pc'[t] = pc[t] /\ stamp'[t] = stamp[t]
  BY <1>1 DEF ClocksInvariant, TypeOK
<1>4. TypeOK'
  BY <1>1, <1>2 DEF ClocksInvariant, TypeOK
<1>5. ClocksApart' /\ OneWriter'
  BY <1>1, <1>3 DEF ClocksInvariant, ClocksApart, OneWriter
<1>6. StampsWithin'
  BY <1>1, <1>2, <1>3 DEF ClocksInvariant, StampsWithin, Now
<1>7. row # None => row.updated - MaxSkew <= Now(s)
  <2> SUFFICES ASSUME row # None PROVE row.updated - MaxSkew <= Now(s)
    OBVIOUS
  <2>1. PICK p \in Replicas : row.updated <= clock[p]
    BY DEF ClocksInvariant, RowInPast
  <2>2. clock[p] - clock[Replica[s]] <= MaxSkew
    BY <1>2 DEF ClocksInvariant, ClocksApart
  <2>3. /\ row.updated \in 0 .. MaxTime /\ clock[p] \in 0 .. MaxTime
        /\ clock[Replica[s]] \in 0 .. MaxTime /\ MaxSkew \in Nat /\ MaxTime \in Nat
    BY <1>2, TimestampsAssumption DEF ClocksInvariant, TypeOK
  <2>4. QED
    BY <2>1, <2>2, <2>3 DEF Now
<1>8. RowInPast'
  BY <1>1, <1>3, <1>7 DEF ClocksInvariant, RowInPast
<1>9. QED
  BY <1>4, <1>5, <1>6, <1>8 DEF ClocksInvariant

LEMMA UnreferKeeps ==
  ASSUME ClocksInvariant, Unrefer
  PROVE  ClocksInvariant'
<1>1. /\ row # None /\ row' = [row EXCEPT !.referred = FALSE]
      /\ missed' = [t \in Sessions |-> t \notin {} /\ pc[t] \in {"read", "stamped"}]
      /\ \A s \in Sessions : pc[s] # "written"
      /\ clock' = clock /\ pc' = pc /\ op' = op /\ arrived' = arrived /\ stamp' = stamp
  BY DEF Unrefer, Publish
<1>2. row \in Times
  BY <1>1 DEF ClocksInvariant, TypeOK, Times
<1>3. row' \in Times /\ row'.updated = row.updated
  BY <1>1, <1>2 DEF Times
<1>4. TypeOK'
  BY <1>1, <1>3 DEF ClocksInvariant, TypeOK, Times
<1>5. ClocksApart' /\ OneWriter'
  BY <1>1 DEF ClocksInvariant, ClocksApart, OneWriter
<1>6. StampsWithin'
  BY <1>1 DEF ClocksInvariant, StampsWithin, Now
<1>7. RowInPast'
  BY <1>1, <1>3 DEF ClocksInvariant, RowInPast
<1>8. QED
  BY <1>4, <1>5, <1>6, <1>7 DEF ClocksInvariant

LEMMA TickKeeps ==
  ASSUME ClocksInvariant, NEW p \in Replicas, Tick(p)
  PROVE  ClocksInvariant'
<1>1. /\ clock[p] < MaxTime /\ clock' = [clock EXCEPT ![p] = clock[p] + 1]
      /\ \A q \in Replicas : clock[p] + 1 - clock[q] <= MaxSkew \/ q = p
      /\ row' = row /\ pc' = pc /\ op' = op /\ arrived' = arrived /\ stamp' = stamp
      /\ missed' = missed
  BY DEF Tick
<1>2. MaxTime \in Nat /\ MaxSkew \in Nat /\ \A q \in Replicas : clock[q] \in 0 .. MaxTime
  BY TimestampsAssumption DEF ClocksInvariant, TypeOK
<1>3. /\ clock'[p] = clock[p] + 1 /\ \A q \in Replicas \ {p} : clock'[q] = clock[q]
      /\ \A q \in Replicas : clock[q] <= clock'[q]
  BY <1>1, <1>2 DEF ClocksInvariant, TypeOK
<1>4. TypeOK'
  BY <1>1, <1>2 DEF ClocksInvariant, TypeOK
<1>5. ClocksApart'
  <2> SUFFICES ASSUME NEW q \in Replicas, NEW r \in Replicas
               PROVE  clock'[q] - clock'[r] <= MaxSkew
    BY DEF ClocksApart
  <2>1. clock[q] - clock[r] <= MaxSkew
    BY DEF ClocksInvariant, ClocksApart
  <2>2. CASE q = p /\ r = p
    BY <1>2, <1>3, <2>1, <2>2
  <2>3. CASE q = p /\ r # p
    BY <1>1, <1>2, <1>3, <2>3
  <2>4. CASE q # p
    BY <1>2, <1>3, <2>1, <2>4
  <2>5. QED
    BY <2>2, <2>3, <2>4
<1>6. OneWriter'
  BY <1>1 DEF ClocksInvariant, OneWriter
<1>7. StampsWithin'
  <2> SUFFICES ASSUME NEW s \in Sessions
               PROVE  /\ pc[s] # "idle" => op[s] \in Asked /\ arrived[s] <= clock'[Replica[s]]
                      /\ pc[s] \in {"stamped", "written"} =>
                           arrived[s] <= stamp[s] /\ stamp[s] <= clock'[Replica[s]]
    BY <1>1 DEF StampsWithin, Now
  <2>1. Replica[s] \in Replicas
    BY TimestampsAssumption
  <2>2. /\ arrived[s] \in 0 .. MaxTime /\ stamp[s] \in 0 .. MaxTime
        /\ clock[Replica[s]] \in 0 .. MaxTime /\ clock'[Replica[s]] \in 0 .. MaxTime
        /\ clock[Replica[s]] <= clock'[Replica[s]]
    BY <1>3, <1>4, <2>1 DEF ClocksInvariant, TypeOK
  <2>3. QED
    BY <1>2, <2>2 DEF ClocksInvariant, StampsWithin, Now
<1>8. RowInPast'
  <2>1. ASSUME row # None PROVE \E q \in Replicas : row.updated <= clock'[q]
    <3>1. PICK q \in Replicas : row.updated <= clock[q]
      BY <2>1 DEF ClocksInvariant, RowInPast
    <3>2. /\ row.updated \in 0 .. MaxTime /\ clock[q] \in 0 .. MaxTime
          /\ clock'[q] \in 0 .. MaxTime /\ clock[q] <= clock'[q]
      BY <1>3, <1>4, <2>1 DEF ClocksInvariant, TypeOK
    <3>3. QED
      BY <1>2, <3>1, <3>2
  <2>2. QED
    BY <1>1, <2>1 DEF ClocksInvariant, RowInPast
<1>9. QED
  BY <1>4, <1>5, <1>6, <1>7, <1>8 DEF ClocksInvariant

(* Stamps are of their requests, rows of the past, and snapshots that miss *)
(* nothing older than their own stamps, for any clocks within the skew.    *)
THEOREM ClocksFit == Spec => []ClocksInvariant
<1>1. Init => ClocksInvariant
  BY TimestampsAssumption
     DEF Init, ClocksInvariant, TypeOK, ClocksApart, OneWriter, StampsWithin, RowInPast
<1>2. ClocksInvariant /\ [Next]_vars => ClocksInvariant'
  <2> SUFFICES ASSUME ClocksInvariant, [Next]_vars PROVE ClocksInvariant'
    OBVIOUS
  <2>1. CASE UNCHANGED vars
    BY <2>1 DEF vars, ClocksInvariant, TypeOK, ClocksApart, OneWriter, StampsWithin,
                RowInPast, Now
  <2>2. CASE Next
    BY <2>2, ArriveKeeps, ReadKeeps, StampKeeps, WriteKeeps, CommitKeeps, UpdateKeeps,
       FailKeeps, TickKeeps, UnreferKeeps DEF Next
  <2>3. QED
    BY <2>1, <2>2
<1>3. QED
  BY <1>1, <1>2, PTL DEF Spec

(* A handler that commits to the row commits what its statement left.      *)
LEMMA OnlyItsOwn ==
  ASSUME ClocksInvariant, [Next]_vars, NEW s \in Sessions, Saves(s)
  PROVE  /\ row' = Saved(s) /\ pc[s] \in {"stamped", "written"} /\ clock' = clock
         /\ op[s] = "CreateAccount" \/ row # None
         /\ op[s] \in Serializable => pc[s] = "written"
<1>1. pc[s] # pc'[s] /\ pc'[s] = "idle" /\ row' # row
  BY DEF Saves
<1>2. \A t \in Sessions : Arrive(t) \/ Read(t) \/ Stamp(t) \/ Fail(t) => row' = row
  BY DEF Arrive, Read, Stamp, Fail, Keep
<1>3. \A t \in Sessions : Write(t) => row' = row
  BY DEF Write, Keep
<1>4. \A t \in Sessions : Commit(t) \/ UpdateNow(t) => \A u \in Sessions \ {t} : pc'[u] = pc[u]
  BY DEF Commit, UpdateNow, Forget, Goto, ClocksInvariant, TypeOK
<1>5. Commit(s) \/ UpdateNow(s)
  <2>1. ~UNCHANGED vars
    BY <1>1 DEF vars
  <2>2. ~Unrefer /\ \A p \in Replicas : ~Tick(p)
    BY <1>1 DEF Unrefer, Tick
  <2>3. QED
    BY <1>1, <1>2, <1>3, <1>4, <2>1, <2>2 DEF Next
<1>6. CASE Commit(s)
  BY <1>6 DEF Commit, Publish, Forget, ClocksInvariant, OneWriter
<1>7. CASE UpdateNow(s)
  <2>1. row # None
    BY <1>1, <1>7 DEF UpdateNow, Keep
  <2>2. op[s] \notin Serializable
    BY <1>7 DEF UpdateNow, NoTransaction, Serializable
  <2>3. QED
    BY <1>7, <2>1, <2>2 DEF UpdateNow, Publish, Forget
<1>8. QED
  BY <1>5, <1>6, <1>7

(* updated_at is a time between the arrival and the end of its request.    *)
THEOREM StampsStayFresh == Spec => StampsAreFresh
<1>1. ClocksInvariant /\ [Next]_vars =>
        \A s \in Sessions : Saves(s) /\ row' # None => row'.updated \in arrived[s] .. Now(s)
  <2> SUFFICES ASSUME ClocksInvariant, [Next]_vars, NEW s \in Sessions, Saves(s), row' # None
               PROVE  row'.updated \in arrived[s] .. Now(s)
    OBVIOUS
  <2>1. /\ row' = Saved(s) /\ pc[s] \in {"stamped", "written"}
        /\ op[s] = "CreateAccount" \/ row # None
    BY OnlyItsOwn
  <2>2. row'.updated = stamp[s]
    BY <2>1, SavedIs DEF ClocksInvariant
  <2>3. arrived[s] <= stamp[s] /\ stamp[s] <= Now(s)
    BY <2>1 DEF ClocksInvariant, StampsWithin
  <2>4. /\ stamp[s] \in 0 .. MaxTime /\ arrived[s] \in 0 .. MaxTime /\ Now(s) \in 0 .. MaxTime
    BY TimestampsAssumption DEF ClocksInvariant, TypeOK, Now
  <2>5. QED
    BY <2>2, <2>3, <2>4
<1>2. QED
  BY <1>1, ClocksFit, PTL DEF Spec, StampsAreFresh

(* A serializable transaction sees what it replaces, so it stamps later    *)
(* than that, but for the skew of the clocks.                              *)
THEOREM LinksStampForward == Spec => LinksMoveForward
<1>1. ClocksInvariant /\ [Next]_vars =>
        \A s \in Sessions :
          Saves(s) /\ op[s] \in Serializable => row.updated - MaxSkew <= row'.updated
  <2> SUFFICES ASSUME ClocksInvariant, [Next]_vars, NEW s \in Sessions, Saves(s),
                      op[s] \in Serializable
               PROVE  row.updated - MaxSkew <= row'.updated
    OBVIOUS
  <2>1. /\ row' = Saved(s) /\ pc[s] = "written"
        /\ op[s] = "CreateAccount" \/ row # None
    BY OnlyItsOwn
  <2>2. op[s] # "DeleteUser" /\ op[s] # "CreateAccount"
    BY DEF Serializable
  <2>3. row'.updated = stamp[s] /\ row # None
    BY <2>1, <2>2, SavedIs DEF ClocksInvariant
  <2>4. QED
    BY <2>1, <2>3 DEF ClocksInvariant, RowInPast
<1>2. QED
  BY <1>1, ClocksFit, PTL DEF Spec, LinksMoveForward

=============================================================================
