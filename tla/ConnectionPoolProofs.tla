------------------------ MODULE ConnectionPoolProofs ------------------------
(***************************************************************************)
(* Requests never wait for connections and locks in a circle, for any      *)
(* number of requests and locks and pools of any capacity.                 *)
(***************************************************************************)
EXTENDS ConnectionPool, TLAPS

(* A handler starts with nothing: no connection, no lock.                  *)
LEMMA PoolInvariantAtStart == Init => PoolInvariant
  BY PoolAssumption
     DEF Init, PoolInvariant, TypeOK, NothingLeaks, Kinds, KeepsWriter, KeepsReader

(* BeginTx takes a Writer connection exactly when the transaction starts.  *)
LEMMA BeginKeeps ==
  ASSUME PoolInvariant, NEW s \in Sessions, Begin(s)
  PROVE  PoolInvariant'
<1>1. TypeOK'
  BY DEF PoolInvariant, TypeOK, Begin, Goto, KeepsWriter, KeepsReader
<1>2. NothingLeaks'
  BY DEF PoolInvariant, NothingLeaks, TypeOK, Begin, Goto, KeepsWriter, KeepsReader
<1>3. QED
  BY <1>1, <1>2 DEF PoolInvariant

(* A lock is granted to the one request that asks for it.                  *)
LEMMA LockKeeps ==
  ASSUME PoolInvariant, NEW s \in Sessions, Lock(s)
  PROVE  PoolInvariant'
<1>1. TypeOK'
  BY DEF PoolInvariant, TypeOK, Lock, Goto, KeepsWriter, KeepsReader
<1>2. NothingLeaks'
  BY DEF PoolInvariant, NothingLeaks, TypeOK, Lock, FreeOf, Goto, KeepsWriter, KeepsReader
<1>3. QED
  BY <1>1, <1>2 DEF PoolInvariant

(* However a request ends its transaction, it keeps nothing.               *)
LEMMA EndKeeps ==
  ASSUME PoolInvariant, NEW s \in Sessions, NEW label \in {"idle", "query"},
         End(s, label)
  PROVE  PoolInvariant'
<1>1. TypeOK'
  BY PoolAssumption
     DEF PoolInvariant, TypeOK, End, Unlocked, Goto, KeepsWriter, KeepsReader
<1>2. NothingLeaks'
  BY PoolAssumption
     DEF PoolInvariant, NothingLeaks, TypeOK, End, Unlocked, Goto, KeepsWriter, KeepsReader
<1>3. QED
  BY <1>1, <1>2 DEF PoolInvariant

(* A Reader connection is kept while its query runs, and no longer.        *)
LEMMA TakeKeeps ==
  ASSUME PoolInvariant, NEW s \in Sessions, Draw(s) \/ Query(s) \/ Update(s)
  PROVE  PoolInvariant'
<1>1. TypeOK'
  BY DEF PoolInvariant, TypeOK, Draw, Query, Update, Take, Goto, KeepsWriter, KeepsReader
<1>2. NothingLeaks'
  BY DEF PoolInvariant, NothingLeaks, TypeOK, Draw, Query, Update, Take, Goto,
         KeepsWriter, KeepsReader
<1>3. QED
  BY <1>1, <1>2 DEF PoolInvariant

LEMMA ReleaseKeeps ==
  ASSUME PoolInvariant, NEW s \in Sessions,
         CodeTaken(s) \/ CodeUnused(s) \/ Queried(s) \/ Updated(s)
  PROVE  PoolInvariant'
<1>1. TypeOK'
  BY DEF PoolInvariant, TypeOK, CodeTaken, CodeUnused, Queried, Updated, Release, Goto,
         KeepsWriter, KeepsReader
<1>2. NothingLeaks'
  BY DEF PoolInvariant, NothingLeaks, TypeOK, CodeTaken, CodeUnused, Queried, Updated,
         Release, Goto, KeepsWriter, KeepsReader
<1>3. QED
  BY <1>1, <1>2 DEF PoolInvariant

(* A new request takes the slot of one that kept nothing.                  *)
LEMMA ArriveKeeps ==
  ASSUME PoolInvariant, NEW s \in Sessions, NEW k \in Kinds, NEW l \in Locks,
         Arrive(s, k, l)
  PROVE  PoolInvariant'
<1>1. TypeOK'
  BY DEF PoolInvariant, TypeOK, Arrive, Goto, Kinds, KeepsWriter, KeepsReader
<1>2. NothingLeaks'
  BY DEF PoolInvariant, NothingLeaks, TypeOK, Arrive, Goto, KeepsWriter, KeepsReader
<1>3. QED
  BY <1>1, <1>2 DEF PoolInvariant

LEMMA NextKeepsPoolInvariant ==
  ASSUME PoolInvariant, [Next]_vars
  PROVE  PoolInvariant'
<1>1. ASSUME NEW s \in Sessions, Step(s)
      PROVE  PoolInvariant'
  <2>1. ASSUME Commit(s) PROVE PoolInvariant'
    BY <2>1, EndKeeps DEF Commit
  <2>2. QED
    BY <1>1, <2>1, BeginKeeps, LockKeeps, TakeKeeps, ReleaseKeeps DEF Step
<1>2. ASSUME NEW s \in Sessions, Fail(s)
      PROVE  PoolInvariant'
  BY <1>2, EndKeeps DEF Fail
<1>3. CASE UNCHANGED vars
  BY <1>3 DEF vars, PoolInvariant, TypeOK, NothingLeaks
<1>4. QED
  BY <1>1, <1>2, <1>3, ArriveKeeps DEF Next

(* Every handler gives back every connection and every lock, on each of    *)
(* its paths.                                                              *)
THEOREM ConnectionsComeBack == Spec => []PoolInvariant
<1>1. Init => PoolInvariant
  BY PoolInvariantAtStart
<1>2. PoolInvariant /\ [Next]_vars => PoolInvariant'
  BY NextKeepsPoolInvariant
<1>3. QED
  BY <1>1, <1>2, PTL DEF Spec

----------------------------------------------------------------------------
(* Who keeps a lock is about to commit, and waits for nobody.  Hence who   *)
(* waits for a lock waits for a request that can move; who keeps a Reader  *)
(* connection waits at most for a lock; who keeps a Writer connection, for *)
(* a lock or a Reader connection.                                          *)
LEMMA NobodyWaitsInACircle ==
  ASSUME PoolInvariant
  PROVE  NoCircularWait
<1> SUFFICES ASSUME NEW S \in SUBSET Sessions, S # {},
                    \A s \in S : WaitsFor(s) # {} /\ WaitsFor(s) \subseteq S
             PROVE  FALSE
  BY DEF NoCircularWait
<1>1. \A s \in S : pc[s] \notin {"idle", "commit", "drawing", "querying"}
  BY DEF WaitsFor
<1>2. \A s \in S : pc[s] \notin {"lock", "updating"}
  <2>1. SUFFICES ASSUME NEW s \in S, pc[s] \in {"lock", "updating"}
                 PROVE  FALSE
    OBVIOUS
  <2>2. WaitsFor(s) = {owner[wants[s]]} \ {None, s}
    BY <2>1 DEF WaitsFor
  <2>3. owner[wants[s]] \in S
    BY <2>2
  <2>4. pc[owner[wants[s]]] = "commit"
    BY <2>3 DEF PoolInvariant, TypeOK, NothingLeaks
  <2>5. QED
    BY <1>1, <2>3, <2>4
<1>3. \A s \in S : pc[s] \notin {"draw", "query", "update"}
  <2>1. SUFFICES ASSUME NEW s \in S, pc[s] \in {"draw", "query", "update"}
                 PROVE  FALSE
    OBVIOUS
  <2>2. WaitsFor(s) = IF ReaderFull THEN reader ELSE {}
    BY <2>1 DEF WaitsFor
  <2>3. PICK r \in S : r \in reader
    BY <2>2
  <2>4. pc[r] \in KeepsReader
    BY <2>3 DEF PoolInvariant, NothingLeaks
  <2>5. QED
    BY <1>1, <1>2, <2>4 DEF KeepsReader
<1>4. PICK s \in S : pc[s] = "begin"
  BY <1>1, <1>2, <1>3 DEF PoolInvariant, TypeOK, KeepsWriter, KeepsReader
<1>5. WaitsFor(s) = IF WriterFull THEN writer ELSE {}
  BY <1>4 DEF WaitsFor
<1>6. PICK w \in S : w \in writer
  BY <1>5
<1>7. pc[w] \in KeepsWriter
  BY <1>6 DEF PoolInvariant, NothingLeaks
<1>8. QED
  BY <1>1, <1>2, <1>3, <1>7 DEF KeepsWriter

(* At the limits of both pools some request of any set that waits waits    *)
(* for a request outside the set, or can move.                             *)
THEOREM WaitingIsNeverCircular == Spec => []NoCircularWait
<1>1. PoolInvariant => NoCircularWait
  BY NobodyWaitsInACircle
<1>2. QED
  BY <1>1, ConnectionsComeBack, PTL

=============================================================================
