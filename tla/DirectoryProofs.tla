--------------------------- MODULE DirectoryProofs ---------------------------
(***************************************************************************)
(* The accounts of the Directory stay consistent, for any requests,        *)
(* sessions and accounts.  Each effect is checked against all entries; the *)
(* control of a request then only chooses effects.                         *)
(***************************************************************************)
EXTENDS Directory, TLAPS

EntriesInvariant == EntriesTyped /\ EntriesConsistent

(* An entry that is changed keeps its code and its links, gets only an     *)
(* address or a wallet that nobody has, and a referrer that has a wallet.  *)
Improves(a, entry) ==
  /\ entry.code = dir[a].code
  /\ dir[a].email # None => entry.email = dir[a].email
  /\ entry.email # None => FreeAddress(entry.email, a)
  /\ entry.confirmed => entry.email # None
  /\ dir[a].wallet # None => entry.wallet = dir[a].wallet
  /\ entry.wallet # None => \A b \in AccountIds \ {a} : ~OwnsWallet(b, entry.wallet)
  /\ entry.referredBy # None =>
       /\ entry.referredBy \in AccountIds \ {a} /\ Present(entry.referredBy)
       /\ entry.referredAt /\ entry.wallet # None
       /\ dir[entry.referredBy].wallet # None

(* Such a change keeps everything.                                         *)
LEMMA PutKeeps ==
  ASSUME EntriesInvariant, NEW a \in AccountIds, Present(a),
         NEW entry \in Entry, Improves(a, entry), Put(a, entry)
  PROVE  EntriesInvariant'
<1>1. dir' = [dir EXCEPT ![a] = entry] /\ used' = used
  BY DEF Put
<1>2. entry # None
  BY EntriesAssumption
<1>3. dir \in [AccountIds -> Entry \cup {None}]
  BY DEF EntriesInvariant, EntriesTyped
<1>4. dir'[a] = entry /\ \A b \in AccountIds \ {a} : dir'[b] = dir[b]
  BY <1>1, <1>3
<1>5. \A b \in AccountIds : Present(b)' <=> Present(b)
  BY <1>2, <1>4 DEF Present
<1>6. EntriesTyped'
  BY <1>1, <1>3 DEF EntriesInvariant, EntriesTyped
<1>7. NothingShared'
  <2> SUFFICES ASSUME NEW b \in AccountIds, NEW c \in AccountIds,
                      Present(b)', Present(c)', b # c
               PROVE  /\ dir'[b].email # None => dir'[b].email # dir'[c].email
                      /\ dir'[b].wallet # None => dir'[b].wallet # dir'[c].wallet
                      /\ dir'[b].code # dir'[c].code
    BY DEF NothingShared, Present
  <2>1. Present(b) /\ Present(c)
    BY <1>5
  <2>2. CASE b = a
    BY <1>4, <2>1, <2>2
       DEF Improves, FreeAddress, HasAddress, OwnsWallet, EntriesInvariant,
           EntriesConsistent, NothingShared
  <2>3. CASE c = a
    BY <1>4, <2>1, <2>3
       DEF Improves, FreeAddress, HasAddress, OwnsWallet, EntriesInvariant,
           EntriesConsistent, NothingShared
  <2>4. CASE b # a /\ c # a
    BY <1>4, <2>1, <2>4 DEF EntriesInvariant, EntriesConsistent, NothingShared
  <2>5. QED
    BY <2>2, <2>3, <2>4
<1>8. AllReachable'
  BY <1>1, <1>4, <1>5 DEF Improves, EntriesInvariant, EntriesConsistent, AllReachable
<1>9. ReferrersReal'
  <2> SUFFICES ASSUME NEW b \in AccountIds, Present(b)', dir'[b].referredBy # None
               PROVE  /\ dir'[b].referredBy # b
                      /\ dir'[dir'[b].referredBy] # None
                      /\ dir'[b].referredAt
                      /\ dir'[b].wallet # None
                      /\ dir'[dir'[b].referredBy].wallet # None
    BY DEF ReferrersReal, Present
  <2>1. CASE b = a
    BY <1>4, <1>5, <2>1 DEF Improves, Present
  <2>2. CASE b # a
    <3>1. Present(b) /\ dir'[b] = dir[b]
      BY <1>4, <1>5, <2>2
    <3>2. dir[b].referredBy \in AccountIds
      BY <1>3, <3>1 DEF Present, Entry
    <3>3. /\ dir[b].referredBy # b /\ Present(dir[b].referredBy)
          /\ dir[b].referredAt /\ dir[b].wallet # None
          /\ dir[dir[b].referredBy].wallet # None
      BY <3>1 DEF EntriesInvariant, EntriesConsistent, ReferrersReal
    <3>4. QED
      BY <1>4, <1>5, <3>1, <3>2, <3>3 DEF Improves, Present
  <2>3. QED
    BY <2>1, <2>2
<1>10. QED
  BY <1>6, <1>7, <1>8, <1>9 DEF EntriesInvariant, EntriesConsistent

(* CreateAccount: nobody has the wallet or address, and the id is new.     *)
LEMMA CreateKeeps ==
  ASSUME EntriesInvariant, NEW r \in Requests, NEW a \in AccountIds, Create(r, a)
  PROVE  EntriesInvariant'
<1>1. PICK c \in Codes : /\ \A b \in AccountIds : ~OwnsCode(b, c)
                         /\ dir' = [dir EXCEPT ![a] = NewEntry(r.cred, c)]
  BY DEF Create
<1>2. a \notin used /\ used' = used \cup {a} /\ NobodyHas(r)
  BY DEF Create
<1>3. dir \in [AccountIds -> Entry \cup {None}]
  BY DEF EntriesInvariant, EntriesTyped
<1>4. r.cred \in Wallets \/ (r.cred \notin Wallets /\ Normalize[r.cred] \in Addresses)
  BY EntriesAssumption
<1>5. NewEntry(r.cred, c) \in Entry /\ NewEntry(r.cred, c) # None
  <2>1. NewEntry(r.cred, c) \in Entry
    BY <1>4 DEF NewEntry, Entry
  <2>2. QED
    BY <2>1, EntriesAssumption
<1>6. ~Present(a)
  BY <1>2 DEF EntriesInvariant, EntriesConsistent, AllReachable
<1>7. dir'[a] = NewEntry(r.cred, c) /\ \A b \in AccountIds \ {a} : dir'[b] = dir[b]
  BY <1>1, <1>3
<1>8. \A b \in AccountIds : Present(b)' <=> b = a \/ Present(b)
  BY <1>5, <1>7 DEF Present
<1>9. EntriesTyped'
  BY <1>1, <1>2, <1>3, <1>5 DEF EntriesInvariant, EntriesTyped
<1>10. NothingShared'
  <2>1. \A b \in AccountIds : Present(b) =>
          /\ dir'[a].email # None => dir[b].email # dir'[a].email
          /\ dir'[a].wallet # None => dir[b].wallet # dir'[a].wallet
          /\ dir[b].code # dir'[a].code
    BY <1>1, <1>2, <1>4, <1>7
       DEF NobodyHas, Denotes, OwnsWallet, HasAddress, OwnsCode, NewEntry
  <2>2. QED
    BY <1>6, <1>7, <1>8, <2>1
       DEF EntriesInvariant, EntriesConsistent, NothingShared, Present
<1>11. AllReachable'
  <2>1. /\ dir'[a].email # None \/ dir'[a].wallet # None
        /\ dir'[a].confirmed => dir'[a].email # None
    <3>1. None \notin Addresses \cup Wallets
      BY EntriesAssumption
    <3>2. CASE r.cred \in Wallets
      <4>1. dir'[a].wallet = r.cred
        BY <1>7, <3>2 DEF NewEntry
      <4>2. dir'[a].confirmed = (r.cred \notin Wallets)
        BY <1>7 DEF NewEntry
      <4>3. QED
        BY <3>1, <3>2, <4>1, <4>2
    <3>3. CASE r.cred \notin Wallets
      <4>1. dir'[a].email = Normalize[r.cred]
        BY <1>7, <3>3 DEF NewEntry
      <4>2. QED
        BY <1>4, <3>1, <3>3, <4>1
    <3>4. QED
      BY <3>2, <3>3
  <2>2. QED
    BY <1>2, <1>7, <1>8, <2>1 DEF EntriesInvariant, EntriesConsistent, AllReachable
<1>12. ReferrersReal'
  <2> SUFFICES ASSUME NEW b \in AccountIds, Present(b)', dir'[b].referredBy # None
               PROVE  /\ dir'[b].referredBy # b
                      /\ dir'[dir'[b].referredBy] # None
                      /\ dir'[b].referredAt
                      /\ dir'[b].wallet # None
                      /\ dir'[dir'[b].referredBy].wallet # None
    BY DEF ReferrersReal, Present
  <2>1. b # a
    BY <1>7 DEF NewEntry
  <2>2. Present(b) /\ dir'[b] = dir[b]
    BY <1>7, <1>8, <2>1
  <2>3. dir[b].referredBy \in AccountIds
    BY <1>3, <2>2 DEF Present, Entry
  <2>4. /\ dir[b].referredBy # b /\ Present(dir[b].referredBy)
        /\ dir[b].referredAt /\ dir[b].wallet # None
        /\ dir[dir[b].referredBy].wallet # None
    BY <2>2 DEF EntriesInvariant, EntriesConsistent, ReferrersReal
  <2>5. QED
    BY <1>6, <1>7, <1>8, <2>2, <2>3, <2>4 DEF Present
<1>13. QED
  BY <1>9, <1>10, <1>11, <1>12 DEF EntriesInvariant, EntriesConsistent

(* DeleteUser: nobody is left with a referrer that is gone.                *)
LEMMA RemoveKeeps ==
  ASSUME EntriesInvariant, NEW r \in Requests, NEW a \in AccountIds, RemoveEntry(r, a)
  PROVE  EntriesInvariant'
<1> DEFINE Rest(b) == IF b = a THEN None
                      ELSE IF Present(b) /\ dir[b].referredBy = a
                        THEN [dir[b] EXCEPT !.referredBy = None]
                      ELSE dir[b]
<1>1. used' = used /\ \A b \in AccountIds : dir'[b] = Rest(b)
  BY DEF RemoveEntry
<1>2. dir \in [AccountIds -> Entry \cup {None}]
  BY DEF EntriesInvariant, EntriesTyped
<1>3. \A b \in AccountIds : Present(b) => dir[b] \in Entry
  BY <1>2 DEF Present
<1>4. \A b \in AccountIds : Rest(b) \in Entry \cup {None}
  BY <1>2, <1>3 DEF Entry
<1>5. EntriesTyped'
  BY <1>1, <1>4 DEF EntriesInvariant, EntriesTyped, RemoveEntry
<1>6. \A b \in AccountIds : Present(b)' =>
        /\ b # a /\ Present(b)
        /\ dir'[b].email = dir[b].email /\ dir'[b].wallet = dir[b].wallet
        /\ dir'[b].code = dir[b].code /\ dir'[b].confirmed = dir[b].confirmed
        /\ dir'[b].referredAt = dir[b].referredAt
        /\ dir'[b].referredBy = IF dir[b].referredBy = a THEN None ELSE dir[b].referredBy
  BY <1>1, <1>3 DEF Present, Entry
<1>7. \A b \in AccountIds \ {a} : Present(b) => Present(b)'
  <2>1. \A b \in AccountIds \ {a} : Present(b) => Rest(b) \in Entry
    BY <1>3 DEF Entry
  <2>2. \A b \in AccountIds \ {a} : Present(b) => Rest(b) # None
    BY <2>1, EntriesAssumption
  <2>3. QED
    BY <1>1, <2>2 DEF Present
<1>8. NothingShared'
  BY <1>6 DEF EntriesInvariant, EntriesConsistent, NothingShared
<1>9. AllReachable'
  BY <1>1, <1>6 DEF EntriesInvariant, EntriesConsistent, AllReachable
<1>10. ReferrersReal'
  <2> SUFFICES ASSUME NEW b \in AccountIds, Present(b)', dir'[b].referredBy # None
               PROVE  /\ dir'[b].referredBy # b
                      /\ dir'[dir'[b].referredBy] # None
                      /\ dir'[b].referredAt
                      /\ dir'[b].wallet # None
                      /\ dir'[dir'[b].referredBy].wallet # None
    BY DEF ReferrersReal, Present
  <2>1. /\ Present(b) /\ dir[b].referredBy # None
        /\ dir'[b].referredBy = dir[b].referredBy /\ dir[b].referredBy # a
    BY <1>6
  <2>2. dir[b].referredBy \in AccountIds
    BY <1>3, <2>1 DEF Entry
  <2>3. /\ dir[b].referredBy # b /\ Present(dir[b].referredBy)
        /\ dir[b].referredAt /\ dir[b].wallet # None
        /\ dir[dir[b].referredBy].wallet # None
    BY <2>1 DEF EntriesInvariant, EntriesConsistent, ReferrersReal
  <2>4. QED
    BY <1>6, <1>7, <2>1, <2>2, <2>3 DEF Present
<1>11. QED
  BY <1>5, <1>8, <1>9, <1>10 DEF EntriesInvariant, EntriesConsistent

(* What an entry of a consistent directory already satisfies.              *)
LEMMA PresentEntry ==
  ASSUME EntriesInvariant, NEW a \in AccountIds, Present(a)
  PROVE  dir[a] \in Entry /\ Improves(a, dir[a])
<1>1. dir[a] \in Entry
  BY DEF EntriesInvariant, EntriesTyped, Present
<1>2. Improves(a, dir[a])
  BY <1>1 DEF Improves, FreeAddress, HasAddress, OwnsWallet, Entry,
     EntriesInvariant, EntriesConsistent, NothingShared, AllReachable, ReferrersReal
<1>3. QED
  BY <1>1, <1>2

(* Every other change puts an improved entry in its place.                 *)
LEMMA ChangeIsPut ==
  ASSUME EntriesInvariant, NEW r \in Requests, NEW a \in AccountIds, Present(a),
         SetCountry(r, a) \/ AcceptTerms(r, a) \/ AddEmail(r, a)
           \/ AddConfirmedEmail(r, a) \/ AddWallet(r, a) \/ SetReferrer(r, a)
  PROVE  \E entry \in Entry : Improves(a, entry) /\ Put(a, entry)
<1>1. dir[a] \in Entry /\ Improves(a, dir[a])
  BY PresentEntry
<1>2. CASE SetCountry(r, a)
  <2> DEFINE e == [dir[a] EXCEPT !.country = r.arg]
  <2>1. e \in Entry /\ Improves(a, e)
    BY <1>1, <1>2, EntriesAssumption DEF SetCountry, Entry, Improves
  <2>2. QED
    BY <1>2, <2>1 DEF SetCountry
<1>3. CASE AcceptTerms(r, a)
  <2> DEFINE e == [dir[a] EXCEPT !.acceptedTos = TRUE]
  <2>1. e \in Entry /\ Improves(a, e)
    BY <1>1 DEF Entry, Improves
  <2>2. QED
    BY <1>3, <2>1 DEF AcceptTerms
<1>4. CASE AddEmail(r, a)
  <2> DEFINE e == [dir[a] EXCEPT !.email = Normalize[r.arg]]
  <2>1. Normalize[r.arg] \in Addresses
    BY <1>4, EntriesAssumption DEF AddEmail, ArgumentsOf
  <2>2. e \in Entry /\ Improves(a, e)
    BY <1>1, <1>4, <2>1, EntriesAssumption DEF AddEmail, Entry, Improves
  <2>3. QED
    BY <1>4, <2>2 DEF AddEmail
<1>5. CASE AddConfirmedEmail(r, a)
  <2> DEFINE e == [dir[a] EXCEPT !.email = Normalize[r.arg], !.confirmed = TRUE]
  <2>1. Normalize[r.arg] \in Addresses
    BY <1>5, EntriesAssumption DEF AddConfirmedEmail, ArgumentsOf
  <2>2. e \in Entry /\ Improves(a, e)
    BY <1>1, <1>5, <2>1, EntriesAssumption DEF AddConfirmedEmail, Entry, Improves
  <2>3. QED
    BY <1>5, <2>2 DEF AddConfirmedEmail
<1>6. CASE AddWallet(r, a)
  <2> DEFINE e == [dir[a] EXCEPT !.wallet = r.arg]
  <2>1. r.arg \in Wallets
    BY <1>6, EntriesAssumption DEF AddWallet, ArgumentsOf
  <2>2. e \in Entry /\ Improves(a, e)
    BY <1>1, <1>6, <2>1, EntriesAssumption DEF AddWallet, Entry, Improves
  <2>3. QED
    BY <1>6, <2>2 DEF AddWallet
<1>7. CASE SetReferrer(r, a)
  <2>1. PICK b \in AccountIds \ {a} :
          /\ OwnsCode(b, r.arg)
          /\ dir[a].wallet # None /\ dir[b].wallet # None
          /\ Put(a, [dir[a] EXCEPT !.referredBy = b, !.referredAt = TRUE])
    BY <1>7 DEF SetReferrer
  <2> DEFINE e == [dir[a] EXCEPT !.referredBy = b, !.referredAt = TRUE]
  <2>2. e \in Entry
    BY <1>1 DEF Entry
  <2>3. Improves(a, e)
    BY <1>1, <2>1 DEF Entry, Improves, OwnsCode
  <2>4. QED
    BY <2>1, <2>2, <2>3
<1>8. QED
  BY <1>2, <1>3, <1>4, <1>5, <1>6, <1>7

LEMMA ChangeKeeps ==
  ASSUME EntriesInvariant, NEW r \in Requests, NEW a \in AccountIds, Present(a),
         SetCountry(r, a) \/ AcceptTerms(r, a) \/ AddEmail(r, a)
           \/ AddConfirmedEmail(r, a) \/ AddWallet(r, a) \/ SetReferrer(r, a)
  PROVE  EntriesInvariant'
  BY ChangeIsPut, PutKeeps

(* Every effect of every request, whatever interleaves with it.            *)
LEMMA EffectKeeps ==
  ASSUME EntriesInvariant, NEW r \in Requests, NEW a \in AccountIds, Effect(r, a)
  PROVE  EntriesInvariant'
  BY CreateKeeps, RemoveKeeps, ChangeKeeps DEF Effect

LEMMA NothingChanges ==
  ASSUME EntriesInvariant, UNCHANGED directory
  PROVE  EntriesInvariant'
  BY DEF directory, EntriesInvariant, EntriesTyped, EntriesConsistent, NothingShared,
         AllReachable, ReferrersReal, Present

----------------------------------------------------------------------------
(* What an effect leaves to the other requests, and to who reads.          *)

(* The account a keeps what it is known by,                                *)
Stays(a) ==
  /\ Present(a)'
  /\ dir[a].email # None => dir'[a].email = dir[a].email
  /\ dir[a].wallet # None => dir'[a].wallet = dir[a].wallet
  /\ dir'[a].code = dir[a].code

(* and nobody gets what is not theirs.                                     *)
EntriesLast ==
  /\ used \subseteq used'
  /\ \A a \in used : Present(a)' => Present(a)
  /\ \A a \in AccountIds : Present(a) /\ Present(a)' => Stays(a)

LEMMA PutLasts ==
  ASSUME EntriesInvariant, NEW a \in AccountIds, Present(a),
         NEW entry \in Entry, Improves(a, entry), Put(a, entry)
  PROVE  EntriesLast /\ \A b \in AccountIds : Present(b) => Present(b)'
<1>1. dir' = [dir EXCEPT ![a] = entry] /\ used' = used
  BY DEF Put
<1>2. entry # None
  BY EntriesAssumption
<1>3. dir \in [AccountIds -> Entry \cup {None}] /\ used \subseteq AccountIds
  BY DEF EntriesInvariant, EntriesTyped
<1>4. dir'[a] = entry /\ \A b \in AccountIds \ {a} : dir'[b] = dir[b]
  BY <1>1, <1>3
<1>5. \A b \in AccountIds : Present(b)' <=> Present(b)
  BY <1>2, <1>4 DEF Present
<1>6. \A b \in AccountIds : Present(b) => Stays(b)
  BY <1>4, <1>5 DEF Improves, Stays
<1>7. QED
  BY <1>1, <1>3, <1>5, <1>6 DEF EntriesLast

(* Only DeleteUser removes an account, and only the one it acts on.        *)
LEMMA EffectLasts ==
  ASSUME EntriesInvariant, NEW r \in Requests, NEW a \in AccountIds, Effect(r, a)
  PROVE  /\ EntriesLast
         /\ \A b \in AccountIds : Present(b) =>
              Present(b)' \/ (b = a /\ r.op = "DeleteUser")
<1>0. dir \in [AccountIds -> Entry \cup {None}] /\ used \subseteq AccountIds
  BY DEF EntriesInvariant, EntriesTyped
<1>1. CASE Create(r, a)
  <2>1. PICK c \in Codes : dir' = [dir EXCEPT ![a] = NewEntry(r.cred, c)]
    BY <1>1 DEF Create
  <2>2. a \notin used /\ used' = used \cup {a}
    BY <1>1 DEF Create
  <2>3. ~Present(a)
    BY <2>2 DEF EntriesInvariant, EntriesConsistent, AllReachable
  <2>4. \A b \in AccountIds \ {a} : dir'[b] = dir[b]
    BY <1>0, <2>1
  <2>5. \A b \in AccountIds : Present(b) => Stays(b)
    BY <2>3, <2>4 DEF Stays, Present
  <2>6. \A b \in used : Present(b)' => Present(b)
    BY <1>0, <2>2, <2>4 DEF Present
  <2>7. QED
    BY <2>2, <2>5, <2>6 DEF EntriesLast, Stays
<1>2. CASE RemoveEntry(r, a)
  <2>1. /\ used' = used /\ r.op = "DeleteUser"
        /\ \A b \in AccountIds :
             dir'[b] = IF b = a THEN None
                       ELSE IF Present(b) /\ dir[b].referredBy = a
                         THEN [dir[b] EXCEPT !.referredBy = None]
                       ELSE dir[b]
    BY <1>2 DEF RemoveEntry
  <2>2. ASSUME NEW b \in AccountIds \ {a}, Present(b) PROVE Stays(b)
    <3>1. dir[b] \in Entry
      BY <1>0, <2>2 DEF Present
    <3>2. [dir[b] EXCEPT !.referredBy = None] \in Entry
      BY <3>1 DEF Entry
    <3>3. dir'[b] \in Entry
      BY <2>1, <2>2, <3>1, <3>2
    <3>4. dir'[b] # None
      BY <3>3, EntriesAssumption
    <3>5. /\ dir'[b].email = dir[b].email /\ dir'[b].wallet = dir[b].wallet
          /\ dir'[b].code = dir[b].code
      BY <2>1, <2>2, <3>1 DEF Entry
    <3>6. QED
      BY <3>4, <3>5 DEF Stays, Present
  <2>3. ~Present(a)'
    BY <2>1 DEF Present
  <2>4. \A b \in AccountIds : Present(b)' => Present(b)
    BY <2>1 DEF Present
  <2>5. QED
    BY <1>0, <2>1, <2>2, <2>3, <2>4 DEF EntriesLast, Stays
<1>3. ASSUME Present(a),
             SetCountry(r, a) \/ AcceptTerms(r, a) \/ AddEmail(r, a)
               \/ AddConfirmedEmail(r, a) \/ AddWallet(r, a) \/ SetReferrer(r, a)
      PROVE  EntriesLast /\ \A b \in AccountIds : Present(b) => Present(b)'
  BY <1>3, ChangeIsPut, PutLasts
<1>4. QED
  BY <1>1, <1>2, <1>3 DEF Effect

----------------------------------------------------------------------------
(* What a session holds: a request, and an account while it is found.      *)
SessionsReady ==
  /\ phase \in [Sessions -> {"idle", "asked", "found", "performed", "answered"}]
  /\ request \in [Sessions -> Requests \cup {None}]
  /\ target \in [Sessions -> AccountIds \cup {None}]
  /\ \A s \in Sessions : /\ phase[s] # "idle" => request[s] \in Requests
                         /\ phase[s] = "found" => target[s] \in AccountIds

DirectoryInvariant == EntriesInvariant /\ SessionsReady

LEMMA DirectoryStarts == DirInit => DirectoryInvariant
  BY EntriesAssumption
     DEF DirInit, Empty, DirectoryInvariant, SessionsReady, EntriesInvariant,
         EntriesTyped, EntriesConsistent, NothingShared, AllReachable, ReferrersReal, Present

LEMMA SessionStep ==
  ASSUME DirectoryInvariant, NEW s \in Sessions,
         \/ Receive(s)
         \/ Find(s) \/ Perform(s) \/ NothingToDo(s) \/ Answer(s)
  PROVE  DirectoryInvariant'
<1>1. CASE Receive(s)
  <2>1. SessionsReady'
    BY <1>1 DEF Receive, Goes, DirectoryInvariant, SessionsReady
  <2>2. QED
    BY <1>1, <2>1, NothingChanges DEF Receive, DirectoryInvariant
<1>2. CASE Find(s)
  <2>1. SessionsReady'
    BY <1>2 DEF Find, Goes, DirectoryInvariant, SessionsReady
  <2>2. QED
    BY <1>2, <2>1, NothingChanges DEF Find, DirectoryInvariant
<1>3. ASSUME Performed(s), phase[s] # "idle" PROVE SessionsReady'
  BY <1>3 DEF Performed, Goes, DirectoryInvariant, SessionsReady
<1>4. CASE Perform(s)
  <2>1. phase[s] # "idle" /\ request[s] \in Requests
    BY <1>4 DEF Perform, DirectoryInvariant, SessionsReady
  <2>2. \E a \in AccountIds : Effect(request[s], a)
    BY <1>4 DEF Perform, Effect, DirectoryInvariant, SessionsReady
  <2>3. QED
    BY <1>3, <1>4, <2>1, <2>2, EffectKeeps DEF Perform, DirectoryInvariant
<1>5. CASE NothingToDo(s)
  <2>1. phase[s] # "idle"
    BY <1>5 DEF NothingToDo
  <2>2. QED
    BY <1>3, <1>5, <2>1, NothingChanges DEF NothingToDo, DirectoryInvariant
<1>6. CASE Answer(s)
  <2>1. SessionsReady'
    BY <1>6 DEF Answer, Active, Goes, DirectoryInvariant, SessionsReady
  <2>2. QED
    BY <1>6, <2>1, NothingChanges DEF Answer, DirectoryInvariant
<1>7. QED
  BY <1>1, <1>2, <1>4, <1>5, <1>6

LEMMA LoseKeeps ==
  ASSUME DirectoryInvariant, NEW S \in SUBSET {s \in Sessions : Active(s)}, Lose(S)
  PROVE  DirectoryInvariant'
<1>1. SessionsReady'
  BY DEF Lose, Active, DirectoryInvariant, SessionsReady
<1>2. QED
  BY <1>1, NothingChanges DEF Lose, DirectoryInvariant

(* However requests interleave, are refused, fail or are lost, no two      *)
(* accounts share a link or a code, every account can be reached, and      *)
(* referrers exist and have wallets.                                       *)
THEOREM DirectoryIsConsistent == DirSpec => []EntriesConsistent
<1>1. DirInit => DirectoryInvariant
  BY DirectoryStarts
<1>2. DirectoryInvariant /\ [DirNext]_dirVars => DirectoryInvariant'
  <2>1. CASE UNCHANGED dirVars
    BY <2>1, NothingChanges DEF dirVars, directory, DirectoryInvariant, SessionsReady
  <2>2. CASE DirNext
    BY <2>2, SessionStep, LoseKeeps DEF DirNext
  <2>3. QED
    BY <2>1, <2>2
<1>3. DirectoryInvariant => EntriesConsistent
  BY DEF DirectoryInvariant, EntriesInvariant
<1>4. QED
  BY <1>1, <1>2, <1>3, PTL DEF DirSpec

----------------------------------------------------------------------------
(* A request that has been found its account, and not yet taken effect.    *)
TargetsHold ==
  \A s \in Sessions : phase[s] = "found" =>
    /\ target[s] \in used
    /\ Present(target[s]) => Denotes(request[s].cred, target[s])

LEMMA DenotesLasts ==
  ASSUME EntriesInvariant, EntriesLast, NEW a \in AccountIds,
         NEW cred \in Addresses \cup Wallets, a \in used,
         Present(a) => Denotes(cred, a)
  PROVE  a \in used' /\ (Present(a)' => Denotes(cred, a)')
<1> SUFFICES ASSUME Present(a)' PROVE a \in used' /\ Denotes(cred, a)'
  BY DEF EntriesLast
<1>1. Present(a) /\ Denotes(cred, a) /\ Stays(a) /\ a \in used'
  BY DEF EntriesLast
<1>2. CASE cred \in Wallets
  BY <1>1, <1>2, EntriesAssumption DEF Denotes, OwnsWallet, Stays
<1>3. CASE cred \notin Wallets
  <2>1. Normalize[cred] # None
    BY <1>3, EntriesAssumption
  <2>2. QED
    BY <1>1, <1>3, <2>1 DEF Denotes, HasAddress, Stays
<1>4. QED
  BY <1>2, <1>3

LEMMA NothingLasts ==
  ASSUME EntriesInvariant, UNCHANGED directory
  PROVE  EntriesLast
  BY DEF directory, EntriesInvariant, EntriesTyped, EntriesLast, Stays, Present

(* A session that keeps its place, or leaves it, beside one that moves.    *)
LEMMA OthersHold ==
  ASSUME DirectoryInvariant, TargetsHold, EntriesLast, NEW t \in Sessions,
         phase'[t] = "found" =>
           phase[t] = "found" /\ target'[t] = target[t] /\ request'[t] = request[t]
  PROVE  phase'[t] = "found" =>
           /\ target'[t] \in used'
           /\ Present(target[t])' => Denotes(request[t].cred, target[t])'
<1> SUFFICES ASSUME phase'[t] = "found"
             PROVE  /\ target'[t] \in used'
                    /\ Present(target[t])' => Denotes(request[t].cred, target[t])'
  OBVIOUS
<1>1. /\ target[t] \in AccountIds /\ request[t] \in Requests
      /\ target'[t] = target[t] /\ request'[t] = request[t]
  BY DEF DirectoryInvariant, SessionsReady
<1>2. request[t].cred \in Addresses \cup Wallets
  BY <1>1, EntriesAssumption
<1>3. target[t] \in used /\ (Present(target[t]) => Denotes(request[t].cred, target[t]))
  BY DEF TargetsHold
<1> DEFINE a1 == target[t]
           c1 == request[t].cred
<1>4. a1 \in AccountIds /\ c1 \in Addresses \cup Wallets /\ a1 \in used
      /\ (Present(a1) => Denotes(c1, a1))
  BY <1>1, <1>2, <1>3
<1>5. a1' = a1 /\ c1' = c1
  BY <1>1
<1>6. EntriesInvariant
  BY DEF DirectoryInvariant
<1>7. QED
  BY <1>1, <1>3, <1>4, <1>5, <1>6, DenotesLasts

LEMMA TargetStep ==
  ASSUME DirectoryInvariant, TargetsHold, NEW s \in Sessions,
         \/ Receive(s)
         \/ Find(s) \/ Perform(s) \/ NothingToDo(s) \/ Answer(s)
  PROVE  TargetsHold'
<1>0. EntriesInvariant
  BY DEF DirectoryInvariant
<1>1. EntriesLast
  <2>1. CASE Perform(s)
    <3>1. phase[s] # "idle" /\ request[s] \in Requests
      BY <2>1 DEF Perform, DirectoryInvariant, SessionsReady
    <3>2. \E a \in AccountIds : Effect(request[s], a)
      BY <2>1 DEF Perform, Effect, DirectoryInvariant, SessionsReady
    <3>3. QED
      BY <1>0, <3>1, <3>2, EffectLasts
  <2>2. CASE UNCHANGED directory
    BY <1>0, <2>2, NothingLasts
  <2>3. QED
    BY <2>1, <2>2 DEF Receive, Find, NothingToDo, Answer
<1>2. \A t \in Sessions \ {s} : /\ phase'[t] = phase[t] /\ target'[t] = target[t]
                                /\ request'[t] = request[t]
  BY DEF Receive, Find, Perform, NothingToDo, Answer, Performed, Goes,
         DirectoryInvariant, SessionsReady
<1>3. ASSUME phase'[s] = "found"
      PROVE  /\ target'[s] \in used'
             /\ Present(target[s])' => Denotes(request[s].cred, target[s])'
  <2>1. Find(s)
    BY <1>3 DEF Receive, Find, Perform, NothingToDo, Answer, Performed, Goes,
                DirectoryInvariant, SessionsReady
  <2>2. PICK a \in AccountIds : Denotes(request[s].cred, a) /\ Goes(s, "found", a)
    BY <2>1 DEF Find
  <2>3. target'[s] = a /\ dir' = dir /\ used' = used /\ request' = request
    BY <2>1, <2>2 DEF Find, Goes, directory, DirectoryInvariant, SessionsReady
  <2>4. Present(a)
    BY <2>2 DEF Denotes, OwnsWallet, HasAddress
  <2>5. a \in used
    BY <1>0, <2>4 DEF EntriesInvariant, EntriesConsistent, AllReachable
  <2>6. Denotes(request[s].cred, target[s])'
    BY <2>2, <2>3 DEF Denotes, OwnsWallet, HasAddress, Present
  <2>7. QED
    BY <2>3, <2>5, <2>6
<1>4. \A t \in Sessions : phase'[t] = "found" =>
        /\ target'[t] \in used'
        /\ Present(target[t])' => Denotes(request[t].cred, target[t])'
  BY <1>1, <1>2, <1>3, OthersHold
<1>5. QED
  BY <1>4 DEF TargetsHold

(* A handler goes on with the account it found at the start: however long  *)
(* ago that was, the account is the one that the token denotes, or it has  *)
(* been deleted, and then its id is nobody else's.                         *)
THEOREM FoundIsStillDenoted == DirSpec => []TargetsHold
<1>1. DirInit => DirectoryInvariant /\ TargetsHold
  BY DirectoryStarts DEF DirInit, TargetsHold
<1>2. DirectoryInvariant /\ TargetsHold /\ [DirNext]_dirVars
        => (DirectoryInvariant /\ TargetsHold)'
  <2> SUFFICES ASSUME DirectoryInvariant, TargetsHold, [DirNext]_dirVars
               PROVE  DirectoryInvariant' /\ TargetsHold'
    OBVIOUS
  <2>1. CASE UNCHANGED dirVars
    BY <2>1, NothingChanges
       DEF dirVars, directory, DirectoryInvariant, SessionsReady, TargetsHold,
           Present, Denotes, OwnsWallet, HasAddress
  <2>2. ASSUME NEW S \in SUBSET {s \in Sessions : Active(s)}, Lose(S)
        PROVE  TargetsHold'
    <3>1. EntriesLast
      BY <2>2, NothingLasts DEF Lose, DirectoryInvariant
    <3>2. \A t \in Sessions : phase'[t] = "found" =>
            phase[t] = "found" /\ target'[t] = target[t] /\ request'[t] = request[t]
      BY <2>2 DEF Lose, DirectoryInvariant, SessionsReady
    <3>3. \A t \in Sessions : phase'[t] = "found" =>
            /\ target'[t] \in used'
            /\ Present(target[t])' => Denotes(request[t].cred, target[t])'
      BY <3>1, <3>2, OthersHold
    <3>4. QED
      BY <3>3 DEF TargetsHold
  <2>3. CASE DirNext
    BY <2>2, <2>3, SessionStep, LoseKeeps, TargetStep DEF DirNext
  <2>4. QED
    BY <2>1, <2>3
<1>3. QED
  BY <1>1, <1>2, PTL DEF DirSpec


=============================================================================
