----------------------------- MODULE ReadsProofs -----------------------------
(***************************************************************************)
(* Proofs about the reading calls, for any accounts, calls and changes     *)
(* between their queries: what they return was never made up of two        *)
(* accounts, is not older than the call, and lacks only what is gone.  The *)
(* lemmas about the entries are those of DirectoryProofs.                  *)
(***************************************************************************)
EXTENDS Reads, DirectoryProofs, FiniteSetTheorems

----------------------------------------------------------------------------
(* The order of the accounts.                                              *)

Ordered(s, S) == s \in Seq(AccountIds) /\ ToSet(s) = S /\ IsInjective(s)

LEMMA InsertAtIs ==
  ASSUME NEW s \in Seq(AccountIds), NEW a \in AccountIds, NEW i \in 1 .. Len(s) + 1
  PROVE  /\ InsertAt(s, i, a) \in Seq(AccountIds)
         /\ Len(InsertAt(s, i, a)) = Len(s) + 1
         /\ \A j \in 1 .. Len(s) + 1 :
              InsertAt(s, i, a)[j] = IF j < i THEN s[j] ELSE IF j = i THEN a ELSE s[j - 1]
<1> DEFINE front == SubSeq(s, 1, i - 1)
           back == SubSeq(s, i, Len(s))
<1>1. /\ front \in Seq(AccountIds) /\ Len(front) = i - 1
      /\ \A j \in 1 .. i - 1 : front[j] = s[j]
  OBVIOUS
<1>2. /\ back \in Seq(AccountIds) /\ Len(back) = Len(s) - i + 1
      /\ \A j \in 1 .. Len(s) - i + 1 : back[j] = s[i + j - 1]
  OBVIOUS
<1> DEFINE both == front \o <<a>>
<1>3. InsertAt(s, i, a) = both \o back
  BY DEF InsertAt
<1> HIDE DEF front, back
<1>4. both \in Seq(AccountIds) /\ Len(both) = i
  BY <1>1
<1>5. \A j \in 1 .. i : both[j] = IF j < i THEN s[j] ELSE a
  BY <1>1
<1> HIDE DEF both
<1>6. /\ both \o back \in Seq(AccountIds)
      /\ Len(both \o back) = i + (Len(s) - i + 1)
      /\ \A j \in 1 .. i + (Len(s) - i + 1) :
           (both \o back)[j] = IF j <= i THEN both[j] ELSE back[j - i]
  BY <1>2, <1>4
<1>7. i + (Len(s) - i + 1) = Len(s) + 1
  OBVIOUS
<1>8. \A j \in 1 .. Len(s) + 1 : j > i => back[j - i] = s[j - 1]
  BY <1>2
<1> DEFINE t == both \o back
<1>9. \A j \in 1 .. Len(s) + 1 : t[j] = IF j <= i THEN both[j] ELSE back[j - i]
  BY <1>6, <1>7
<1> HIDE DEF t
<1>10. ASSUME NEW j \in 1 .. Len(s) + 1
       PROVE  t[j] = IF j < i THEN s[j] ELSE IF j = i THEN a ELSE s[j - 1]
  <2>1. CASE j <= i
    BY <1>5, <1>9, <2>1
  <2>2. CASE j > i
    BY <1>8, <1>9, <2>2
  <2>3. QED
    BY <2>1, <2>2
<1>11. QED
  BY <1>3, <1>6, <1>7, <1>10 DEF t

(* A new account, wherever it comes, leaves the others in their order,     *)
LEMMA InsertKeepsOrder ==
  ASSUME NEW S, NEW s, Ordered(s, S), NEW a \in AccountIds \ S,
         NEW i \in 1 .. Len(s) + 1
  PROVE  /\ Ordered(InsertAt(s, i, a), S \cup {a})
         /\ \A j, k \in DOMAIN s : j < k =>
              \E l, m \in DOMAIN InsertAt(s, i, a) :
                l < m /\ InsertAt(s, i, a)[l] = s[j] /\ InsertAt(s, i, a)[m] = s[k]
<1> DEFINE t == InsertAt(s, i, a)
           Moved(j) == IF j < i THEN j ELSE j + 1
<1>1. s \in Seq(AccountIds) /\ DOMAIN s = 1 .. Len(s) /\ Len(s) \in Nat
  BY DEF Ordered
<1>2. /\ t \in Seq(AccountIds) /\ Len(t) = Len(s) + 1 /\ DOMAIN t = 1 .. Len(s) + 1
      /\ \A j \in 1 .. Len(s) + 1 : t[j] = IF j < i THEN s[j] ELSE IF j = i THEN a ELSE s[j - 1]
  <2>1. s \in Seq(AccountIds) /\ a \in AccountIds /\ i \in 1 .. Len(s) + 1
    BY <1>1
  <2>2. /\ t \in Seq(AccountIds) /\ Len(t) = Len(s) + 1
        /\ \A j \in 1 .. Len(s) + 1 : t[j] = IF j < i THEN s[j] ELSE IF j = i THEN a ELSE s[j - 1]
    BY <2>1, InsertAtIs, Zenon
  <2> HIDE DEF t
  <2>3. DOMAIN t = 1 .. Len(s) + 1
    BY <2>2
  <2>4. QED
    BY <2>2, <2>3
<1> HIDE DEF t
<1>3. ASSUME NEW j \in DOMAIN s PROVE Moved(j) \in DOMAIN t /\ t[Moved(j)] = s[j]
  <2>1. j \in 1 .. Len(s)
    BY <1>1
  <2>2. CASE j < i
    BY <1>1, <1>2, <2>1, <2>2
  <2>3. CASE j >= i
    <3>1. j + 1 \in 1 .. Len(s) + 1 /\ j + 1 > i
      BY <1>1, <2>1, <2>3
    <3>2. t[j + 1] = s[j + 1 - 1]
      BY <1>2, <3>1
    <3>3. j + 1 - 1 = j
      BY <2>1
    <3>4. QED
      BY <1>2, <2>3, <3>1, <3>2, <3>3
  <2>4. QED
    BY <1>1, <2>1, <2>2, <2>3
<1>4. \A l \in DOMAIN t : l # i => \E j \in DOMAIN s : l = Moved(j)
  <2> SUFFICES ASSUME NEW l \in DOMAIN t, l # i PROVE \E j \in DOMAIN s : l = Moved(j)
    OBVIOUS
  <2>1. CASE l < i
    <3>1. l \in DOMAIN s /\ l = Moved(l)
      BY <1>1, <1>2, <2>1
    <3>2. QED
      BY <3>1
  <2>2. CASE l > i
    <3>1. l - 1 \in DOMAIN s /\ l = Moved(l - 1)
      BY <1>1, <1>2, <2>2
    <3>2. QED
      BY <3>1
  <2>3. QED
    BY <1>1, <1>2, <2>1, <2>2
<1>5. i \in DOMAIN t /\ t[i] = a
  BY <1>1, <1>2
<1>6. \A j \in DOMAIN s : s[j] \in S
  BY DEF Ordered, ToSet
<1>7. ToSet(t) = S \cup {a}
  <2>1. \A l \in DOMAIN t : t[l] \in S \cup {a}
    BY <1>3, <1>4, <1>5, <1>6
  <2>2. \A b \in S : \E j \in DOMAIN s : s[j] = b
    BY DEF Ordered, ToSet
  <2>3. \A b \in S \cup {a} : \E l \in DOMAIN t : t[l] = b
    BY <1>3, <1>5, <2>2
  <2>4. QED
    BY <2>1, <2>3 DEF ToSet
<1>8. IsInjective(t)
  <2> SUFFICES ASSUME NEW l \in DOMAIN t, NEW m \in DOMAIN t, t[l] = t[m] PROVE l = m
    BY DEF IsInjective
  <2>1. \A j \in DOMAIN s : s[j] # a
    BY <1>6
  <2>2. CASE l = i \/ m = i
    BY <1>3, <1>4, <1>5, <2>1, <2>2
  <2>3. CASE l # i /\ m # i
    <3>1. PICK j \in DOMAIN s, k \in DOMAIN s : l = Moved(j) /\ m = Moved(k)
      BY <1>4, <2>3
    <3>2. s[j] = s[k]
      BY <1>3, <3>1
    <3>3. j = k
      BY <3>2 DEF Ordered, IsInjective
    <3>4. QED
      BY <3>1, <3>3
  <2>4. QED
    BY <2>2, <2>3
<1>9. ASSUME NEW j \in DOMAIN s, NEW k \in DOMAIN s, j < k
      PROVE  \E l, m \in DOMAIN t : l < m /\ t[l] = s[j] /\ t[m] = s[k]
  <2>1. Moved(j) < Moved(k)
    BY <1>1, <1>9
  <2>2. Moved(j) \in DOMAIN t /\ Moved(k) \in DOMAIN t
        /\ t[Moved(j)] = s[j] /\ t[Moved(k)] = s[k]
    BY <1>3
  <2> HIDE DEF Moved
  <2>3. QED
    BY <2>1, <2>2
<1>10. QED
  BY <1>2, <1>7, <1>8, <1>9 DEF t, Ordered

----------------------------------------------------------------------------
(* Calls that are not rejected.                                            *)

LEMMA AcceptedLists ==
  ASSUME NEW c \in Calls, c.method = "ListAccounts", ~Rejected(c)
  PROVE  /\ c.emails # None => c.emails \subseteq Addresses
         /\ c.wallets # None => c.wallets \subseteq Wallets
<1>1. Fields[c.method] = {"emails", "wallets"}
  BY DEF Fields
<1>2. \A f \in {"emails", "wallets"} : c[f] \in {None, Malformed} \/ c[f] \in ValuesOf(f)
  BY <1>1, ReadsAssumption
<1>3. \A f \in {"emails", "wallets"} : c[f] # None => c[f] # Malformed
  BY <1>1 DEF Rejected, Given
<1>4. ValuesOf("emails") = SUBSET Addresses /\ ValuesOf("wallets") = SUBSET Wallets
  BY DEF ValuesOf
<1>5. QED
  BY <1>2, <1>3, <1>4

LEMMA AcceptedLinks ==
  ASSUME NEW c \in Calls, c.method \in {"TempReferral", "GetUserAccount"}, ~Rejected(c)
  PROVE  /\ c.wallet # None => c.wallet \in Wallets /\ "wallet" \in Given(c)
         /\ c.wallet = None => /\ c.method = "GetUserAccount"
                               /\ c.email \in Addresses /\ "email" \in Given(c)
<1>1. CASE c.method = "TempReferral"
  <2>1. Fields[c.method] = {"wallet"}
    BY <1>1 DEF Fields
  <2>2. c["wallet"] \in {None, Malformed} \/ c["wallet"] \in ValuesOf("wallet")
    BY <2>1, ReadsAssumption
  <2>3. c["wallet"] # None => c["wallet"] # Malformed /\ "wallet" \in Given(c)
    BY <2>1 DEF Rejected, Given
  <2>4. ValuesOf("wallet") = Wallets
    BY DEF ValuesOf
  <2>5. c.wallet # None
    BY <1>1 DEF Rejected
  <2>6. QED
    BY <2>2, <2>3, <2>4, <2>5
<1>2. CASE c.method = "GetUserAccount"
  <2>1. Fields[c.method] = {"email", "wallet"}
    BY <1>2 DEF Fields
  <2>2. \A f \in {"email", "wallet"} : c[f] \in {None, Malformed} \/ c[f] \in ValuesOf(f)
    BY <2>1, ReadsAssumption
  <2>3. \A f \in {"email", "wallet"} : c[f] # None => c[f] # Malformed /\ f \in Given(c)
    BY <2>1 DEF Rejected, Given
  <2>4. ValuesOf("wallet") = Wallets /\ ValuesOf("email") = Addresses
    BY DEF ValuesOf
  <2>5. c["wallet"] # None \/ c["email"] # None
    <3>1. SUFFICES ASSUME c["wallet"] = None, c["email"] = None PROVE FALSE
      OBVIOUS
    <3>2. Given(c) = {}
      BY <2>1, <3>1 DEF Given
    <3>3. Cardinality(Given(c)) = 0
      BY <3>2, FS_EmptySet
    <3>4. QED
      BY <1>2, <3>3 DEF Rejected
  <2>6. QED
    BY <1>2, <2>2, <2>3, <2>4, <2>5
<1>3. QED
  BY <1>1, <1>2

LEMMA AcceptedGets ==
  ASSUME NEW c \in Calls, c.method = "GetAccount", ~Rejected(c)
  PROVE  /\ c.id # None => "id" \in Given(c)
         /\ c.code # None => "code" \in Given(c)
         /\ c.email # None => "email" \in Given(c) /\ Normalize[c.email] \in Addresses
         /\ c.wallet # None => "wallet" \in Given(c) /\ c.wallet \in Wallets
<1>1. Fields[c.method] = {"id", "email", "wallet", "code"}
  BY DEF Fields
<1>2. \A f \in {"id", "email", "wallet", "code"} :
        /\ c[f] \in {None, Malformed} \/ c[f] \in ValuesOf(f)
        /\ c[f] # None => c[f] # Malformed /\ f \in Given(c)
  BY <1>1, ReadsAssumption DEF Rejected, Given
<1>3. ValuesOf("wallet") = Wallets /\ ValuesOf("email") = Addresses
  BY DEF ValuesOf
<1>4. QED
  BY <1>2, <1>3, EntriesAssumption

LEMMA ColumnIs ==
  ASSUME NEW a
  PROVE  /\ Column(a, "email") = IF Present(a) THEN dir[a].email ELSE None
         /\ Column(a, "wallet") = IF Present(a) THEN dir[a].wallet ELSE None
  BY DEF Column


----------------------------------------------------------------------------
(* While other requests take effect.                                       *)

LEMMA GoneLasts ==
  ASSUME EntriesInvariant, EntriesLast, NEW a \in AccountIds
  PROVE  /\ Gone(a) => Gone(a)'
         /\ a \in used => a \in used' /\ (Present(a)' => Present(a))
  BY DEF EntriesLast, Gone

(* An account that a row names as the owner of a link stays it or goes.    *)
LEMMA OwnersLast ==
  ASSUME EntriesInvariant, EntriesLast, NEW a \in AccountIds, a \in used
  PROVE  /\ \A e \in Addresses :
              HasAddress(a, e) \/ Gone(a) => HasAddress(a, e)' \/ Gone(a)'
         /\ \A w \in Wallets :
              OwnsWallet(a, w) \/ Gone(a) => OwnsWallet(a, w)' \/ Gone(a)'
<1>1. a \in used' /\ (Present(a)' => Present(a))
  BY DEF EntriesLast
<1>2. CASE Present(a)'
  <2>1. Present(a) /\ Stays(a)
    BY <1>1, <1>2 DEF EntriesLast
  <2>2. None \notin Addresses \cup Wallets
    BY EntriesAssumption
  <2>3. QED
    BY <2>1, <2>2, <1>2 DEF Stays, HasAddress, OwnsWallet, Gone
<1>3. CASE ~Present(a)'
  BY <1>1, <1>3 DEF Gone
<1>4. QED
  BY <1>2, <1>3

LEMMA RowsLast ==
  ASSUME EntriesInvariant, EntriesInvariant', EntriesLast, NEW x \in Row, RowReal(x)
  PROVE  RowReal(x)'
<1>1. /\ x.id \in AccountIds /\ x.email \in Addresses \cup {None}
      /\ x.wallet \in Wallets \cup {None} /\ x.referredBy \in AccountIds \cup {None}
      /\ x.referrer \in AccountIds \cup {None} /\ x.referrerWallet \in Wallets \cup {None}
  BY DEF Row
<1>2. x.id \in used /\ x.id \in used'
  BY DEF RowReal, EntriesLast
<1>3. /\ x.email # None => HasAddress(x.id, x.email)' \/ Gone(x.id)'
      /\ x.wallet # None => OwnsWallet(x.id, x.wallet)' \/ Gone(x.id)'
  BY <1>1, <1>2, OwnersLast DEF RowReal
<1>4. ASSUME x.referredBy # None
      PROVE  /\ x.referredAt /\ x.referredBy \in used'
             /\ Present(x.referredBy)' => dir'[x.referredBy].wallet # None
  <2> DEFINE b == x.referredBy
  <2>1. b \in AccountIds /\ b \in used /\ x.referredAt
        /\ (Present(b) => dir[b].wallet # None)
    BY <1>1, <1>4 DEF RowReal
  <2> HIDE DEF b
  <2>2. ASSUME Present(b)' PROVE dir'[b].wallet # None
    <3>1. Present(b) /\ Stays(b)
      BY <2>1, <2>2 DEF EntriesLast
    <3>2. QED
      BY <2>1, <3>1 DEF Stays
  <2>3. b \in used'
    BY <2>1 DEF EntriesLast
  <2>4. QED
    BY <2>1, <2>2, <2>3 DEF b
<1>5. ASSUME x.referrerWallet # None
      PROVE  x.referrer # None /\ (OwnsWallet(x.referrer, x.referrerWallet)' \/ Gone(x.referrer)')
  <2>1. /\ x.referrer # None /\ x.referrer = x.referredBy /\ x.referrer \in AccountIds
        /\ OwnsWallet(x.referrer, x.referrerWallet) \/ Gone(x.referrer)
    BY <1>1, <1>5 DEF RowReal
  <2>2. x.referrer \in used
    BY <2>1 DEF RowReal
  <2>3. QED
    BY <1>1, <1>5, <2>1, <2>2, OwnersLast
<1>6. x.referrer \in {None, x.referredBy}
  BY DEF RowReal
<1>7. QED
  BY <1>2, <1>3, <1>4, <1>5, <1>6 DEF RowReal

LEMMA BeforeStays ==
  ASSUME EntriesInvariant, EntriesLast, BeforeLasts, before' = before
  PROVE  /\ BeforeLasts'
         /\ \A a \in AccountIds : before[a] # None /\ Present(a)' => Present(a)
<1>1. ASSUME NEW a \in AccountIds, before[a] # None
      PROVE  /\ a \in used'
             /\ Present(a)' =>
                  /\ Present(a)
                  /\ before[a].email # None => dir'[a].email = before[a].email
                  /\ before[a].wallet # None => dir'[a].wallet = before[a].wallet
                  /\ dir'[a].code = before[a].code
  <2>1. a \in used /\ a \in used' /\ (Present(a)' => Present(a))
    BY <1>1 DEF BeforeLasts, EntriesLast
  <2>2. ASSUME Present(a)'
        PROVE  /\ before[a].email # None => dir'[a].email = before[a].email
               /\ before[a].wallet # None => dir'[a].wallet = before[a].wallet
               /\ dir'[a].code = before[a].code
    <3>1. Present(a) /\ Stays(a)
      BY <2>1, <2>2 DEF EntriesLast
    <3>2. /\ before[a].email # None => dir[a].email = before[a].email
          /\ before[a].wallet # None => dir[a].wallet = before[a].wallet
          /\ dir[a].code = before[a].code
      BY <1>1, <3>1 DEF BeforeLasts
    <3>3. QED
      BY <3>1, <3>2 DEF Stays
  <2>3. QED
    BY <2>1, <2>2
<1>2. before' \in [AccountIds -> Entry \cup {None}]
  BY DEF BeforeLasts
<1>3. QED
  BY <1>1, <1>2 DEF BeforeLasts

LEMMA OrderStays ==
  ASSUME TypeOK, EntriesConsistent,
         NEW r \in Requests, NEW a \in AccountIds, Effect(r, a),
         IF a \in used THEN order' = order
         ELSE \E i \in 1 .. Len(order) + 1 : order' = InsertAt(order, i, a)
  PROVE  /\ Ordered(order', used')
         /\ \A b, c \in AccountIds : Newer(b, c) => Newer(b, c)'
<1>1. Ordered(order, used)
  BY DEF TypeOK, Ordered
<1>2. CASE ~Create(r, a)
  <2>1. used' = used /\ Present(a)
    BY <1>2 DEF Effect, SetCountry, AcceptTerms, RemoveEntry, AddEmail,
                AddConfirmedEmail, AddWallet, SetReferrer, Put
  <2>2. order' = order
    BY <2>1 DEF EntriesConsistent, AllReachable
  <2>3. QED
    BY <1>1, <2>1, <2>2 DEF Newer
<1>3. CASE Create(r, a)
  <2>1. a \notin used /\ used' = used \cup {a}
    BY <1>3 DEF Create
  <2>2. PICK i \in 1 .. Len(order) + 1 : order' = InsertAt(order, i, a)
    BY <2>1
  <2>3. /\ Ordered(order', used')
        /\ \A j, k \in DOMAIN order : j < k =>
             \E l, m \in DOMAIN order' : l < m /\ order'[l] = order[j] /\ order'[m] = order[k]
    BY <1>1, <2>1, <2>2, InsertKeepsOrder
  <2>4. QED
    BY <2>3 DEF Newer
<1>4. QED
  BY <1>2, <1>3


(* Between two queries of a call.                                          *)
LEMMA ChangeKeepsReads ==
  ASSUME ReadsInvariant, Change
  PROVE  ReadsInvariant'
<1>0. EntriesInvariant /\ TypeOK /\ EntriesConsistent /\ BeforeLasts
  BY DEF ReadsInvariant, EntriesInvariant
<1>1. PICK r \in Requests, a \in AccountIds :
        /\ Effect(r, a)
        /\ IF a \in used THEN order' = order
           ELSE \E i \in 1 .. Len(order) + 1 : order' = InsertAt(order, i, a)
  BY DEF Change
<1>2. /\ call' = call /\ at' = at /\ rows' = rows /\ reply' = reply /\ before' = before
  BY DEF Change, readVars
<1>3. EntriesInvariant' /\ EntriesLast
  BY <1>0, <1>1, EffectKeeps, EffectLasts
<1>4. /\ Ordered(order', used')
      /\ \A b, c \in AccountIds : Newer(b, c) => Newer(b, c)'
  BY <1>0, <1>1, OrderStays
<1>5. BeforeLasts' /\ \A b \in AccountIds : before[b] # None /\ Present(b)' => Present(b)
  BY <1>0, <1>2, <1>3, BeforeStays
<1>6. TypeOK'
  BY <1>0, <1>2, <1>3, <1>4 DEF TypeOK, Ordered, EntriesInvariant, EntriesTyped
<1>7. rows \subseteq Row
  BY <1>0 DEF TypeOK
<1>8. \A x \in rows' : RowReal(x)'
  BY <1>0, <1>2, <1>3, <1>7, RowsLast DEF ReadsInvariant
<1>9. \A b \in AccountIds : Throughout(b)' => Throughout(b)
  BY <1>2, <1>5 DEF Throughout
<1>10. \A x \in rows : x.id \in AccountIds /\ x.referredBy \in AccountIds \cup {None}
  BY <1>7 DEF Row
<1>11. ControlFits'
  <2>1. \A x \in rows : x.referredBy # None /\ Gone(x.referredBy) => Gone(x.referredBy)'
    BY <1>0, <1>3, <1>10, GoneLasts
  <2>2. ControlFits
    BY DEF ReadsInvariant
  <2>3. (Reading' <=> Reading) /\ (Single' <=> Single) /\ (Replied("ok")' <=> Replied("ok"))
        /\ (Rejected(call)' <=> Rejected(call))
    BY <1>2 DEF Reading, Single, Replied, Rejected, Given
  <2>4. QED
    BY <1>2, <2>1, <2>2, <2>3 DEF ControlFits
<1>12. LinksLoaded'
  <2>1. LinksLoaded
    BY DEF ReadsInvariant
  <2>2. QED
    BY <1>2, <1>9, <1>10, <2>1 DEF LinksLoaded, Replied
<1>13. AskedFor'
  <2> SUFFICES ASSUME Reading, call.method = "GetAccount", NEW x \in rows
               PROVE  /\ call.id # None => x.id = call.id
                      /\ call.code # None => x.code = call.code
                      /\ call.email # None =>
                           \/ Gone(x.id)'
                           \/ /\ HasAddress(x.id, Normalize[call.email])'
                              /\ at = "emails" \/ x.email = Normalize[call.email]
                      /\ call.wallet # None =>
                           \/ Gone(x.id)'
                           \/ /\ OwnsWallet(x.id, call.wallet)'
                              /\ at \in {"emails", "wallets"} \/ x.wallet = call.wallet
    BY <1>2 DEF AskedFor, Reading, Replied
  <2>1. /\ call.id # None => x.id = call.id
        /\ call.code # None => x.code = call.code
        /\ call.email # None => \/ Gone(x.id)
                                \/ /\ HasAddress(x.id, Normalize[call.email])
                                   /\ at = "emails" \/ x.email = Normalize[call.email]
        /\ call.wallet # None => \/ Gone(x.id)
                                 \/ /\ OwnsWallet(x.id, call.wallet)
                                    /\ at \in {"emails", "wallets"} \/ x.wallet = call.wallet
    BY DEF ReadsInvariant, AskedFor
  <2>2. call \in Calls /\ ~Rejected(call)
    BY DEF ReadsInvariant, ControlFits, Reading, Replied
  <2>3. /\ call.email # None => Normalize[call.email] \in Addresses
        /\ call.wallet # None => call.wallet \in Wallets
    BY <2>2, AcceptedGets
  <2>4. x.id \in AccountIds /\ x.id \in used
    BY <1>10 DEF ReadsInvariant, RowReal
  <2>5. Gone(x.id) => Gone(x.id)'
    BY <1>0, <1>3, <2>4, GoneLasts
  <2>6. /\ call.email # None /\ HasAddress(x.id, Normalize[call.email]) =>
             HasAddress(x.id, Normalize[call.email])' \/ Gone(x.id)'
        /\ call.wallet # None /\ OwnsWallet(x.id, call.wallet) =>
             OwnsWallet(x.id, call.wallet)' \/ Gone(x.id)'
    <3>1. /\ \A e \in Addresses :
               HasAddress(x.id, e) \/ Gone(x.id) => HasAddress(x.id, e)' \/ Gone(x.id)'
          /\ \A w \in Wallets :
               OwnsWallet(x.id, w) \/ Gone(x.id) => OwnsWallet(x.id, w)' \/ Gone(x.id)'
      BY <1>0, <1>3, <2>4, OwnersLast
    <3>2. QED
      BY <1>2, <2>3, <3>1 DEF HasAddress, OwnsWallet, Present
  <2>7. QED
    BY <2>1, <2>5, <2>6
<1>14. NotFoundHolds'
  <2>1. \A b \in AccountIds : IdentifiedIn(before, b)' => IdentifiedIn(before, b) /\ before[b] # None
    BY <1>2 DEF IdentifiedIn, Given
  <2>2. NotFoundHolds
    BY DEF ReadsInvariant
  <2>3. QED
    BY <1>2, <1>5, <2>1, <2>2 DEF NotFoundHolds, Replied
<1>15. Reading' /\ call'.method = "ListAccounts" => OnlyOldestMissing'
  <2> SUFFICES ASSUME Reading, call.method = "ListAccounts" PROVE OnlyOldestMissing'
    BY <1>2 DEF Reading, Replied
  <2>1. OnlyOldestMissing
    BY DEF ReadsInvariant
  <2>2. Ids' = Ids /\ Ids \subseteq AccountIds
    BY <1>2, <1>10 DEF Ids
  <2>3. QED
    BY <1>2, <1>4, <1>9, <2>1, <2>2 DEF OnlyOldestMissing
<1>16. QED
  BY <1>3, <1>6, <1>5, <1>8, <1>11, <1>12, <1>13, <1>14, <1>15
     DEF ReadsInvariant, EntriesInvariant

----------------------------------------------------------------------------
(* A query of the call: the accounts stay, the rows are real.              *)

Asked ==
  /\ UNCHANGED <<dir, used, order, call, before>>
  /\ call \in Calls

LEMMA QueryKeepsReads ==
  ASSUME ReadsInvariant, Asked,
         at' \in {"emails", "wallets", "account", "peer", "referrer",
                  "referrerWallet", "replied"},
         reply' \in {"none", "ok", "invalid", "notFound", "error", "died"},
         rows' \subseteq Row, \A x \in rows' : RowReal(x),
         ControlFits', LinksLoaded', AskedFor', NotFoundHolds',
         Reading' /\ call.method = "ListAccounts" => OnlyOldestMissing'
  PROVE  ReadsInvariant'
<1>1. EntriesInvariant /\ TypeOK /\ BeforeLasts
  BY DEF ReadsInvariant, EntriesInvariant
<1>2. EntriesInvariant'
  BY <1>1, NothingChanges DEF Asked, directory
<1>3. TypeOK'
  BY <1>1 DEF TypeOK, Asked
<1>4. BeforeLasts'
  BY <1>1 DEF BeforeLasts, Asked, Present
<1>5. \A x \in rows' : RowReal(x)'
  BY DEF RowReal, Asked, Present, HasAddress, OwnsWallet, Gone
<1>6. QED
  BY <1>2, <1>3, <1>4, <1>5 DEF ReadsInvariant, EntriesInvariant, Asked

(* A reply without an account.                                             *)
LEMMA FailureKeepsReads ==
  ASSUME ReadsInvariant, Asked, rows' = rows, at' = "replied",
         reply' \in {"invalid", "notFound", "error", "died"},
         reply' = "notFound" =>
           \A a \in AccountIds : IdentifiedIn(before, a) => ~Present(a)
  PROVE  ReadsInvariant'
<1>1. ~Reading' /\ ~Replied("ok")'
  BY DEF Reading, Replied
<1>2. ControlFits'
  BY <1>1 DEF ControlFits, Asked
<1>3. LinksLoaded' /\ AskedFor'
  BY <1>1 DEF LinksLoaded, AskedFor
<1>4. NotFoundHolds'
  BY DEF NotFoundHolds, Replied, Asked, IdentifiedIn, Given, Present
<1>5. rows' \subseteq Row /\ \A x \in rows' : RowReal(x)
  BY DEF ReadsInvariant, TypeOK
<1>6. QED
  BY <1>1, <1>2, <1>3, <1>4, <1>5, QueryKeepsReads

(* A row made from an account that is there.                               *)
LEMMA RowStarts ==
  ASSUME EntriesInvariant, NEW a \in AccountIds, Present(a),
         NEW email \in Addresses \cup {None}, NEW wallet \in Wallets \cup {None},
         email # None => HasAddress(a, email),
         wallet # None => OwnsWallet(a, wallet)
  PROVE  RowWith(a, email, wallet) \in Row /\ RowReal(RowWith(a, email, wallet))
<1> DEFINE x == RowWith(a, email, wallet)
<1>1. dir[a] \in Entry
  BY DEF EntriesInvariant, EntriesTyped, Present
<1>2. /\ x.id = a /\ x.email = email /\ x.wallet = wallet
      /\ x.referredBy = dir[a].referredBy /\ x.referredAt = dir[a].referredAt
      /\ x.referrer = None /\ x.referrerWallet = None
  BY DEF RowWith
<1>3. x \in Row
  BY <1>1 DEF RowWith, Row, Entry
<1>4. a \in used
  BY DEF EntriesInvariant, EntriesConsistent, AllReachable
<1>5. ASSUME dir[a].referredBy # None
      PROVE  /\ dir[a].referredAt /\ dir[a].referredBy \in used
             /\ dir[dir[a].referredBy].wallet # None
  <2>1. dir[a].referredBy \in AccountIds
    BY <1>1, <1>5 DEF Entry
  <2>2. /\ Present(dir[a].referredBy) /\ dir[a].referredAt
        /\ dir[dir[a].referredBy].wallet # None
    BY <1>5 DEF EntriesInvariant, EntriesConsistent, ReferrersReal
  <2>3. dir[a].referredBy \in used
    BY <2>1, <2>2 DEF EntriesInvariant, EntriesConsistent, AllReachable
  <2>4. QED
    BY <2>2, <2>3
<1> HIDE DEF x
<1>6. RowReal(x)
  BY <1>2, <1>4, <1>5 DEF RowReal
<1>7. QED
  BY <1>3, <1>6 DEF x

(* What the link that identifies an account denoted when the call arrived. *)
LEMMA StillLinked ==
  ASSUME BeforeLasts, NEW a \in AccountIds, Present(a), before[a] # None
  PROVE  /\ \A e \in Addresses : before[a].email = e => HasAddress(a, e)
         /\ \A w \in Wallets : before[a].wallet = w => OwnsWallet(a, w)
         /\ OwnsCode(a, before[a].code)
  BY EntriesAssumption DEF BeforeLasts, HasAddress, OwnsWallet, OwnsCode

LEMMA CallRuns ==
  ASSUME ReadsInvariant, at # "idle", UNCHANGED <<dir, used, order>>,
         UNCHANGED <<call, before>>
  PROVE  Asked
  BY DEF ReadsInvariant, ControlFits, Asked

LEMMA ListKeepsReads ==
  ASSUME ReadsInvariant, ListAccounts, UNCHANGED <<dir, used, order>>
  PROVE  ReadsInvariant'
<1>0. EntriesInvariant /\ BeforeLasts
  BY DEF ReadsInvariant, EntriesInvariant
<1>1. PICK N \in SUBSET AccountIds :
        /\ NewestMatches(N, call)
        /\ IF N = {} THEN Replies("ok") /\ UNCHANGED <<call, rows, before>>
           ELSE Reads({RowOf(a) : a \in N}, "emails")
  BY DEF ListAccounts
<1>2. /\ at = "arrived" /\ call.method = "ListAccounts" /\ ~Rejected(call)
      /\ call \in Calls /\ rows = {} /\ reply = "none"
  BY DEF ListAccounts, Accepted, ReadsInvariant, ControlFits
<1>3. /\ call' = call /\ before' = before
      /\ \/ N = {} /\ rows' = {} /\ at' = "replied" /\ reply' = "ok"
         \/ N # {} /\ rows' = {RowOf(a) : a \in N} /\ at' = "emails" /\ reply' = "none"
  BY <1>1, <1>2 DEF Replies, Reads, Goto
<1>4. Asked
  BY <1>2, <1>3, CallRuns
<1>5. N \subseteq Hits(call) /\ Hits(call) \subseteq AccountIds
  BY <1>1 DEF NewestMatches, NewestOf, Hits
<1>6. \A a \in N : RowOf(a) \in Row /\ RowReal(RowOf(a)) /\ RowOf(a).id = a
  <2> SUFFICES ASSUME NEW a \in N
               PROVE  RowOf(a) \in Row /\ RowReal(RowOf(a)) /\ RowOf(a).id = a
    OBVIOUS
  <2>1. a \in AccountIds /\ Present(a)
    BY <1>5 DEF Hits
  <2>2. RowWith(a, None, None) \in Row /\ RowReal(RowWith(a, None, None))
    BY <1>0, <2>1, RowStarts
  <2>3. QED
    BY <2>2 DEF RowOf, RowWith
<1>7. rows' \subseteq Row /\ \A x \in rows' : RowReal(x)
  BY <1>3, <1>6
<1>8. Ids' = N
  BY <1>3, <1>6 DEF Ids
<1>9. ControlFits'
  <2>1. ~Rejected(call)'
    BY <1>2, <1>3 DEF Rejected, Given
  <2>2. QED
    BY <1>2, <1>3, <2>1 DEF ControlFits, Replied, Reading
<1>10. LinksLoaded' /\ AskedFor' /\ NotFoundHolds'
  BY <1>2, <1>3 DEF LinksLoaded, AskedFor, NotFoundHolds, Replied
<1>11. OnlyOldestMissing'
  <2> SUFFICES ASSUME NEW a \in AccountIds, before[a] # None, Present(a),
                      call.emails # None => before[a].email \in call.emails,
                      call.wallets # None => before[a].wallet \in call.wallets,
                      a \notin N
               PROVE  Cardinality(N) = Limit /\ \A b \in N : Newer(b, a)
    BY <1>3, <1>8 DEF OnlyOldestMissing, Throughout, Newer, Present
  <2>1. /\ call.emails # None => before[a].email \in Addresses
        /\ call.wallets # None => before[a].wallet \in Wallets
    BY <1>2, AcceptedLists
  <2>2. /\ call.emails # None => dir[a].email = before[a].email
        /\ call.wallets # None => dir[a].wallet = before[a].wallet
    BY <1>0, <2>1, StillLinked DEF HasAddress, OwnsWallet
  <2>3. Matches(call, a)
    BY <1>2, <2>2 DEF Matches
  <2>4. a \in Hits(call) \ N
    BY <2>3 DEF Hits
  <2>5. QED
    BY <1>1, <2>4 DEF NewestMatches, NewestOf
<1>12. QED
  BY <1>3, <1>4, <1>7, <1>9, <1>10, <1>11, QueryKeepsReads

LEMMA GetKeepsReads ==
  ASSUME ReadsInvariant, GetAccount, UNCHANGED <<dir, used, order>>
  PROVE  ReadsInvariant'
<1>0. EntriesInvariant /\ BeforeLasts
  BY DEF ReadsInvariant, EntriesInvariant
<1>1. /\ at = "arrived" /\ call.method = "GetAccount" /\ ~Rejected(call)
      /\ call \in Calls /\ rows = {} /\ reply = "none"
  BY DEF GetAccount, Accepted, ReadsInvariant, ControlFits
<1>2. /\ call.id # None => "id" \in Given(call)
      /\ call.code # None => "code" \in Given(call)
      /\ call.email # None => "email" \in Given(call) /\ Normalize[call.email] \in Addresses
      /\ call.wallet # None => "wallet" \in Given(call) /\ call.wallet \in Wallets
  BY <1>1, AcceptedGets
<1>3. CASE Hits(call) = {}
  <2>1. /\ at' = "replied" /\ reply' = "notFound" /\ rows' = rows
        /\ call' = call /\ before' = before
    BY <1>3 DEF GetAccount, Replies, Goto
  <2>2. Asked
    BY <1>1, <2>1, CallRuns
  <2>3. ASSUME NEW a \in AccountIds, IdentifiedIn(before, a), Present(a) PROVE FALSE
    <3>1. before[a] # None
      BY <2>3 DEF IdentifiedIn
    <3>2. /\ \A e \in Addresses : before[a].email = e => HasAddress(a, e)
          /\ \A w \in Wallets : before[a].wallet = w => OwnsWallet(a, w)
          /\ OwnsCode(a, before[a].code)
      BY <1>0, <2>3, <3>1, StillLinked
    <3>3. /\ call.id # None => a = call.id
          /\ call.code # None => dir[a].code = call.code
          /\ call.email # None => dir[a].email = Normalize[call.email]
          /\ call.wallet # None => dir[a].wallet = call.wallet
      BY <1>2, <2>3, <3>2 DEF IdentifiedIn, HasAddress, OwnsWallet, OwnsCode
    <3>4. Matches(call, a)
      BY <1>1, <3>3 DEF Matches
    <3>5. QED
      BY <1>3, <2>3, <3>4 DEF Hits
  <2>4. QED
    BY <2>1, <2>2, <2>3, FailureKeepsReads
<1>4. CASE Hits(call) # {}
  <2>1. PICK a \in Hits(call) : Reads({RowOf(a)}, "emails")
    BY <1>4 DEF GetAccount
  <2>2. /\ at' = "emails" /\ reply' = "none" /\ rows' = {RowOf(a)}
        /\ call' = call /\ before' = before
    BY <1>1, <2>1 DEF Reads, Goto
  <2>3. Asked
    BY <1>1, <2>2, CallRuns
  <2>4. a \in AccountIds /\ Present(a) /\ Matches(call, a)
    BY DEF Hits
  <2>5. RowWith(a, None, None) \in Row /\ RowReal(RowWith(a, None, None))
    BY <1>0, <2>4, RowStarts
  <2>6. RowOf(a) \in Row /\ RowReal(RowOf(a)) /\ RowOf(a).id = a /\ RowOf(a).code = dir[a].code
    BY <2>5 DEF RowOf, RowWith
  <2>7. rows' \subseteq Row /\ \A x \in rows' : RowReal(x)
    BY <2>2, <2>6
  <2>8. ControlFits'
    <3>1. ~Rejected(call)'
      BY <1>1, <2>2 DEF Rejected, Given
    <3>2. QED
      BY <1>1, <2>2, <2>3, <3>1 DEF ControlFits, Replied, Reading, Single, Asked
  <2>9. LinksLoaded' /\ NotFoundHolds'
    BY <2>2 DEF LinksLoaded, NotFoundHolds, Replied
  <2>10. AskedFor'
    <3>1. /\ call.id # None => a = call.id
          /\ call.email # None => HasAddress(a, Normalize[call.email])
          /\ call.wallet # None => OwnsWallet(a, call.wallet)
          /\ call.code # None => dir[a].code = call.code
      BY <1>1, <2>4 DEF Matches, HasAddress, OwnsWallet
    <3>2. QED
      BY <2>2, <2>3, <2>6, <3>1 DEF AskedFor, Asked, HasAddress, OwnsWallet, Present
  <2>11. QED
    BY <1>1, <2>2, <2>3, <2>7, <2>8, <2>9, <2>10, QueryKeepsReads
<1>5. QED
  BY <1>3, <1>4

(* The links of a row's account, or nothing when it is gone.               *)
LEMMA ColumnsReal ==
  ASSUME EntriesInvariant, NEW a \in AccountIds, a \in used
  PROVE  /\ Column(a, "email") \in Addresses \cup {None}
         /\ Column(a, "wallet") \in Wallets \cup {None}
         /\ Column(a, "email") # None => HasAddress(a, Column(a, "email"))
         /\ Column(a, "wallet") # None => OwnsWallet(a, Column(a, "wallet"))
         /\ Gone(a) \/ (/\ Column(a, "email") = dir[a].email
                        /\ Column(a, "wallet") = dir[a].wallet)
<1>1. /\ Column(a, "email") = IF Present(a) THEN dir[a].email ELSE None
      /\ Column(a, "wallet") = IF Present(a) THEN dir[a].wallet ELSE None
  BY ColumnIs
<1>2. Present(a) => dir[a] \in Entry
  BY DEF EntriesInvariant, EntriesTyped, Present
<1>3. QED
  BY <1>1, <1>2 DEF Entry, HasAddress, OwnsWallet, Gone

LEMMA EmailsKeepReads ==
  ASSUME ReadsInvariant, LoadEmails, UNCHANGED <<dir, used, order>>
  PROVE  ReadsInvariant'
<1> DEFINE With(x) == [x EXCEPT !.email = Column(x.id, "email")]
<1>0. EntriesInvariant /\ BeforeLasts /\ rows \subseteq Row
  BY DEF ReadsInvariant, EntriesInvariant, TypeOK
<1>1. /\ at = "emails" /\ at' = "wallets" /\ reply' = reply
      /\ call' = call /\ before' = before /\ rows' = {With(x) : x \in rows}
  BY DEF LoadEmails, Reads, Goto
<1>2. Asked
  BY <1>1, CallRuns
<1>3. /\ call.method \in {"ListAccounts", "GetAccount"} /\ Reading /\ ~Rejected(call)
      /\ call.method # "ListAccounts" => Single
  BY <1>1 DEF ReadsInvariant, ControlFits, Reading
<1>4. ASSUME NEW x \in rows
      PROVE  /\ With(x) \in Row /\ RowReal(With(x))
             /\ With(x).id = x.id /\ With(x).code = x.code
             /\ With(x).email = Column(x.id, "email")
             /\ x.id \in AccountIds
             /\ Gone(x.id) \/ Column(x.id, "email") = dir[x.id].email
  <2>1. x \in Row /\ RowReal(x)
    BY <1>0 DEF ReadsInvariant
  <2>2. x.id \in AccountIds /\ x.id \in used
    BY <2>1 DEF Row, RowReal
  <2>3. /\ Column(x.id, "email") \in Addresses \cup {None}
        /\ Column(x.id, "email") # None => HasAddress(x.id, Column(x.id, "email"))
        /\ Gone(x.id) \/ Column(x.id, "email") = dir[x.id].email
    BY <1>0, <2>2, ColumnsReal
  <2>4. With(x) \in Row
    BY <2>1, <2>3 DEF Row
  <2>5. /\ With(x).id = x.id /\ With(x).code = x.code
        /\ With(x).email = Column(x.id, "email") /\ With(x).wallet = x.wallet
        /\ With(x).referredBy = x.referredBy /\ With(x).referredAt = x.referredAt
        /\ With(x).referrer = x.referrer /\ With(x).referrerWallet = x.referrerWallet
    BY <2>1 DEF Row
  <2>6. RowReal(With(x))
    BY <2>1, <2>3, <2>5 DEF RowReal
  <2>7. QED
    BY <2>2, <2>3, <2>4, <2>5, <2>6
<1> HIDE DEF With
<1>5. rows' \subseteq Row /\ \A x \in rows' : RowReal(x)
  BY <1>1, <1>4
<1>6. Ids' = Ids
  BY <1>1, <1>4 DEF Ids
<1>7. ControlFits'
  <2>1. ~Rejected(call)' /\ (call.method # "ListAccounts" => Single')
    BY <1>1, <1>3 DEF Rejected, Given, Single
  <2>2. QED
    BY <1>1, <1>2, <1>3, <2>1 DEF ControlFits, Replied, Asked
<1>8. NotFoundHolds'
  BY <1>1 DEF NotFoundHolds, Replied
<1>9. LinksLoaded'
  <2>1. \A x \in rows : before[x.id] # None /\ Present(x.id) /\ before[x.id].email # None
          => Column(x.id, "email") # None
    BY <1>0, <1>4 DEF BeforeLasts, Gone
  <2>2. QED
    BY <1>1, <1>2, <1>4, <2>1 DEF LinksLoaded, Replied, Throughout, Present, Asked
<1>10. AskedFor'
  <2> SUFFICES ASSUME call.method = "GetAccount", NEW x \in rows
               PROVE  /\ call.id # None => x.id = call.id
                      /\ call.code # None => x.code = call.code
                      /\ call.email # None =>
                           \/ Gone(x.id)
                           \/ /\ HasAddress(x.id, Normalize[call.email])
                              /\ Column(x.id, "email") = Normalize[call.email]
                      /\ call.wallet # None => Gone(x.id) \/ OwnsWallet(x.id, call.wallet)
    BY <1>1, <1>2, <1>4 DEF AskedFor, Asked, Gone, HasAddress, OwnsWallet, Present
  <2>1. /\ call.id # None => x.id = call.id
        /\ call.code # None => x.code = call.code
        /\ call.email # None => Gone(x.id) \/ HasAddress(x.id, Normalize[call.email])
        /\ call.wallet # None => Gone(x.id) \/ OwnsWallet(x.id, call.wallet)
    BY <1>3 DEF ReadsInvariant, AskedFor
  <2>2. QED
    BY <1>4, <2>1 DEF HasAddress
<1>11. Reading' /\ call.method = "ListAccounts" => OnlyOldestMissing'
  BY <1>2, <1>3, <1>6
     DEF ReadsInvariant, OnlyOldestMissing, Throughout, Newer, Present, Asked
<1>12. reply' \in {"none", "ok", "invalid", "notFound", "error", "died"}
  BY <1>1 DEF ReadsInvariant, TypeOK
<1>13. QED
  BY <1>1, <1>2, <1>5, <1>7, <1>8, <1>9, <1>10, <1>11, <1>12, QueryKeepsReads

LEMMA WalletsKeepReads ==
  ASSUME ReadsInvariant, LoadWallets, UNCHANGED <<dir, used, order>>
  PROVE  ReadsInvariant'
<1> DEFINE With(x) == [x EXCEPT !.wallet = Column(x.id, "wallet")]
<1>0. EntriesInvariant /\ BeforeLasts /\ rows \subseteq Row
  BY DEF ReadsInvariant, EntriesInvariant, TypeOK
<1>1. /\ at = "wallets" /\ at' = "replied" /\ reply' = "ok"
      /\ call' = call /\ before' = before /\ rows' = {With(x) : x \in rows}
  BY DEF LoadWallets, Replies, Goto
<1>2. Asked
  BY <1>1, CallRuns
<1>3. /\ call.method \in {"ListAccounts", "GetAccount"} /\ Reading /\ ~Rejected(call)
      /\ call.method # "ListAccounts" => Single
  BY <1>1 DEF ReadsInvariant, ControlFits, Reading
<1>4. ASSUME NEW x \in rows
      PROVE  /\ With(x) \in Row /\ RowReal(With(x))
             /\ With(x).id = x.id /\ With(x).code = x.code /\ With(x).email = x.email
             /\ With(x).wallet = Column(x.id, "wallet")
             /\ x.id \in AccountIds
             /\ Gone(x.id) \/ Column(x.id, "wallet") = dir[x.id].wallet
  <2>1. x \in Row /\ RowReal(x)
    BY <1>0 DEF ReadsInvariant
  <2>2. x.id \in AccountIds /\ x.id \in used
    BY <2>1 DEF Row, RowReal
  <2>3. /\ Column(x.id, "wallet") \in Wallets \cup {None}
        /\ Column(x.id, "wallet") # None => OwnsWallet(x.id, Column(x.id, "wallet"))
        /\ Gone(x.id) \/ Column(x.id, "wallet") = dir[x.id].wallet
    BY <1>0, <2>2, ColumnsReal
  <2>4. With(x) \in Row
    BY <2>1, <2>3 DEF Row
  <2>5. /\ With(x).id = x.id /\ With(x).code = x.code
        /\ With(x).wallet = Column(x.id, "wallet") /\ With(x).email = x.email
        /\ With(x).referredBy = x.referredBy /\ With(x).referredAt = x.referredAt
        /\ With(x).referrer = x.referrer /\ With(x).referrerWallet = x.referrerWallet
    BY <2>1 DEF Row
  <2>6. RowReal(With(x))
    BY <2>1, <2>3, <2>5 DEF RowReal
  <2>7. QED
    BY <2>2, <2>3, <2>4, <2>5, <2>6
<1> HIDE DEF With
<1>5. rows' \subseteq Row /\ \A x \in rows' : RowReal(x)
  BY <1>1, <1>4
<1>6. Ids' = Ids
  BY <1>1, <1>4 DEF Ids
<1>7. ControlFits'
  <2>1. ~Rejected(call)' /\ (call.method # "ListAccounts" => Single')
    BY <1>1, <1>3 DEF Rejected, Given, Single
  <2>2. QED
    BY <1>1, <1>2, <1>3, <2>1 DEF ControlFits, Replied, Asked
<1>8. NotFoundHolds'
  BY <1>1 DEF NotFoundHolds, Replied
<1>9. LinksLoaded'
  <2>1. \A x \in rows : before[x.id] # None /\ Present(x.id) /\ before[x.id].wallet # None
          => Column(x.id, "wallet") # None
    BY <1>0, <1>4 DEF BeforeLasts, Gone
  <2>2. \A x \in rows : before[x.id] # None /\ Present(x.id) /\ before[x.id].email # None
          => x.email # None
    BY <1>1, <1>3 DEF ReadsInvariant, LinksLoaded, Throughout
  <2>3. QED
    BY <1>1, <1>2, <1>4, <2>1, <2>2 DEF LinksLoaded, Replied, Throughout, Present, Asked
<1>10. AskedFor'
  <2> SUFFICES ASSUME call.method = "GetAccount", NEW x \in rows
               PROVE  /\ call.id # None => x.id = call.id
                      /\ call.code # None => x.code = call.code
                      /\ call.email # None =>
                           \/ Gone(x.id)
                           \/ /\ HasAddress(x.id, Normalize[call.email])
                              /\ x.email = Normalize[call.email]
                      /\ call.wallet # None =>
                           \/ Gone(x.id)
                           \/ /\ OwnsWallet(x.id, call.wallet)
                              /\ Column(x.id, "wallet") = call.wallet
    BY <1>1, <1>2, <1>4 DEF AskedFor, Asked, Gone, HasAddress, OwnsWallet, Present
  <2>1. /\ call.id # None => x.id = call.id
        /\ call.code # None => x.code = call.code
        /\ call.email # None => \/ Gone(x.id)
                                \/ /\ HasAddress(x.id, Normalize[call.email])
                                   /\ x.email = Normalize[call.email]
        /\ call.wallet # None => Gone(x.id) \/ OwnsWallet(x.id, call.wallet)
    BY <1>1, <1>3 DEF ReadsInvariant, AskedFor
  <2>2. QED
    BY <1>4, <2>1 DEF OwnsWallet
<1>11. Reading' /\ call.method = "ListAccounts" => OnlyOldestMissing'
  BY <1>2, <1>3, <1>6
     DEF ReadsInvariant, OnlyOldestMissing, Throughout, Newer, Present, Asked
<1>12. QED
  BY <1>1, <1>2, <1>5, <1>7, <1>8, <1>9, <1>10, <1>11, QueryKeepsReads

LEMMA LinkKeepsReads ==
  ASSUME ReadsInvariant, FindLink, UNCHANGED <<dir, used, order>>
  PROVE  ReadsInvariant'
<1>0. EntriesInvariant /\ BeforeLasts
  BY DEF ReadsInvariant, EntriesInvariant
<1>1. /\ at = "arrived" /\ call.method \in {"TempReferral", "GetUserAccount"}
      /\ ~Rejected(call) /\ call \in Calls /\ rows = {} /\ reply = "none"
  BY DEF FindLink, Accepted, ReadsInvariant, ControlFits
<1>2. /\ call.wallet # None => call.wallet \in Wallets /\ "wallet" \in Given(call)
      /\ call.wallet = None => /\ call.email \in Addresses /\ "email" \in Given(call)
  BY <1>1, AcceptedLinks
<1>3. call.wallet = None => Normalize[call.email] \in Addresses
  BY <1>2, EntriesAssumption
<1>4. CASE \A a \in AccountIds : ~Linked(call, a)
  <2>1. /\ at' = "replied" /\ reply' = "notFound" /\ rows' = rows
        /\ call' = call /\ before' = before
    BY <1>4 DEF FindLink, Replies, Goto
  <2>2. Asked
    BY <1>1, <2>1, CallRuns
  <2>3. ASSUME NEW a \in AccountIds, IdentifiedIn(before, a), Present(a) PROVE FALSE
    <3>1. before[a] # None
      BY <2>3 DEF IdentifiedIn
    <3>2. /\ \A e \in Addresses : before[a].email = e => HasAddress(a, e)
          /\ \A w \in Wallets : before[a].wallet = w => OwnsWallet(a, w)
      BY <1>0, <2>3, <3>1, StillLinked
    <3>3. Linked(call, a)
      BY <1>2, <1>3, <2>3, <3>2 DEF IdentifiedIn, Linked
    <3>4. QED
      BY <1>4, <3>3
  <2>4. QED
    BY <2>1, <2>2, <2>3, FailureKeepsReads
<1>5. CASE ~\A a \in AccountIds : ~Linked(call, a)
  <2>1. PICK a \in AccountIds :
          /\ Linked(call, a)
          /\ Reads({IF call.wallet # None THEN RowWith(a, None, call.wallet)
                    ELSE RowWith(a, Normalize[call.email], None)}, "account")
    BY <1>5 DEF FindLink
  <2> DEFINE x == IF call.wallet # None THEN RowWith(a, None, call.wallet)
                  ELSE RowWith(a, Normalize[call.email], None)
  <2>2. /\ at' = "account" /\ reply' = "none" /\ rows' = {x}
        /\ call' = call /\ before' = before
    BY <1>1, <2>1 DEF Reads, Goto
  <2>3. Asked
    BY <1>1, <2>2, CallRuns
  <2>4. Present(a)
    BY <2>1 DEF Linked, OwnsWallet, HasAddress
  <2>5. /\ x \in Row /\ RowReal(x)
        /\ IF call.wallet # None THEN x.wallet # None ELSE x.email # None
    <3>1. CASE call.wallet # None
      <4>1. x = RowWith(a, None, call.wallet)
        BY <3>1
      <4>2. call.wallet \in Wallets \cup {None} /\ OwnsWallet(a, call.wallet)
        BY <1>2, <2>1, <3>1 DEF Linked
      <4>3. /\ RowWith(a, None, call.wallet) \in Row
            /\ RowReal(RowWith(a, None, call.wallet))
        BY <1>0, <2>4, <4>2, RowStarts
      <4>4. RowWith(a, None, call.wallet).wallet = call.wallet
        BY DEF RowWith
      <4>5. QED
        BY <3>1, <4>1, <4>3, <4>4
    <3>2. CASE call.wallet = None
      <4>1. x = RowWith(a, Normalize[call.email], None)
        BY <3>2
      <4>2. /\ Normalize[call.email] \in Addresses \cup {None}
            /\ HasAddress(a, Normalize[call.email])
        BY <1>3, <2>1, <3>2 DEF Linked
      <4>3. /\ RowWith(a, Normalize[call.email], None) \in Row
            /\ RowReal(RowWith(a, Normalize[call.email], None))
        BY <1>0, <2>4, <4>2, RowStarts
      <4>4. RowWith(a, Normalize[call.email], None).email # None
        BY <1>3, <3>2, EntriesAssumption DEF RowWith
      <4>5. QED
        BY <3>2, <4>1, <4>3, <4>4
    <3>3. QED
      BY <3>1, <3>2
  <2> HIDE DEF x
  <2>6. rows' \subseteq Row /\ \A y \in rows' : RowReal(y)
    BY <2>2, <2>5
  <2>7. ControlFits'
    <3>1. ~Rejected(call)' /\ Single'
      BY <1>1, <2>2 DEF Rejected, Given, Single
    <3>2. QED
      BY <1>1, <2>2, <2>3, <3>1 DEF ControlFits, Replied, Asked
  <2>8. LinksLoaded' /\ AskedFor' /\ NotFoundHolds'
    BY <1>1, <2>2, <2>5 DEF LinksLoaded, AskedFor, NotFoundHolds, Replied
  <2>9. QED
    BY <1>1, <2>2, <2>3, <2>6, <2>7, <2>8, QueryKeepsReads
<1>6. QED
  BY <1>4, <1>5

(* The queries after the link: one row, with what has been loaded so far.  *)
LEMMA OneRowKeepsReads ==
  ASSUME ReadsInvariant, Asked, NEW x \in Row, RowReal(x), rows' = {x},
         call.method \in {"TempReferral", "GetUserAccount"}, ~Rejected(call),
         \/ at' \in {"peer", "referrer", "referrerWallet"}
         \/ at' = "replied" /\ reply' = "ok",
         reply' \in {"none", "ok", "invalid", "notFound", "error", "died"},
         at' = "peer" => /\ call.method = "GetUserAccount"
                         /\ IF call.wallet # None THEN x.wallet # None ELSE x.email # None,
         at' = "referrerWallet" => x.referrer # None,
         at' = "replied" /\ x.referredBy # None /\ x.referrerWallet = None
           => Gone(x.referredBy),
         at' # "peer" /\ call.method # "TempReferral" /\ Throughout(x.id) =>
           /\ before[x.id].email # None => x.email # None
           /\ before[x.id].wallet # None => x.wallet # None
  PROVE  ReadsInvariant'
<1>1. call' = call /\ before' = before /\ call \in Calls
  BY DEF Asked
<1>2. ~Rejected(call)' /\ Single' /\ (Gone(x.referredBy)' <=> Gone(x.referredBy))
      /\ (Throughout(x.id)' <=> Throughout(x.id))
  BY DEF Rejected, Given, Single, Asked, Gone, Throughout, Present
<1>3. ControlFits'
  BY <1>1, <1>2 DEF ControlFits, Replied
<1>4. LinksLoaded'
  BY <1>1, <1>2 DEF LinksLoaded, Replied
<1>5. AskedFor' /\ NotFoundHolds'
  BY <1>1 DEF AskedFor, NotFoundHolds, Replied
<1>6. QED
  BY <1>1, <1>3, <1>4, <1>5, QueryKeepsReads

LEMMA AccountKeepsReads ==
  ASSUME ReadsInvariant, LoadAccount, UNCHANGED <<dir, used, order>>
  PROVE  ReadsInvariant'
<1>0. EntriesInvariant /\ rows \subseteq Row
  BY DEF ReadsInvariant, EntriesInvariant, TypeOK
<1>1. PICK x \in rows :
        /\ Present(x.id)
        /\ Reads({RowWith(x.id, x.email, x.wallet)},
                 IF call.method = "GetUserAccount" THEN "peer" ELSE "referrer")
  BY DEF LoadAccount
<1> DEFINE y == RowWith(x.id, x.email, x.wallet)
<1>2. /\ at = "account" /\ rows' = {y} /\ reply' = reply
      /\ at' = IF call.method = "GetUserAccount" THEN "peer" ELSE "referrer"
      /\ call' = call /\ before' = before
  BY <1>1 DEF LoadAccount, Reads, Goto
<1>3. Asked
  BY <1>2, CallRuns
<1>4. /\ call.method \in {"TempReferral", "GetUserAccount"} /\ ~Rejected(call)
      /\ IF call.wallet # None THEN x.wallet # None ELSE x.email # None
  BY <1>2 DEF ReadsInvariant, ControlFits, LinksLoaded, Reading
<1>5. /\ x.id \in AccountIds /\ x.email \in Addresses \cup {None}
      /\ x.wallet \in Wallets \cup {None}
  BY <1>0 DEF Row
<1>6. /\ x.email # None => HasAddress(x.id, x.email)
      /\ x.wallet # None => OwnsWallet(x.id, x.wallet)
  BY <1>1 DEF ReadsInvariant, RowReal, Gone
<1>7. y \in Row /\ RowReal(y)
  BY <1>0, <1>1, <1>5, <1>6, RowStarts
<1>8. y.email = x.email /\ y.wallet = x.wallet
  BY DEF RowWith
<1>9. reply' \in {"none", "ok", "invalid", "notFound", "error", "died"}
  BY <1>2 DEF ReadsInvariant, TypeOK
<1> HIDE DEF y
<1>10. QED
  BY <1>2, <1>3, <1>4, <1>7, <1>8, <1>9, OneRowKeepsReads

LEMMA PeerKeepsReads ==
  ASSUME ReadsInvariant, LoadPeer, UNCHANGED <<dir, used, order>>
  PROVE  ReadsInvariant'
<1>0. EntriesInvariant /\ BeforeLasts /\ rows \subseteq Row
  BY DEF ReadsInvariant, EntriesInvariant, TypeOK
<1>1. PICK x \in rows :
        Reads({IF call.wallet # None THEN [x EXCEPT !.email = Column(x.id, "email")]
               ELSE [x EXCEPT !.wallet = Column(x.id, "wallet")]}, "referrer")
  BY DEF LoadPeer
<1> DEFINE y == IF call.wallet # None THEN [x EXCEPT !.email = Column(x.id, "email")]
                ELSE [x EXCEPT !.wallet = Column(x.id, "wallet")]
<1>2. /\ at = "peer" /\ rows' = {y} /\ reply' = reply /\ at' = "referrer"
      /\ call' = call /\ before' = before
  BY <1>1 DEF LoadPeer, Reads, Goto
<1>3. Asked
  BY <1>2, CallRuns
<1>4. /\ call.method \in {"TempReferral", "GetUserAccount"} /\ ~Rejected(call)
      /\ IF call.wallet # None THEN x.wallet # None ELSE x.email # None
  BY <1>2 DEF ReadsInvariant, ControlFits, LinksLoaded, Reading
<1>5. x \in Row /\ RowReal(x) /\ x.id \in AccountIds /\ x.id \in used
  BY <1>0 DEF ReadsInvariant, Row, RowReal
<1>6. /\ Column(x.id, "email") \in Addresses \cup {None}
      /\ Column(x.id, "wallet") \in Wallets \cup {None}
      /\ Column(x.id, "email") # None => HasAddress(x.id, Column(x.id, "email"))
      /\ Column(x.id, "wallet") # None => OwnsWallet(x.id, Column(x.id, "wallet"))
      /\ Gone(x.id) \/ (/\ Column(x.id, "email") = dir[x.id].email
                        /\ Column(x.id, "wallet") = dir[x.id].wallet)
  BY <1>0, <1>5, ColumnsReal
<1>7. y \in Row
  BY <1>5, <1>6 DEF Row
<1>8. /\ y.id = x.id /\ y.referredBy = x.referredBy /\ y.referredAt = x.referredAt
      /\ y.referrer = x.referrer /\ y.referrerWallet = x.referrerWallet
      /\ y.email = IF call.wallet # None THEN Column(x.id, "email") ELSE x.email
      /\ y.wallet = IF call.wallet # None THEN x.wallet ELSE Column(x.id, "wallet")
  BY <1>5 DEF Row
<1> HIDE DEF y
<1>9. RowReal(y)
  BY <1>5, <1>6, <1>8 DEF RowReal
<1>10. Throughout(y.id) =>
         /\ before[y.id].email # None => y.email # None
         /\ before[y.id].wallet # None => y.wallet # None
  BY <1>0, <1>4, <1>5, <1>6, <1>8 DEF Throughout, BeforeLasts, Gone
<1>11. reply' \in {"none", "ok", "invalid", "notFound", "error", "died"}
  BY <1>2 DEF ReadsInvariant, TypeOK
<1>12. QED
  BY <1>2, <1>3, <1>4, <1>7, <1>9, <1>10, <1>11, OneRowKeepsReads

(* What a row has at the last two queries of a call for one account.       *)
LEMMA LastRow ==
  ASSUME ReadsInvariant, at \in {"referrer", "referrerWallet"}, NEW x \in rows
  PROVE  /\ rows = {x} /\ x \in Row /\ RowReal(x) /\ x.referredBy \in AccountIds \cup {None}
         /\ call.method \in {"TempReferral", "GetUserAccount"} /\ ~Rejected(call)
         /\ call.method # "TempReferral" /\ Throughout(x.id) =>
              /\ before[x.id].email # None => x.email # None
              /\ before[x.id].wallet # None => x.wallet # None
<1>1. x \in Row /\ RowReal(x)
  BY DEF ReadsInvariant, TypeOK
<1>2. x.referredBy \in AccountIds \cup {None}
  BY <1>1 DEF Row
<1>3. /\ call.method \in {"TempReferral", "GetUserAccount"} /\ ~Rejected(call) /\ Single
  BY DEF ReadsInvariant, ControlFits, Reading
<1>4. rows = {x}
  BY <1>3 DEF Single
<1>5. call.method # "TempReferral" /\ Throughout(x.id) =>
        /\ before[x.id].email # None => x.email # None
        /\ before[x.id].wallet # None => x.wallet # None
  BY DEF ReadsInvariant, LinksLoaded
<1>6. QED
  BY <1>1, <1>2, <1>3, <1>4, <1>5

LEMMA ReferrerKeepsReads ==
  ASSUME ReadsInvariant, LoadReferrer, UNCHANGED <<dir, used, order>>
  PROVE  ReadsInvariant'
<1>1. PICK x \in rows :
        IF HasReferrer(x) THEN Reads({[x EXCEPT !.referrer = x.referredBy]}, "referrerWallet")
        ELSE Replies("ok") /\ UNCHANGED <<call, rows, before>>
  BY DEF LoadReferrer
<1>2. at = "referrer"
  BY DEF LoadReferrer
<1>3. /\ rows = {x} /\ x \in Row /\ RowReal(x) /\ x.referredBy \in AccountIds \cup {None}
      /\ call.method \in {"TempReferral", "GetUserAccount"} /\ ~Rejected(call)
      /\ call.method # "TempReferral" /\ Throughout(x.id) =>
           /\ before[x.id].email # None => x.email # None
           /\ before[x.id].wallet # None => x.wallet # None
  BY <1>2, LastRow
<1>4. CASE HasReferrer(x)
  <2> DEFINE y == [x EXCEPT !.referrer = x.referredBy]
  <2>1. /\ rows' = {y} /\ reply' = reply /\ at' = "referrerWallet"
        /\ call' = call /\ before' = before
    BY <1>1, <1>4 DEF Reads, Goto
  <2>2. Asked
    BY <1>2, <2>1, CallRuns
  <2>3. y \in Row
    BY <1>3 DEF Row
  <2>4. /\ y.id = x.id /\ y.referredBy = x.referredBy /\ y.referredAt = x.referredAt
        /\ y.referrer = x.referredBy /\ y.referrerWallet = x.referrerWallet
        /\ y.email = x.email /\ y.wallet = x.wallet
    BY <1>3 DEF Row
  <2> HIDE DEF y
  <2>5. y.referrer # None
    BY <1>4, <2>4 DEF HasReferrer
  <2>6. RowReal(y)
    BY <1>3, <1>4, <2>4 DEF RowReal, HasReferrer
  <2>7. reply' \in {"none", "ok", "invalid", "notFound", "error", "died"}
    BY <2>1 DEF ReadsInvariant, TypeOK
  <2>8. QED
    BY <1>3, <2>1, <2>2, <2>3, <2>4, <2>5, <2>6, <2>7, OneRowKeepsReads
<1>5. CASE ~HasReferrer(x)
  <2>1. /\ rows' = {x} /\ reply' = "ok" /\ at' = "replied"
        /\ call' = call /\ before' = before
    BY <1>1, <1>3, <1>5 DEF Replies, Goto
  <2>2. Asked
    BY <1>2, <2>1, CallRuns
  <2>3. x.referredBy # None => Gone(x.referredBy)
    BY <1>3, <1>5 DEF HasReferrer, Gone, RowReal
  <2>4. QED
    BY <1>3, <2>1, <2>2, <2>3, OneRowKeepsReads
<1>6. QED
  BY <1>4, <1>5

LEMMA ReferrerWalletKeepsReads ==
  ASSUME ReadsInvariant, LoadReferrerWallet, UNCHANGED <<dir, used, order>>
  PROVE  ReadsInvariant'
<1>1. PICK x \in rows : rows' = {[x EXCEPT !.referrerWallet = Column(x.referrer, "wallet")]}
  BY DEF LoadReferrerWallet
<1> DEFINE y == [x EXCEPT !.referrerWallet = Column(x.referrer, "wallet")]
<1>2. /\ at = "referrerWallet" /\ rows' = {y} /\ reply' = "ok" /\ at' = "replied"
      /\ call' = call /\ before' = before
  BY <1>1 DEF LoadReferrerWallet, Replies, Goto
<1>3. Asked
  BY <1>2, CallRuns
<1>4. /\ rows = {x} /\ x \in Row /\ RowReal(x) /\ x.referredBy \in AccountIds \cup {None}
      /\ call.method \in {"TempReferral", "GetUserAccount"} /\ ~Rejected(call)
      /\ call.method # "TempReferral" /\ Throughout(x.id) =>
           /\ before[x.id].email # None => x.email # None
           /\ before[x.id].wallet # None => x.wallet # None
  BY <1>2, LastRow
<1>5. /\ x.referrer = x.referredBy /\ x.referrer \in AccountIds /\ x.referrer \in used
      /\ Present(x.referrer) => dir[x.referrer].wallet # None
  BY <1>2, <1>4 DEF ReadsInvariant, ControlFits, RowReal
<1>6. EntriesInvariant
  BY DEF ReadsInvariant, EntriesInvariant
<1> DEFINE w == Column(x.referrer, "wallet")
<1>7. /\ w \in Wallets \cup {None}
      /\ w # None => OwnsWallet(x.referrer, w)
      /\ Gone(x.referrer) \/ w = dir[x.referrer].wallet
  BY <1>5, <1>6, ColumnsReal
<1>8. w = None => Gone(x.referrer)
  BY <1>5, <1>7 DEF Gone
<1> HIDE DEF w
<1>9. y \in Row
  BY <1>4, <1>7 DEF Row, w
<1>10. /\ y.id = x.id /\ y.referredBy = x.referredBy /\ y.referredAt = x.referredAt
       /\ y.referrer = x.referrer /\ y.referrerWallet = w
       /\ y.email = x.email /\ y.wallet = x.wallet
  BY <1>4 DEF Row, w
<1> HIDE DEF y
<1>11. x.referrer # None
  BY <1>5, EntriesAssumption
<1>12. RowReal(y)
  BY <1>4, <1>5, <1>7, <1>10, <1>11 DEF RowReal
<1>13. QED
  BY <1>2, <1>3, <1>4, <1>5, <1>8, <1>9, <1>10, <1>12, OneRowKeepsReads

LEMMA FailedQueryKeepsReads ==
  ASSUME ReadsInvariant, Reject \/ LoadNothing \/ QueryFails, UNCHANGED <<dir, used, order>>
  PROVE  ReadsInvariant'
<1>1. /\ at # "idle" /\ at' = "replied" /\ rows' = rows /\ call' = call /\ before' = before
      /\ reply' \in {"invalid", "error", "died"}
  BY DEF Reject, LoadNothing, QueryFails, Replies, Goto
<1>2. Asked
  BY <1>1, CallRuns
<1>3. QED
  BY <1>1, <1>2, FailureKeepsReads

LEMMA ArriveKeepsReads ==
  ASSUME ReadsInvariant, NEW c \in Calls, Arrive(c), UNCHANGED <<dir, used, order>>
  PROVE  ReadsInvariant'
<1>1. /\ call' = c /\ before' = dir /\ rows' = {} /\ reply' = "none" /\ at' = "arrived"
  BY DEF Arrive, Goto
<1>2. EntriesInvariant
  BY DEF ReadsInvariant, EntriesInvariant
<1>3. EntriesInvariant'
  BY <1>2, NothingChanges DEF directory
<1>4. TypeOK'
  BY <1>1 DEF ReadsInvariant, TypeOK
<1>5. BeforeLasts'
  BY <1>1, <1>2
     DEF BeforeLasts, EntriesInvariant, EntriesTyped, EntriesConsistent, AllReachable, Present
<1>6. ~Reading' /\ ~Replied("ok")'
  BY <1>1 DEF Reading, Replied
<1>7. ControlFits' /\ LinksLoaded' /\ AskedFor' /\ NotFoundHolds'
  BY <1>1, <1>6 DEF ControlFits, LinksLoaded, AskedFor, NotFoundHolds, Replied
<1>8. QED
  BY <1>1, <1>3, <1>4, <1>5, <1>6, <1>7 DEF ReadsInvariant, EntriesInvariant

LEMMA ReadsStart == Init => ReadsInvariant
<1> SUFFICES ASSUME Init PROVE ReadsInvariant
  OBVIOUS
<1>1. /\ dir = [a \in AccountIds |-> None] /\ used = {} /\ order = <<>> /\ call = None
      /\ at = "idle" /\ rows = {} /\ reply = "none" /\ before = dir
  BY DEF Init, Empty
<1>2. EntriesTyped /\ EntriesConsistent
  BY <1>1 DEF EntriesTyped, EntriesConsistent, NothingShared, AllReachable,
              ReferrersReal, Present
<1>3. order \in Seq(AccountIds) /\ ToSet(order) = used /\ IsInjective(order)
  <2>1. DOMAIN order = {} /\ order \in Seq(AccountIds)
    BY <1>1
  <2>2. QED
    BY <1>1, <2>1 DEF ToSet, IsInjective
<1>4. TypeOK
  BY <1>1, <1>2, <1>3 DEF TypeOK, EntriesTyped
<1>5. BeforeLasts
  BY <1>1 DEF BeforeLasts
<1>6. ~Reading /\ ~Replied("ok")
  BY <1>1 DEF Reading, Replied
<1>7. ControlFits /\ LinksLoaded /\ AskedFor /\ NotFoundHolds
  BY <1>1, <1>6 DEF ControlFits, LinksLoaded, AskedFor, NotFoundHolds, Replied
<1>8. QED
  BY <1>1, <1>2, <1>4, <1>5, <1>6, <1>7 DEF ReadsInvariant

(* However the changes of other requests come between the queries of a     *)
(* call, every query leaves behind what the next ones rely on.             *)
THEOREM ReadsKeepWhatTheyRead == Spec => []ReadsInvariant
<1>1. Init => ReadsInvariant
  BY ReadsStart
<1>2. ReadsInvariant /\ [Next]_vars => ReadsInvariant'
  <2> SUFFICES ASSUME ReadsInvariant, [Next]_vars PROVE ReadsInvariant'
    OBVIOUS
  <2>1. CASE UNCHANGED vars
    <3>1. EntriesInvariant'
      BY <2>1, NothingChanges DEF vars, directory, ReadsInvariant, EntriesInvariant
    <3>2. TypeOK' /\ BeforeLasts' /\ \A x \in rows' : RowReal(x)'
      BY <2>1 DEF vars, readVars, ReadsInvariant, TypeOK, BeforeLasts, RowReal, Present,
                  HasAddress, OwnsWallet, Gone
    <3>3. ControlFits' /\ LinksLoaded'
      BY <2>1 DEF vars, readVars, ReadsInvariant, ControlFits, LinksLoaded, Reading,
                  Replied, Single, Rejected, Given, Throughout, Present, Gone
    <3>4. AskedFor' /\ NotFoundHolds'
      BY <2>1 DEF vars, readVars, ReadsInvariant, AskedFor, NotFoundHolds, Reading,
                  Replied, IdentifiedIn, Given, Present, HasAddress, OwnsWallet, Gone
    <3>5. Reading' /\ call'.method = "ListAccounts" => OnlyOldestMissing'
      <4>1. (Reading' <=> Reading) /\ call' = call
        BY <2>1 DEF vars, readVars, Reading, Replied
      <4>2. OnlyOldestMissing => OnlyOldestMissing'
        <5>1. Ids' = Ids /\ \A a, b : Newer(a, b)' <=> Newer(a, b)
          BY <2>1 DEF vars, readVars, Ids, Newer
        <5>2. \A a : Throughout(a)' <=> Throughout(a)
          BY <2>1 DEF vars, readVars, Throughout, Present
        <5>3. QED
          BY <2>1, <5>1, <5>2 DEF vars, readVars, OnlyOldestMissing
      <4>3. QED
        BY <4>1, <4>2 DEF ReadsInvariant
    <3>6. QED
      BY <3>1, <3>2, <3>3, <3>4, <3>5 DEF ReadsInvariant, EntriesInvariant
  <2>2. CASE Change
    BY <2>2, ChangeKeepsReads
  <2>3. CASE (Query \/ QueryFails \/ \E c \in Calls : Arrive(c)) /\ UNCHANGED <<dir, used, order>>
    BY <2>3, ListKeepsReads, GetKeepsReads, EmailsKeepReads, WalletsKeepReads,
       LinkKeepsReads, AccountKeepsReads, PeerKeepsReads, ReferrerKeepsReads,
       ReferrerWalletKeepsReads, FailedQueryKeepsReads, ArriveKeepsReads DEF Query
  <2>4. QED
    BY <2>1, <2>2, <2>3 DEF Next
<1>3. QED
  BY <1>1, <1>2, PTL DEF Spec

(* Calls, rows and replies have their types throughout.                    *)
THEOREM ReadsTyped == Spec => []TypeOK
<1>1. ReadsInvariant => TypeOK
  BY DEF ReadsInvariant
<1>2. QED
  BY <1>1, ReadsKeepWhatTheyRead, PTL

(* The accounts that the calls read are consistent at every query.         *)
THEOREM AccountsConsistentWhileRead == Spec => []EntriesConsistent
<1>1. ReadsInvariant => EntriesConsistent
  BY DEF ReadsInvariant
<1>2. QED
  BY <1>1, ReadsKeepWhatTheyRead, PTL

(* The addresses that dbToRPC and formatUser report belong to the account  *)
(* they are reported for, though each was read at another time.            *)
THEOREM NoLinkOfAnother == Spec => []ReportedLinksAreReal
<1>1. ReadsInvariant => ReportedLinksAreReal
  <2> SUFFICES ASSUME ReadsInvariant, NEW x \in rows
               PROVE  /\ x.email # None => HasAddress(x.id, x.email) \/ Gone(x.id)
                      /\ x.wallet # None => OwnsWallet(x.id, x.wallet) \/ Gone(x.id)
                      /\ x.referrerWallet # None =>
                           /\ x.referredAt
                           /\ OwnsWallet(x.referrer, x.referrerWallet) \/ Gone(x.referrer)
    BY DEF ReportedLinksAreReal
  <2>1. RowReal(x)
    BY DEF ReadsInvariant
  <2>2. QED
    BY <2>1 DEF RowReal
<1>2. QED
  BY <1>1, ReadsKeepWhatTheyRead, PTL

(* GetAccount answers with the account that was asked for.                 *)
THEOREM AnswersTheQuestion == Spec => []ReturnsWhatWasAsked
<1>1. ReadsInvariant => ReturnsWhatWasAsked
  <2> SUFFICES ASSUME ReadsInvariant, Replied("ok"), call.method = "GetAccount"
               PROVE  \E x \in rows :
                        /\ rows = {x}
                        /\ call.id # None => x.id = call.id
                        /\ call.code # None => x.code = call.code
                        /\ call.email # None => x.email = Normalize[call.email] \/ Gone(x.id)
                        /\ call.wallet # None => x.wallet = call.wallet \/ Gone(x.id)
    BY DEF ReturnsWhatWasAsked
  <2>1. Reading /\ at = "replied"
    BY DEF Reading, Replied
  <2>2. PICK x \in rows : rows = {x}
    BY <2>1 DEF ReadsInvariant, ControlFits, Single
  <2>3. /\ call.id # None => x.id = call.id
        /\ call.code # None => x.code = call.code
        /\ call.email # None => x.email = Normalize[call.email] \/ Gone(x.id)
        /\ call.wallet # None => x.wallet = call.wallet \/ Gone(x.id)
    BY <2>1 DEF ReadsInvariant, AskedFor
  <2>4. QED
    BY <2>2, <2>3
<1>2. QED
  BY <1>1, ReadsKeepWhatTheyRead, PTL

(* No call misses an account that has the identifier all the time.         *)
THEOREM NobodyIsOverlooked == Spec => []FoundIfThere
<1>1. ReadsInvariant => FoundIfThere
  BY DEF ReadsInvariant, NotFoundHolds, FoundIfThere, IdentifiedIn, Present
<1>2. QED
  BY <1>1, ReadsKeepWhatTheyRead, PTL

(* What ListAccounts, GetAccount and GetUserAccount report of an account   *)
(* is not older than the call.                                             *)
THEOREM NothingIsStale == Spec => []ReplyCoversStart
<1>1. ReadsInvariant => ReplyCoversStart
  <2> SUFFICES ASSUME ReadsInvariant, Replied("ok"), call.method # "TempReferral",
                      NEW x \in rows, before[x.id] # None, Present(x.id)
               PROVE  /\ before[x.id].email # None => x.email = before[x.id].email
                      /\ before[x.id].wallet # None => x.wallet = before[x.id].wallet
    BY DEF ReplyCoversStart, Throughout
  <2>1. x.id \in AccountIds
    BY DEF ReadsInvariant, TypeOK, Row
  <2>2. /\ before[x.id].email # None => x.email # None
        /\ before[x.id].wallet # None => x.wallet # None
    BY DEF ReadsInvariant, LinksLoaded, Throughout
  <2>3. /\ x.email # None => dir[x.id].email = x.email
        /\ x.wallet # None => dir[x.id].wallet = x.wallet
    BY DEF ReadsInvariant, RowReal, HasAddress, OwnsWallet, Gone
  <2>4. /\ before[x.id].email # None => dir[x.id].email = before[x.id].email
        /\ before[x.id].wallet # None => dir[x.id].wallet = before[x.id].wallet
    BY <2>1 DEF ReadsInvariant, BeforeLasts
  <2>5. QED
    BY <2>2, <2>3, <2>4
<1>2. QED
  BY <1>1, ReadsKeepWhatTheyRead, PTL

(* ListAccounts leaves out the oldest matches only.                        *)
THEOREM OnlyTheOldestAreCut == Spec => []ListIsNewest
<1>1. ReadsInvariant => ListIsNewest
  BY DEF ReadsInvariant, ListIsNewest, Reading
<1>2. QED
  BY <1>1, ReadsKeepWhatTheyRead, PTL

(* A referrer is missing from a reply only when its account was deleted.   *)
THEOREM ReferrerShownWhileThere == Spec => []ReferrerHiddenOnlyIfGone
<1>1. ReadsInvariant => ReferrerHiddenOnlyIfGone
  BY DEF ReadsInvariant, ControlFits, ReferrerHiddenOnlyIfGone
<1>2. QED
  BY <1>1, ReadsKeepWhatTheyRead, PTL

=============================================================================
