-------------------------- MODULE CustomerIOProofs --------------------------
(***************************************************************************)
(* Proofs of what Customer.io knows, for any number of processes, accounts,*)
(* wallets and messages, whatever order the messages arrive in and whatever*)
(* is lost.  The lemmas about the entries are those of DirectoryProofs.    *)
(***************************************************************************)
EXTENDS CustomerIO, DirectoryProofs

Told == telling \cup moving \cup delivered

(* A wallet whose account is removed is freed.                             *)
WalletsFreed ==
  /\ freed \subseteq freed'
  /\ \A a \in AccountIds : Present(a) /\ ~Present(a)' /\ dir[a].wallet # None =>
       dir[a].wallet \in freed'

LEMMA MessageFields ==
  ASSUME NEW m \in Messages
  PROVE  /\ m.process \in Replicas /\ m.user \in Wallets /\ m.account \in AccountIds
         /\ m.email \in Addresses \cup {None} /\ m.user # None
  BY EntriesAssumption DEF Messages

(* A message of an account that is gone, or of an id that was given out,   *)
(* stays accounted for: the account keeps its links, or its wallet is freed*)
(* when it is removed.                                                     *)
LEMMA MessagesLast ==
  ASSUME EntriesInvariant, EntriesLast, WalletsFreed, NEW m \in Messages,
         m.account \in used, Accounted(m)
  PROVE  Accounted(m)'
<1>1. /\ m.user \in Wallets /\ m.account \in AccountIds /\ m.user # None
      /\ m.account \in used /\ m.account \in used'
  BY MessageFields DEF EntriesLast
<1>2. CASE Present(m.account) /\ Present(m.account)'
  <2>1. /\ Stays(m.account) /\ dir[m.account].wallet = m.user
        /\ m.email # None => dir[m.account].email = m.email
    BY <1>1, <1>2 DEF EntriesLast, Accounted, OwnsWallet, HasAddress
  <2>2. QED
    BY <1>1, <2>1 DEF Stays, Accounted, OwnsWallet, HasAddress
<1>3. CASE Present(m.account) /\ ~Present(m.account)'
  <2>1. dir[m.account].wallet = m.user
    BY <1>1, <1>3 DEF Accounted, OwnsWallet
  <2>2. m.user \in freed'
    BY <1>1, <1>3, <2>1 DEF WalletsFreed
  <2>3. QED
    BY <1>1, <1>3, <2>2 DEF Accounted
<1>4. CASE ~Present(m.account)
  <2>1. ~Present(m.account)' /\ m.user \in freed
    BY <1>1, <1>4 DEF EntriesLast, Accounted, OwnsWallet
  <2>2. QED
    BY <1>1, <2>1 DEF Accounted, WalletsFreed
<1>5. QED
  BY <1>2, <1>3, <1>4

(* What CreateAccount told before its commit is of no account yet.  It     *)
(* stays so, or becomes true: only the attempt that told it has its id.    *)
LEMMA AttemptsLast ==
  ASSUME EntriesInvariant, NEW p \in Replicas, NEW r \in Requests, NEW a \in AccountIds,
         Link(p, r, a), NEW m \in Messages, m \in Told, m.account \notin used, Accounted(m)
  PROVE  Accounted(m)'
<1>1. m.email = None /\ m \in About(m.account)
  BY DEF Accounted, About, Sent, Told
<1>2. Effect(r, a) /\ Commits(p, r, a)
  BY DEF Link
<1>3. CASE Create(r, a)
  <2>1. PICK c \in Codes : dir' = [dir EXCEPT ![a] = NewEntry(r.cred, c)]
    BY <1>3 DEF Create
  <2>2. used' = used \cup {a} /\ r.op = "CreateAccount"
    BY <1>3 DEF Create
  <2>3. CASE m.account = a
    <3>1. r.cred \in Wallets /\ m = Message(p, r.cred, None, a)
      BY <1>1, <1>2, <2>2, <2>3 DEF Commits
    <3>2. m.user = r.cred
      BY <3>1 DEF Message
    <3>3. dir'[a] = NewEntry(r.cred, c)
      BY <2>1 DEF EntriesInvariant, EntriesTyped
    <3>4. dir'[a].wallet = r.cred
      BY <3>1, <3>3 DEF NewEntry
    <3>5. EntriesInvariant'
      BY <1>2, EffectKeeps
    <3>6. dir'[a] # None
      <4>1. NewEntry(r.cred, c) \in Entry
        BY <3>1, EntriesAssumption DEF NewEntry, Entry
      <4>2. QED
        BY <3>3, <4>1, EntriesAssumption
    <3>7. QED
      BY <1>1, <2>2, <2>3, <3>2, <3>4, <3>6 DEF Accounted, OwnsWallet, Present
  <2>4. CASE m.account # a
    BY <1>1, <2>2, <2>4 DEF Accounted
  <2>5. QED
    BY <2>3, <2>4
<1>4. CASE ~Create(r, a)
  <2>1. used' = used
    BY <1>2, <1>4 DEF Effect, SetCountry, AcceptTerms, RemoveEntry, AddEmail,
                      AddConfirmedEmail, AddWallet, SetReferrer, Put
  <2>2. QED
    BY <1>1, <2>1 DEF Accounted
<1>5. QED
  BY <1>3, <1>4

(* So does a profile.                                                      *)
LEMMA ProfilesLast ==
  ASSUME EntriesInvariant, EntriesLast, WalletsFreed, EmailIsCurrent, profile' = profile
  PROVE  EmailIsCurrent'
<1> SUFFICES ASSUME NEW w \in Wallets \ freed', profile[w].email # None
             PROVE  \E a \in AccountIds :
                      OwnsWallet(a, w)' /\ (Present(a)' /\ dir'[a].email = profile[w].email)
  BY DEF EmailIsCurrent, HasAddress
<1>1. w \notin freed /\ w # None
  BY EntriesAssumption DEF WalletsFreed
<1>2. PICK a \in AccountIds : OwnsWallet(a, w) /\ HasAddress(a, profile[w].email)
  BY <1>1 DEF EmailIsCurrent
<1>3. Present(a) /\ dir[a].wallet = w /\ dir[a].email = profile[w].email
  BY <1>2 DEF OwnsWallet, HasAddress
<1>4. Present(a)'
  BY <1>1, <1>3 DEF WalletsFreed
<1>5. Stays(a)
  BY <1>3, <1>4 DEF EntriesLast
<1>6. QED
  BY <1>1, <1>3, <1>4, <1>5 DEF Stays, OwnsWallet
----------------------------------------------------------------------------
(* The steps.                                                              *)

(* What a handler tells after its commit is what it has committed.         *)
LEMMA CallsAreTrue ==
  ASSUME MessagesInvariant, NEW p \in Replicas, NEW r \in Requests, NEW a \in AccountIds,
         Link(p, r, a), NEW m \in Calls(p, r, a)
  PROVE  m \in Messages /\ Accounted(m)'
<1>1. EntriesInvariant
  BY DEF MessagesInvariant, EntriesInvariant
<1>2. Effect(r, a) /\ (r.op = "CreateAccount" \/ Denotes(r.cred, a))
  BY DEF Link, Commits
<1>3. EntriesInvariant' /\ EntriesLast
  BY <1>1, <1>2, EffectKeeps, EffectLasts
<1>4. CASE r.op \in {"LinkEmail", "LinkEmailToken"} /\ r.cred \in Wallets
  <2> DEFINE e == Normalize[r.arg]
  <2>1. m = Message(p, r.cred, e, a)
    BY <1>4 DEF Calls
  <2>2. Present(a) /\ (AddEmail(r, a) \/ AddConfirmedEmail(r, a))
    BY <1>2, <1>4 DEF Effect, Create, SetCountry, AcceptTerms, RemoveEntry, AddWallet, SetReferrer
  <2>3. r.arg \in Addresses
    BY <2>2, EntriesAssumption DEF AddEmail, AddConfirmedEmail, ArgumentsOf
  <2>4. e \in Addresses
    BY <2>3, EntriesAssumption
  <2>5. /\ m.process = p /\ m.user = r.cred /\ m.email = e /\ m.account = a
        /\ m \in Messages
    BY <1>4, <2>1, <2>4 DEF Message, Messages
  <2>6. Present(a)' /\ dir'[a].email = e
    <3>1. dir[a] \in Entry
      BY <1>1, <2>2 DEF EntriesInvariant, EntriesTyped, Present
    <3>2. PICK entry \in Entry : dir' = [dir EXCEPT ![a] = entry] /\ entry.email = e
      <4> DEFINE linked == [dir[a] EXCEPT !.email = e]
                 confirmed == [linked EXCEPT !.confirmed = TRUE]
      <4>0. linked \in Entry /\ linked.email = e /\ confirmed \in Entry /\ confirmed.email = e
        BY <2>4, <3>1 DEF Entry
      <4>1. CASE AddEmail(r, a)
        <5>1. dir' = [dir EXCEPT ![a] = linked]
          BY <4>1 DEF AddEmail, Put
        <5> HIDE DEF linked, confirmed
        <5>2. QED
          BY <4>0, <5>1
      <4>2. CASE AddConfirmedEmail(r, a)
        <5>1. dir' = [dir EXCEPT ![a] = confirmed]
          BY <4>2 DEF AddConfirmedEmail, Put
        <5> HIDE DEF linked, confirmed
        <5>2. QED
          BY <4>0, <5>1
      <4>3. QED
        BY <2>2, <4>1, <4>2
    <3>3. dir'[a] = entry
      BY <1>1, <3>2 DEF EntriesInvariant, EntriesTyped
    <3>4. QED
      BY <3>2, <3>3, EntriesAssumption DEF Present
  <2>7. dir'[a].wallet = r.cred
    BY <1>2, <1>3, <1>4, <2>2, <2>6, EntriesAssumption
       DEF Denotes, OwnsWallet, EntriesLast, Stays
  <2>8. a \in used'
    BY <1>3, <2>6 DEF EntriesInvariant, EntriesConsistent, AllReachable
  <2>9. QED
    BY <2>5, <2>6, <2>7, <2>8 DEF Accounted, OwnsWallet, HasAddress
<1>5. CASE ~(r.op \in {"LinkEmail", "LinkEmailToken"} /\ r.cred \in Wallets)
  <2>1. r.op = "LinkWalletToken" /\ m = Message(p, r.arg, None, a)
    BY <1>5 DEF Calls
  <2>2. AddWallet(r, a)
    BY <1>2, <2>1 DEF Effect, Create, SetCountry, AcceptTerms, RemoveEntry, AddEmail,
                      AddConfirmedEmail, SetReferrer
  <2>3. r.arg \in Wallets
    BY <2>1, <2>2, EntriesAssumption DEF AddWallet, ArgumentsOf
  <2>4. /\ m.user = r.arg /\ m.email = None /\ m.account = a
        /\ m \in Messages
    BY <2>1, <2>3 DEF Message, Messages
  <2>5. Present(a) /\ dir[a] \in Entry
    BY <1>1, <1>2, <2>1 DEF Effect, Create, EntriesInvariant, EntriesTyped, Present
  <2> DEFINE linked == [dir[a] EXCEPT !.wallet = r.arg]
  <2>6. linked \in Entry /\ linked.wallet = r.arg
    BY <2>3, <2>5 DEF Entry
  <2>7. dir' = [dir EXCEPT ![a] = linked]
    BY <2>2 DEF AddWallet, Put
  <2> HIDE DEF linked
  <2>8. dir'[a] = linked
    BY <1>1, <2>7 DEF EntriesInvariant, EntriesTyped
  <2>9. Present(a)' /\ dir'[a].wallet = r.arg
    BY <2>6, <2>8, EntriesAssumption DEF Present
  <2>10. a \in used'
    BY <1>3, <2>9 DEF EntriesInvariant, EntriesConsistent, AllReachable
  <2>11. QED
    BY <2>4, <2>9, <2>10 DEF Accounted, OwnsWallet
<1>6. QED
  BY <1>4, <1>5

LEMMA CommitKeeps ==
  ASSUME MessagesInvariant, NEW p \in Replicas, Commit(p)
  PROVE  MessagesInvariant'
<1>1. PICK r \in Requests, a \in AccountIds :
        /\ Link(p, r, a)
        /\ freed' = IF r.op = "DeleteUser" /\ dir[a].wallet # None
                      THEN freed \cup {dir[a].wallet} ELSE freed
  BY DEF Commit
<1>2. moving' = moving /\ profile' = profile /\ delivered' = delivered /\ lost' = lost
  BY DEF Commit
<1>3. EntriesInvariant /\ Effect(r, a) /\ telling' = telling \cup Calls(p, r, a)
  BY <1>1 DEF MessagesInvariant, EntriesInvariant, Link
<1>4. EntriesInvariant' /\ EntriesLast
  BY <1>3, EffectKeeps, EffectLasts
<1>5. WalletsFreed
  BY <1>1, <1>3, EffectLasts DEF WalletsFreed
<1>6. freed' \subseteq Wallets
  <2>1. CASE r.op = "DeleteUser" /\ dir[a].wallet # None
    <3>1. Present(a)
      BY <1>3, <2>1 DEF Effect, Create
    <3>2. dir[a].wallet \in Wallets
      BY <1>3, <2>1, <3>1 DEF EntriesInvariant, EntriesTyped, Present, Entry
    <3>3. QED
      BY <1>1, <2>1, <3>2 DEF MessagesInvariant, TypeOK
  <2>2. CASE ~(r.op = "DeleteUser" /\ dir[a].wallet # None)
    BY <1>1, <2>2 DEF MessagesInvariant, TypeOK
  <2>3. QED
    BY <2>1, <2>2
<1>7. ASSUME NEW m \in Told' PROVE m \in Messages /\ Accounted(m)'
  <2>1. CASE m \in Told
    <3>1. m \in Messages /\ Accounted(m)
      BY <2>1 DEF MessagesInvariant, Told, TypeOK
    <3>2. QED
      BY <1>1, <1>3, <1>4, <1>5, <2>1, <3>1, MessagesLast, AttemptsLast
  <2>2. CASE m \in Calls(p, r, a)
    BY <1>1, <2>2, CallsAreTrue
  <2>3. QED
    BY <1>2, <1>3, <1>7, <2>1, <2>2 DEF Told
<1>8. EmailIsCurrent'
  BY <1>2, <1>3, <1>4, <1>5, ProfilesLast DEF MessagesInvariant
<1>9. TypeOK'
  BY <1>2, <1>4, <1>6, <1>7
     DEF MessagesInvariant, TypeOK, Told, EntriesInvariant, EntriesTyped
<1>10. QED
  BY <1>4, <1>7, <1>8, <1>9 DEF MessagesInvariant, EntriesInvariant, Told

(* A step of the client, which leaves the entries alone.                   *)
LEMMA EntriesSame ==
  ASSUME MessagesInvariant, UNCHANGED <<directory, freed>>
  PROVE  /\ EntriesTyped' /\ EntriesConsistent' /\ used' = used /\ dir' = dir /\ freed' = freed
         /\ \A m \in Messages : Accounted(m) => Accounted(m)'
<1>1. dir' = dir /\ used' = used /\ freed' = freed
  BY DEF directory
<1>2. EntriesInvariant'
  BY NothingChanges DEF MessagesInvariant, EntriesInvariant
<1>3. QED
  BY <1>1, <1>2 DEF EntriesInvariant, Accounted, OwnsWallet, HasAddress, Present

(* Messages are moved and dropped, not altered; a new one is of an attempt.*)
LEMMA MovesKeep ==
  ASSUME MessagesInvariant, UNCHANGED <<directory, freed, profile>>,
         Told' \subseteq Told \cup {m \in Messages : m.email = None /\ m.account \notin used},
         lost' \subseteq Messages
  PROVE  MessagesInvariant'
<1>1. /\ EntriesTyped' /\ EntriesConsistent' /\ used' = used /\ dir' = dir
      /\ freed' = freed /\ profile' = profile
      /\ \A m \in Messages : Accounted(m) => Accounted(m)'
  BY EntriesSame
<1>2. \A m \in Told' : m \in Messages /\ Accounted(m)
  BY DEF MessagesInvariant, TypeOK, Told, Accounted
<1>3. TypeOK'
  BY <1>1, <1>2 DEF MessagesInvariant, TypeOK, Told
<1>4. EmailIsCurrent'
  BY <1>1 DEF MessagesInvariant, EmailIsCurrent, OwnsWallet, HasAddress, Present
<1>5. QED
  BY <1>1, <1>2, <1>3, <1>4 DEF MessagesInvariant, Told

LEMMA TellFirstKeeps ==
  ASSUME MessagesInvariant, NEW p \in Replicas, TellFirst(p)
  PROVE  MessagesInvariant'
<1>1. PICK r \in Requests, a \in AccountIds \ used :
        /\ r.cred \in Wallets
        /\ telling' = telling \cup {Message(p, r.cred, None, a)}
  BY DEF TellFirst
<1>2. Message(p, r.cred, None, a) \in {m \in Messages : m.email = None /\ m.account \notin used}
  BY <1>1 DEF Message, Messages
<1>3. Told' \subseteq Told \cup {m \in Messages : m.email = None /\ m.account \notin used}
  BY <1>1, <1>2 DEF TellFirst, Told
<1>4. UNCHANGED <<directory, freed, profile>> /\ lost' \subseteq Messages
  BY DEF TellFirst, MessagesInvariant, TypeOK
<1>5. QED
  BY <1>3, <1>4, MovesKeep

LEMMA ClientKeeps ==
  ASSUME MessagesInvariant,
         \/ \E m \in telling : Enqueue(m)
         \/ \E m \in moving : GiveUp(m)
         \/ \E p \in Replicas : ReplicaDies(p)
  PROVE  MessagesInvariant'
<1>1. /\ UNCHANGED <<directory, freed, profile>>
      /\ Told' \subseteq Told
      /\ lost' \subseteq lost \cup Told
  BY DEF Enqueue, GiveUp, ReplicaDies, Told
<1>2. lost' \subseteq Messages
  BY <1>1 DEF MessagesInvariant, TypeOK, Told
<1>3. QED
  BY <1>1, <1>2, MovesKeep

(* The profile takes the email of a message that is true, or whose wallet  *)
(* is freed; messages without an email leave it as it is.                  *)
LEMMA DeliverKeeps ==
  ASSUME MessagesInvariant, NEW m \in moving, Deliver(m)
  PROVE  MessagesInvariant'
<1>1. UNCHANGED <<directory, freed>> /\ telling' = telling /\ lost' = lost
  BY DEF Deliver
<1>2. moving' = moving \ {m} /\ delivered' = delivered \cup {m}
  BY DEF Deliver
<1>3. m \in Messages /\ m.user \in Wallets /\ m.account \in AccountIds
      /\ m.email \in Addresses \cup {None}
  BY MessageFields DEF MessagesInvariant, TypeOK
<1>4. /\ EntriesTyped' /\ EntriesConsistent' /\ used' = used /\ dir' = dir /\ freed' = freed
      /\ \A n \in Messages : Accounted(n) => Accounted(n)'
  BY <1>1, EntriesSame
<1>5. Told' = Told
  BY <1>1, <1>2 DEF Told
<1>6. \A n \in Told' : n \in Messages /\ Accounted(n)'
  BY <1>4, <1>5 DEF MessagesInvariant, TypeOK, Told
<1> DEFINE heard == [known |-> TRUE,
                     email |-> IF m.email = None THEN profile[m.user].email ELSE m.email]
<1>7. profile' = [profile EXCEPT ![m.user] = heard]
  BY DEF Deliver
<1>8. profile \in [Wallets -> [known : BOOLEAN, email : Addresses \cup {None}]]
  BY DEF MessagesInvariant, TypeOK
<1>9. /\ heard \in [known : BOOLEAN, email : Addresses \cup {None}]
      /\ heard.email = IF m.email = None THEN profile[m.user].email ELSE m.email
  BY <1>3, <1>8
<1> HIDE DEF heard
<1>10. profile' \in [Wallets -> [known : BOOLEAN, email : Addresses \cup {None}]]
  BY <1>7, <1>8, <1>9
<1>11. TypeOK'
  BY <1>1, <1>4, <1>6, <1>10 DEF MessagesInvariant, TypeOK, Told
<1>12. EmailIsCurrent'
  <2> SUFFICES ASSUME NEW w \in Wallets \ freed, profile'[w].email # None
               PROVE  \E a \in AccountIds : OwnsWallet(a, w) /\ HasAddress(a, profile'[w].email)
    BY <1>4 DEF EmailIsCurrent, OwnsWallet, HasAddress, Present
  <2>1. CASE w = m.user /\ m.email # None
    <3>1. profile'[w].email = m.email
      BY <1>7, <1>8, <1>9, <2>1
    <3>2. Accounted(m)
      BY <2>1 DEF MessagesInvariant
    <3>3. OwnsWallet(m.account, m.user) /\ HasAddress(m.account, m.email)
      BY <2>1, <3>2 DEF Accounted, MessagesInvariant
    <3>4. QED
      BY <1>3, <2>1, <3>1, <3>3
  <2>2. CASE ~(w = m.user /\ m.email # None)
    <3>1. profile'[w].email = profile[w].email
      BY <1>7, <1>8, <1>9, <2>2
    <3>2. QED
      BY <3>1 DEF MessagesInvariant, EmailIsCurrent
  <2>3. QED
    BY <2>1, <2>2
<1>13. QED
  BY <1>4, <1>6, <1>11, <1>12 DEF MessagesInvariant, Told

----------------------------------------------------------------------------
LEMMA MessagesStart == Init => MessagesInvariant
<1> SUFFICES ASSUME Init PROVE MessagesInvariant
  OBVIOUS
<1>1. \A a \in AccountIds : dir[a] = None
  BY DEF Init, Empty
<1>2. EntriesTyped /\ EntriesConsistent
  BY <1>1 DEF Init, Empty, EntriesTyped, EntriesConsistent, NothingShared, AllReachable,
              ReferrersReal, Present
<1>3. \A w \in Wallets : profile[w] = NoProfile /\ NoProfile.email = None
  BY DEF Init, NoProfile
<1>4. profile \in [Wallets -> [known : BOOLEAN, email : Addresses \cup {None}]]
  BY DEF Init, NoProfile
<1>5. TypeOK
  BY <1>2, <1>4 DEF Init, TypeOK, EntriesTyped
<1>6. EmailIsCurrent
  BY <1>3 DEF EmailIsCurrent
<1>7. QED
  BY <1>2, <1>5, <1>6 DEF Init, MessagesInvariant

LEMMA MessagesStep == MessagesInvariant /\ [Next]_vars => MessagesInvariant'
<1> SUFFICES ASSUME MessagesInvariant, [Next]_vars PROVE MessagesInvariant'
  OBVIOUS
<1>1. CASE UNCHANGED vars
  <2>1. UNCHANGED <<directory, freed, profile>> /\ Told' = Told /\ lost' = lost
    BY <1>1 DEF vars, cioVars, directory, Told
  <2>2. QED
    BY <2>1, MovesKeep DEF MessagesInvariant, TypeOK
<1>2. CASE Next
  BY <1>2, CommitKeeps, TellFirstKeeps, ClientKeeps, DeliverKeeps DEF Next
<1>3. QED
  BY <1>1, <1>2

(* The messages and profiles have their types, and every message is true,  *)
(* of an account that is gone, or of an attempt to create one.             *)
THEOREM MessagesAreKept == Spec => []MessagesInvariant
  BY MessagesStart, MessagesStep, PTL DEF Spec

(* No message about an account that exists speaks of a link that was not   *)
(* committed, or of one that has been changed since; the wallet told before*)
(* a commit is never that of another account.                              *)
THEOREM NothingFalseIsTold == Spec => []MessagesAreTrue
<1>1. MessagesInvariant => MessagesAreTrue
  BY DEF MessagesInvariant, MessagesAreTrue, Accounted, EntriesConsistent, AllReachable,
         TypeOK, Messages
<1>2. QED
  BY <1>1, MessagesAreKept, PTL

(* However messages are delayed, reordered, repeated by the accounts they  *)
(* are of, or lost: the email Customer.io has for a wallet is that of the  *)
(* wallet's account, until an account with this wallet is deleted.         *)
THEOREM ProfilesAreCurrent == Spec => []EmailIsCurrent
<1>1. MessagesInvariant => EmailIsCurrent
  BY DEF MessagesInvariant
<1>2. QED
  BY <1>1, MessagesAreKept, PTL


=============================================================================
