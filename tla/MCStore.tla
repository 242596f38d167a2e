------------------------------ MODULE MCStore ------------------------------
(* A small instance of Store for TLC: two sessions over two accounts.      *)
EXTENDS Store, FiniteSets, Integers, TLC

CONSTANT MaxWrites   \* bound: rows a transaction has written

Written(s) ==
  Cardinality({a \in AccountIds : accountWrites[s][a] # Kept})
    + Cardinality({e \in Addresses : emailWrites[s][e] # Kept})
    + Cardinality({w \in Wallets : walletWrites[s][w] # Kept})

(* No constraint of the schema mentions accepted_tos_at or confirmed_at:   *)
(* one value of each is enough here.                                       *)
PlainAccount(row) == row \notin {None, Kept} => ~row.acceptedTos
PlainEmail(row)   == row \notin {None, Kept} => row.confirmed

(* A serializable session only has more statements refused, so sessions    *)
(* at read committed show every interleaving that could break a constraint.*)
Bounded ==
  /\ \A s \in Sessions :
       /\ isolation[s] # "serializable"
       /\ Written(s) <= MaxWrites
       /\ \A a \in AccountIds : PlainAccount(accountWrites[s][a])
       /\ \A e \in Addresses : PlainEmail(emailWrites[s][e])
  /\ \A a \in AccountIds : PlainAccount(accounts[a])

BoundedSpec == StoreInit /\ [][StoreNext /\ Bounded']_storeVars

Symmetry == Permutations(AccountIds) \cup Permutations(Addresses)
              \cup Permutations(Wallets) \cup Permutations(Codes)
              \cup Permutations(Sessions)

=============================================================================
