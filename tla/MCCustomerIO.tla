---------------------------- MODULE MCCustomerIO ----------------------------
(* A small instance of CustomerIO for TLC.                                 *)
EXTENDS CustomerIO

CONSTANTS e1, upperE1, e2, w1

Ask(ops, creds, args) == [op : ops, cred : creds, arg : args]
Lower == [e \in Addresses |-> IF e = upperE1 THEN e1 ELSE e]

(* A wallet whose account is linked to an email, deleted, created again, or *)
(* that is linked to the account of an email.                               *)
AllRequests ==
  Ask({"CreateAccount"}, {w1, e1}, {None})
    \cup Ask({"LinkEmail", "LinkEmailToken"}, {w1}, {upperE1, e2})
    \cup Ask({"LinkWalletToken"}, {e1}, {w1})
    \cup Ask({"DeleteUser"}, {w1}, {None})
=============================================================================
