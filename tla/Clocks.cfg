SPECIFICATION Spec
CONSTANTS
  Sessions = {s1, s2}
  Replicas = {p1, p2}
  s1 = s1
  s2 = s2
  p1 = p1
  p2 = p2
  Replica <- TwoProcesses
  MaxSkew = 1
  MaxTime = 3
  Asked = {"CreateAccount", "LinkEmail", "SubmitReferralCode", "UpdateUser", "DeleteUser"}
  None = None
INVARIANT
  ClocksInvariant
PROPERTIES
  StampsAreFresh
  LinksMoveForward
