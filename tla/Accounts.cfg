SPECIFICATION AccountsSpec
CONSTANTS
  SessionIDs = {s1, s2, s3}
  ResetIDs = {k1}
  AuthReqs = {p1, p2}
  NoID = NoID
  MaxFailures = 1
  MaxPasswords = 1
  MaxAuthOps = 3
  Challenges = {x1, x2}
  MfaReqs = {p1, p2}
  NoChallenge = NoChallenge
  MaxAttempts2FA = 1
  MaxSecrets = 2
  MaxStep = 2
  MaxMfaOps = 4
  UserIDs = {u1, u2}
  Addresses = {a1, a2}
  RegIDs = {k1, k2}
  ChangeIDs = {t1}
  StateIDs = {o1, o2}
  IdReqs = {p1, p2}
  NoUser = NoUser
  Anonymous = Anonymous
  MaxLive = 1
  MaxIdOps = 3
SYMMETRY Symmetry
INVARIANTS ResetEndsSessions SessionsInvariant TwoFactorInvariant IdentityInvariant
CHECK_DEADLOCK FALSE
