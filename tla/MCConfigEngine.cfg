SPECIFICATION Spec
CONSTANTS
  Settings = {"host", "shutdown", "drain", "conns", "jwt"}
  KindOf <- Kinds
  Values = {0, 1, 2, 3}
  Defaults <- Usual
  Sound <- Acceptable
  Below <- DrainBelowShutdown
  Unset = Unset
  Malformed = Malformed
  None = None
  Failed = Failed
  Absent = Absent
  Blank = Blank
  Torn = Torn
  FirstFiles <- Files
  Environments <- Envs
  Arguments <- Args
  SecretFiles <- Secrets
  Overrides <- Override
  Savable <- Saved
  Workers = {w1, w2}
SYMMETRY Symmetry
INVARIANTS
  TypeOK
  Precedence
  FileWhole
