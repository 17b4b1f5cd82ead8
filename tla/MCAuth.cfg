SPECIFICATION Spec
CONSTANTS
  Procs = {p1, p2}
  Names = {n1, n2}
  Sids = {s1, s2}
  NoName = NoName
  NoSid = NoSid
  SessionTTL = 0
  MaxResets = 1
  MaxTime = 1
SYMMETRY Symm
INVARIANTS OldPasswordOnlyIfOvertaken
PROPERTIES AdminOpsByAdmins LockoutOnlyEndsByCli ValidSessionsStay
