SPECIFICATION Spec
CONSTANTS
  Env = {e1, e2, e3}
  NoEnv = NoEnv
  Page = {p1, p2, p3, p4, p5}
  NoPage = NoPage
  NASID = 2
  NTLB = 1
  NDIR = 2
  PTES = 2
  UTEMP = 2
  USTACKTOP = 2
  REF_MOD = 65536
  Choices <- AnyFree
  Perms = {{}}
SYMMETRY Symmetry
INVARIANTS
  RefsExact FreeExact TlbCoherent TablesPrivate
CHECK_DEADLOCK FALSE
