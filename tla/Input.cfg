CONSTANTS
  c1 = c1
  s1 = s1
  s2 = s2
  KeyA = KeyA
  a = a
  Mouse = Mouse
  None = None
  Clients <- OneClient
  Sessions <- TwoSessions
  Codes <- OneCode
  Names <- OneName
  Tabled <- OneCode
  NamesOf <- NameOfKeyA
  MaxWire = 2
  MaxFailures = 1
SPECIFICATION SystemSpec
SYMMETRY ConnectionSymmetry
INVARIANTS
  SystemTypeOK
  StraysComeFromFailures
  NothingHeldBehindTheUser
  NeverStranded
  NoOrphanSocket
