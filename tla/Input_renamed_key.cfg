CONSTANTS
  s1 = s1
  KeyA = KeyA
  Numpad1 = Numpad1
  a = a
  one = one
  end = end
  Mouse = Mouse
  None = None
  Sessions <- OneSession
  Codes <- TwoCodes
  Names <- ThreeNames
  Tabled <- OneTabled
  NamesOf <- ChangingNames
  MaxFailures = 0
SPECIFICATION Spec
INVARIANTS
  NothingStaysPressed
