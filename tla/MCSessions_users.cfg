CONSTANTS
  s1 = s1
  s2 = s2
  Nobody = Nobody
  u1 = u1
  u2 = u2
  Session <- MCSession
  User <- MCUser
  Masquerader <- MCUser
  MaxCodes = 1
  MaxClock = 4
  MaxDepth = 2
SPECIFICATION Spec
INVARIANTS SpentCodesRefused BackToOpener
PROPERTIES OnlyOwnSessionKept DeletedStaysOut
SYMMETRY Symmetry
CHECK_DEADLOCK FALSE
