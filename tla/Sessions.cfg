\* Two browsers, two requests at a time, two logins in all.
SPECIFICATION Spec
CONSTANTS
  None = None
  Tokens = {t1, t2}
  Browsers = {b1, b2}
  Threads = {c1, c2}
  TTL = 2
INVARIANTS TypeOK NoRevival NoActAfterEnd
PROPERTIES IdleNotHonoured OthersUndisturbed ImplementsLifecycle
SYMMETRY SessionsSymmetry
