SPECIFICATION Spec
CONSTANTS
  None = None
  Every = Every
  Operators = Operators
  o1 = o1
  o2 = o2
  x = x
  b1 = b1
  t1 = t1
  t2 = t2
  k1 = k1
  w1 = w1
  Org = {o1, o2}
  Address = {x}
  Browser = {b1}
  Tab = {t1, t2}
  AddressOf <- MCAddressOf
  BrowserOf <- MCBrowserOf
  Token = {k1}
  OperatorToken = {w1}
  MaxFailures = 1
  Window = 1
  Ttl = 0
  MaxClock = 1
  MaxLogins = 2
  MaxRestarts = 1
SYMMETRY Alike
INVARIANTS GuessesAreBounded FormsKeepTheirSession EndedSessionsStayEnded
