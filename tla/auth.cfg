SPECIFICATION AuthSpec
CONSTANTS
  a = a
  b = b
  p = p
  Threads = {t1, t2}
  Emails = {a, b}
  Passwords = {p}
  NoUser = NoUser
  Calls <- AuthCalls
  Faults = TRUE
  MaxUsers = 3
  Browsers = {b1}
  MaxCrashes = 1
INVARIANTS
  AuthTypeOK
  CookieCurrent
  EmailsUnique
  IdsUnique
  AckedCanLogin
  DuplicatesBounded
PROPERTY AccountsStable
SYMMETRY Symmetric
CONSTRAINT Settled
