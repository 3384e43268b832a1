SPECIFICATION Spec
CONSTANTS
  Threads = {t1, t2}
  Emails = {a}
  Passwords = {p}
  NoUser = NoUser
  Calls <- SameEmail
  Faults = FALSE
  MaxUsers = 4
INVARIANT UniqueEmails
