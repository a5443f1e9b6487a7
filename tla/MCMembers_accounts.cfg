\* Two browsers and the script, three forms (registrations, seed runs, profile
\* forms) and two faults.
CONSTANTS
  b1 = b1
  b2 = b2
  a1 = a1
  a2 = a2
  A1 = A1
  Clients = {b1, b2}
  Seed = seed
  Spellings = {a1, A1, a2}
  Emails = {a1, a2}
  Norm <- MCNorm
  Passwords = {weak, good}
  Good = {good}
  Regions = {seoul}
  Blank = blank
  None = none
  MaxRows = 1
  MaxForms = 3
  MaxFaults = 2
SPECIFICATION Spec
INVARIANTS
  TypeOK
  OneAccountPerAddress
  CookieLeadsHome
  RaceLostOnce
  PartnersMatchPreference
  RegionsFollowHistory
PROPERTIES
  AccountsAreKept
  ProgressNeverFalls
  KeepsAccounts
SYMMETRY Browsers
CHECK_DEADLOCK FALSE
