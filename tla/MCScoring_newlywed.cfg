\* Couples around their seventh anniversary.
CONSTANTS
  None = none
  Days <- MCDays
  Profiles <- Couples
  Notices <- MCNotices
SPECIFICATION Spec
INVARIANT WithinSevenYears
CHECK_DEADLOCK FALSE
