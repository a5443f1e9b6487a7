\* One notice and one profile of each kind; days on both sides of every bound.
CONSTANTS
  None = none
  Days <- MCDays
  Profiles <- MCProfiles
  Notices <- MCNotices
SPECIFICATION Spec
INVARIANTS
  ScoreInRange
  RankIgnoresRegions
  RegulationIsStricter
  MonthsAreCalendarMonths
  IncomeNeverHelps
PROPERTY WaitingHelps
CHECK_DEADLOCK FALSE
