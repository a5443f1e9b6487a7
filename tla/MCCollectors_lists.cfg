\* Every source, two pages of two rows, two changes of the lists, one fault.
CONSTANTS
  p1 = p1
  p2 = p2
  p3 = p3
  p4 = p4
  g1 = g1
  g2 = g2
  Sources = {"applyhome", "lh", "myhome", "hug", "sh", "gh"}
  Postings = {p1, p2, p3, p4}
  Unreadable = {p2}
  Group <- MCGroup
  Lists <- MCLists
  PerPage = 2
  MaxPages = 2
  MaxEdits = 2
  MaxFaults = 1
SPECIFICATION FairSpec
INVARIANTS
  TypeOK
  TakenOnce
  SteadyRowsAreTaken
PROPERTIES
  EventuallyStored
