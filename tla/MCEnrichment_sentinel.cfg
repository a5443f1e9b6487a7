\* No fault, no change: the second run looks the parcel up again.
CONSTANTS
  lh1 = lh1
  lh2 = lh2
  gh1 = gh1
  Notices = {lh1, lh2, gh1}
  LH = {lh1, lh2}
  GH = {gh1}
  Addressed = {}
  Located = {lh1}
  Broken = {lh2}
  Date <- MCDate
  Cap = 2
  VWorld = TRUE
  MaxEdits = 0
  MaxFaults = 0
SPECIFICATION Spec
PROPERTIES
  PolygonLookedUpOnce
