\* One process, every command line, two faults and one change of a listing.
CONSTANTS
  original = original
  correction = correction
  house = house
  p1 = p1
  p2 = p2
  Procs = {p1}
  Modes = {"notify", "no-notify", "backfill"}
  Notices = {original, correction, house}
  UpsertOrder <- MCUpsertOrder
  Source <- MCSource
  House <- MCHouse
  Name <- MCName
  Prefixes <- MCPrefixes
  Published <- MCPublished
  Number <- MCNumber
  Deadline <- MCDeadline
  Special <- MCSpecial
  Pricey = {house}
  Poison = {}
  MaxDay = 2
  MaxEdits = 1
  MaxFaults = 2
SPECIFICATION Spec
INVARIANTS
  TypeOK
  CorrectionHidesOriginal
PROPERTIES
  SendsAreCurrent
  NearestDeadlineFirst
  KeepsPromise
