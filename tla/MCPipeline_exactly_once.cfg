\* One process, one fault: the answer of a delivered message is lost.
CONSTANTS
  original = original
  correction = correction
  house = house
  p1 = p1
  p2 = p2
  Procs = {p1}
  Modes = {"notify"}
  Notices = {original, correction, house}
  UpsertOrder <- MCUpsertOrder
  Source <- MCSource
  House <- MCHouse
  Name <- MCName
  Prefixes <- MCPrefixes
  Published <- MCPublished
  Number <- MCNumber
  Deadline <- MCDeadline
  Special <- MCSpecial
  Pricey = {house}
  Poison = {}
  MaxDay = 2
  MaxEdits = 0
  MaxFaults = 1
SPECIFICATION Spec
INVARIANTS
  FiresAtMostOnce
