\* One process, with a notice that Telegram always refuses.
CONSTANTS
  original = original
  correction = correction
  house = house
  p1 = p1
  p2 = p2
  Procs = {p1}
  Modes = {"notify", "backfill"}
  Notices = {original, correction, house}
  UpsertOrder <- MCUpsertOrder
  Source <- MCSource
  House <- MCHouse
  Name <- MCName
  Prefixes <- MCPrefixes
  Published <- MCPublished
  Number <- MCNumber
  Deadline <- MCDeadlineOpen
  Special <- MCSpecialOpen
  Pricey = {}
  Poison = {house}
  MaxDay = 2
  MaxEdits = 1
  MaxFaults = 1
SPECIFICATION FairSpec
PROPERTIES
  Announced
