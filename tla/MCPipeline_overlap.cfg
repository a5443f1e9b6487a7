\* Two overlapping batches and a message that Telegram refuses.
CONSTANTS
  original = original
  correction = correction
  house = house
  p1 = p1
  p2 = p2
  Procs = {p1, p2}
  Modes = {"notify", "backfill"}
  Notices = {original, correction, house}
  UpsertOrder <- MCUpsertOrder
  Source <- MCSource
  House <- MCHouse
  Name <- MCName
  Prefixes <- MCPrefixes
  Published <- MCPublished
  Number <- MCNumber
  Deadline <- MCDeadline
  Special <- MCSpecial
  Pricey = {}
  Poison = {house}
  MaxDay = 1
  MaxEdits = 0
  MaxFaults = 1
SPECIFICATION Spec
INVARIANTS
  RecordedWasHandled
  ResendNeedsLostRecord
