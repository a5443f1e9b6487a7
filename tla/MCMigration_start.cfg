\* One notice, two members, one bookmark request at a time, one death.
CONSTANTS
  Notices = {n1}
  Scripts = {}
  Requests = {r1}
  MaxMembers = 2
  MaxFaults = 1
SPECIFICATION FairSpec
INVARIANTS
  TypeOK
  IdsAgree
  AnnouncedOnce
  StartsAreNotRefused
PROPERTIES
  ShownBookmarksAreKept
  BookmarkingWorks
  WebComesUp
