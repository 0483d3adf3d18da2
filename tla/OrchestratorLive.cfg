SPECIFICATION FairSpec
CONSTANTS
  Requests = {r1}
  ProjectIDs = {p1}
  Capacity = 2
  MaxTicks = 5
  MaxChunks = 3
  NoRequest = NoRequest
  NoProject = NoProject
PROPERTY SlotReleased
