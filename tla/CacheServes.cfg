SPECIFICATION FairSpec
CONSTANTS
  c1 = c1
  c2 = c2
  c3 = c3
  Calls = {c1, c2, c3}
  Nobody = Nobody
  Ttl = 2
  OddReplies = {}
  MaxVersion = 2
  MaxClock = 2
INVARIANTS ServesLastSuccessful
PROPERTIES Answered
