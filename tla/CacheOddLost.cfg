SPECIFICATION Spec
CONSTANTS
  c1 = c1
  c2 = c2
  c3 = c3
  Calls = {c1, c2}
  Nobody = Nobody
  Ttl = 2
  OddReplies = {"unusable", "null"}
  MaxVersion = 1
  MaxClock = 1
INVARIANTS ServesLastSuccessful
