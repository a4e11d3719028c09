SPECIFICATION Spec
CONSTANTS
  h1 = h1
  h2 = h2
  pw = pw
  r1 = r1
  r2 = r2
  s1 = s1
  Hash = {h1, h2, pw}
  NoHash = NoHash
  Request = {r1, r2}
  Shots = {}
  Sensitive = {pw}
  Filtered = {}
  TTL = 5
  MaxOffers = 3
  MaxDrops = 0
INVARIANT EchoNotStored
