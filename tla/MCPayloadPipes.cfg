SPECIFICATION Spec
CONSTANTS
  Mime = {m1, m2}
  MaxSize = 4
  Capacity = 3
  Chunk = 2
  MaxPayload = 5
INVARIANTS TypeOK ReadsNeverBlock WholeOffer LimitExact
PROPERTIES TimesOutIdleOnly TransferEnds
