SPECIFICATION Spec
CONSTANTS
  good = good
  revocable = revocable
  removable = removable
  expiring = expiring
  aging = aging
  unknown = unknown
  malformed = malformed
  keyless = keyless
  forged = forged
  mismatched = mismatched
  Requests = {r1, r2}
  Tokens = {good, revocable, removable, expiring, aging, unknown, malformed, keyless, forged, mismatched}
  NoToken = NoToken
  Claims <- ClaimsOf
  KeyExpires <- ExpiresOf
  Fate <- FateOf
  Holdings <- HeldTogether
  TTL = 1
  KeyTTL = 0
  MaxCall = 1
  RecordAge = 1
  MaxTime = 5
SYMMETRY Symmetry
CHECK_DEADLOCK FALSE
PROPERTIES RevocationBounded ExpiryBounded GoodTokensPass
