SPECIFICATION AuthStoreSpec
CONSTANTS
  revocable = revocable
  removable = removable
  forged = forged
  Requests = {r1}
  Tokens = {revocable, removable, forged}
  NoToken = NoToken
  Claims <- ClaimsOf
  KeyExpires <- ExpiresOf
  Fate <- FateOf
  Holdings <- HeldTogether
  TTL = 0
  KeyTTL = 0
  MaxCall = 1
  RecordAge = 2
  MaxTime = 4
  Readers = {t1, t2}
  NoReader = NoReader
  StoreTTL = 0
  StoreCall = 1
SYMMETRY Symmetry
CHECK_DEADLOCK FALSE
PROPERTIES KeepsAuth
