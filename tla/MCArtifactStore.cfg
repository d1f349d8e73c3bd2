CONSTANTS
  small = small
  large = large
  Commands = {k1, k2, k3}
  Contents = {small, large}
  NoContent = NoContent
  Bytes <- MCBytes
  Quota = 2
SPECIFICATION FairStoreSpec
INVARIANTS
  ManifestHasBlob
  OutputLostOnlyLate
PROPERTIES
  ImplementsShelf
  UnheldBashReturns
