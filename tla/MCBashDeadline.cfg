CONSTANTS
  small = small
  large = large
  Commands = {k1}
  Contents = {small, large}
  NoContent = NoContent
  Bytes <- MCBytes
  Quota = 2
SPECIFICATION FairStoreSpec
PROPERTY
  BashReturns
