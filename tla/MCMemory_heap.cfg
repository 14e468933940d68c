CONSTANTS
  Base <- MCBase
  Limit <- MCLimit
  Reserve = 4
  Header = 2
  Align = 2
  BucketSize <- MCBuckets
  WordMod = 32
  AddrMod = 64
  Asked <- MCAsked
  Message = 1
SPECIFICATION Spec
INVARIANTS Partition PanicTold
PROPERTY StoreSpec
