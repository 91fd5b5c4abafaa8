SPECIFICATION Spec
CONSTANTS
  Bits = 3
  BlockFrom = 8
  WordFrom = 32
  Sizes = {4, 16, 32}
  Addresses <- MCAddresses
  Data = {4}
  MaxBytes = 2
  MaxResets = 1
  Exposed = {}
INVARIANT IndexInBounds
PROPERTY EepromIsAMemory
