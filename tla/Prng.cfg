CONSTANTS
  RANDOM_STATE_SIZE = 5
  ByteBits = 3
  Moduli <- MCModuli
  BitSizes <- MCBitSizes
  Keystream <- MCKeystream
  MaxRefills = 3
SPECIFICATION Spec
INVARIANTS
  ReadsKeystream
  Unbiased
PROPERTY
  FreshBytes
CHECK_DEADLOCK FALSE
