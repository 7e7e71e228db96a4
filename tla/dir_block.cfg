\* A block of 76 bytes: room for four records after the dots, which fill it to
\* the last word if three are short and one is long, and, as in a block of
\* 1024 bytes, never if they are of one length.
CONSTANTS
  Inode = {12, 13, 14, 15}
  BlockLen = 19

SPECIFICATION BlockSpec
INVARIANTS
  RecordsTile
  OneLengthExact
PROPERTY
  RemovalExact
