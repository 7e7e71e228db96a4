\* The same images.
CONSTANTS
  Name = {a, b}
  Inode = {12, 13, 14}
  Block = {1, 2, 3, 4}
  RootBlock = 0
  EntriesPerBlock = 5
  Direct = 1
  InodeRoom = 3
  IndirectRead = 1
  MaxFileBlocks = 3
  MaxTools = 4

SPECIFICATION Spec
SYMMETRY Names
INVARIANT
  OtherNamesSurvive
