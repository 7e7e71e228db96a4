\* Three inodes and four blocks to run out of; a root directory that overflows
\* its block at the fourth name, the first size at which a file can have two
\* names in it with another's record last; files of up to one direct block,
\* an indirect one, and one block more than an inode has room for.
CONSTANTS
  Name = {a, b}
  Inode = {12, 13, 14}
  Block = {1, 2, 3, 4}
  RootBlock = 0
  EntriesPerBlock = 5
  Direct = 1
  InodeRoom = 3
  IndirectRead = 1
  MaxFileBlocks = 3
  MaxTools = 4

SPECIFICATION Spec
SYMMETRY Names
INVARIANTS
  TypeOK
  NamesResolve
  BlocksOwnedOnce
  AccountsExact
  DirectoriesAreATree
  LsResolves
PROPERTY
  OnlyTheNameGoes
