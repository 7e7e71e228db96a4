----------------------------- MODULE Ext2Tools -----------------------------
(***************************************************************************)
(* The tools of A3 on one ext2 image: ext2_mkdir, ext2_cp, ext2_ln and     *)
(* ext2_rm, run one after the other, and ext2_ls, which may look at any    *)
(* time.  Each of the four maps the image into memory, resolves its paths, *)
(* and then changes the image in the steps below, one for each function    *)
(* that writes; the process may be killed between two of them, and what it *)
(* wrote stays.  A tool that prints an error before its first write        *)
(* changes nothing, and is not a step.                                     *)
(*                                                                         *)
(* Names have at most three characters, so that every directory record is  *)
(* twelve bytes and a directory block is a sequence of records, of which   *)
(* the last owns what is left: DirBlock shows that it is, and what becomes *)
(* of it with longer names.                                                *)
(*                                                                         *)
(* Where the code writes outside what it means to write, or uses a         *)
(* variable it never set, the step is Undefined and nothing more is        *)
(* claimed of the image: the actions ...Astray, InodeOverrun, NothingFree. *)
(*                                                                         *)
(* An operator named Bad... is a fault of one line, next to the operator   *)
(* it would replace.                                                       *)
(***************************************************************************)
EXTENDS Integers, Sequences, FiniteSets, FiniteSetsExt, SequencesExt

CONSTANTS
  Name,             \* the names in paths, and of files on the native system
  Inode,            \* inodes the tools hand out: 12 to 32 in the code
  Block,            \* blocks they hand out
  RootBlock,        \* the block of the root directory
  EntriesPerBlock,  \* records that fit a block
  Direct,           \* direct pointers of an inode: 12 in the code
  InodeRoom,        \* block numbers from i_block to the inode's end: 22, of
                    \* which i_block has 15 and nothing reads the fields after
  IndirectRead,     \* pointers ext2_rm reads in the indirect block: 16
  MaxFileBlocks,    \* blocks of data of the files ext2_cp is given
  MaxTools          \* tools run on the image

Root == 2
Missing == 0
Astray == -1        \* where a walk that does not end leads

ASSUME InodeAssumption ==
  IsFiniteSet(Inode) /\ Inode \subseteq Nat /\ \A i \in Inode : i > Root
ASSUME BlockAssumption ==
  IsFiniteSet(Block) /\ Block \subseteq Nat /\ RootBlock \in Nat \ Block
ASSUME SizesAssumption ==
  /\ EntriesPerBlock \in Nat /\ EntriesPerBlock >= 2
  /\ Direct \in Nat /\ MaxFileBlocks \in Nat /\ MaxTools \in Nat
  /\ InodeRoom \in Nat /\ IndirectRead \in Nat
  /\ InodeRoom <= Direct + 1 + IndirectRead
ASSUME NameAssumption == {".", ".."} \cap Name = {}

VARIABLES
  inode_bitmap,   \* the inodes marked in the bitmap
  block_bitmap,   \* the blocks marked in the bitmap
  free_inodes,    \* the counts of the group descriptor, and, always the
  free_blocks,    \* same, of the superblock
  used_dirs,
  table,          \* the inode table; i_blocks is twice the length of block
  entries,        \* the directory records in each block
  tool,           \* the tool that is running, its place and its variables
  runs,           \* the tools started so far
  killed,         \* history: a tool was killed
  unmade,         \* history: the inodes of directories named and never made
  image           \* history: why nothing more is claimed of the image

disk == <<inode_bitmap, block_bitmap, free_inodes, free_blocks, used_dirs,
          table, entries>>
vars == <<disk, tool, runs, killed, unmade, image>>

Entry == [inode : Inode \cup {Root}, name : Name \cup {".", ".."}]
E(n, i) == [inode |-> i, name |-> n]

Tool == [cmd : {"none", "mkdir", "cp", "ln", "rm"}, at : 0 .. 5,
         parent : Inode \cup {Root, Missing}, name : Name \cup {""},
         inode : Inode \cup {Root, Missing}, need : Nat, got : Seq(Block)]
Idle == [cmd |-> "none", at |-> 0, parent |-> 0, name |-> "", inode |-> 0,
         need |-> 0, got |-> <<>>]

TypeOK ==
  /\ inode_bitmap \subseteq Inode /\ block_bitmap \subseteq Block
  /\ free_inodes \in Int /\ free_blocks \in Int /\ used_dirs \in Nat
  /\ table \in [Inode \cup {Root} ->
                  [mode : {"none", "DIR", "REG"}, links : Nat,
                   block : Seq(Block \cup {RootBlock})]]
  /\ entries \in [Block \cup {RootBlock} -> Seq(Entry)]
  /\ \A b \in DOMAIN entries : Len(entries[b]) <= EntriesPerBlock
  /\ tool \in Tool
  /\ runs \in 0 .. MaxTools
  /\ killed \in BOOLEAN
  /\ unmade \subseteq Inode
  /\ image \in {"sound", "severed", "undefined"}

\* An image as mke2fs makes it, without lost+found.
Init ==
  /\ inode_bitmap = {} /\ block_bitmap = {}
  /\ free_inodes = Cardinality(Inode) /\ free_blocks = Cardinality(Block)
  /\ used_dirs = 1
  /\ table = [i \in Inode \cup {Root} |->
       IF i = Root THEN [mode |-> "DIR", links |-> 2, block |-> <<RootBlock>>]
       ELSE [mode |-> "none", links |-> 0, block |-> <<>>]]
  /\ entries = [b \in Block \cup {RootBlock} |->
       IF b = RootBlock THEN <<E(".", Root), E("..", Root)>> ELSE <<>>]
  /\ tool = Idle /\ runs = 0 /\ killed = FALSE /\ unmade = {} /\ image = "sound"

----------------------------------------------------------------------------
(* Paths                                                                   *)

\* The directories main lists before it resolves a path.
Listed(i) ==
  i = Root \/ (i \in inode_bitmap /\ table[i].mode = "DIR")
Directories == {i \in Inode \cup {Root} : Listed(i)}

OwnBlocks(i) == ToSet(table[i].block)

\* The inodes that have a name, and the places of the names of one: directory,
\* block and record.
Records(d) == UNION {ToSet(entries[b]) : b \in OwnBlocks(d)}
NamedInodes == {r.inode : r \in UNION {Records(d) : d \in Directories}}
Places(d) == {d} \X OwnBlocks(d) \X (1 .. EntriesPerBlock)
NamesOf(i) ==
  {nm \in UNION {Places(d) : d \in Directories} :
     LET R == entries[nm[2]]
     IN  nm[3] <= Len(R) /\ R[nm[3]].inode = i /\ R[nm[3]].name \in Name}

\* The first record of R with the name.  The tools that write search only
\* when they start (Ready), when every listed directory has its records; what
\* a walk of a block without records does shows in ext2_ls, below.
Find(R, n) ==
  LET found == {k \in 1 .. Len(R) : R[k].name = n}
  IN  IF found = {} THEN Missing ELSE R[Min(found)].inode

\* A directory is searched block after block.
Lookup(d, n) ==
  LET blocks == table[d].block
      found == {k \in 1 .. Len(blocks) : \E r \in ToSet(entries[blocks[k]]) : r.name = n}
  IN  IF found = {} THEN Missing ELSE Find(entries[blocks[Min(found)]], n)

\* The inode a path leads to: every component but the last must be a listed
\* directory.
Enter(d, n) == IF Listed(d) THEN Lookup(d, n) ELSE Missing
Parent(path) == FoldLeft(Enter, Root, Front(path))
Resolve(path) == IF path = <<>> THEN Root ELSE Enter(Parent(path), Last(path))

Path == UNION {[1 .. k -> Name] : k \in 0 .. 2}

\* The path ends in a name that its directory does not have.
IsNew(path) ==
  path # <<>> /\ Listed(Parent(path)) /\ Resolve(path) = Missing

IsFile(path) == Resolve(path) # Missing /\ table[Resolve(path)].mode = "REG"
IsDirectory(path) == Listed(Resolve(path))

\* ext2_ls resolves a component in one pass over the directories it listed,
\* by number, and the pass goes on when the name is found: should it come to
\* the directory found, it looks for the same name there, in the first block.
\* found is dir_flag.  In a directory whose records are not written yet the
\* lengths it adds up are zero, or whatever the block held: it goes astray,
\* for good.
LsStart(at) == [at |-> at, found |-> at = Astray]
Unwritten(d) == entries[Head(table[d].block)] = <<>>

LsFind(s, d, n) ==
  IF Unwritten(d) THEN Astray
  ELSE IF s.found THEN Find(entries[Head(table[d].block)], n) ELSE Lookup(d, n)

BadLsVisit(s, d, n) ==
  LET i == IF Unwritten(d) THEN Astray ELSE Lookup(d, n)
  IN  IF d # s.at THEN s ELSE [at |-> i, found |-> i # Missing]
LsVisit(s, d, n) ==
  LET i == LsFind(s, d, n)
  IN  IF d # s.at \/ (i = Missing /\ s.found) THEN s
      ELSE [at |-> i, found |-> i # Missing]

LsPass(at, n) ==
  LET after[i \in 0 .. Max(Directories)] ==
        IF i = 0 THEN LsStart(at)
        ELSE IF i \in Directories THEN LsVisit(after[i - 1], i, n) ELSE after[i - 1]
  IN  after[Max(Directories)]

LsComponent(at, n) ==
  LET end == LsPass(at, n) IN IF end.found THEN end.at ELSE Missing

\* The inode that ext2_ls lists; to list a directory it walks it again.
LsParent(path) == FoldLeft(LsComponent, Root, Front(path))
LsList(i) == IF i \in Directories /\ Unwritten(i) THEN Astray ELSE i
LsResolve(path) ==
  IF path = <<>> THEN Root ELSE LsList(LsComponent(LsParent(path), Last(path)))

----------------------------------------------------------------------------
(* The tools: what each does, in its order                                 *)

BadSteps ==
  [mkdir |-> <<"new_inode", "entry", "table", "dots", "used_dirs">>,
   cp |-> <<"new_inode", "blocks", "table", "entry">>,
   ln |-> <<"entry", "links">>,
   rm |-> <<"free_inode", "unlink", "free_blocks", "free_counts">>]
Steps ==
  [mkdir |-> <<"new_inode", "entry", "table", "dots", "used_dirs">>,
   cp |-> <<"new_inode", "blocks", "table", "entry">>,
   ln |-> <<"entry", "links">>,
   rm |-> <<"unlink", "free_inode", "free_blocks", "free_counts">>]

Ready == tool = Idle /\ image = "sound" /\ unmade = {} /\ runs < MaxTools

Start(cmd, parent, name, inode, need) ==
  /\ tool' = [cmd |-> cmd, at |-> 1, parent |-> parent, name |-> name,
              inode |-> inode, need |-> need, got |-> <<>>]
  /\ runs' = runs + 1
  /\ UNCHANGED <<disk, killed, unmade, image>>

Mkdir(path) ==
  /\ IsNew(path)
  /\ Start("mkdir", Parent(path), Last(path), 0, 0)

\* The blocks of a file of n blocks: one more if it needs an indirect block.
FileBlocks(n) == IF n <= Direct THEN n ELSE n + 1

\* Into a directory, under the name the file has (which is not looked up
\* there), or under a new name.
Cp(path, native, n) ==
  \/ /\ IsDirectory(path)
     /\ Start("cp", Resolve(path), native, 0, FileBlocks(n))
  \/ /\ IsNew(path)
     /\ Start("cp", Parent(path), Last(path), 0, FileBlocks(n))

Ln(resource, path) ==
  /\ IsFile(resource) /\ IsNew(path)
  /\ Start("ln", Parent(path), Last(path), Resolve(resource), 0)

Rm(path) ==
  /\ IsFile(path)
  /\ Start("rm", Parent(path), Last(path), Resolve(path), 0)

At(step) == tool.cmd # "none" /\ Steps[tool.cmd][tool.at] = step

\* The tool with a variable set goes on to its next step, or ends.
Advance(t) ==
  /\ tool' = IF t.at = Len(Steps[t.cmd]) THEN Idle ELSE [t EXCEPT !.at = @ + 1]
  /\ UNCHANGED <<runs, killed, unmade>>

\* A search that finds nothing returns a variable that was never set, and a
\* count that is wrong already: nothing is said of the image any more.
Undefined ==
  /\ image' = "undefined" /\ tool' = Idle
  /\ UNCHANGED <<disk, runs, killed, unmade>>

ClearInodes == Inode \ inode_bitmap
ClearBlocks == Block \ block_bitmap

\* new_inode_search and new_block_search: the first clear bit.
NewInode ==
  /\ At("new_inode") /\ ClearInodes # {}
  /\ inode_bitmap' = inode_bitmap \cup {Min(ClearInodes)}
  /\ free_inodes' = free_inodes - 1
  /\ Advance([tool EXCEPT !.inode = Min(ClearInodes)])
  /\ UNCHANGED <<block_bitmap, free_blocks, used_dirs, table, entries, image>>

BadTakeBlock(b) == UNCHANGED block_bitmap /\ free_blocks' = free_blocks - 1
TakeBlock(b) ==
  block_bitmap' = block_bitmap \cup {b} /\ free_blocks' = free_blocks - 1
NewBlock == Min(ClearBlocks)

\* allocate_file_blocks, one block at a time.
AllocateFileBlock ==
  /\ At("blocks") /\ tool.need > 0 /\ ClearBlocks # {}
  /\ TakeBlock(NewBlock)
  /\ tool' = [tool EXCEPT !.need = @ - 1, !.got = Append(@, NewBlock)]
  /\ UNCHANGED <<inode_bitmap, free_inodes, used_dirs, table, entries, runs,
                 killed, unmade, image>>

BlocksAllocated ==
  /\ At("blocks") /\ tool.need = 0
  /\ Advance(tool)
  /\ UNCHANGED <<disk, image>>

\* update_inode_table of ext2_cp, which writes all the numbers into i_block.
WriteFileInode ==
  /\ At("table") /\ tool.cmd = "cp" /\ Len(tool.got) <= InodeRoom
  /\ table' = [table EXCEPT ![tool.inode] =
                 [mode |-> "REG", links |-> 1, block |-> tool.got]]
  /\ Advance(tool)
  /\ UNCHANGED <<inode_bitmap, block_bitmap, free_inodes, free_blocks,
                 used_dirs, entries, image>>

\* update_inode_table of ext2_mkdir, which takes the block as well.  (It also
\* sets i_block[1], past i_blocks, where nothing reads it.)
WriteDirInode ==
  /\ At("table") /\ tool.cmd = "mkdir" /\ ClearBlocks # {}
  /\ TakeBlock(NewBlock)
  /\ table' = [table EXCEPT ![tool.inode] =
                 [mode |-> "DIR", links |-> 2, block |-> <<NewBlock>>]]
  /\ Advance(tool)
  /\ UNCHANGED <<inode_bitmap, free_inodes, used_dirs, entries, image>>

\* update_new_inode_block.
BadDots(i) == <<E(".", i), E("..", i)>>
Dots(i) == <<E(".", i), E("..", tool.parent)>>
WriteDots ==
  /\ At("dots")
  /\ entries' = [entries EXCEPT ![table[tool.inode].block[1]] = Dots(tool.inode)]
  /\ Advance(tool)
  /\ UNCHANGED <<inode_bitmap, block_bitmap, free_inodes, free_blocks,
                 used_dirs, table, image>>

CountDir ==
  /\ At("used_dirs")
  /\ used_dirs' = used_dirs + 1
  /\ Advance(tool)
  /\ UNCHANGED <<inode_bitmap, block_bitmap, free_inodes, free_blocks, table,
                 entries, image>>

\* The directory block that gets the record: for ext2_mkdir the last one it
\* searched, for the others the first.
EntryBlock ==
  LET blocks == table[tool.parent].block
  IN  IF tool.cmd = "mkdir" THEN Last(blocks) ELSE Head(blocks)
BadRoom == Len(entries[EntryBlock]) <= EntriesPerBlock
Room == Len(entries[EntryBlock]) < EntriesPerBlock
NewEntry == E(tool.name, tool.inode)

\* update_dir_entry: in the room the last record of the block has left, or
\* in a block of its own.
AddEntry ==
  /\ At("entry") /\ Room
  /\ entries' = [entries EXCEPT ![EntryBlock] = Append(@, NewEntry)]
  /\ Advance(tool)
  /\ UNCHANGED <<inode_bitmap, block_bitmap, free_inodes, free_blocks,
                 used_dirs, table, image>>

GrowDirectory ==
  /\ At("entry") /\ ~Room /\ tool.cmd # "ln" /\ ClearBlocks # {}
  /\ Len(table[tool.parent].block) < InodeRoom
  /\ TakeBlock(NewBlock)
  /\ table' = [table EXCEPT ![tool.parent].block = Append(@, NewBlock)]
  /\ entries' = [entries EXCEPT ![NewBlock] = <<NewEntry>>]
  /\ Advance(tool)
  /\ UNCHANGED <<inode_bitmap, free_inodes, used_dirs, image>>

\* ext2_ln takes the number of the block for that of the inode, and writes
\* i_blocks and i_block[1] wherever that is.
LnWritesAstray == At("entry") /\ ~Room /\ tool.cmd = "ln" /\ Undefined

\* The block numbers that the step at hand puts in an inode, and those it
\* puts in the next one.
PointersWanted ==
  CASE At("table") /\ tool.cmd = "cp" -> Len(tool.got)
    [] At("entry") /\ ~Room /\ tool.cmd # "ln" -> Len(table[tool.parent].block) + 1
    [] OTHER -> 0
InodeOverrun == PointersWanted > InodeRoom /\ Undefined

NothingFree ==
  /\ \/ At("new_inode") /\ ClearInodes = {}
     \/ At("blocks") /\ tool.need > 0 /\ ClearBlocks = {}
     \/ At("table") /\ tool.cmd = "mkdir" /\ ClearBlocks = {}
     \/ At("entry") /\ ~Room /\ tool.cmd # "ln" /\ ClearBlocks = {}
  /\ Undefined

\* ext2_ln counts the link in the parent directory.
CountLink ==
  /\ At("links")
  /\ table' = [table EXCEPT ![tool.parent].links = @ + 1]
  /\ Advance(tool)
  /\ UNCHANGED <<inode_bitmap, block_bitmap, free_inodes, free_blocks,
                 used_dirs, entries, image>>

\* dir_entry_update: the first record with the file's inode, in the first
\* block of the directory; without one the tool prints an error and exits.
\* The records after it move back by file_rec_len, which every further record
\* of the file that the loop comes to sets again; the last record of a block
\* is longer than the others, and what is moved back by its length goes
\* astray.  Each record of the file counts twice in sum_len, so in a block
\* with little left the loop ends before the last one.
Named(b) == {k \in 1 .. Len(entries[b]) : entries[b][k].inode = tool.inode}
BadUnlinked(b) == Min(Named(b)) - 1
Unlinked(b) == Min(Named(b))

LastAgain(b) ==
  /\ Len(entries[b]) \in Named(b)
  /\ Cardinality(Named(b)) \in 2 .. EntriesPerBlock - Len(entries[b]) + 2

Unlink ==
  LET b == Head(table[tool.parent].block)
  IN  /\ At("unlink") /\ ~LastAgain(b)
      /\ IF Named(b) = {}
         THEN tool' = Idle /\ UNCHANGED <<entries, runs, killed, unmade, image>>
         ELSE /\ entries' = [entries EXCEPT ![b] = RemoveAt(@, Unlinked(b))]
              /\ image' = IF Cardinality(NamesOf(tool.inode)) > 1
                          THEN "severed" ELSE image
              /\ Advance(tool)
      /\ UNCHANGED <<inode_bitmap, block_bitmap, free_inodes, free_blocks,
                     used_dirs, table>>

RmWritesAstray ==
  At("unlink") /\ LastAgain(Head(table[tool.parent].block)) /\ Undefined

\* group_descriptor_update: the bit of the inode, those of its blocks, the
\* counts.  It does not look at i_links_count.
FreeInode ==
  /\ At("free_inode")
  /\ inode_bitmap' = inode_bitmap \ {tool.inode}
  /\ Advance(tool)
  /\ UNCHANGED <<block_bitmap, free_inodes, free_blocks, used_dirs, table,
                 entries, image>>

\* The pointers it reads: the direct ones, the indirect one and a number of
\* those in the indirect block.
PointersRead(i) ==
  {table[i].block[k] : k \in {k \in 1 .. Len(table[i].block) :
                                k <= Direct + 1 + IndirectRead}}

FreeBlocks ==
  /\ At("free_blocks")
  /\ block_bitmap' = block_bitmap \ PointersRead(tool.inode)
  /\ Advance(tool)
  /\ UNCHANGED <<inode_bitmap, free_inodes, free_blocks, used_dirs, table,
                 entries, image>>

BadFreed == Len(table[tool.inode].block) - 1
Freed == Len(table[tool.inode].block)
FreeCounts ==
  /\ At("free_counts")
  /\ free_inodes' = free_inodes + 1
  /\ free_blocks' = free_blocks + Freed
  /\ Advance(tool)
  /\ UNCHANGED <<inode_bitmap, block_bitmap, used_dirs, table, entries, image>>

\* The directory being made has its name already and its records not yet.
HalfMade == tool.cmd = "mkdir" /\ (At("table") \/ At("dots"))

\* The process is killed.
Kill ==
  /\ tool.cmd # "none"
  /\ tool' = Idle /\ killed' = TRUE
  /\ unmade' = IF HalfMade THEN unmade \cup {tool.inode} ELSE unmade
  /\ UNCHANGED <<disk, runs, image>>

Rest ==
  /\ tool = Idle /\ (runs = MaxTools \/ image # "sound" \/ unmade # {})
  /\ UNCHANGED vars

Next ==
  \/ /\ Ready
     /\ \E path \in Path :
          \/ Mkdir(path) \/ Rm(path)
          \/ \E native \in Name, n \in 0 .. MaxFileBlocks : Cp(path, native, n)
          \/ \E resource \in Path : Ln(resource, path)
  \/ NewInode \/ AllocateFileBlock \/ BlocksAllocated
  \/ WriteFileInode \/ WriteDirInode \/ WriteDots \/ CountDir
  \/ AddEntry \/ GrowDirectory \/ CountLink
  \/ Unlink \/ FreeInode \/ FreeBlocks \/ FreeCounts
  \/ LnWritesAstray \/ RmWritesAstray \/ InodeOverrun \/ NothingFree
  \/ Kill \/ Rest

Spec == Init /\ [][Next]_vars

----------------------------------------------------------------------------
(* Properties                                                              *)

Sound == image = "sound"

\* Directories whose making is under way, or was when the tool was killed:
\* what their names lead to is what the inode held before.
Unfinished == unmade \cup (IF HalfMade THEN {tool.inode} ELSE {})

LiveInodes == (NamedInodes \cup {Root}) \ Unfinished

\* Every name leads to an inode that is allocated, after every single write,
\* whichever tool was killed where, as long as no file with two names was
\* removed: names are written after the inode's bit and go before it.
NamesResolve == Sound => NamedInodes \subseteq inode_bitmap \cup {Root}

\* No block belongs to two files, or twice to one, and the bitmap has every
\* block that belongs to a file: a kill can leak blocks, not share them.  That
\* leaves out the one inode that a kill of ext2_mkdir left named and not made.
BlocksOwnedOnce ==
  Sound =>
    /\ \A i \in LiveInodes :
         /\ OwnBlocks(i) \subseteq block_bitmap \cup {RootBlock}
         /\ Cardinality(OwnBlocks(i)) = Len(table[i].block)
    /\ \A i, j \in LiveInodes : i # j => OwnBlocks(i) \cap OwnBlocks(j) = {}

\* When no tool was killed, bitmaps and counts say between two tools exactly
\* what is in use.
AccountsExact ==
  Sound /\ ~killed /\ tool = Idle =>
    /\ inode_bitmap = NamedInodes \ {Root}
    /\ block_bitmap = (UNION {OwnBlocks(i) : i \in LiveInodes}) \ {RootBlock}
    /\ free_inodes = Cardinality(ClearInodes)
    /\ free_blocks = Cardinality(ClearBlocks)
    /\ used_dirs = Cardinality(Directories)

\* The directories are a tree: each but the root has one name, in the
\* directory its ".." leads to.
DirectoriesAreATree ==
  Sound =>
    \A i \in Directories \ (Unfinished \cup {Root}) :
      /\ Cardinality(NamesOf(i)) = 1
      /\ \A nm \in NamesOf(i) : Lookup(i, "..") = nm[1]

\* ext2_ls lists what its path leads to, but for two cases.  A directory with
\* a larger number than its parent's may hold the name it has itself, in its
\* first block: then ext2_ls goes on to that.  And it does not end when it
\* comes to a directory whose records are not written: one that holds the
\* name, or has it.
Nested(path) ==
  /\ IsDirectory(path) /\ Resolve(path) > Parent(path)
  /\ Find(entries[Head(table[Resolve(path)].block)], Last(path)) # Missing
NamesUnfinished(path) ==
  \/ Parent(path) \in Unfinished
  \/ \E d \in Directories : Lookup(d, Last(path)) \in Unfinished
LsResolves ==
  Sound =>
    \A path \in Path \ {<<>>} :
      LsParent(path) # Astray /\ LsParent(path) = Parent(path) =>
        IF LsResolve(path) = Astray THEN NamesUnfinished(path)
        ELSE LsResolve(path) = Resolve(path) <=> ~Nested(path)

\* A name goes only by ext2_rm, from the directory it was given, and it led to
\* the file that was given.  It is the name that was given exactly if no other
\* name of the file comes before it in the first block of that directory;
\* otherwise one of those goes in its place.
AllNames == {nm \in Directories \X Name : Lookup(nm[1], nm[2]) # Missing}
OtherNameFirst ==
  LET R == entries[Head(table[tool.parent].block)]
  IN  \E k \in 1 .. Len(R) :
        R[k].inode = tool.inode /\ \A l \in 1 .. k : R[l].name # tool.name
OnlyTheNameGoes ==
  [][\A nm \in AllNames \ AllNames' :
       /\ At("unlink") /\ nm[1] = tool.parent
       /\ Lookup(nm[1], nm[2]) = tool.inode
       /\ nm[2] = tool.name <=> ~OtherNameFirst]_vars

\* "An absolute path to a file or link on that disk" (a3notes.txt): removing
\* one name of a file leaves its other names good.
OtherNamesSurvive ==
  image # "undefined" => NamedInodes \subseteq inode_bitmap \cup {Root}
=============================================================================
