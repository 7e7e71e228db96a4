-------------------------- MODULE Ext2Tools_proofs --------------------------
(***************************************************************************)
(* Proofs about the ext2 tools, for every set of names, inodes and blocks, *)
(* every size of a directory block, of an inode and of the files, and any  *)
(* number of tools, each of which may be killed between two writes.        *)
(***************************************************************************)
EXTENDS Ext2Tools, NatSetTheorems, FiniteSetTheorems, SequenceTheorems

USE DEF Root, Missing

----------------------------------------------------------------------------
(* What holds of the image whatever happens to it                          *)

Stage(cmd, S) == tool.cmd = cmd /\ tool.at \in S

\* A tool has taken an inode, which is not a directory's yet, or no longer
\* a free one's.
TakesInode == Stage("mkdir", {2, 3}) \/ Stage("cp", 2 .. 4)

IsDir(i) == i \in Inode \cup {Root} /\ table[i].mode = "DIR"

\* There is a record of the inode anywhere.
HasRecord(i) ==
  \E b \in DOMAIN entries : \E k \in 1 .. Len(entries[b]) : entries[b][k].inode = i

\* Directories are allocated and have a block; only they have "." and "..",
\* and records are nowhere but in their blocks.
Shape ==
  /\ IsDir(Root)
  /\ \A i \in Inode : IsDir(i) => i \in inode_bitmap
  /\ \A d : IsDir(d) => table[d].block # <<>>
  /\ \A b \in DOMAIN entries : \A k \in 1 .. Len(entries[b]) :
       entries[b][k].name \notin Name => IsDir(entries[b][k].inode)
  /\ \A b \in DOMAIN entries :
       entries[b] # <<>> => \E d \in Inode \cup {Root} : IsDir(d) /\ b \in OwnBlocks(d)

\* What the variables of a tool are between its steps.
Running ==
  /\ tool.cmd # "none" =>
       /\ tool.at \in 1 .. Len(Steps[tool.cmd])
       /\ tool.name \in Name /\ IsDir(tool.parent)
       /\ unmade = {}
       /\ ~Sound => Stage("rm", 2 .. 4)
  /\ tool.cmd = "none" => tool = Idle
  /\ unmade # {} => killed
ToolOK ==
  /\ Running
  /\ TakesInode => tool.inode \in inode_bitmap /\ ~IsDir(tool.inode)
  /\ Stage("mkdir", {4, 5}) => tool.inode \in inode_bitmap /\ IsDir(tool.inode)
  /\ Stage("cp", {4}) => table[tool.inode].mode = "REG"
  /\ tool.cmd \in {"ln", "rm"} => tool.inode \in Inode /\ table[tool.inode].mode = "REG"
  /\ Stage("rm", {1}) => Lookup(tool.parent, tool.name) = tool.inode

Basic == TypeOK /\ Shape /\ ToolOK

\* In these words Directories and NamedInodes are easier to reason about.
View ==
  /\ \A i : i \in Directories <=> IsDir(i)
  /\ \A i : i \in NamedInodes <=> HasRecord(i)

\* The range of a sequence.
LEMMA ToSetIs ==
  ASSUME NEW S, NEW s \in Seq(S)
  PROVE  /\ \A k \in 1 .. Len(s) : s[k] \in ToSet(s)
         /\ \A x \in ToSet(s) : x \in S /\ \E k \in 1 .. Len(s) : s[k] = x
BY DEF ToSet

LEMMA AppendIs ==
  ASSUME NEW S, NEW s \in Seq(S), NEW x \in S
  PROVE  /\ Append(s, x) \in Seq(S) /\ Len(Append(s, x)) = Len(s) + 1
         /\ \A k \in 1 .. Len(s) : Append(s, x)[k] = s[k]
         /\ Append(s, x)[Len(s) + 1] = x
OBVIOUS

LEMMA AppendSet ==
  ASSUME NEW S, NEW s \in Seq(S), NEW x \in S
  PROVE  ToSet(Append(s, x)) = ToSet(s) \cup {x}
<1>1. PICK t : t = Append(s, x)
  OBVIOUS
<1>2. /\ t \in Seq(S) /\ Len(t) = Len(s) + 1 /\ Len(s) \in Nat
      /\ \A k \in 1 .. Len(s) : t[k] = s[k]
      /\ t[Len(s) + 1] = x
  BY <1>1, AppendIs
<1>3. ASSUME NEW y \in ToSet(t) PROVE y \in ToSet(s) \cup {x}
  <2>1. PICK k \in 1 .. Len(t) : t[k] = y
    BY <1>2, ToSetIs
  <2>2. CASE k \in 1 .. Len(s)
    BY <1>2, <2>1, <2>2, ToSetIs
  <2>3. CASE k = Len(s) + 1
    BY <1>2, <2>1, <2>3
  <2>. QED  BY <1>2, <2>2, <2>3
<1>4. ASSUME NEW y \in ToSet(s) PROVE y \in ToSet(t)
  <2>1. PICK k \in 1 .. Len(s) : s[k] = y
    BY ToSetIs
  <2>2. k \in 1 .. Len(t) /\ t[k] = y
    BY <1>2, <2>1
  <2>. QED  BY <1>2, <2>2, ToSetIs
<1>5. x \in ToSet(t)
  <2>1. Len(s) + 1 \in 1 .. Len(t)
    BY <1>2
  <2>. QED  BY <1>2, <2>1, ToSetIs
<1>. QED  BY <1>1, <1>3, <1>4, <1>5

LEMMA PairIs ==
  ASSUME NEW S, NEW x \in S, NEW y \in S
  PROVE  /\ <<x, y>> \in Seq(S) /\ Len(<<x, y>>) = 2
         /\ <<x, y>>[1] = x /\ <<x, y>>[2] = y
OBVIOUS

LEMMA ViewIs == TypeOK /\ Shape => View
<1>. SUFFICES ASSUME TypeOK, Shape PROVE View
  OBVIOUS
<1>1. \A i : i \in Directories <=> IsDir(i)
  BY DEF Shape, Directories, Listed, IsDir
<1>2. ASSUME NEW b \in DOMAIN entries, NEW k \in 1 .. Len(entries[b])
      PROVE  entries[b][k].inode \in NamedInodes
  <2>1. entries[b] \in Seq(Entry)
    BY DEF TypeOK
  <2>2. PICK d \in Directories : b \in OwnBlocks(d)
    BY <1>1, <2>1 DEF Shape
  <2>3. entries[b][k] \in Records(d)
    BY <2>1, <2>2, ToSetIs DEF Records
  <2>. QED  BY <2>2, <2>3 DEF NamedInodes
<1>3. ASSUME NEW i \in NamedInodes
      PROVE  HasRecord(i)
  <2>1. PICK d \in Directories : \E r \in Records(d) : i = r.inode
    BY DEF NamedInodes
  <2>2. PICK b \in OwnBlocks(d) : \E r \in ToSet(entries[b]) : i = r.inode
    BY <2>1 DEF Records
  <2>3. b \in DOMAIN entries /\ entries[b] \in Seq(Entry)
    BY DEF TypeOK, OwnBlocks, ToSet, Directories
  <2>. QED  BY <2>2, <2>3, ToSetIs DEF HasRecord
<1>. QED  BY <1>1, <1>2, <1>3 DEF View, HasRecord

LEMMA ViewIsNext == TypeOK' /\ Shape' => View'
BY ViewIs, PTL

LEMMA RecordIs ==
  ASSUME TypeOK
  PROVE  \A i : HasRecord(i) => i \in Inode \cup {Root}
<1>1. \A b \in DOMAIN entries : entries[b] \in Seq(Entry)
  BY DEF TypeOK
<1>2. \A b \in DOMAIN entries : \A k \in 1 .. Len(entries[b]) : entries[b][k] \in Entry
  BY <1>1
<1>. QED  BY <1>2 DEF HasRecord, Entry

\* The blocks of an inode.
LEMMA BlocksOf ==
  ASSUME TypeOK, NEW i \in Inode \cup {Root}
  PROVE  /\ table[i].block \in Seq(Block \cup {RootBlock})
         /\ OwnBlocks(i) \subseteq Block \cup {RootBlock}
         /\ \A k \in 1 .. Len(table[i].block) : table[i].block[k] \in OwnBlocks(i)
         /\ \A b \in OwnBlocks(i) : \E k \in 1 .. Len(table[i].block) : table[i].block[k] = b
BY ToSetIs DEF TypeOK, OwnBlocks

\* The first record with a name.
LEMMA FindIs ==
  ASSUME NEW R \in Seq(Entry), NEW n
  PROVE  \/ Find(R, n) = Missing /\ \A k \in 1 .. Len(R) : R[k].name # n
         \/ /\ Find(R, n) # Missing
            /\ \E k \in 1 .. Len(R) : /\ R[k].name = n /\ R[k].inode = Find(R, n)
                                      /\ \A j \in 1 .. k - 1 : R[j].name # n
<1>. DEFINE found == {k \in 1 .. Len(R) : R[k].name = n}
<1>1. CASE found = {}
  BY <1>1 DEF Find
<1>2. CASE found # {}
  <2>1. PICK m : m = Min(found)
    OBVIOUS
  <2>2. m \in found /\ \A j \in found : m <= j
    <3>1. found \in SUBSET Nat
      OBVIOUS
    <3>. HIDE DEF found
    <3>. QED  BY <1>2, <2>1, <3>1, MinExists
  <2>3. Find(R, n) = R[m].inode
    BY <1>2, <2>1 DEF Find
  <2>4. R[m].inode # Missing
    <3>1. R[m] \in Entry
      BY <2>2
    <3>. QED  BY <3>1, InodeAssumption DEF Entry
  <2>. QED  BY <2>2, <2>3, <2>4
<1>. QED  BY <1>1, <1>2

\* What the search finds stands in a block of the directory, and if it finds
\* nothing no block of the directory has the name.
LEMMA LookupIs ==
  ASSUME TypeOK, NEW d \in Inode \cup {Root}, NEW n
  PROVE  \/ /\ Lookup(d, n) = Missing
            /\ \A b \in OwnBlocks(d) : \A k \in 1 .. Len(entries[b]) : entries[b][k].name # n
         \/ /\ Lookup(d, n) # Missing
            /\ \E b \in OwnBlocks(d) : \E k \in 1 .. Len(entries[b]) :
                 entries[b][k].name = n /\ entries[b][k].inode = Lookup(d, n)
<1>. DEFINE blocks == table[d].block
            found == {j \in 1 .. Len(blocks) : \E r \in ToSet(entries[blocks[j]]) : r.name = n}
<1>1. /\ blocks \in Seq(Block \cup {RootBlock})
      /\ \A j \in 1 .. Len(blocks) : entries[blocks[j]] \in Seq(Entry)
  BY BlocksOf DEF TypeOK
<1>2. CASE found = {}
  <2>1. Lookup(d, n) = Missing
    BY <1>2 DEF Lookup
  <2>2. ASSUME NEW b \in OwnBlocks(d), NEW k \in 1 .. Len(entries[b])
        PROVE  entries[b][k].name # n
    <3>1. PICK j \in 1 .. Len(blocks) : blocks[j] = b
      BY BlocksOf
    <3>2. entries[b][k] \in ToSet(entries[b])
      BY <1>1, <3>1, ToSetIs
    <3>. QED  BY <1>2, <3>1, <3>2
  <2>. QED  BY <2>1, <2>2
<1>3. CASE found # {}
  <2>1. PICK m : m = Min(found)
    OBVIOUS
  <2>2. m \in found
    <3>1. found \in SUBSET Nat
      BY <1>1
    <3>. HIDE DEF found
    <3>. QED  BY <1>3, <2>1, <3>1, MinExists
  <2>3. PICK R : R = entries[blocks[m]]
    OBVIOUS
  <2>4. m \in 1 .. Len(blocks) /\ R \in Seq(Entry)
    BY <1>1, <2>2, <2>3
  <2>5. Lookup(d, n) = Find(R, n)
    BY <1>3, <2>1, <2>3 DEF Lookup
  <2>6. \E k \in 1 .. Len(R) : R[k].name = n
    BY <2>2, <2>3, <2>4, ToSetIs
  <2>7. /\ Find(R, n) # Missing
        /\ \E k \in 1 .. Len(R) : R[k].name = n /\ R[k].inode = Find(R, n)
    BY <2>4, <2>6, FindIs
  <2>8. blocks[m] \in OwnBlocks(d)
    BY <2>4, BlocksOf
  <2>. HIDE DEF found, blocks
  <2>. QED  BY <2>3, <2>5, <2>7, <2>8
<1>. QED  BY <1>2, <1>3

\* A path that does not end in a new name leads to an inode with a record.
LEMMA FileIs ==
  ASSUME TypeOK, Shape, NEW path \in Path, IsFile(path)
  PROVE  /\ path # <<>> /\ Parent(path) \in Directories
         /\ Resolve(path) = Lookup(Parent(path), Last(path))
         /\ Resolve(path) \in NamedInodes /\ Resolve(path) \in Inode
         /\ table[Resolve(path)].mode = "REG"
<1>1. path # <<>>
  BY DEF IsFile, Resolve, Shape, IsDir
<1>2. Listed(Parent(path)) /\ Resolve(path) = Lookup(Parent(path), Last(path))
  BY <1>1 DEF IsFile, Resolve, Enter
<1>3. Parent(path) \in Directories
  BY <1>2 DEF Directories, Listed, TypeOK
<1>4. PICK b \in OwnBlocks(Parent(path)) : \E k \in 1 .. Len(entries[b]) :
                                              entries[b][k].inode = Resolve(path)
  <2>1. Parent(path) \in Inode \cup {Root}
    BY <1>3 DEF Directories
  <2>2. PICK d, n : d = Parent(path) /\ n = Last(path)
    OBVIOUS
  <2>3. Lookup(d, n) # Missing /\ Lookup(d, n) = Resolve(path)
    BY <1>2, <2>2 DEF IsFile
  <2>. QED  BY <2>1, <2>2, <2>3, LookupIs
<1>5. b \in DOMAIN entries /\ entries[b] \in Seq(Entry)
  BY <1>3, BlocksOf DEF TypeOK, Directories
<1>6. Resolve(path) \in NamedInodes
  BY <1>4, <1>5, ViewIs DEF View, HasRecord
<1>7. Resolve(path) \in Inode
  <2>1. PICK k \in 1 .. Len(entries[b]) : entries[b][k].inode = Resolve(path)
    BY <1>4
  <2>2. entries[b][k] \in Entry
    BY <1>5
  <2>3. Resolve(path) \in Inode \cup {Root}
    BY <2>1, <2>2 DEF Entry
  <2>. QED  BY <2>3 DEF IsFile, Shape, IsDir
<1>. QED  BY <1>1, <1>2, <1>3, <1>6, <1>7 DEF IsFile

----------------------------------------------------------------------------
(* The steps of the tools                                                  *)

LEMMA StepLengths ==
  /\ Len(Steps["mkdir"]) = 5 /\ Len(Steps["cp"]) = 4
  /\ Len(Steps["ln"]) = 2 /\ Len(Steps["rm"]) = 4
BY DEF Steps

\* Where a tool is when it is at a step.
LEMMA AtIs ==
  ASSUME TypeOK, ToolOK
  PROVE  /\ At("new_inode") => Stage("mkdir", {1}) \/ Stage("cp", {1})
         /\ At("entry") => Stage("mkdir", {2}) \/ Stage("cp", {4}) \/ Stage("ln", {1})
         /\ At("table") => Stage("mkdir", {3}) \/ Stage("cp", {3})
         /\ At("dots") => Stage("mkdir", {4})
         /\ At("used_dirs") => Stage("mkdir", {5})
         /\ At("blocks") => Stage("cp", {2})
         /\ At("links") => Stage("ln", {2})
         /\ At("unlink") => Stage("rm", {1})
         /\ At("free_inode") => Stage("rm", {2})
         /\ At("free_blocks") => Stage("rm", {3})
         /\ At("free_counts") => Stage("rm", {4})
<1>1. CASE tool.cmd = "none"
  BY <1>1 DEF At
<1>2. CASE tool.cmd = "mkdir"
  <2>1. tool.at \in 1 .. 5
    BY <1>2, StepLengths DEF ToolOK, Running
  <2>. QED  BY <1>2, <2>1 DEF At, Steps, Stage
<1>3. CASE tool.cmd = "cp"
  <2>1. tool.at \in 1 .. 4
    BY <1>3, StepLengths DEF ToolOK, Running
  <2>. QED  BY <1>3, <2>1 DEF At, Steps, Stage
<1>4. CASE tool.cmd = "ln"
  <2>1. tool.at \in 1 .. 2
    BY <1>4, StepLengths DEF ToolOK, Running
  <2>. QED  BY <1>4, <2>1 DEF At, Steps, Stage
<1>5. CASE tool.cmd = "rm"
  <2>1. tool.at \in 1 .. 4
    BY <1>5, StepLengths DEF ToolOK, Running
  <2>. QED  BY <1>5, <2>1 DEF At, Steps, Stage
<1>. QED  BY <1>1, <1>2, <1>3, <1>4, <1>5 DEF TypeOK, Tool

LEMMA HalfMadeIs ==
  ASSUME TypeOK, ToolOK
  PROVE  HalfMade <=> Stage("mkdir", {3, 4})
<1>1. CASE tool.cmd = "mkdir"
  <2>1. tool.at \in 1 .. 5
    BY <1>1, StepLengths DEF ToolOK, Running
  <2>. QED  BY <1>1, <2>1 DEF HalfMade, At, Steps, Stage
<1>2. CASE tool.cmd # "mkdir"
  BY <1>2 DEF HalfMade, Stage
<1>. QED  BY <1>1, <1>2

LEMMA IdleIs == Idle \in Tool /\ Idle.cmd = "none"
<1>1. <<>> \in Seq(Block)
  OBVIOUS
<1>. QED  BY <1>1 DEF Idle, Tool

\* A tool that advances ends, or keeps what it has and is one step further.
Advanced(t) ==
  \/ tool' = Idle /\ t.at = Len(Steps[t.cmd])
  \/ /\ t.at < Len(Steps[t.cmd])
     /\ tool'.cmd = t.cmd /\ tool'.at = t.at + 1 /\ tool'.parent = t.parent
     /\ tool'.name = t.name /\ tool'.inode = t.inode /\ tool'.need = t.need
     /\ tool'.got = t.got

LEMMA AdvanceIs ==
  ASSUME NEW t \in Tool, t.cmd # "none", t.at \in 1 .. Len(Steps[t.cmd]), Advance(t)
  PROVE  tool' \in Tool /\ Advanced(t)
<1>1. t.at \in Nat /\ Len(Steps[t.cmd]) \in 0 .. 5
  <2>1. t.cmd \in {"mkdir", "cp", "ln", "rm"}
    BY DEF Tool
  <2>2. t.at \in 0 .. 5
    BY DEF Tool
  <2>3. Len(Steps[t.cmd]) \in {2, 4, 5}
    BY <2>1, StepLengths
  <2>. QED  BY <2>2, <2>3
<1>2. CASE t.at = Len(Steps[t.cmd])
  <2>1. tool' = Idle
    BY <1>2 DEF Advance
  <2>. QED  BY <1>2, <2>1, IdleIs DEF Advanced
<1>3. CASE t.at < Len(Steps[t.cmd])
  <2>1. tool' = [t EXCEPT !.at = t.at + 1]
    BY <1>1, <1>3 DEF Advance
  <2>2. t.at + 1 \in 0 .. 5
    <3>1. PICK n \in 0 .. 5 : n = Len(Steps[t.cmd])
      BY <1>1
    <3>2. t.at < n
      BY <1>3, <3>1
    <3>. QED  BY <1>1, <3>2
  <2>3. tool' \in Tool
    BY <2>1, <2>2 DEF Tool
  <2>. QED  BY <1>3, <2>1, <2>3 DEF Advanced, Tool
<1>. QED  BY <1>1, <1>2, <1>3

\* A step that leaves the records, and what every inode is and owns, leaves
\* everything that a path or a tool reads of them.
SameFiles ==
  /\ entries' = entries
  /\ \A i \in Inode \cup {Root} :
       table'[i].mode = table[i].mode /\ table'[i].block = table[i].block

LEMMA SameFilesIs ==
  ASSUME TypeOK, SameFiles
  PROVE  /\ \A i : IsDir(i)' <=> IsDir(i)
         /\ \A i : HasRecord(i)' <=> HasRecord(i)
         /\ \A i \in Inode \cup {Root} : OwnBlocks(i)' = OwnBlocks(i)
         /\ \A i \in Inode \cup {Root} : \A n : Lookup(i, n)' = Lookup(i, n)
BY DEF SameFiles, IsDir, HasRecord, OwnBlocks, Lookup

LEMMA SameFilesShape ==
  ASSUME TypeOK, Shape, SameFiles, \A i \in Inode : IsDir(i) => i \in inode_bitmap'
  PROVE  Shape'
<1>1. /\ IsDir(Root)'
      /\ \A i \in Inode : IsDir(i)' => i \in inode_bitmap'
  BY SameFilesIs DEF Shape
<1>2. \A d : IsDir(d)' => table'[d].block # <<>>
  BY SameFilesIs DEF Shape, IsDir, SameFiles
<1>3. \A b \in DOMAIN entries' : \A k \in 1 .. Len(entries'[b]) :
        entries'[b][k].name \notin Name => IsDir(entries[b][k].inode)'
  BY SameFilesIs DEF Shape, SameFiles
<1>4. \A b \in DOMAIN entries' :
       entries'[b] # <<>> => \E d \in Inode \cup {Root} : IsDir(d)' /\ b \in OwnBlocks(d)'
  BY SameFilesIs DEF Shape, SameFiles
<1>. QED  BY <1>1, <1>2, <1>3, <1>4 DEF Shape

LEMMA BasicInit == Init => Basic
<1>. SUFFICES ASSUME Init PROVE Basic
  OBVIOUS
<1>1. Root \in Inode \cup {Root} /\ Root \notin Inode /\ RootBlock \notin Block
  BY InodeAssumption, BlockAssumption
<1>2. /\ table[Root] = [mode |-> "DIR", links |-> 2, block |-> <<RootBlock>>]
      /\ \A i \in Inode : table[i] = [mode |-> "none", links |-> 0, block |-> <<>>]
      /\ entries[RootBlock] = <<E(".", Root), E("..", Root)>>
      /\ \A b \in Block : entries[b] = <<>>
  BY <1>1 DEF Init
<1>3. E(".", Root) \in Entry /\ E("..", Root) \in Entry
  BY DEF E, Entry
<1>4. TypeOK
  <2>1. table \in [Inode \cup {Root} ->
                  [mode : {"none", "DIR", "REG"}, links : Nat,
                   block : Seq(Block \cup {RootBlock})]]
    <3>1. <<RootBlock>> \in Seq(Block \cup {RootBlock}) /\ <<>> \in Seq(Block \cup {RootBlock})
      OBVIOUS
    <3>. QED  BY <3>1 DEF Init
  <2>2. entries \in [Block \cup {RootBlock} -> Seq(Entry)]
    BY <1>3 DEF Init
  <2>3. \A b \in DOMAIN entries : Len(entries[b]) <= EntriesPerBlock
    BY <1>2, SizesAssumption DEF Init
  <2>4. free_inodes \in Int /\ free_blocks \in Int
    BY FS_CardinalityType, InodeAssumption, BlockAssumption DEF Init
  <2>5. tool \in Tool
    BY IdleIs DEF Init
  <2>6. runs \in 0 .. MaxTools
    BY SizesAssumption DEF Init
  <2>. QED  BY <2>1, <2>2, <2>3, <2>4, <2>5, <2>6 DEF Init, TypeOK
<1>5. Shape
  <2>1. \A i : IsDir(i) <=> i = Root
    BY <1>1, <1>2 DEF IsDir
  <2>2. RootBlock \in OwnBlocks(Root) /\ table[Root].block # <<>>
    <3>1. PICK s \in Seq({RootBlock}) : s = table[Root].block /\ s[1] = RootBlock /\ Len(s) = 1
      <4>1. PICK s : s = <<RootBlock>>
        OBVIOUS
      <4>2. s \in Seq({RootBlock}) /\ s[1] = RootBlock /\ Len(s) = 1
        BY <4>1
      <4>3. s = table[Root].block
        BY <1>2, <4>1
      <4>. QED  BY <4>2, <4>3
    <3>2. 1 \in 1 .. Len(s) /\ s # <<>>
      BY <3>1
    <3>3. RootBlock \in ToSet(s)
      BY <3>1, <3>2, ToSetIs
    <3>. QED  BY <3>1, <3>2, <3>3 DEF OwnBlocks
  <2>3. \A b \in DOMAIN entries : entries[b] # <<>> => b = RootBlock
    BY <1>2 DEF Init
  <2>4. \A b \in DOMAIN entries : \A k \in 1 .. Len(entries[b]) :
          entries[b][k].inode = Root
    <3>1. \A k \in 1 .. 2 : entries[RootBlock][k].inode = Root
      BY <1>2 DEF E
    <3>. QED  BY <1>2, <3>1 DEF Init
  <2>. QED  BY <1>1, <2>1, <2>2, <2>3, <2>4 DEF Shape
<1>6. ToolOK
  BY IdleIs DEF Init, ToolOK, Running, TakesInode, Stage, Idle
<1>. QED  BY <1>4, <1>5, <1>6 DEF Basic

\* How a tool starts, whatever path it was given.
StartsTool ==
  \E path \in Path :
    \/ Mkdir(path) \/ Rm(path)
    \/ \E native \in Name, n \in 0 .. MaxFileBlocks : Cp(path, native, n)
    \/ \E resource \in Path : Ln(resource, path)

Started(cmd, parent, name, inode, need) ==
  /\ cmd \in {"mkdir", "cp", "ln", "rm"} /\ IsDir(parent) /\ name \in Name
  /\ inode \in Inode \cup {Missing} /\ need \in Nat
  /\ Start(cmd, parent, name, inode, need)
  /\ cmd \in {"ln", "rm"} => inode \in Inode /\ table[inode].mode = "REG" /\ HasRecord(inode)
  /\ cmd = "rm" => Lookup(parent, name) = inode

\* A tool that starts.
LEMMA BasicStart ==
  ASSUME Basic, Ready, NEW cmd, NEW parent, NEW name, NEW inode, NEW need,
         Started(cmd, parent, name, inode, need)
  PROVE  Basic'
<1>0. /\ cmd \in {"mkdir", "cp", "ln", "rm"} /\ IsDir(parent) /\ name \in Name
      /\ inode \in Inode \cup {Missing} /\ need \in Nat
      /\ Start(cmd, parent, name, inode, need)
      /\ cmd \in {"ln", "rm"} => inode \in Inode /\ table[inode].mode = "REG"
      /\ cmd = "rm" => Lookup(parent, name) = inode
  BY DEF Started
<1>1. SameFiles
  BY <1>0 DEF Start, disk, SameFiles
<1>2. tool' = [cmd |-> cmd, at |-> 1, parent |-> parent, name |-> name,
               inode |-> inode, need |-> need, got |-> <<>>]
  BY <1>0 DEF Start
<1>3. tool' \in Tool
  <2>1. <<>> \in Seq(Block) /\ 1 \in 0 .. 5 /\ parent \in Inode \cup {Root}
    BY <1>0 DEF IsDir
  <2>. QED  BY <1>0, <1>2, <2>1 DEF Tool
<1>4. TypeOK'
  <2>1. runs' \in 0 .. MaxTools
    BY <1>0, SizesAssumption DEF Basic, TypeOK, Start, Ready
  <2>. QED  BY <1>0, <1>3, <2>1 DEF Basic, TypeOK, Start, disk
<1>5. Shape'
  BY <1>0, <1>1, SameFilesShape DEF Basic, Shape, Start, disk
<1>6. ToolOK'
  <2>1. 1 \in 1 .. Len(Steps[cmd])
    <3>1. PICK n \in 2 .. 5 : n = Len(Steps[cmd])
      BY <1>0, StepLengths
    <3>2. 1 \in 1 .. n
      OBVIOUS
    <3>. QED  BY <3>1, <3>2
  <2>2. IsDir(parent)' /\ Lookup(parent, name)' = Lookup(parent, name)
    BY <1>0, <1>1, SameFilesIs DEF Basic, IsDir
  <2>3. table' = table /\ unmade' = unmade /\ image' = image /\ unmade = {} /\ image = "sound"
    BY <1>0 DEF Start, Ready, disk
  <2>. QED  BY <1>0, <1>2, <2>1, <2>2, <2>3 DEF ToolOK, Running, TakesInode, Stage, Sound
<1>. QED  BY <1>4, <1>5, <1>6 DEF Basic

\* What every step that advances has in common.
LEMMA AdvanceRunning ==
  ASSUME Basic, tool.cmd # "none",
         NEW t \in Tool, t.cmd = tool.cmd, t.at = tool.at, t.parent = tool.parent,
         t.name = tool.name, Advance(t), \A i : IsDir(i) => IsDir(i)',
         image' = image \/ Stage("rm", {1})
  PROVE  tool' \in Tool /\ Advanced(t) /\ Running'
<1>1. t.at \in 1 .. Len(Steps[t.cmd]) /\ Running
  BY DEF Basic, ToolOK, Running
<1>2. tool' \in Tool /\ Advanced(t)
  BY <1>1, AdvanceIs
<1>3. runs' = runs /\ killed' = killed /\ unmade' = unmade
  BY DEF Advance
<1>4. CASE tool' = Idle
  BY <1>1, <1>2, <1>3, <1>4, IdleIs DEF Running
<1>5. CASE tool'.at = t.at + 1 /\ tool'.cmd = t.cmd /\ tool'.parent = t.parent /\ tool'.name = t.name
           /\ t.at < Len(Steps[t.cmd])
  <2>1. PICK n \in 2 .. 5 : n = Len(Steps[t.cmd])
    <3>1. t.cmd \in {"mkdir", "cp", "ln", "rm"}
      BY DEF Tool
    <3>. QED  BY <3>1, StepLengths
  <2>2. t.at \in 1 .. n /\ t.at < n
    BY <1>1, <1>5, <2>1
  <2>3. tool'.at \in 1 .. Len(Steps[tool'.cmd]) /\ t.at \in Nat
    <3>1. t.at + 1 \in 1 .. n
      BY <2>2
    <3>. QED  BY <1>5, <2>1, <2>2, <3>1
  <2>4. ~Sound' => Stage("rm", 2 .. 4)'
    <3>1. ~Sound' => Stage("rm", 1 .. 4)
      BY <1>1 DEF Running, Sound, Stage
    <3>2. tool.cmd = "rm" => n = 4
      BY <2>1, StepLengths
    <3>. QED  BY <1>5, <2>2, <3>1, <3>2 DEF Stage
  <2>5. tool.name \in Name /\ IsDir(t.parent)' /\ unmade' = {}
    BY <1>1, <1>3 DEF Running
  <2>6. IsDir(tool.parent)'
    BY <1>5, <2>5 DEF IsDir
  <2>. QED  BY <1>1, <1>2, <1>3, <1>5, <2>3, <2>4, <2>5, <2>6 DEF Running
<1>. QED  BY <1>2, <1>4, <1>5 DEF Advanced

LEMMA NextStage ==
  ASSUME NEW t, Advanced(t), t.cmd = tool.cmd, t.at = tool.at
  PROVE  /\ tool' # Idle => /\ tool'.cmd = t.cmd /\ tool'.at = t.at + 1
                            /\ tool'.parent = t.parent /\ tool'.name = t.name
                            /\ tool'.inode = t.inode /\ tool'.got = t.got
         /\ Stage("mkdir", {5}) \/ Stage("cp", {4}) \/ Stage("ln", {2}) \/ Stage("rm", {4})
              => tool' = Idle
         /\ Stage("mkdir", 1 .. 4) \/ Stage("cp", 1 .. 3) \/ Stage("ln", {1}) \/ Stage("rm", 1 .. 3)
              => tool' # Idle
<1>1. tool' # Idle => /\ tool'.cmd = t.cmd /\ tool'.at = t.at + 1
                      /\ tool'.parent = t.parent /\ tool'.name = t.name
                      /\ tool'.inode = t.inode /\ tool'.got = t.got
  BY DEF Advanced
<1>2. CASE tool.cmd = "mkdir"
  <2>1. Len(Steps[t.cmd]) = 5
    BY <1>2, StepLengths
  <2>2. (tool' = Idle /\ tool.at = 5) \/ (tool' # Idle /\ tool.at < 5)
    BY <1>2, <2>1, IdleIs DEF Advanced
  <2>. QED  BY <1>1, <1>2, <2>2 DEF Stage
<1>3. CASE tool.cmd = "cp" \/ tool.cmd = "rm"
  <2>1. Len(Steps[t.cmd]) = 4
    BY <1>3, StepLengths
  <2>2. (tool' = Idle /\ tool.at = 4) \/ (tool' # Idle /\ tool.at < 4)
    BY <1>3, <2>1, IdleIs DEF Advanced
  <2>. QED  BY <1>1, <1>3, <2>2 DEF Stage
<1>4. CASE tool.cmd = "ln"
  <2>1. Len(Steps[t.cmd]) = 2
    BY <1>4, StepLengths
  <2>2. (tool' = Idle /\ tool.at = 2) \/ (tool' # Idle /\ tool.at < 2)
    BY <1>4, <2>1, IdleIs DEF Advanced
  <2>. QED  BY <1>1, <1>4, <2>2 DEF Stage
<1>. QED  BY <1>1, <1>2, <1>3, <1>4 DEF Stage

\* The smallest of a set of numbers that is not empty.
LEMMA MinOf == ASSUME NEW S \in SUBSET Nat, S # {} PROVE Min(S) \in S
<1>1. PICK m : m = Min(S)
  OBVIOUS
<1>. QED  BY <1>1, MinExists

LEMMA BasicNewInode ==
  ASSUME Basic, NewInode
  PROVE  Basic'
<1>1. PICK i \in Inode : i = Min(ClearInodes) /\ i \notin inode_bitmap
  <2>1. ClearInodes \in SUBSET Nat /\ ClearInodes # {}
    BY InodeAssumption DEF ClearInodes, NewInode
  <2>. QED  BY <2>1, MinOf DEF ClearInodes
<1>. DEFINE t == [tool EXCEPT !.inode = i]
<1>2. SameFiles /\ \A j : IsDir(j)' <=> IsDir(j)
  BY DEF NewInode, SameFiles, IsDir
<1>3. Stage("mkdir", {1}) \/ Stage("cp", {1})
  BY AtIs DEF NewInode, Basic
<1>4. tool \in Tool
  BY DEF Basic, TypeOK
<1>5. t \in Tool /\ t.cmd = tool.cmd /\ t.at = tool.at /\ t.parent = tool.parent
      /\ t.name = tool.name /\ t.inode = i
  BY <1>1, <1>4 DEF Tool
<1>6. Advance(t)
  BY <1>1 DEF NewInode
<1>7. tool' \in Tool /\ Advanced(t) /\ Running'
  <2>. HIDE DEF t
  <2>1. tool.cmd # "none" /\ image' = image
    BY <1>3 DEF Stage, NewInode
  <2>. QED  BY <1>2, <1>5, <1>6, <2>1, AdvanceRunning DEF IsDir
<1>8. TypeOK'
  <2>1. inode_bitmap' \subseteq Inode /\ free_inodes' \in Int
    BY <1>1 DEF NewInode, Basic, TypeOK
  <2>. QED  BY <1>7, <2>1 DEF NewInode, Basic, TypeOK, Advance
<1>9. Shape'
  BY <1>2, SameFilesShape DEF NewInode, Basic, Shape
<1>10. ToolOK'
  <2>1. (Stage("mkdir", {2}) \/ Stage("cp", {2}))' /\ tool'.inode = i
    <3>. HIDE DEF t
    <3>. QED  BY <1>3, <1>5, <1>7, NextStage DEF Stage
  <2>2. i \in inode_bitmap' /\ ~IsDir(i)'
    BY <1>1, <1>2 DEF NewInode, Basic, Shape, IsDir
  <2>3. tool'.inode \in inode_bitmap' /\ ~IsDir(tool.inode)'
    BY <2>1, <2>2 DEF IsDir
  <2>. QED  BY <1>7, <2>1, <2>3 DEF ToolOK, TakesInode, Stage
<1>. QED  BY <1>8, <1>9, <1>10 DEF Basic

\* A tool that has ended has nothing to keep.
LEMMA IdleToolOK == ASSUME Running', tool' = Idle PROVE ToolOK'
BY IdleIs DEF ToolOK, TakesInode, Stage, Idle

LEMMA BasicAllocateFileBlock ==
  ASSUME Basic, AllocateFileBlock
  PROVE  Basic'
<1>1. PICK b \in Block : b = NewBlock
  <2>1. ClearBlocks \in SUBSET Nat /\ ClearBlocks # {}
    BY BlockAssumption DEF ClearBlocks, AllocateFileBlock
  <2>. QED  BY <2>1, MinOf DEF ClearBlocks, NewBlock
<1>2. SameFiles /\ \A j : IsDir(j)' <=> IsDir(j)
  BY DEF AllocateFileBlock, SameFiles, IsDir
<1>3. Stage("cp", {2})
  BY AtIs DEF AllocateFileBlock, Basic
<1>4. tool \in Tool
  BY DEF Basic, TypeOK
<1>5. /\ tool' \in Tool /\ tool'.cmd = tool.cmd /\ tool'.at = tool.at
      /\ tool'.parent = tool.parent /\ tool'.name = tool.name /\ tool'.inode = tool.inode
  <2>1. Append(tool.got, b) \in Seq(Block) /\ tool.need - 1 \in Nat
    <3>1. tool.got \in Seq(Block) /\ tool.need \in Nat /\ tool.need > 0
      BY <1>4 DEF Tool, AllocateFileBlock
    <3>. QED  BY <1>1, <3>1
  <2>2. tool' = [tool EXCEPT !.need = tool.need - 1, !.got = Append(tool.got, b)]
    BY <1>1, <1>4 DEF AllocateFileBlock, Tool
  <2>. QED  BY <1>4, <2>1, <2>2 DEF Tool
<1>6. TypeOK'
  <2>1. block_bitmap' \subseteq Block /\ free_blocks' \in Int
    BY <1>1 DEF AllocateFileBlock, TakeBlock, Basic, TypeOK
  <2>. QED  BY <1>5, <2>1 DEF AllocateFileBlock, Basic, TypeOK
<1>7. Shape'
  BY <1>2, SameFilesShape DEF AllocateFileBlock, Basic, Shape
<1>8. ToolOK'
  BY <1>2, <1>3, <1>5 DEF AllocateFileBlock, Basic, ToolOK, Running, TakesInode, Stage, Sound, IsDir
<1>. QED  BY <1>6, <1>7, <1>8 DEF Basic

LEMMA BasicBlocksAllocated ==
  ASSUME Basic, BlocksAllocated
  PROVE  Basic'
<1>1. SameFiles /\ \A j : IsDir(j)' <=> IsDir(j)
  BY DEF BlocksAllocated, disk, SameFiles, IsDir
<1>2. Stage("cp", {2}) /\ tool \in Tool
  BY AtIs DEF BlocksAllocated, Basic, TypeOK
<1>3. tool' \in Tool /\ Advanced(tool) /\ Running'
  BY <1>1, <1>2, AdvanceRunning DEF BlocksAllocated, Stage
<1>4. TypeOK'
  BY <1>3 DEF BlocksAllocated, disk, Basic, TypeOK, Advance
<1>5. Shape'
  BY <1>1, SameFilesShape DEF BlocksAllocated, disk, Basic, Shape
<1>6. ToolOK'
  <2>1. Stage("cp", {3})' /\ tool'.inode = tool.inode
    BY <1>2, <1>3, NextStage DEF Stage
  <2>2. tool.inode \in inode_bitmap /\ ~IsDir(tool.inode)
    BY <1>2 DEF Basic, ToolOK, TakesInode, Stage
  <2>3. tool'.inode \in inode_bitmap' /\ ~IsDir(tool.inode)'
    BY <2>1, <2>2 DEF IsDir, BlocksAllocated, disk
  <2>. QED  BY <1>3, <2>1, <2>3 DEF ToolOK, TakesInode, Stage
<1>. QED  BY <1>4, <1>5, <1>6 DEF Basic

LEMMA BasicCountDir ==
  ASSUME Basic, CountDir
  PROVE  Basic'
<1>1. SameFiles /\ \A j : IsDir(j)' <=> IsDir(j)
  BY DEF CountDir, SameFiles, IsDir
<1>2. Stage("mkdir", {5}) /\ tool \in Tool
  BY AtIs DEF CountDir, Basic, TypeOK
<1>3. tool' \in Tool /\ Advanced(tool) /\ Running'
  BY <1>1, <1>2, AdvanceRunning DEF CountDir, Stage
<1>4. TypeOK'
  BY <1>3 DEF CountDir, Basic, TypeOK, Advance
<1>5. Shape'
  BY <1>1, SameFilesShape DEF CountDir, Basic, Shape
<1>6. ToolOK'
  BY <1>2, <1>3, NextStage, IdleToolOK
<1>. QED  BY <1>4, <1>5, <1>6 DEF Basic

LEMMA BasicCountLink ==
  ASSUME Basic, CountLink
  PROVE  Basic'
<1>1. Stage("ln", {2}) /\ tool \in Tool
  BY AtIs DEF CountLink, Basic, TypeOK
<1>2. tool.parent \in Inode \cup {Root}
  BY <1>1 DEF Basic, ToolOK, Running, Stage, IsDir
<1>3. /\ table' \in [Inode \cup {Root} ->
                  [mode : {"none", "DIR", "REG"}, links : Nat,
                   block : Seq(Block \cup {RootBlock})]]
      /\ \A i \in Inode \cup {Root} :
           table'[i].mode = table[i].mode /\ table'[i].block = table[i].block
  <2>. DEFINE Record == [mode : {"none", "DIR", "REG"}, links : Nat,
                         block : Seq(Block \cup {RootBlock})]
  <2>1. table \in [Inode \cup {Root} -> Record] /\ table[tool.parent] \in Record
    BY <1>2 DEF Basic, TypeOK
  <2>2. PICK r : r = [table[tool.parent] EXCEPT !.links = table[tool.parent].links + 1]
    OBVIOUS
  <2>3. r \in Record /\ r.mode = table[tool.parent].mode /\ r.block = table[tool.parent].block
    <3>1. PICK o \in Record : o = table[tool.parent]
      BY <2>1
    <3>2. [o EXCEPT !.links = o.links + 1] \in Record
      OBVIOUS
    <3>. QED  BY <2>2, <3>1, <3>2
  <2>4. table' = [table EXCEPT ![tool.parent] = r]
    BY <2>2 DEF CountLink
  <2>. QED  BY <2>1, <2>3, <2>4
<1>4. SameFiles /\ \A j : IsDir(j)' <=> IsDir(j)
  BY <1>3 DEF CountLink, SameFiles, IsDir
<1>5. tool' \in Tool /\ Advanced(tool) /\ Running'
  BY <1>1, <1>4, AdvanceRunning DEF CountLink, Stage
<1>6. TypeOK'
  BY <1>3, <1>5 DEF CountLink, Basic, TypeOK, Advance
<1>7. Shape'
  BY <1>4, SameFilesShape DEF CountLink, Basic, Shape
<1>8. ToolOK'
  BY <1>1, <1>5, NextStage, IdleToolOK
<1>. QED  BY <1>6, <1>7, <1>8 DEF Basic

LEMMA BasicFreeInode ==
  ASSUME Basic, FreeInode
  PROVE  Basic'
<1>1. SameFiles /\ \A j : IsDir(j)' <=> IsDir(j)
  BY DEF FreeInode, SameFiles, IsDir
<1>2. Stage("rm", {2}) /\ tool \in Tool
  BY AtIs DEF FreeInode, Basic, TypeOK
<1>3. tool' \in Tool /\ Advanced(tool) /\ Running'
  BY <1>1, <1>2, AdvanceRunning DEF FreeInode, Stage
<1>4. TypeOK'
  BY <1>3 DEF FreeInode, Basic, TypeOK, Advance
<1>5. tool.inode \in Inode /\ table[tool.inode].mode = "REG"
  BY <1>2 DEF Basic, ToolOK, Stage
<1>6. Shape'
  <2>1. \A i \in Inode : IsDir(i) => i \in inode_bitmap'
    BY <1>5 DEF FreeInode, Basic, Shape, IsDir
  <2>. QED  BY <1>1, <2>1, SameFilesShape DEF Basic
<1>7. ToolOK'
  <2>1. Stage("rm", {3})' /\ tool'.inode = tool.inode
    BY <1>2, <1>3, NextStage DEF Stage
  <2>. QED  BY <1>3, <1>5, <2>1 DEF ToolOK, TakesInode, Stage, FreeInode
<1>. QED  BY <1>4, <1>6, <1>7 DEF Basic

LEMMA BasicFreeBlocks ==
  ASSUME Basic, FreeBlocks
  PROVE  Basic'
<1>1. SameFiles /\ \A j : IsDir(j)' <=> IsDir(j)
  BY DEF FreeBlocks, SameFiles, IsDir
<1>2. Stage("rm", {3}) /\ tool \in Tool
  BY AtIs DEF FreeBlocks, Basic, TypeOK
<1>3. tool' \in Tool /\ Advanced(tool) /\ Running'
  BY <1>1, <1>2, AdvanceRunning DEF FreeBlocks, Stage
<1>4. TypeOK'
  BY <1>3 DEF FreeBlocks, Basic, TypeOK, Advance
<1>5. Shape'
  BY <1>1, SameFilesShape DEF FreeBlocks, Basic, Shape
<1>6. ToolOK'
  <2>1. Stage("rm", {4})' /\ tool'.inode = tool.inode
    BY <1>2, <1>3, NextStage DEF Stage
  <2>2. tool.inode \in Inode /\ table[tool.inode].mode = "REG"
    BY <1>2 DEF Basic, ToolOK, Stage
  <2>. QED  BY <1>3, <2>1, <2>2 DEF ToolOK, TakesInode, Stage, FreeBlocks
<1>. QED  BY <1>4, <1>5, <1>6 DEF Basic

LEMMA BasicFreeCounts ==
  ASSUME Basic, FreeCounts
  PROVE  Basic'
<1>1. SameFiles /\ \A j : IsDir(j)' <=> IsDir(j)
  BY DEF FreeCounts, SameFiles, IsDir
<1>2. Stage("rm", {4}) /\ tool \in Tool
  BY AtIs DEF FreeCounts, Basic, TypeOK
<1>3. tool' \in Tool /\ Advanced(tool) /\ Running'
  BY <1>1, <1>2, AdvanceRunning DEF FreeCounts, Stage
<1>4. TypeOK'
  <2>1. Freed \in Nat
    <3>1. table[tool.inode].block \in Seq(Block \cup {RootBlock})
      BY <1>2, BlocksOf DEF Basic, ToolOK, Stage
    <3>. QED  BY <3>1 DEF Freed
  <2>2. free_inodes' \in Int /\ free_blocks' \in Int
    BY <2>1 DEF FreeCounts, Basic, TypeOK
  <2>. QED  BY <1>3, <2>2 DEF FreeCounts, Basic, TypeOK, Advance
<1>5. Shape'
  BY <1>1, SameFilesShape DEF FreeCounts, Basic, Shape
<1>6. ToolOK'
  BY <1>2, <1>3, NextStage, IdleToolOK
<1>. QED  BY <1>4, <1>5, <1>6 DEF Basic

\* ext2_rm reads pointers of its file, and all of them if they fit an inode.
LEMMA PointersIs ==
  ASSUME TypeOK, NEW i \in Inode \cup {Root}
  PROVE  /\ PointersRead(i) \subseteq OwnBlocks(i)
         /\ Len(table[i].block) <= InodeRoom => PointersRead(i) = OwnBlocks(i)
<1>1. PICK s \in Seq(Block \cup {RootBlock}) : s = table[i].block
  BY BlocksOf
<1>2. PointersRead(i) =
        {s[k] : k \in {k \in 1 .. Len(s) : k <= Direct + 1 + IndirectRead}}
  BY <1>1 DEF PointersRead
<1>3. PointersRead(i) \subseteq OwnBlocks(i)
  BY <1>1, <1>2, BlocksOf
<1>4. ASSUME Len(s) <= InodeRoom, NEW b \in OwnBlocks(i)
      PROVE  b \in PointersRead(i)
  <2>1. PICK k \in 1 .. Len(s) : s[k] = b
    BY <1>1, BlocksOf
  <2>2. k <= Direct + 1 + IndirectRead
    BY <1>4, <2>1, SizesAssumption
  <2>. QED  BY <1>2, <2>1, <2>2
<1>. QED  BY <1>1, <1>3, <1>4

\* A tool that ends before its last step, or is killed.
LEMMA BasicEnded ==
  ASSUME Basic, UNCHANGED <<disk, runs>>, tool' = Idle,
         \/ unmade' = unmade /\ killed' = killed /\ image' \in {"sound", "severed", "undefined"}
         \/ Kill
  PROVE  Basic'
<1>1. SameFiles /\ \A j : IsDir(j)' <=> IsDir(j)
  BY DEF disk, SameFiles, IsDir
<1>2. /\ unmade' \subseteq Inode /\ killed' \in BOOLEAN
      /\ image' \in {"sound", "severed", "undefined"} /\ (unmade' # {} => killed')
  <2>1. CASE unmade' = unmade /\ killed' = killed /\ image' \in {"sound", "severed", "undefined"}
    BY <2>1 DEF Basic, TypeOK, ToolOK, Running
  <2>2. CASE Kill
    <3>1. HalfMade => tool.inode \in Inode
      BY HalfMadeIs DEF Basic, ToolOK, TakesInode, Stage, TypeOK
    <3>. QED  BY <2>2, <3>1 DEF Basic, TypeOK, Kill
  <2>. QED  BY <2>1, <2>2
<1>3. TypeOK'
  BY <1>2, IdleIs DEF disk, Basic, TypeOK
<1>4. Shape'
  BY <1>1, SameFilesShape DEF disk, Basic, Shape
<1>5. ToolOK'
  BY <1>2, IdleIs, IdleToolOK DEF Running
<1>. QED  BY <1>3, <1>4, <1>5 DEF Basic

LEMMA BasicStutter == ASSUME Basic, UNCHANGED vars PROVE Basic'
<1>1. SameFiles
  BY DEF vars, disk, SameFiles
<1>2. TypeOK'
  BY DEF vars, disk, Basic, TypeOK
<1>3. Shape'
  BY <1>1, SameFilesShape DEF vars, disk, Basic, Shape
<1>4. ToolOK'
  <2>1. Lookup(tool.parent, tool.name)' = Lookup(tool.parent, tool.name)
    BY DEF vars, disk, Lookup
  <2>. QED  BY <2>1 DEF vars, disk, Basic, ToolOK, Running, Sound, Stage, TakesInode, IsDir
<1>. QED  BY <1>2, <1>3, <1>4 DEF Basic

\* A number becomes that of an inode that is not a directory: no directory
\* loses a block or a record.
LEMMA BasicWriteFileInode ==
  ASSUME Basic, WriteFileInode
  PROVE  /\ Basic'
         /\ tool.inode \in Inode /\ ~IsDir(tool.inode)
         /\ \A j : IsDir(j)' <=> IsDir(j)
         /\ \A j \in Inode \cup {Root} : j # tool.inode => table'[j] = table[j]
         /\ table'[tool.inode].block = tool.got
<1>. DEFINE r == [mode |-> "REG", links |-> 1, block |-> tool.got]
<1>1. Stage("cp", {3}) /\ tool \in Tool
  BY AtIs DEF WriteFileInode, Basic, TypeOK, Stage
<1>2. tool.inode \in Inode /\ tool.inode \in inode_bitmap /\ ~IsDir(tool.inode)
  BY <1>1 DEF Basic, TypeOK, ToolOK, TakesInode, Stage
<1>3. /\ table' = [table EXCEPT ![tool.inode] = r]
      /\ \A j \in Inode \cup {Root} : j # tool.inode => table'[j] = table[j]
      /\ table'[tool.inode] = r
  BY <1>2 DEF WriteFileInode, Basic, TypeOK
<1>4. \A j : IsDir(j)' <=> IsDir(j)
  BY <1>2, <1>3 DEF IsDir
<1>5. tool' \in Tool /\ Advanced(tool) /\ Running'
  BY <1>1, <1>4, AdvanceRunning DEF WriteFileInode, Stage
<1>6. TypeOK'
  <2>1. tool.got \in Seq(Block)
    BY <1>1 DEF Tool
  <2>2. tool.got \in Seq(Block \cup {RootBlock})
    BY <2>1
  <2>3. table' \in [Inode \cup {Root} ->
                  [mode : {"none", "DIR", "REG"}, links : Nat,
                   block : Seq(Block \cup {RootBlock})]]
    BY <1>2, <1>3, <2>2 DEF Basic, TypeOK
  <2>. QED  BY <1>5, <2>3 DEF WriteFileInode, Basic, TypeOK, Advance
<1>7. \A d : IsDir(d) => table'[d] = table[d] /\ OwnBlocks(d)' = OwnBlocks(d)
  BY <1>2, <1>3 DEF IsDir, OwnBlocks
<1>8. Shape'
  <2>1. IsDir(Root)' /\ \A i \in Inode : IsDir(i)' => i \in inode_bitmap'
    BY <1>4 DEF Basic, Shape, WriteFileInode
  <2>2. \A d : IsDir(d)' => table'[d].block # <<>>
    BY <1>4, <1>7 DEF Basic, Shape
  <2>3. \A b \in DOMAIN entries' : \A k \in 1 .. Len(entries'[b]) :
          entries'[b][k].name \notin Name => IsDir(entries[b][k].inode)'
    BY <1>4 DEF Basic, Shape, WriteFileInode
  <2>4. \A b \in DOMAIN entries' :
          entries'[b] # <<>> => \E d \in Inode \cup {Root} : IsDir(d)' /\ b \in OwnBlocks(d)'
    BY <1>4, <1>7 DEF Basic, Shape, WriteFileInode
  <2>. QED  BY <2>1, <2>2, <2>3, <2>4 DEF Shape
<1>9. ToolOK'
  <2>1. Stage("cp", {4})' /\ tool'.inode = tool.inode
    BY <1>1, <1>5, NextStage DEF Stage
  <2>2. tool'.inode \in inode_bitmap' /\ ~IsDir(tool.inode)' /\ table'[tool'.inode].mode = "REG"
    BY <1>2, <1>3, <2>1 DEF IsDir, WriteFileInode
  <2>. QED  BY <1>5, <2>1, <2>2 DEF ToolOK, TakesInode, Stage
<1>. QED  BY <1>2, <1>3, <1>4, <1>6, <1>8, <1>9 DEF Basic

\* The block a tool takes.
LEMMA NewBlockIs ==
  ASSUME ClearBlocks # {}
  PROVE  NewBlock \in Block \ block_bitmap
<1>1. ClearBlocks \in SUBSET Nat
  BY BlockAssumption DEF ClearBlocks
<1>. QED  BY <1>1, MinOf DEF ClearBlocks, NewBlock

LEMMA BasicWriteDirInode ==
  ASSUME Basic, WriteDirInode
  PROVE  /\ Basic'
         /\ tool.inode \in Inode /\ ~IsDir(tool.inode)
         /\ \A j : IsDir(j)' <=> IsDir(j) \/ j = tool.inode
         /\ \A j \in Inode \cup {Root} : j # tool.inode => table'[j] = table[j]
         /\ table'[tool.inode].block = <<NewBlock>>
<1>1. Stage("mkdir", {3}) /\ tool \in Tool
  BY AtIs DEF WriteDirInode, Basic, TypeOK, Stage
<1>2. tool.inode \in Inode /\ tool.inode \in inode_bitmap /\ ~IsDir(tool.inode)
  BY <1>1 DEF Basic, TypeOK, ToolOK, TakesInode, Stage
<1>3. PICK b \in Block : b = NewBlock
  BY NewBlockIs DEF WriteDirInode
<1>4. PICK r : r = [mode |-> "DIR", links |-> 2, block |-> <<b>>]
  OBVIOUS
<1>5. /\ table' = [table EXCEPT ![tool.inode] = r]
      /\ \A j \in Inode \cup {Root} : j # tool.inode => table'[j] = table[j]
      /\ table'[tool.inode] = r
  BY <1>2, <1>3, <1>4 DEF WriteDirInode, Basic, TypeOK
<1>6. \A j : IsDir(j)' <=> IsDir(j) \/ j = tool.inode
  BY <1>2, <1>4, <1>5 DEF IsDir
<1>7. tool' \in Tool /\ Advanced(tool) /\ Running'
  BY <1>1, <1>6, AdvanceRunning DEF WriteDirInode, Stage
<1>8. TypeOK'
  <2>1. <<b>> \in Seq(Block \cup {RootBlock})
    BY <1>3
  <2>2. table' \in [Inode \cup {Root} ->
                  [mode : {"none", "DIR", "REG"}, links : Nat,
                   block : Seq(Block \cup {RootBlock})]]
    BY <1>2, <1>4, <1>5, <2>1 DEF Basic, TypeOK
  <2>3. block_bitmap' \subseteq Block /\ free_blocks' \in Int
    BY <1>3 DEF WriteDirInode, TakeBlock, Basic, TypeOK
  <2>. QED  BY <1>7, <2>2, <2>3 DEF WriteDirInode, Basic, TypeOK, Advance
<1>9. \A d : IsDir(d) => table'[d] = table[d] /\ OwnBlocks(d)' = OwnBlocks(d)
  BY <1>2, <1>5 DEF IsDir, OwnBlocks
<1>10. Shape'
  <2>1. IsDir(Root)' /\ \A i \in Inode : IsDir(i)' => i \in inode_bitmap'
    BY <1>2, <1>6 DEF Basic, Shape, WriteDirInode
  <2>2. \A d : IsDir(d)' => table'[d].block # <<>>
    BY <1>4, <1>5, <1>6, <1>9 DEF Basic, Shape
  <2>3. \A c \in DOMAIN entries' : \A k \in 1 .. Len(entries'[c]) :
          entries'[c][k].name \notin Name => IsDir(entries[c][k].inode)'
    BY <1>6 DEF Basic, Shape, WriteDirInode
  <2>4. \A c \in DOMAIN entries' :
          entries'[c] # <<>> => \E d \in Inode \cup {Root} : IsDir(d)' /\ c \in OwnBlocks(d)'
    BY <1>6, <1>9 DEF Basic, Shape, WriteDirInode
  <2>. QED  BY <2>1, <2>2, <2>3, <2>4 DEF Shape
<1>11. ToolOK'
  <2>1. Stage("mkdir", {4})' /\ tool'.inode = tool.inode
    BY <1>1, <1>7, NextStage DEF Stage
  <2>2. tool'.inode \in inode_bitmap' /\ IsDir(tool.inode)'
    BY <1>2, <1>4, <1>5, <2>1 DEF IsDir, WriteDirInode
  <2>. QED  BY <1>7, <2>1, <2>2 DEF ToolOK, TakesInode, Stage
<1>. QED  BY <1>2, <1>3, <1>4, <1>5, <1>6, <1>8, <1>10, <1>11 DEF Basic

LEMMA BasicWriteDots ==
  ASSUME Basic, WriteDots
  PROVE  /\ Basic'
         /\ \A j : IsDir(j)' <=> IsDir(j)
         /\ IsDir(tool.inode) /\ IsDir(tool.parent)
         /\ \A j : HasRecord(j)' => HasRecord(j) \/ IsDir(j)
<1>1. Stage("mkdir", {4}) /\ tool \in Tool
  BY AtIs DEF WriteDots, Basic, TypeOK, Stage
<1>2. tool.inode \in Inode /\ tool.inode \in inode_bitmap /\ IsDir(tool.inode) /\ IsDir(tool.parent)
  BY <1>1 DEF Basic, TypeOK, ToolOK, Running, Stage
<1>3. PICK c \in Block \cup {RootBlock} :
        c = table[tool.inode].block[1] /\ c \in OwnBlocks(tool.inode)
  <2>1. table[tool.inode].block \in Seq(Block \cup {RootBlock}) /\ table[tool.inode].block # <<>>
    BY <1>2, BlocksOf DEF Basic, Shape
  <2>2. 1 \in 1 .. Len(table[tool.inode].block)
    BY <2>1
  <2>. QED  BY <1>2, <2>2, BlocksOf DEF Basic
<1>r. PICK R : R = Dots(tool.inode)
  OBVIOUS
<1>4. R \in Seq(Entry) /\ Len(R) = 2 /\ \A k \in 1 .. 2 : IsDir(R[k].inode)
  <2>1. E(".", tool.inode) \in Entry /\ E("..", tool.parent) \in Entry
    BY <1>2 DEF E, Entry, IsDir
  <2>2. R = <<E(".", tool.inode), E("..", tool.parent)>>
    BY <1>r DEF Dots
  <2>3. /\ R \in Seq(Entry) /\ Len(R) = 2
        /\ R[1] = E(".", tool.inode) /\ R[2] = E("..", tool.parent)
    BY <2>1, <2>2, PairIs
  <2>4. R[1].inode = tool.inode /\ R[2].inode = tool.parent
    BY <2>3 DEF E
  <2>. QED  BY <1>2, <2>3, <2>4
<1>5. /\ \A b \in Block \cup {RootBlock} : b # c => entries'[b] = entries[b]
      /\ entries'[c] = R /\ entries' \in [Block \cup {RootBlock} -> Seq(Entry)]
  BY <1>3, <1>4, <1>r DEF WriteDots, Basic, TypeOK
<1>6. table' = table /\ inode_bitmap' = inode_bitmap /\ DOMAIN entries = Block \cup {RootBlock}
      /\ DOMAIN entries' = Block \cup {RootBlock}
  BY <1>5 DEF WriteDots, Basic, TypeOK
<1>7. \A j : IsDir(j)' <=> IsDir(j)
  BY <1>6 DEF IsDir
<1>8. tool' \in Tool /\ Advanced(tool) /\ Running'
  BY <1>1, <1>7, AdvanceRunning DEF WriteDots, Stage
<1>9. TypeOK'
  <2>1. \A b \in DOMAIN entries' : Len(entries'[b]) <= EntriesPerBlock
    BY <1>4, <1>5, <1>6, SizesAssumption DEF Basic, TypeOK
  <2>. QED  BY <1>5, <1>8, <2>1 DEF WriteDots, Basic, TypeOK, Advance
<1>10. Shape'
  <2>1. IsDir(Root)' /\ \A i \in Inode : IsDir(i)' => i \in inode_bitmap'
    BY <1>6, <1>7 DEF Basic, Shape
  <2>2. \A d : IsDir(d)' => table'[d].block # <<>>
    BY <1>6, <1>7 DEF Basic, Shape
  <2>3. \A b \in DOMAIN entries' : \A k \in 1 .. Len(entries'[b]) :
          entries'[b][k].name \notin Name => IsDir(entries[b][k].inode)'
    <3>1. \A k \in 1 .. Len(entries'[c]) : IsDir(entries[c][k].inode)'
      BY <1>4, <1>5, <1>7
    <3>. QED  BY <1>5, <1>6, <1>7, <3>1 DEF Basic, Shape
  <2>4. \A b \in DOMAIN entries' :
          entries'[b] # <<>> => \E d \in Inode \cup {Root} : IsDir(d)' /\ b \in OwnBlocks(d)'
    BY <1>2, <1>3, <1>5, <1>6, <1>7 DEF Basic, Shape, OwnBlocks
  <2>. QED  BY <2>1, <2>2, <2>3, <2>4 DEF Shape
<1>11. ToolOK'
  <2>1. Stage("mkdir", {5})' /\ tool'.inode = tool.inode
    BY <1>1, <1>8, NextStage DEF Stage
  <2>2. tool'.inode \in inode_bitmap' /\ IsDir(tool.inode)'
    BY <1>2, <1>6, <2>1 DEF IsDir
  <2>. QED  BY <1>8, <2>1, <2>2 DEF ToolOK, TakesInode, Stage
<1>12. ASSUME NEW j, HasRecord(j)' PROVE HasRecord(j) \/ IsDir(j)
  BY <1>4, <1>5, <1>6, <1>12 DEF HasRecord
<1>. QED  BY <1>2, <1>7, <1>9, <1>10, <1>11, <1>12 DEF Basic

\* The record a tool adds, and the block it looks for room in.
LEMMA NewEntryIs ==
  ASSUME Basic, At("entry")
  PROVE  /\ tool \in Tool /\ IsDir(tool.parent) /\ tool.inode \in Inode
         /\ Stage("mkdir", {2}) \/ Stage("cp", {4}) \/ Stage("ln", {1})
         /\ NewEntry \in Entry /\ NewEntry.inode = tool.inode
         /\ NewEntry.name = tool.name /\ tool.name \in Name
         /\ EntryBlock \in OwnBlocks(tool.parent) /\ EntryBlock \in Block \cup {RootBlock}
<1>1. Stage("mkdir", {2}) \/ Stage("cp", {4}) \/ Stage("ln", {1})
  BY AtIs DEF Basic
<1>2. tool.inode \in Inode /\ IsDir(tool.parent) /\ tool.name \in Name /\ tool \in Tool
  BY <1>1 DEF Basic, TypeOK, ToolOK, Running, TakesInode, Stage
<1>3. NewEntry \in Entry /\ NewEntry.inode = tool.inode /\ NewEntry.name = tool.name
  BY <1>2 DEF NewEntry, E, Entry
<1>4. EntryBlock \in OwnBlocks(tool.parent)
  <2>1. PICK s \in Seq(Block \cup {RootBlock}) :
          s = table[tool.parent].block /\ s # <<>>
          /\ \A k \in 1 .. Len(s) : s[k] \in OwnBlocks(tool.parent)
    BY <1>2, BlocksOf DEF Basic, Shape, IsDir
  <2>2. EntryBlock = s[Len(s)] \/ EntryBlock = s[1]
    BY <2>1 DEF EntryBlock, Last
  <2>. QED  BY <2>1, <2>2
<1>. QED  BY <1>1, <1>2, <1>3, <1>4, BlocksOf DEF Basic, IsDir

LEMMA BasicAddEntry ==
  ASSUME Basic, AddEntry
  PROVE  /\ Basic'
         /\ \A j : IsDir(j)' <=> IsDir(j)
         /\ \A j : HasRecord(j)' => HasRecord(j) \/ j = tool.inode
<1>1. PICK c \in Block \cup {RootBlock} :
        c = EntryBlock /\ c \in OwnBlocks(tool.parent)
  BY NewEntryIs DEF AddEntry
<1>r. PICK R : R = Append(entries[c], NewEntry)
  OBVIOUS
<1>2. /\ R \in Seq(Entry) /\ Len(R) = Len(entries[c]) + 1
      /\ \A k \in 1 .. Len(entries[c]) : R[k] = entries[c][k]
      /\ R[Len(R)] = NewEntry
  <2>1. entries[c] \in Seq(Entry) /\ NewEntry \in Entry
    BY <1>1, NewEntryIs DEF AddEntry, Basic, TypeOK
  <2>. QED  BY <1>r, <2>1, AppendIs
<1>3. /\ \A b \in Block \cup {RootBlock} : b # c => entries'[b] = entries[b]
      /\ entries'[c] = R /\ entries' \in [Block \cup {RootBlock} -> Seq(Entry)]
  BY <1>1, <1>2, <1>r DEF AddEntry, Basic, TypeOK
<1>4. table' = table /\ inode_bitmap' = inode_bitmap /\ DOMAIN entries = Block \cup {RootBlock}
      /\ DOMAIN entries' = Block \cup {RootBlock}
  BY <1>3 DEF AddEntry, Basic, TypeOK
<1>5. \A j : IsDir(j)' <=> IsDir(j)
  BY <1>4 DEF IsDir
<1>6. tool.cmd # "none" /\ tool \in Tool
  BY NewEntryIs DEF AddEntry, Stage
<1>7. tool' \in Tool /\ Advanced(tool) /\ Running'
  BY <1>5, <1>6, AdvanceRunning DEF AddEntry
<1>8. entries[c] \in Seq(Entry) /\ Len(entries[c]) < EntriesPerBlock
  BY <1>1 DEF AddEntry, Room, Basic, TypeOK
<1>9. TypeOK'
  <2>1. \A b \in DOMAIN entries' : Len(entries'[b]) <= EntriesPerBlock
    <3>1. Len(entries'[c]) <= EntriesPerBlock
      BY <1>2, <1>3, <1>8, SizesAssumption
    <3>. QED  BY <1>3, <1>4, <3>1 DEF Basic, TypeOK
  <2>. QED  BY <1>3, <1>7, <2>1 DEF AddEntry, Basic, TypeOK, Advance
<1>10. Shape'
  <2>1. IsDir(Root)' /\ \A i \in Inode : IsDir(i)' => i \in inode_bitmap'
    BY <1>4, <1>5 DEF Basic, Shape
  <2>2. \A d : IsDir(d)' => table'[d].block # <<>>
    BY <1>4, <1>5 DEF Basic, Shape
  <2>3. \A b \in DOMAIN entries' : \A k \in 1 .. Len(entries'[b]) :
          entries'[b][k].name \notin Name => IsDir(entries[b][k].inode)'
    <3>1. ASSUME NEW k \in 1 .. Len(entries'[c]), entries'[c][k].name \notin Name
          PROVE  IsDir(entries[c][k].inode)'
      <4>1. k # Len(R)
        BY <1>2, <1>3, <3>1, NewEntryIs DEF AddEntry
      <4>2. k \in 1 .. Len(entries[c])
        BY <1>2, <1>3, <1>8, <4>1
      <4>. QED  BY <1>2, <1>3, <1>4, <1>5, <3>1, <4>2 DEF Basic, Shape
    <3>. QED  BY <1>3, <1>4, <1>5, <3>1 DEF Basic, Shape
  <2>4. \A b \in DOMAIN entries' :
          entries'[b] # <<>> => \E d \in Inode \cup {Root} : IsDir(d)' /\ b \in OwnBlocks(d)'
    BY <1>1, <1>3, <1>4, <1>5, NewEntryIs DEF AddEntry, Basic, Shape, OwnBlocks, IsDir
  <2>. QED  BY <2>1, <2>2, <2>3, <2>4 DEF Shape
<1>11. ToolOK'
  <2>1. CASE Stage("mkdir", {2})
    <3>1. Stage("mkdir", {3})' /\ tool'.inode = tool.inode
      BY <1>7, <2>1, NextStage DEF Stage
    <3>2. tool.inode \in inode_bitmap /\ ~IsDir(tool.inode)
      BY <2>1 DEF Basic, ToolOK, TakesInode, Stage
    <3>3. tool'.inode \in inode_bitmap' /\ ~IsDir(tool.inode)'
      BY <1>4, <3>1, <3>2 DEF IsDir
    <3>. QED  BY <1>7, <3>1, <3>3 DEF ToolOK, TakesInode, Stage
  <2>2. CASE Stage("cp", {4})
    BY <1>7, <2>2, NextStage, IdleToolOK
  <2>3. CASE Stage("ln", {1})
    <3>1. Stage("ln", {2})' /\ tool'.inode = tool.inode
      BY <1>7, <2>3, NextStage DEF Stage
    <3>2. tool.inode \in Inode /\ table[tool.inode].mode = "REG"
      BY <2>3 DEF Basic, ToolOK, Stage
    <3>. QED  BY <1>4, <1>7, <3>1, <3>2 DEF ToolOK, TakesInode, Stage
  <2>. QED  BY <2>1, <2>2, <2>3, NewEntryIs DEF AddEntry
<1>12. ASSUME NEW j, HasRecord(j)' PROVE HasRecord(j) \/ j = tool.inode
  <2>1. PICK b \in DOMAIN entries' : \E k \in 1 .. Len(entries'[b]) : entries'[b][k].inode = j
    BY <1>12 DEF HasRecord
  <2>2. PICK k \in 1 .. Len(entries'[b]) : entries'[b][k].inode = j
    BY <2>1
  <2>3. CASE b = c /\ k = Len(R)
    BY <1>2, <1>3, <2>2, <2>3, NewEntryIs DEF AddEntry
  <2>4. CASE b = c /\ k # Len(R)
    <3>1. k \in 1 .. Len(entries[c])
      BY <1>2, <1>3, <1>8, <2>4
    <3>. QED  BY <1>2, <1>3, <1>4, <2>2, <2>4, <3>1 DEF HasRecord
  <2>5. CASE b # c
    BY <1>3, <1>4, <2>2, <2>5 DEF HasRecord
  <2>. QED  BY <2>3, <2>4, <2>5
<1>. QED  BY <1>5, <1>9, <1>10, <1>11, <1>12 DEF Basic

LEMMA BasicGrowDirectory ==
  ASSUME Basic, GrowDirectory
  PROVE  /\ Basic'
         /\ \A j : IsDir(j)' <=> IsDir(j)
         /\ \A j : HasRecord(j)' => HasRecord(j) \/ j = tool.inode
         /\ \A j \in Inode \cup {Root} : j # tool.parent => table'[j] = table[j]
         /\ table'[tool.parent].block = Append(table[tool.parent].block, NewBlock)
<1>1. PICK c \in Block : c = NewBlock
  BY NewBlockIs DEF GrowDirectory
<1>2. /\ tool \in Tool /\ IsDir(tool.parent) /\ tool.inode \in Inode
      /\ Stage("mkdir", {2}) \/ Stage("cp", {4}) \/ Stage("ln", {1})
      /\ NewEntry \in Entry /\ NewEntry.inode = tool.inode
      /\ NewEntry.name = tool.name /\ tool.name \in Name
  BY NewEntryIs DEF GrowDirectory
<1>p. PICK p \in Inode \cup {Root} : p = tool.parent
  BY <1>2 DEF IsDir
<1>3. PICK R : R = <<NewEntry>>
  OBVIOUS
<1>4. R \in Seq(Entry) /\ Len(R) = 1 /\ R[1] = NewEntry
  BY <1>2, <1>3
<1>5. /\ \A b \in Block \cup {RootBlock} : b # c => entries'[b] = entries[b]
      /\ entries'[c] = R /\ entries' \in [Block \cup {RootBlock} -> Seq(Entry)]
  BY <1>1, <1>3, <1>4 DEF GrowDirectory, Basic, TypeOK
<1>6. inode_bitmap' = inode_bitmap /\ DOMAIN entries = Block \cup {RootBlock}
      /\ DOMAIN entries' = Block \cup {RootBlock}
  BY <1>5 DEF GrowDirectory, Basic, TypeOK
<1>. DEFINE Record == [mode : {"none", "DIR", "REG"}, links : Nat,
                       block : Seq(Block \cup {RootBlock})]
<1>7. table \in [Inode \cup {Root} -> Record] /\ table[p] \in Record
  BY <1>2 DEF Basic, TypeOK
<1>8. PICK s : s = Append(table[p].block, c)
  OBVIOUS
<1>9. /\ s \in Seq(Block \cup {RootBlock}) /\ s # <<>>
      /\ Len(s) = Len(table[p].block) + 1
      /\ \A k \in 1 .. Len(table[p].block) : s[k] = table[p].block[k]
      /\ s[Len(s)] = c
  <2>1. table[p].block \in Seq(Block \cup {RootBlock}) /\ c \in Block \cup {RootBlock}
    BY <1>1, <1>2, BlocksOf DEF Basic
  <2>. HIDE DEF Record
  <2>2. /\ s \in Seq(Block \cup {RootBlock})
        /\ Len(s) = Len(table[p].block) + 1
        /\ \A k \in 1 .. Len(table[p].block) : s[k] = table[p].block[k]
        /\ s[Len(table[p].block) + 1] = c
    BY <1>8, <2>1, AppendIs
  <2>. QED  BY <2>1, <2>2
<1>10. PICK r : r = [table[p] EXCEPT !.block = s]
  OBVIOUS
<1>11. r \in Record /\ r.mode = table[p].mode /\ r.block = s
  BY <1>7, <1>9, <1>10
<1>12. table' = [table EXCEPT ![p] = r]
  BY <1>p, <1>1, <1>8, <1>10 DEF GrowDirectory
<1>13. /\ table' \in [Inode \cup {Root} -> Record] /\ table'[p] = r
       /\ \A j \in Inode \cup {Root} : j # p => table'[j] = table[j]
  BY <1>2, <1>7, <1>11, <1>12
<1>14. \A j : IsDir(j)' <=> IsDir(j)
  BY <1>11, <1>13 DEF IsDir
<1>15. tool' \in Tool /\ Advanced(tool) /\ Running'
  BY <1>2, <1>14, AdvanceRunning DEF GrowDirectory, Stage
<1>16. TypeOK'
  <2>1. block_bitmap' \subseteq Block /\ free_blocks' \in Int
    BY <1>1 DEF GrowDirectory, TakeBlock, Basic, TypeOK
  <2>2. \A b \in DOMAIN entries' : Len(entries'[b]) <= EntriesPerBlock
    <3>1. Len(entries'[c]) = 1
      BY <1>4, <1>5
    <3>2. Len(entries'[c]) <= EntriesPerBlock
      BY <3>1, SizesAssumption
    <3>. QED  BY <1>5, <1>6, <3>2 DEF Basic, TypeOK
  <2>. QED  BY <1>5, <1>13, <1>15, <2>1, <2>2 DEF GrowDirectory, Basic, TypeOK, Advance
<1>17. \A d \in Inode \cup {Root} :
         OwnBlocks(d)' = OwnBlocks(d) \cup (IF d = p THEN {c} ELSE {})
  <2>1. ToSet(s) = ToSet(table[p].block) \cup {c}
    <3>1. table[p].block \in Seq(Block \cup {RootBlock}) /\ c \in Block \cup {RootBlock}
      BY <1>1, BlocksOf DEF Basic
    <3>. QED  BY <1>8, <3>1, AppendSet
  <2>. QED  BY <1>11, <1>13, <2>1 DEF OwnBlocks
<1>18. Shape'
  <2>1. IsDir(Root)' /\ \A i \in Inode : IsDir(i)' => i \in inode_bitmap'
    BY <1>6, <1>14 DEF Basic, Shape
  <2>2. \A d : IsDir(d)' => table'[d].block # <<>>
    BY <1>9, <1>11, <1>13, <1>14 DEF Basic, Shape, IsDir
  <2>3. \A b \in DOMAIN entries' : \A k \in 1 .. Len(entries'[b]) :
          entries'[b][k].name \notin Name => IsDir(entries[b][k].inode)'
    <3>1. \A k \in 1 .. Len(entries'[c]) : entries'[c][k].name \in Name
      <4>1. \A k \in 1 .. Len(R) : R[k].name \in Name
        BY <1>2, <1>4
      <4>. QED  BY <1>5, <4>1
    <3>. QED  BY <1>5, <1>6, <1>14, <3>1 DEF Basic, Shape
  <2>4. \A b \in DOMAIN entries' :
          entries'[b] # <<>> => \E d \in Inode \cup {Root} : IsDir(d)' /\ b \in OwnBlocks(d)'
    <3>1. c \in OwnBlocks(p)' /\ IsDir(p)'
      BY <1>p, <1>2, <1>14, <1>17
    <3>. QED  BY <1>5, <1>6, <1>14, <1>17, <3>1 DEF Basic, Shape
  <2>. QED  BY <2>1, <2>2, <2>3, <2>4 DEF Shape
<1>19. ToolOK'
  <2>1. CASE Stage("mkdir", {2})
    <3>1. Stage("mkdir", {3})' /\ tool'.inode = tool.inode
      BY <1>15, <2>1, NextStage DEF Stage
    <3>2. tool.inode \in inode_bitmap /\ ~IsDir(tool.inode)
      BY <2>1 DEF Basic, ToolOK, TakesInode, Stage
    <3>3. tool'.inode \in inode_bitmap' /\ ~IsDir(tool.inode)'
      BY <1>6, <1>14, <3>1, <3>2 DEF IsDir
    <3>. QED  BY <1>15, <3>1, <3>3 DEF ToolOK, TakesInode, Stage
  <2>2. CASE Stage("cp", {4})
    BY <1>15, <2>2, NextStage, IdleToolOK
  <2>. QED  BY <1>2, <2>1, <2>2 DEF GrowDirectory, Stage
<1>20. ASSUME NEW j, HasRecord(j)' PROVE HasRecord(j) \/ j = tool.inode
  BY <1>2, <1>4, <1>5, <1>6, <1>20 DEF HasRecord
<1>. QED  BY <1>p, <1>1, <1>8, <1>11, <1>13, <1>14, <1>16, <1>18, <1>19, <1>20 DEF Basic

\* A sequence without the record at m.
LEMMA RemoveAtIs ==
  ASSUME NEW S, NEW s \in Seq(S), NEW m \in 1 .. Len(s)
  PROVE  /\ RemoveAt(s, m) \in Seq(S)
         /\ Len(RemoveAt(s, m)) = Len(s) - 1
         /\ \A i \in 1 .. Len(s) - 1 :
              RemoveAt(s, m)[i] = IF i < m THEN s[i] ELSE s[i + 1]
<1>. DEFINE a == SubSeq(s, 1, m - 1)
            b == SubSeq(s, m + 1, Len(s))
<1>1. RemoveAt(s, m) = a \o b
  BY DEF RemoveAt
<1>2. /\ a \in Seq(S) /\ Len(a) = m - 1
      /\ \A i \in 1 .. m - 1 : a[i] = s[i]
  <2>1. \A i \in 1 .. m - 1 : s[i] \in S
    BY ElementOfSeq
  <2>. QED  BY <2>1, SubSeqProperties
<1>3. /\ b \in Seq(S) /\ Len(b) = Len(s) - m
      /\ \A i \in 1 .. Len(s) - m : b[i] = s[i + m]
  <2>1. \A i \in m + 1 .. Len(s) : s[i] \in S
    BY ElementOfSeq
  <2>. QED  BY <2>1, SubSeqProperties
<1>. HIDE DEF a, b
<1>4. /\ a \o b \in Seq(S) /\ Len(a \o b) = Len(s) - 1
      /\ \A i \in 1 .. Len(s) - 1 : (a \o b)[i] = IF i < m THEN a[i] ELSE b[i - (m - 1)]
  <2>1. /\ a \o b \in Seq(S)
        /\ Len(a \o b) = Len(a) + Len(b)
        /\ \A i \in 1 .. Len(a) + Len(b) :
             (a \o b)[i] = IF i <= Len(a) THEN a[i] ELSE b[i - Len(a)]
    BY <1>2, <1>3, ConcatProperties
  <2>2. Len(s) \in Nat
    OBVIOUS
  <2>. QED  BY <1>2, <1>3, <2>1, <2>2
<1>5. \A i \in 1 .. Len(s) - 1 : (a \o b)[i] = IF i < m THEN s[i] ELSE s[i + 1]
  <2>. TAKE i \in 1 .. Len(s) - 1
  <2>1. CASE i < m
    BY <1>2, <1>4, <2>1
  <2>2. CASE ~(i < m)
    <3>1. i - (m - 1) \in 1 .. Len(s) - m
      BY <2>2
    <3>. QED  BY <1>3, <1>4, <2>2, <3>1
  <2>. QED  BY <2>1, <2>2
<1>. QED  BY <1>1, <1>4, <1>5

\* What ext2_rm takes out of the directory.
LEMMA UnlinkIs ==
  ASSUME Basic, Unlink
  PROVE  /\ Stage("rm", {1}) /\ tool \in Tool /\ IsDir(tool.parent)
         /\ tool.inode \in Inode /\ table[tool.inode].mode = "REG"
         /\ \E b \in OwnBlocks(tool.parent) :
              /\ b = Head(table[tool.parent].block)
              /\ b \in Block \cup {RootBlock}
              /\ \/ tool' = Idle /\ UNCHANGED <<entries, runs, killed, unmade, image>>
                 \/ /\ \E m \in 1 .. Len(entries[b]) :
                         /\ entries[b][m].inode = tool.inode
                         /\ entries' = [entries EXCEPT ![b] = RemoveAt(@, m)]
                    /\ image' = IF Cardinality(NamesOf(tool.inode)) > 1 THEN "severed" ELSE image
                    /\ Advance(tool)
         /\ UNCHANGED <<inode_bitmap, block_bitmap, free_inodes, free_blocks, used_dirs, table>>
<1>1. Stage("rm", {1}) /\ tool \in Tool
  BY AtIs DEF Unlink, Basic, TypeOK
<1>2. IsDir(tool.parent) /\ tool.inode \in Inode /\ table[tool.inode].mode = "REG"
  BY <1>1 DEF Basic, ToolOK, Running, Stage
<1>3. PICK b \in OwnBlocks(tool.parent) : b = Head(table[tool.parent].block) /\ b \in Block \cup {RootBlock}
  <2>1. PICK s \in Seq(Block \cup {RootBlock}) :
          s = table[tool.parent].block /\ s # <<>>
          /\ \A k \in 1 .. Len(s) : s[k] \in OwnBlocks(tool.parent)
    BY <1>2, BlocksOf DEF Basic, Shape, IsDir
  <2>. QED  BY <2>1
<1>4. CASE Named(b) = {}
  BY <1>1, <1>2, <1>3, <1>4 DEF Unlink
<1>5. CASE Named(b) # {}
  <2>1. entries[b] \in Seq(Entry)
    BY <1>3 DEF Basic, TypeOK
  <2>2. PICK m : m = Unlinked(b)
    OBVIOUS
  <2>3. m \in Named(b)
    <3>1. Named(b) \in SUBSET Nat
      BY DEF Named
    <3>. QED  BY <1>5, <2>2, <3>1, MinOf DEF Unlinked
  <2>4. m \in 1 .. Len(entries[b]) /\ entries[b][m].inode = tool.inode
    BY <2>3 DEF Named
  <2>5. entries' = [entries EXCEPT ![b] = RemoveAt(@, m)]
    BY <1>3, <1>5, <2>2 DEF Unlink
  <2>6. /\ image' = IF Cardinality(NamesOf(tool.inode)) > 1 THEN "severed" ELSE image
        /\ Advance(tool)
        /\ UNCHANGED <<inode_bitmap, block_bitmap, free_inodes, free_blocks, used_dirs, table>>
    BY <1>3, <1>5 DEF Unlink
  <2>. QED  BY <1>1, <1>2, <1>3, <2>4, <2>5, <2>6
<1>. QED  BY <1>4, <1>5

LEMMA BasicUnlink ==
  ASSUME Basic, Unlink
  PROVE  /\ Basic'
         /\ \A j : IsDir(j)' <=> IsDir(j)
         /\ \A j : HasRecord(j)' => HasRecord(j)
<1>1. /\ Stage("rm", {1}) /\ tool \in Tool /\ IsDir(tool.parent)
      /\ tool.inode \in Inode /\ table[tool.inode].mode = "REG"
      /\ UNCHANGED <<inode_bitmap, block_bitmap, free_inodes, free_blocks, used_dirs, table>>
  BY UnlinkIs
<1>2. \A j : IsDir(j)' <=> IsDir(j)
  BY <1>1 DEF IsDir
<1>3. CASE tool' = Idle /\ UNCHANGED <<entries, runs, killed, unmade, image>>
  <2>1. Basic'
    BY <1>1, <1>3, BasicEnded DEF disk, Basic, TypeOK
  <2>. QED  BY <1>2, <1>3, <2>1 DEF HasRecord
<1>4. ASSUME NEW c \in Block \cup {RootBlock}, NEW m \in 1 .. Len(entries[c]),
             entries' = [entries EXCEPT ![c] = RemoveAt(@, m)],
             image' = IF Cardinality(NamesOf(tool.inode)) > 1 THEN "severed" ELSE image,
             Advance(tool)
      PROVE  /\ Basic'
             /\ \A j : HasRecord(j)' => HasRecord(j)
  <2>1. PICK R : R = RemoveAt(entries[c], m)
    OBVIOUS
  <2>2. entries[c] \in Seq(Entry) /\ Len(entries[c]) <= EntriesPerBlock
    BY DEF Basic, TypeOK
  <2>3. /\ R \in Seq(Entry) /\ Len(R) = Len(entries[c]) - 1
        /\ \A k \in 1 .. Len(R) : \E l \in 1 .. Len(entries[c]) : R[k] = entries[c][l]
    <3>1. /\ R \in Seq(Entry) /\ Len(R) = Len(entries[c]) - 1
          /\ \A k \in 1 .. Len(entries[c]) - 1 :
               R[k] = IF k < m THEN entries[c][k] ELSE entries[c][k + 1]
      BY <2>1, <2>2, RemoveAtIs
    <3>2. ASSUME NEW k \in 1 .. Len(R)
          PROVE  \E l \in 1 .. Len(entries[c]) : R[k] = entries[c][l]
      <4>1. k \in 1 .. Len(entries[c]) /\ k + 1 \in 1 .. Len(entries[c])
        BY <2>2, <3>1
      <4>. QED  BY <3>1, <4>1
    <3>. QED  BY <3>1, <3>2
  <2>4. /\ \A b \in Block \cup {RootBlock} : b # c => entries'[b] = entries[b]
        /\ entries'[c] = R /\ entries' \in [Block \cup {RootBlock} -> Seq(Entry)]
    BY <1>4, <2>1, <2>3 DEF Basic, TypeOK
  <2>5. DOMAIN entries = Block \cup {RootBlock} /\ DOMAIN entries' = Block \cup {RootBlock}
    BY <2>4 DEF Basic, TypeOK
  <2>6. tool' \in Tool /\ Advanced(tool) /\ Running'
    BY <1>1, <1>2, <1>4, AdvanceRunning DEF Stage
  <2>7. TypeOK'
    <3>1. \A b \in DOMAIN entries' : Len(entries'[b]) <= EntriesPerBlock
      <4>1. Len(entries'[c]) <= EntriesPerBlock
        BY <2>2, <2>3, <2>4, SizesAssumption
      <4>. QED  BY <2>4, <2>5, <4>1 DEF Basic, TypeOK
    <3>2. image' \in {"sound", "severed", "undefined"}
      BY <1>4 DEF Basic, TypeOK
    <3>. QED  BY <1>1, <1>4, <2>4, <2>6, <3>1, <3>2 DEF Basic, TypeOK, Advance
  <2>8. Shape'
    <3>1. IsDir(Root)' /\ \A i \in Inode : IsDir(i)' => i \in inode_bitmap'
      BY <1>1, <1>2 DEF Basic, Shape
    <3>2. \A d : IsDir(d)' => table'[d].block # <<>>
      BY <1>1, <1>2 DEF Basic, Shape
    <3>3. \A b \in DOMAIN entries' : \A k \in 1 .. Len(entries'[b]) :
            entries'[b][k].name \notin Name => IsDir(entries[b][k].inode)'
      <4>1. ASSUME NEW k \in 1 .. Len(R), R[k].name \notin Name PROVE IsDir(R[k].inode)
        <5>1. PICK l \in 1 .. Len(entries[c]) : R[k] = entries[c][l]
          BY <2>3
        <5>. QED  BY <2>5, <4>1, <5>1 DEF Basic, Shape
      <4>. QED  BY <1>2, <2>4, <2>5, <4>1 DEF Basic, Shape
    <3>4. \A b \in DOMAIN entries' :
            entries'[b] # <<>> => \E d \in Inode \cup {Root} : IsDir(d)' /\ b \in OwnBlocks(d)'
      <4>1. entries[c] # <<>>
        BY <2>2
      <4>. QED  BY <1>1, <1>2, <2>4, <2>5, <4>1 DEF Basic, Shape, OwnBlocks
    <3>. QED  BY <3>1, <3>2, <3>3, <3>4 DEF Shape
  <2>9. ToolOK'
    <3>1. Stage("rm", {2})' /\ tool'.inode = tool.inode
      BY <1>1, <2>6, NextStage DEF Stage
    <3>. QED  BY <1>1, <2>6, <3>1 DEF ToolOK, TakesInode, Stage
  <2>10. ASSUME NEW j, HasRecord(j)' PROVE HasRecord(j)
    BY <2>3, <2>4, <2>5, <2>10 DEF HasRecord
  <2>. QED  BY <2>7, <2>8, <2>9, <2>10 DEF Basic
<1>. QED  BY <1>2, <1>3, <1>4, UnlinkIs

\* The paths of the four tools, and the tools they start.
LEMMA StartedIs ==
  ASSUME Basic, StartsTool
  PROVE  \E cmd, parent, name, inode, need : Started(cmd, parent, name, inode, need)
<1>0. PICK path \in Path :
        \/ Mkdir(path) \/ Rm(path)
        \/ \E native \in Name, n \in 0 .. MaxFileBlocks : Cp(path, native, n)
        \/ \E resource \in Path : Ln(resource, path)
  BY DEF StartsTool
<1>1. View
  BY ViewIs DEF Basic
<1>2. ASSUME NEW p \in Path, p # <<>> PROVE Last(p) \in Name
  <2>1. PICK k \in 0 .. 2 : p \in [1 .. k -> Name]
    BY DEF Path
  <2>2. Len(p) = k /\ k \in 1 .. k
    BY <1>2, <2>1
  <2>. QED  BY <2>1, <2>2 DEF Last
<1>3. ASSUME IsNew(path)
      PROVE  IsDir(Parent(path)) /\ Last(path) \in Name
  <2>1. Parent(path) \in Directories
    BY <1>3 DEF IsNew, Directories, Listed, Basic, TypeOK
  <2>. QED  BY <1>1, <1>2, <1>3, <2>1 DEF IsNew, View
<1>4. CASE Mkdir(path)
  <2>1. Started("mkdir", Parent(path), Last(path), 0, 0)
    BY <1>3, <1>4 DEF Mkdir, Started
  <2>. QED  BY <2>1
<1>5. CASE Rm(path)
  <2>1. Started("rm", Parent(path), Last(path), Resolve(path), 0)
    BY <1>1, <1>2, <1>5, FileIs DEF Rm, Basic, View, Started
  <2>. QED  BY <2>1
<1>6. ASSUME NEW native \in Name, NEW n \in 0 .. MaxFileBlocks, Cp(path, native, n)
      PROVE  \E cmd, parent, name, inode, need : Started(cmd, parent, name, inode, need)
  <2>0. FileBlocks(n) \in Nat
    BY SizesAssumption DEF FileBlocks
  <2>1. CASE IsNew(path) /\ Start("cp", Parent(path), Last(path), 0, FileBlocks(n))
    <3>1. Started("cp", Parent(path), Last(path), 0, FileBlocks(n))
      BY <1>3, <2>0, <2>1 DEF Started
    <3>. QED  BY <3>1
  <2>2. CASE IsDirectory(path) /\ Start("cp", Resolve(path), native, 0, FileBlocks(n))
    <3>1. Resolve(path) \in Directories
      BY <2>2 DEF IsDirectory, Directories, Listed, Basic, TypeOK
    <3>2. Started("cp", Resolve(path), native, 0, FileBlocks(n))
      BY <1>1, <2>0, <2>2, <3>1 DEF View, Started
    <3>. QED  BY <3>2
  <2>. QED  BY <1>6, <2>1, <2>2 DEF Cp
<1>7. ASSUME NEW resource \in Path, Ln(resource, path)
      PROVE  \E cmd, parent, name, inode, need : Started(cmd, parent, name, inode, need)
  <2>1. Started("ln", Parent(path), Last(path), Resolve(resource), 0)
    BY <1>1, <1>3, <1>7, FileIs DEF Ln, Basic, View, Started
  <2>. QED  BY <2>1
<1>. QED  BY <1>0, <1>4, <1>5, <1>6, <1>7

\* One step of the tools, whichever it is.
LEMMA BasicNext == Basic /\ [Next]_vars => Basic'
<1>. SUFFICES ASSUME Basic, [Next]_vars PROVE Basic'
  OBVIOUS
<1>1. CASE Ready /\ StartsTool
  BY <1>1, StartedIs, BasicStart
<1>2. CASE NewInode \/ AllocateFileBlock \/ BlocksAllocated \/ CountDir \/ CountLink
  BY <1>2, BasicNewInode, BasicAllocateFileBlock, BasicBlocksAllocated, BasicCountDir,
     BasicCountLink
<1>3. CASE WriteFileInode \/ WriteDirInode \/ WriteDots \/ AddEntry \/ GrowDirectory
  BY <1>3, BasicWriteFileInode, BasicWriteDirInode, BasicWriteDots, BasicAddEntry,
     BasicGrowDirectory
<1>4. CASE Unlink \/ FreeInode \/ FreeBlocks \/ FreeCounts
  BY <1>4, BasicUnlink, BasicFreeInode, BasicFreeBlocks, BasicFreeCounts
<1>5. CASE LnWritesAstray \/ RmWritesAstray \/ InodeOverrun \/ NothingFree
  BY <1>5, BasicEnded DEF LnWritesAstray, RmWritesAstray, InodeOverrun, NothingFree, Undefined
<1>6. CASE Kill
  BY <1>6, BasicEnded DEF Kill
<1>7. CASE Rest \/ UNCHANGED vars
  BY <1>7, BasicStutter DEF Rest
<1>. QED  BY <1>1, <1>2, <1>3, <1>4, <1>5, <1>6, <1>7 DEF Next, StartsTool

\* The types and the shape of the image hold after every step.
LEMMA BasicAlways == Spec => []Basic
<1>1. Init => Basic
  BY BasicInit
<1>2. Basic /\ [Next]_vars => Basic'
  BY BasicNext
<1>. QED  BY <1>1, <1>2, PTL DEF Spec

\* The type invariant: every field of the image and of the tool that runs
\* stays in its range, and no block gets more records than fit.
THEOREM ToolsTyped == Spec => []TypeOK
<1>1. Basic => TypeOK
  BY DEF Basic
<1>. QED  BY <1>1, BasicAlways, PTL

----------------------------------------------------------------------------
(* Names lead to inodes                                                    *)

\* A tool holds an inode that no record names: a new one it has not entered
\* yet, or one it has unlinked.
Unnamed == Stage("mkdir", {2}) \/ Stage("cp", 2 .. 4) \/ Stage("rm", 2 .. 4)

\* A tool was started for an inode that has a name.
Refers == Stage("ln", {1}) \/ Stage("rm", {1})

Naming ==
  Sound =>
    /\ \A i : HasRecord(i) => i \in inode_bitmap \cup {Root}
    /\ Unnamed => ~HasRecord(tool.inode)
    /\ Refers => HasRecord(tool.inode)

\* The triples of three finite sets.
LEMMA FiniteTriples ==
  ASSUME NEW A, NEW B, NEW C, IsFiniteSet(A), IsFiniteSet(B), IsFiniteSet(C)
  PROVE  IsFiniteSet(A \X B \X C)
<1>. DEFINE S == (A \X B) \X C
            T == A \X B \X C
            f == [x \in S |-> <<x[1][1], x[1][2], x[2]>>]
<1>1. IsFiniteSet(S)
  <2>1. IsFiniteSet(A \X B)
    BY FS_Product
  <2>. QED  BY <2>1, FS_Product
<1>2. f \in Surjection(S, T)
  <2>1. f \in [S -> T]
    OBVIOUS
  <2>2. ASSUME NEW t \in T PROVE \E x \in S : f[x] = t
    <3>1. <<<<t[1], t[2]>>, t[3]>> \in S /\ f[<<<<t[1], t[2]>>, t[3]>>] = t
      OBVIOUS
    <3>. QED  BY <3>1
  <2>. HIDE DEF f, S, T
  <2>. QED  BY <2>1, <2>2 DEF Surjection
<1>. HIDE DEF f, S
<1>. QED  BY <1>1, <1>2, FS_Surjection

\* A set with no more than one element.
LEMMA AtMostOne ==
  ASSUME NEW S, IsFiniteSet(S), ~(Cardinality(S) > 1), NEW x \in S, NEW y \in S
  PROVE  x = y
<1>. SUFFICES ASSUME x # y PROVE FALSE
  OBVIOUS
<1>1. IsFiniteSet({x}) /\ Cardinality({x}) = 1
  BY FS_Singleton
<1>2. Cardinality({x} \cup {y}) = 2
  BY <1>1, FS_AddElement
<1>3. Cardinality({x} \cup {y}) <= Cardinality(S) /\ Cardinality(S) \in Nat
  <2>1. ({x} \cup {y}) \in SUBSET S
    OBVIOUS
  <2>. QED  BY <2>1, FS_Subset, FS_CardinalityType
<1>. QED  BY <1>2, <1>3

\* The names of an inode are the records of it that are not "." or "..", in
\* the blocks of directories.
LEMMA NamesOfIs ==
  ASSUME Basic, NEW i
  PROVE  /\ IsFiniteSet(NamesOf(i))
         /\ \A nm \in NamesOf(i) :
              /\ IsDir(nm[1]) /\ nm[2] \in OwnBlocks(nm[1]) /\ nm[2] \in Block \cup {RootBlock}
              /\ nm[3] \in 1 .. Len(entries[nm[2]])
              /\ entries[nm[2]][nm[3]].inode = i /\ entries[nm[2]][nm[3]].name \in Name
              /\ nm = <<nm[1], nm[2], nm[3]>>
         /\ \A d, b, k :
              /\ IsDir(d) /\ b \in OwnBlocks(d) /\ k \in 1 .. Len(entries[b])
              /\ entries[b][k].inode = i /\ entries[b][k].name \in Name
              => <<d, b, k>> \in NamesOf(i)
<1>. DEFINE All == (Inode \cup {Root}) \X (Block \cup {RootBlock}) \X (1 .. EntriesPerBlock)
<1>1. \A d : d \in Directories <=> IsDir(d)
  BY ViewIs DEF Basic, View
<1>2. \A d : IsDir(d) => d \in Inode \cup {Root} /\ OwnBlocks(d) \subseteq Block \cup {RootBlock}
  BY BlocksOf DEF Basic, IsDir
<1>3. \A b \in Block \cup {RootBlock} :
        entries[b] \in Seq(Entry) /\ Len(entries[b]) <= EntriesPerBlock
  BY DEF Basic, TypeOK
<1>4. IsFiniteSet(NamesOf(i))
  <2>1. IsFiniteSet(Inode \cup {Root}) /\ IsFiniteSet(Block \cup {RootBlock})
        /\ IsFiniteSet(1 .. EntriesPerBlock)
    <3>1. IsFiniteSet(Inode \cup {Root}) /\ IsFiniteSet(Block \cup {RootBlock})
      BY FS_AddElement, InodeAssumption, BlockAssumption
    <3>2. IsFiniteSet(1 .. EntriesPerBlock)
      BY FS_Interval, SizesAssumption
    <3>. QED  BY <3>1, <3>2
  <2>2. IsFiniteSet(All)
    BY <2>1, FiniteTriples
  <2>3. NamesOf(i) \in SUBSET All
    BY <1>1, <1>2 DEF NamesOf, Places
  <2>. HIDE DEF All
  <2>. QED  BY <2>2, <2>3, FS_Subset
<1>5. ASSUME NEW nm \in NamesOf(i)
      PROVE  /\ IsDir(nm[1]) /\ nm[2] \in OwnBlocks(nm[1]) /\ nm[2] \in Block \cup {RootBlock}
             /\ nm[3] \in 1 .. Len(entries[nm[2]])
             /\ entries[nm[2]][nm[3]].inode = i /\ entries[nm[2]][nm[3]].name \in Name
             /\ nm = <<nm[1], nm[2], nm[3]>>
  <2>1. PICK d \in Directories : nm \in Places(d)
    BY DEF NamesOf
  <2>2. nm[1] = d /\ nm[2] \in OwnBlocks(d) /\ nm[3] \in 1 .. EntriesPerBlock
        /\ nm = <<nm[1], nm[2], nm[3]>>
    BY <2>1 DEF Places
  <2>3. /\ nm[3] <= Len(entries[nm[2]]) /\ entries[nm[2]][nm[3]].inode = i
        /\ entries[nm[2]][nm[3]].name \in Name
    BY DEF NamesOf
  <2>4. nm[3] \in 1 .. Len(entries[nm[2]])
    BY <1>1, <1>2, <1>3, <2>2, <2>3
  <2>. QED  BY <1>1, <1>2, <2>2, <2>3, <2>4
<1>6. ASSUME NEW d, NEW b, NEW k, IsDir(d), b \in OwnBlocks(d), k \in 1 .. Len(entries[b]),
             entries[b][k].inode = i, entries[b][k].name \in Name
      PROVE  <<d, b, k>> \in NamesOf(i)
  <2>1. k \in 1 .. EntriesPerBlock
    BY <1>2, <1>3, <1>6, SizesAssumption
  <2>2. <<d, b, k>> \in Places(d) /\ d \in Directories
    BY <1>1, <1>6, <2>1 DEF Places
  <2>. QED  BY <1>6, <2>2 DEF NamesOf
<1>. QED  BY <1>4, <1>5, <1>6

\* A file that has one name has one record.
LEMMA OneRecord ==
  ASSUME Basic, NEW i, ~IsDir(i), ~(Cardinality(NamesOf(i)) > 1),
         NEW b \in Block \cup {RootBlock}, NEW k \in 1 .. Len(entries[b]), entries[b][k].inode = i,
         NEW c \in Block \cup {RootBlock}, NEW l \in 1 .. Len(entries[c]), entries[c][l].inode = i
  PROVE  b = c /\ k = l
<1>1. entries[b][k].name \in Name /\ entries[c][l].name \in Name
  <2>1. b \in DOMAIN entries /\ c \in DOMAIN entries
    BY DEF Basic, TypeOK
  <2>. QED  BY <2>1 DEF Basic, Shape
<1>2. entries[b] # <<>> /\ entries[c] # <<>>
  <2>1. entries[b] \in Seq(Entry) /\ entries[c] \in Seq(Entry)
    BY DEF Basic, TypeOK
  <2>. QED  BY <2>1
<1>3. PICK d : IsDir(d) /\ b \in OwnBlocks(d)
  BY <1>2 DEF Basic, TypeOK, Shape
<1>4. PICK e : IsDir(e) /\ c \in OwnBlocks(e)
  BY <1>2 DEF Basic, TypeOK, Shape
<1>5. <<d, b, k>> \in NamesOf(i) /\ <<e, c, l>> \in NamesOf(i)
  BY <1>1, <1>3, <1>4, NamesOfIs
<1>6. <<d, b, k>> = <<e, c, l>>
  BY <1>5, NamesOfIs, AtMostOne
<1>. QED  BY <1>6

\* A step that leaves the records.
LEMMA NamingKept ==
  ASSUME Naming, entries' = entries, Sound' => Sound,
         \A i \in inode_bitmap : i \in inode_bitmap' \/ (Unnamed /\ i = tool.inode),
         Unnamed' => Unnamed /\ tool'.inode = tool.inode,
         Refers' => Refers /\ tool'.inode = tool.inode
  PROVE  Naming'
<1>1. \A i : HasRecord(i)' <=> HasRecord(i)
  BY DEF HasRecord
<1>. SUFFICES ASSUME Sound' PROVE
       /\ \A i : HasRecord(i)' => i \in inode_bitmap' \cup {Root}
       /\ Unnamed' => ~HasRecord(tool.inode)'
       /\ Refers' => HasRecord(tool.inode)'
  BY DEF Naming
<1>2. \A i : HasRecord(i)' => i \in inode_bitmap' \cup {Root}
  BY <1>1 DEF Naming
<1>3. Unnamed' => ~HasRecord(tool.inode)'
  BY <1>1 DEF Naming, HasRecord
<1>4. Refers' => HasRecord(tool.inode)'
  BY <1>1 DEF Naming, HasRecord
<1>. QED  BY <1>2, <1>3, <1>4

LEMMA NamingInit == Init => Naming
<1>. SUFFICES ASSUME Init PROVE Naming
  OBVIOUS
<1>1. ASSUME NEW i, HasRecord(i) PROVE i = Root
  <2>1. PICK b \in DOMAIN entries : \E k \in 1 .. Len(entries[b]) : entries[b][k].inode = i
    BY <1>1 DEF HasRecord
  <2>2. CASE b = RootBlock
    <3>1. entries[b] = <<E(".", Root), E("..", Root)>>
      BY <2>2 DEF Init
    <3>. QED  BY <2>1, <3>1 DEF E
  <2>3. CASE b # RootBlock
    BY <2>1, <2>3 DEF Init
  <2>. QED  BY <2>2, <2>3
<1>2. ~Unnamed /\ ~Refers
  BY DEF Init, Unnamed, Refers, Stage, Idle
<1>. QED  BY <1>1, <1>2 DEF Naming

\* A step that does not advance has the tool end, and then nothing refers.
LEMMA IdleNames == tool' = Idle => ~Unnamed' /\ ~Refers'
BY IdleIs DEF Unnamed, Refers, Stage

\* Which of these a tool that advances still has.
LEMMA AdvanceNames ==
  ASSUME Basic, tool.cmd # "none", Advanced(tool)
  PROVE  /\ ~Refers'
         /\ Unnamed' => tool'.inode = tool.inode
         /\ Unnamed' => Unnamed \/ Stage("mkdir", {1}) \/ Stage("cp", {1}) \/ Stage("rm", {1})
<1>1. tool.at \in Nat /\ tool.at >= 1
  BY DEF Basic, ToolOK, Running
<1>2. CASE tool' = Idle
  BY <1>2, IdleNames
<1>3. CASE tool' # Idle
  <2>1. tool'.cmd = tool.cmd /\ tool'.at = tool.at + 1 /\ tool'.inode = tool.inode
    BY <1>3, NextStage
  <2>. QED  BY <1>1, <2>1 DEF Unnamed, Refers, Stage
<1>. QED  BY <1>2, <1>3

LEMMA NamingStart ==
  ASSUME Basic, Naming, Ready, NEW cmd, NEW parent, NEW name, NEW inode, NEW need,
         Started(cmd, parent, name, inode, need)
  PROVE  Naming'
<1>1. /\ entries' = entries /\ inode_bitmap' = inode_bitmap /\ Sound
      /\ tool'.cmd = cmd /\ tool'.at = 1 /\ tool'.inode = inode
  BY DEF Started, Start, disk, Ready, Sound
<1>2. \A i : HasRecord(i)' <=> HasRecord(i)
  BY <1>1 DEF HasRecord
<1>3. ~Unnamed'
  BY <1>1 DEF Unnamed, Stage
<1>4. Refers' => HasRecord(tool.inode)'
  <2>1. Refers' => HasRecord(inode)
    BY <1>1 DEF Refers, Stage, Started
  <2>. QED  BY <1>1, <1>2, <2>1 DEF HasRecord
<1>. QED  BY <1>1, <1>2, <1>3, <1>4 DEF Naming

LEMMA NamingNewInode ==
  ASSUME Basic, Naming, NewInode
  PROVE  Naming'
<1>1. PICK i \in Inode : i = Min(ClearInodes) /\ i \notin inode_bitmap
  <2>1. ClearInodes \in SUBSET Nat /\ ClearInodes # {}
    BY InodeAssumption DEF ClearInodes, NewInode
  <2>. QED  BY <2>1, MinOf DEF ClearInodes
<1>2. Stage("mkdir", {1}) \/ Stage("cp", {1})
  BY AtIs DEF NewInode, Basic
<1>3. entries' = entries /\ inode_bitmap \subseteq inode_bitmap' /\ Sound' = Sound
  BY DEF NewInode, Sound
<1>4. \A j : HasRecord(j)' <=> HasRecord(j)
  BY <1>3 DEF HasRecord
<1>5. tool'.inode = i /\ ~Refers'
  <2>1. PICK t : t = [tool EXCEPT !.inode = i]
    OBVIOUS
  <2>2. t \in Tool /\ t.cmd = tool.cmd /\ t.at = tool.at /\ t.inode = i
    BY <1>1, <2>1 DEF Basic, TypeOK, Tool
  <2>3. Advance(t) /\ tool.at \in 1 .. Len(Steps[t.cmd]) /\ tool.cmd # "none"
    BY <1>1, <1>2, <2>1, <2>2 DEF NewInode, Basic, ToolOK, Running, Stage
  <2>4. Advanced(t)
    BY <2>2, <2>3, AdvanceIs
  <2>. QED  BY <1>2, <2>2, <2>4, NextStage DEF Stage, Refers
<1>6. Sound => ~HasRecord(i)
  BY <1>1, InodeAssumption DEF Naming
<1>7. Sound => ~HasRecord(tool.inode)'
  BY <1>4, <1>5, <1>6 DEF HasRecord
<1>. QED  BY <1>3, <1>4, <1>5, <1>7 DEF Naming

\* The records a tool adds lead to an inode that is allocated.
LEMMA NamingWritten ==
  ASSUME Basic, Naming, WriteDots \/ AddEntry \/ GrowDirectory
  PROVE  Naming'
<1>1. inode_bitmap' = inode_bitmap /\ Sound' = Sound
  BY DEF WriteDots, AddEntry, GrowDirectory, Sound
<1>2. Stage("mkdir", {2, 4}) \/ Stage("cp", {4}) \/ Stage("ln", {1})
  BY AtIs DEF Basic, WriteDots, AddEntry, GrowDirectory, Stage
<1>3. ~Unnamed' /\ ~Refers'
  <2>1. tool \in Tool /\ tool.at \in 1 .. Len(Steps[tool.cmd]) /\ tool.cmd # "none" /\ Advance(tool)
    BY <1>2 DEF Basic, TypeOK, ToolOK, Running, Stage, WriteDots, AddEntry, GrowDirectory
  <2>2. Advanced(tool)
    BY <2>1, AdvanceIs
  <2>3. CASE tool' = Idle
    BY <2>3, IdleNames
  <2>4. CASE tool' # Idle
    <3>1. tool'.cmd = tool.cmd /\ tool'.at = tool.at + 1
      BY <2>2, <2>4, NextStage
    <3>2. ~Stage("cp", {4})
      BY <2>2, <2>4, NextStage
    <3>. QED  BY <1>2, <3>1, <3>2 DEF Unnamed, Refers, Stage
  <2>. QED  BY <2>3, <2>4
<1>4. Sound => tool.inode \in inode_bitmap \cup {Root}
  <2>1. Stage("mkdir", {2, 4}) \/ Stage("cp", {4}) => tool.inode \in inode_bitmap
    BY DEF Basic, ToolOK, TakesInode, Stage
  <2>2. Sound /\ Stage("ln", {1}) => tool.inode \in inode_bitmap \cup {Root}
    BY DEF Naming, Refers
  <2>. QED  BY <1>2, <2>1, <2>2
<1>5. \A i : IsDir(i) => i \in inode_bitmap \cup {Root}
  BY DEF Basic, Shape, IsDir
<1>6. \A i : HasRecord(i)' => HasRecord(i) \/ i = tool.inode \/ IsDir(i)
  BY BasicWriteDots, BasicAddEntry, BasicGrowDirectory
<1>. QED  BY <1>1, <1>3, <1>4, <1>5, <1>6 DEF Naming

LEMMA NamingUnlink ==
  ASSUME Basic, Naming, Unlink
  PROVE  Naming'
<1>1. /\ Stage("rm", {1}) /\ tool \in Tool /\ inode_bitmap' = inode_bitmap
      /\ tool.inode \in Inode /\ table[tool.inode].mode = "REG" /\ ~IsDir(tool.inode)
  BY UnlinkIs DEF IsDir
<1>2. CASE tool' = Idle /\ UNCHANGED <<entries, runs, killed, unmade, image>>
  BY <1>1, <1>2, IdleNames, NamingKept DEF Sound
<1>3. ASSUME NEW c \in Block \cup {RootBlock}, NEW m \in 1 .. Len(entries[c]),
             entries[c][m].inode = tool.inode,
             entries' = [entries EXCEPT ![c] = RemoveAt(@, m)],
             image' = IF Cardinality(NamesOf(tool.inode)) > 1 THEN "severed" ELSE image,
             Advance(tool)
      PROVE  Naming'
  <2>1. PICK R : R = RemoveAt(entries[c], m)
    OBVIOUS
  <2>2. entries[c] \in Seq(Entry)
    BY DEF Basic, TypeOK
  <2>3. /\ R \in Seq(Entry) /\ Len(R) = Len(entries[c]) - 1
        /\ \A k \in 1 .. Len(R) : \E l \in 1 .. Len(entries[c]) : l # m /\ R[k] = entries[c][l]
    <3>1. /\ R \in Seq(Entry) /\ Len(R) = Len(entries[c]) - 1
          /\ \A k \in 1 .. Len(entries[c]) - 1 :
               R[k] = IF k < m THEN entries[c][k] ELSE entries[c][k + 1]
      BY <2>1, <2>2, RemoveAtIs
    <3>2. ASSUME NEW k \in 1 .. Len(R)
          PROVE  \E l \in 1 .. Len(entries[c]) : l # m /\ R[k] = entries[c][l]
      <4>1. k \in 1 .. Len(entries[c]) /\ k + 1 \in 1 .. Len(entries[c])
        BY <2>2, <3>1
      <4>. QED  BY <3>1, <4>1
    <3>. QED  BY <3>1, <3>2
  <2>4. /\ \A b \in Block \cup {RootBlock} : b # c => entries'[b] = entries[b]
        /\ entries'[c] = R /\ DOMAIN entries' = Block \cup {RootBlock}
    BY <1>3, <2>1, <2>3 DEF Basic, TypeOK
  <2>5. Sound' => Sound /\ ~(Cardinality(NamesOf(tool.inode)) > 1)
    BY <1>3 DEF Sound
  <2>6. tool'.inode = tool.inode /\ ~Refers'
    <3>1. Advanced(tool)
      BY <1>1, <1>3, AdvanceIs DEF Basic, ToolOK, Running, Stage
    <3>. QED  BY <1>1, <3>1, NextStage, AdvanceNames DEF Stage
  <2>7. ASSUME Sound', HasRecord(tool.inode)' PROVE FALSE
    <3>1. PICK b \in Block \cup {RootBlock} : \E k \in 1 .. Len(entries'[b]) :
                                                entries'[b][k].inode = tool.inode
      BY <2>4, <2>6, <2>7 DEF HasRecord
    <3>2. PICK l \in 1 .. Len(entries[b]) : entries[b][l].inode = tool.inode /\ ~(b = c /\ l = m)
      <4>1. CASE b = c
        BY <2>3, <2>4, <3>1, <4>1
      <4>2. CASE b # c
        BY <2>4, <3>1, <4>2
      <4>. QED  BY <4>1, <4>2
    <3>. QED  BY <1>1, <1>3, <2>5, <2>7, <3>2, OneRecord
  <2>8. \A j : HasRecord(j)' => HasRecord(j)
    BY BasicUnlink
  <2>. QED  BY <1>1, <2>5, <2>6, <2>7, <2>8 DEF Naming
<1>. QED  BY <1>2, <1>3, UnlinkIs

LEMMA NamingNext == Basic /\ Naming /\ [Next]_vars => Naming'
<1>. SUFFICES ASSUME Basic, Naming, [Next]_vars PROVE Naming'
  OBVIOUS
<1>1. CASE Ready /\ StartsTool
  BY <1>1, StartedIs, NamingStart
<1>2. CASE NewInode
  BY <1>2, NamingNewInode
<1>3. CASE AllocateFileBlock
  <2>1. Stage("cp", {2})
    BY <1>3, AtIs DEF AllocateFileBlock, Basic
  <2>2. tool'.cmd = tool.cmd /\ tool'.at = tool.at /\ tool'.inode = tool.inode
    BY <1>3 DEF AllocateFileBlock, Basic, TypeOK, Tool
  <2>. QED  BY <1>3, <2>1, <2>2, NamingKept DEF AllocateFileBlock, Unnamed, Refers, Stage, Sound
<1>4. CASE BlocksAllocated \/ WriteFileInode \/ WriteDirInode \/ CountDir \/ CountLink
           \/ FreeInode \/ FreeBlocks \/ FreeCounts
  <2>1. /\ Stage("mkdir", {3, 5}) \/ Stage("cp", {2, 3}) \/ Stage("ln", {2}) \/ Stage("rm", 2 .. 4)
        /\ inode_bitmap' # inode_bitmap => FreeInode /\ Stage("rm", {2})
    BY <1>4, AtIs DEF Basic, BlocksAllocated, WriteFileInode, WriteDirInode, CountDir, CountLink,
         FreeInode, FreeBlocks, FreeCounts, Stage, disk
  <2>2. entries' = entries /\ image' = image /\ Advance(tool)
    BY <1>4 DEF BlocksAllocated, WriteFileInode, WriteDirInode, CountDir, CountLink,
         FreeInode, FreeBlocks, FreeCounts, disk
  <2>3. tool \in Tool /\ tool.cmd # "none" /\ tool.at \in 1 .. Len(Steps[tool.cmd])
    BY <2>1 DEF Basic, TypeOK, ToolOK, Running, Stage
  <2>4. Advanced(tool)
    BY <2>2, <2>3, AdvanceIs
  <2>5. ~Refers' /\ (Unnamed' => Unnamed /\ tool'.inode = tool.inode)
    BY <2>1, <2>3, <2>4, AdvanceNames DEF Stage
  <2>6. \A i \in inode_bitmap : i \in inode_bitmap' \/ (Unnamed /\ i = tool.inode)
    BY <2>1 DEF FreeInode, Unnamed, Stage
  <2>. QED  BY <2>2, <2>5, <2>6, NamingKept DEF Sound
<1>5. CASE WriteDots \/ AddEntry \/ GrowDirectory
  BY <1>5, NamingWritten
<1>6. CASE Unlink
  BY <1>6, NamingUnlink
<1>7. CASE LnWritesAstray \/ RmWritesAstray \/ InodeOverrun \/ NothingFree
  BY <1>7 DEF LnWritesAstray, RmWritesAstray, InodeOverrun, NothingFree, Undefined, Naming, Sound
<1>8. CASE Kill
  BY <1>8, IdleNames, NamingKept DEF Kill, disk, Sound
<1>9. CASE Rest \/ UNCHANGED vars
  BY <1>9, NamingKept DEF Rest, vars, disk, Sound, Unnamed, Refers, Stage
<1>. QED  BY <1>1, <1>2, <1>3, <1>4, <1>5, <1>6, <1>7, <1>8, <1>9 DEF Next, StartsTool

LEMMA NamingAlways == Spec => [](Basic /\ Naming)
<1>1. Init => Basic /\ Naming
  BY BasicInit, NamingInit
<1>2. Basic /\ Naming /\ [Next]_vars => (Basic /\ Naming)'
  BY BasicNext, NamingNext
<1>. QED  BY <1>1, <1>2, PTL DEF Spec

\* Every name leads to an inode that is allocated, after every write of every
\* tool, whichever was killed where, for every directory and block size: the
\* inode's bit is set before the record is written and, as no file with two
\* names was removed, goes after the last record of it.
THEOREM NamesLeadToInodes == Spec => []NamesResolve
<1>1. Basic /\ Naming => NamesResolve
  <2>. SUFFICES ASSUME Basic, Naming PROVE NamesResolve
    OBVIOUS
  <2>1. \A i : i \in NamedInodes <=> HasRecord(i)
    BY ViewIs DEF Basic, View
  <2>. QED  BY <2>1 DEF NamesResolve, Naming
<1>. QED  BY <1>1, NamingAlways, PTL

----------------------------------------------------------------------------
(* Blocks belong to one file                                               *)

\* ext2_mkdir has named a directory that it has not written the records of.
Making(i) == i \in unmade \/ (Stage("mkdir", {3, 4}) /\ i = tool.inode)

\* The inodes whose blocks are theirs: directories, files with a name, the
\* file ext2_cp has written and not named yet, and the one ext2_rm has
\* unlinked and whose blocks it has not freed yet.
Owner(i) ==
  \/ IsDir(i)
  \/ HasRecord(i) /\ ~Making(i)
  \/ i = tool.inode /\ (Stage("cp", {4}) \/ Stage("rm", {2, 3}))

Once(s) == \A j, k \in 1 .. Len(s) : s[j] = s[k] => j = k

\* The blocks of owners are marked and not shared, nor with those that ext2_cp
\* is collecting; and the block of a new directory is empty.
Owned ==
  Sound =>
    /\ \A i : Owner(i) => OwnBlocks(i) \subseteq block_bitmap \cup {RootBlock}
                          /\ Once(table[i].block)
    /\ \A i, j : Owner(i) /\ Owner(j) /\ i # j => OwnBlocks(i) \cap OwnBlocks(j) = {}
    /\ Stage("cp", 1 .. 3) =>
         /\ Once(tool.got) /\ ToSet(tool.got) \subseteq block_bitmap
         /\ \A i : Owner(i) => OwnBlocks(i) \cap ToSet(tool.got) = {}
    /\ Stage("mkdir", {4}) => \A b \in OwnBlocks(tool.inode) : entries[b] = <<>>

\* A step that takes no block from an owner, and makes none.
LEMMA OwnedKept ==
  ASSUME Owned, Sound' => Sound,
         \A i : Owner(i)' => /\ Owner(i) /\ table'[i].block = table[i].block
                             /\ \A b \in OwnBlocks(i) : b \in block_bitmap => b \in block_bitmap',
         Stage("cp", 1 .. 3)' => /\ Stage("cp", 1 .. 3) /\ tool'.got = tool.got
                                 /\ block_bitmap \subseteq block_bitmap',
         ~Stage("mkdir", {4})'
  PROVE  Owned'
<1>. SUFFICES ASSUME Sound' PROVE
       /\ \A i : Owner(i)' => OwnBlocks(i)' \subseteq block_bitmap' \cup {RootBlock}
                              /\ Once(table'[i].block)
       /\ \A i, j : Owner(i)' /\ Owner(j)' /\ i # j => OwnBlocks(i)' \cap OwnBlocks(j)' = {}
       /\ Stage("cp", 1 .. 3)' =>
            /\ Once(tool'.got) /\ ToSet(tool'.got) \subseteq block_bitmap'
            /\ \A i : Owner(i)' => OwnBlocks(i)' \cap ToSet(tool'.got) = {}
  BY DEF Owned, Once
<1>1. \A i : Owner(i)' => OwnBlocks(i)' = OwnBlocks(i)
  BY DEF OwnBlocks
<1>2. \A i : Owner(i)' => OwnBlocks(i)' \subseteq block_bitmap' \cup {RootBlock}
                          /\ Once(table'[i].block)
  BY <1>1 DEF Owned
<1>3. \A i, j : Owner(i)' /\ Owner(j)' /\ i # j => OwnBlocks(i)' \cap OwnBlocks(j)' = {}
  BY <1>1 DEF Owned
<1>4. Stage("cp", 1 .. 3)' =>
        /\ Once(tool'.got) /\ ToSet(tool'.got) \subseteq block_bitmap'
        /\ \A i : Owner(i)' => OwnBlocks(i)' \cap ToSet(tool'.got) = {}
  BY <1>1 DEF Owned
<1>. QED  BY <1>2, <1>3, <1>4

LEMMA OnceAppend ==
  ASSUME NEW S, NEW s \in Seq(S), NEW x \in S, Once(s), x \notin ToSet(s)
  PROVE  Once(Append(s, x))
<1>1. PICK t : t = Append(s, x)
  OBVIOUS
<1>2. /\ t \in Seq(S) /\ Len(t) = Len(s) + 1 /\ Len(s) \in Nat
      /\ \A k \in 1 .. Len(s) : t[k] = s[k]
      /\ t[Len(s) + 1] = x
  BY <1>1, AppendIs
<1>3. \A k \in 1 .. Len(s) : t[k] # x
  BY <1>2, ToSetIs
<1>4. \A k \in 1 .. Len(t) : k \in 1 .. Len(s) \/ k = Len(s) + 1
  BY <1>2
<1>5. Once(t)
  BY <1>2, <1>3, <1>4 DEF Once
<1>. QED  BY <1>1, <1>5

LEMMA EmptyIs == Once(<<>>) /\ ToSet(<<>>) = {}
<1>1. DOMAIN <<>> = {} /\ 1 .. Len(<<>>) = {}
  OBVIOUS
<1>. QED  BY <1>1 DEF Once, ToSet

LEMMA OwnerIs ==
  ASSUME Basic, NEW i, Owner(i)
  PROVE  i \in Inode \cup {Root}
<1>1. CASE IsDir(i) \/ HasRecord(i)
  BY <1>1, RecordIs DEF Basic, IsDir
<1>2. CASE i = tool.inode /\ (Stage("cp", {4}) \/ Stage("rm", {2, 3}))
  <2>1. Stage("cp", {4}) => tool.inode \in inode_bitmap
    BY DEF Basic, ToolOK, TakesInode, Stage
  <2>2. Stage("rm", {2, 3}) => tool.inode \in Inode
    BY DEF Basic, ToolOK, Stage
  <2>3. inode_bitmap \subseteq Inode
    BY DEF Basic, TypeOK
  <2>. QED  BY <1>2, <2>1, <2>2, <2>3
<1>. QED  BY <1>1, <1>2 DEF Owner

LEMMA OwnedInit == Init => Owned
<1>. SUFFICES ASSUME Init PROVE Owned
  OBVIOUS
<1>1. Basic /\ Naming
  BY BasicInit, NamingInit
<1>2. \A i : Owner(i) => i = Root
  <2>1. \A i \in Inode \cup {Root} : table[i].mode = "DIR" => i = Root
    BY DEF Init
  <2>2. \A i : HasRecord(i) => i = Root
    BY <1>1 DEF Naming, Init, Sound
  <2>. QED  BY <2>1, <2>2, IdleIs DEF Owner, IsDir, Stage, Init
<1>3. table[Root].block = <<RootBlock>>
  BY DEF Init
<1>4. OwnBlocks(Root) = {RootBlock} /\ Once(table[Root].block)
  <2>1. PICK s : s = <<RootBlock>>
    OBVIOUS
  <2>2. s \in Seq({RootBlock}) /\ Len(s) = 1 /\ s[1] = RootBlock
    BY <2>1
  <2>3. ToSet(s) = {RootBlock} /\ Once(s)
    BY <2>2, ToSetIs DEF Once
  <2>. QED  BY <1>3, <2>1, <2>3 DEF OwnBlocks
<1>5. ~Stage("cp", 1 .. 3) /\ ~Stage("mkdir", {4})
  BY IdleIs DEF Stage, Init
<1>. QED  BY <1>2, <1>4, <1>5 DEF Owned

\* Before a tool starts and where it ends, owners are directories and files
\* with a name.
LEMMA OwnedStart ==
  ASSUME Basic, Naming, Owned, Ready, NEW cmd, NEW parent, NEW name, NEW inode, NEW need,
         Started(cmd, parent, name, inode, need)
  PROVE  Owned'
<1>1. /\ entries' = entries /\ table' = table /\ block_bitmap' = block_bitmap
      /\ unmade' = unmade /\ image' = image /\ unmade = {} /\ tool = Idle
      /\ tool'.cmd = cmd /\ tool'.at = 1 /\ tool'.inode = inode /\ tool'.got = <<>>
  BY DEF Started, Start, disk, Ready
<1>2. \A i : Owner(i)' => Owner(i)
  <2>1. \A i : Owner(i)' => IsDir(i) \/ HasRecord(i)
    BY <1>1 DEF Owner, IsDir, HasRecord, Stage
  <2>. QED  BY <1>1, <2>1, IdleIs DEF Owner, Making, Stage
<1>3. \A i : OwnBlocks(i)' = OwnBlocks(i)
  BY <1>1 DEF OwnBlocks
<1>4. Once(tool'.got) /\ ToSet(tool'.got) = {}
  BY <1>1, EmptyIs
<1>5. ~Stage("mkdir", {4})'
  BY <1>1 DEF Stage
<1>6. Sound => /\ \A i : Owner(i)' => OwnBlocks(i)' \subseteq block_bitmap' \cup {RootBlock}
                                      /\ Once(table'[i].block)
               /\ \A i, j : Owner(i)' /\ Owner(j)' /\ i # j => OwnBlocks(i)' \cap OwnBlocks(j)' = {}
  BY <1>1, <1>2, <1>3 DEF Owned
<1>7. Once(tool.got)' /\ ToSet(tool.got)' = {}
  BY <1>4 DEF Once
<1>. QED  BY <1>1, <1>5, <1>6, <1>7 DEF Owned, Sound, Once

LEMMA OwnedAllocateFileBlock ==
  ASSUME Basic, Owned, AllocateFileBlock
  PROVE  Owned'
<1>1. PICK b \in Block : b = NewBlock /\ b \notin block_bitmap
  BY NewBlockIs DEF AllocateFileBlock
<1>2. Stage("cp", {2}) /\ tool \in Tool /\ tool.got \in Seq(Block)
  BY AtIs DEF AllocateFileBlock, Basic, TypeOK, Tool
<1>3. /\ tool'.cmd = tool.cmd /\ tool'.at = tool.at /\ tool'.inode = tool.inode
      /\ tool'.got = Append(tool.got, b)
  BY <1>1, <1>2 DEF AllocateFileBlock, Tool
<1>4. /\ entries' = entries /\ table' = table /\ block_bitmap' = block_bitmap \cup {b}
      /\ unmade' = unmade /\ image' = image
  BY <1>1 DEF AllocateFileBlock, TakeBlock
<1>5. \A i : Owner(i)' => Owner(i) /\ OwnBlocks(i)' = OwnBlocks(i)
  BY <1>2, <1>3, <1>4 DEF Owner, Making, IsDir, HasRecord, Stage, OwnBlocks
<1>6. ~Stage("mkdir", {4})' /\ Stage("cp", 1 .. 3)
  BY <1>2, <1>3 DEF Stage
<1>7. ToSet(tool'.got) = ToSet(tool.got) \cup {b}
  BY <1>2, <1>3, AppendSet
<1>8. Sound => Once(tool'.got)
  <2>1. Sound => Once(tool.got) /\ b \notin ToSet(tool.got)
    BY <1>1, <1>6 DEF Owned
  <2>. QED  BY <1>2, <1>3, <2>1, OnceAppend
<1>9. Sound => \A i : Owner(i) => b \notin OwnBlocks(i)
  BY <1>1, BlockAssumption DEF Owned
<1>10. Sound => \A i : Owner(i)' => OwnBlocks(i)' \cap ToSet(tool'.got) = {}
  BY <1>5, <1>6, <1>7, <1>9 DEF Owned
<1>11. Sound => /\ \A i : Owner(i)' => OwnBlocks(i)' \subseteq block_bitmap' \cup {RootBlock}
                                       /\ Once(table'[i].block)
                /\ \A i, j : Owner(i)' /\ Owner(j)' /\ i # j => OwnBlocks(i)' \cap OwnBlocks(j)' = {}
                /\ ToSet(tool'.got) \subseteq block_bitmap'
  BY <1>4, <1>5, <1>6, <1>7 DEF Owned
<1>12. Once(tool.got)' <=> Once(tool'.got)
  BY DEF Once
<1>13. \A i : Once(table[i].block)' <=> Once(table'[i].block)
  BY DEF Once
<1>. QED  BY <1>4, <1>6, <1>8, <1>10, <1>11, <1>12, <1>13 DEF Owned, Sound

LEMMA OwnedWriteFileInode ==
  ASSUME Basic, Naming, Owned, WriteFileInode
  PROVE  Owned'
<1>1. Stage("cp", {3}) /\ tool \in Tool
  BY AtIs DEF WriteFileInode, Basic, TypeOK, Stage
<1>2. PICK n \in Inode : n = tool.inode /\ ~IsDir(n)
  BY BasicWriteFileInode
<1>3. /\ \A j : IsDir(j)' <=> IsDir(j)
      /\ \A j \in Inode \cup {Root} : j # n => table'[j] = table[j]
      /\ table'[n].block = tool.got
  BY <1>2, BasicWriteFileInode
<1>4. /\ entries' = entries /\ block_bitmap' = block_bitmap
      /\ unmade' = unmade /\ image' = image
  BY DEF WriteFileInode, Advance
<1>5. Stage("cp", {4})' /\ tool'.inode = n
  <2>1. Advanced(tool)
    BY <1>1, AdvanceIs DEF WriteFileInode, Basic, ToolOK, Running, Stage
  <2>. QED  BY <1>1, <1>2, <2>1, NextStage DEF Stage
<1>6. Sound => ~Owner(n)
  BY <1>1, <1>2 DEF Owner, Naming, Unnamed, Stage
<1>7. \A i : Owner(i)' => Owner(i) \/ i = n
  <2>1. \A i : HasRecord(i)' <=> HasRecord(i)
    BY <1>4 DEF HasRecord
  <2>2. \A i : Making(i) <=> i \in unmade
    BY <1>1 DEF Making, Stage
  <2>3. \A i : Making(i)' <=> i \in unmade
    BY <1>4, <1>5 DEF Making, Stage
  <2>4. \A i : Owner(i)' => IsDir(i) \/ (HasRecord(i) /\ i \notin unmade) \/ i = n
    BY <1>3, <1>5, <2>1, <2>3 DEF Owner
  <2>. QED  BY <2>2, <2>4 DEF Owner
<1>8. \A i : Owner(i) => i \in Inode \cup {Root}
  BY OwnerIs
<1>9. /\ \A i : Owner(i) /\ i # n => OwnBlocks(i)' = OwnBlocks(i) /\ table'[i] = table[i]
      /\ OwnBlocks(n)' = ToSet(tool.got)
  BY <1>3, <1>8 DEF OwnBlocks
<1>10. Sound => /\ Once(tool.got) /\ ToSet(tool.got) \subseteq block_bitmap
                /\ \A i : Owner(i) => OwnBlocks(i) \cap ToSet(tool.got) = {}
  BY <1>1 DEF Owned, Stage
<1>11. Sound => \A i : Owner(i)' => OwnBlocks(i)' \subseteq block_bitmap' \cup {RootBlock}
                                    /\ Once(table'[i].block)
  BY <1>3, <1>4, <1>6, <1>7, <1>9, <1>10 DEF Owned
<1>12. Sound => \A i, j : Owner(i)' /\ Owner(j)' /\ i # j => OwnBlocks(i)' \cap OwnBlocks(j)' = {}
  BY <1>6, <1>7, <1>9, <1>10 DEF Owned
<1>13. ~Stage("mkdir", {4})' /\ ~Stage("cp", 1 .. 3)'
  BY <1>5 DEF Stage
<1>14. \A i : Once(table[i].block)' <=> Once(table'[i].block)
  BY DEF Once
<1>. QED  BY <1>4, <1>11, <1>12, <1>13, <1>14 DEF Owned, Sound

LEMMA OwnedWriteDirInode ==
  ASSUME Basic, Naming, Owned, WriteDirInode
  PROVE  Owned'
<1>1. Stage("mkdir", {3}) /\ tool \in Tool
  BY AtIs DEF WriteDirInode, Basic, TypeOK, Stage
<1>2. PICK n \in Inode : n = tool.inode /\ ~IsDir(n)
  BY BasicWriteDirInode
<1>b. PICK b \in Block : b = NewBlock /\ b \notin block_bitmap
  BY NewBlockIs DEF WriteDirInode
<1>3. /\ \A j : IsDir(j)' <=> IsDir(j) \/ j = n
      /\ \A j \in Inode \cup {Root} : j # n => table'[j] = table[j]
      /\ table'[n].block = <<b>>
  BY <1>2, <1>b, BasicWriteDirInode
<1>4. /\ entries' = entries /\ block_bitmap' = block_bitmap \cup {b}
      /\ unmade' = unmade /\ image' = image
  BY <1>b DEF WriteDirInode, Advance, TakeBlock
<1>5. Stage("mkdir", {4})' /\ tool'.inode = n
  <2>1. Advanced(tool)
    BY <1>1, AdvanceIs DEF WriteDirInode, Basic, ToolOK, Running, Stage
  <2>. QED  BY <1>1, <1>2, <2>1, NextStage DEF Stage
<1>6. ~Owner(n)
  BY <1>1, <1>2 DEF Owner, Making, Stage
<1>7. \A i : Owner(i)' => Owner(i) \/ i = n
  <2>1. \A i : HasRecord(i)' <=> HasRecord(i)
    BY <1>4 DEF HasRecord
  <2>2. \A i : Making(i) <=> i \in unmade \/ i = n
    BY <1>1, <1>2 DEF Making, Stage
  <2>3. \A i : Making(i)' <=> i \in unmade \/ i = n
    BY <1>4, <1>5 DEF Making, Stage
  <2>4. \A i : Owner(i)' => IsDir(i) \/ (HasRecord(i) /\ ~Making(i)) \/ i = n
    BY <1>3, <1>5, <2>1, <2>2, <2>3 DEF Owner
  <2>. QED  BY <2>4 DEF Owner
<1>8. \A i : Owner(i) => i \in Inode \cup {Root}
  BY OwnerIs
<1>9. /\ \A i : Owner(i) /\ i # n => OwnBlocks(i)' = OwnBlocks(i) /\ table'[i] = table[i]
      /\ OwnBlocks(n)' = {b} /\ Once(table'[n].block)
  <2>1. PICK s : s = <<b>>
    OBVIOUS
  <2>2. s \in Seq({b}) /\ Len(s) = 1 /\ s[1] = b
    BY <2>1
  <2>3. ToSet(s) = {b} /\ Once(s)
    BY <2>2, ToSetIs DEF Once
  <2>. QED  BY <1>3, <1>8, <2>1, <2>3 DEF OwnBlocks
<1>10. Sound => \A i : Owner(i) => b \notin OwnBlocks(i)
  BY <1>b, BlockAssumption DEF Owned
<1>11. Sound => \A i : Owner(i)' => OwnBlocks(i)' \subseteq block_bitmap' \cup {RootBlock}
                                    /\ Once(table'[i].block)
  BY <1>4, <1>6, <1>7, <1>9 DEF Owned
<1>12. Sound => \A i, j : Owner(i)' /\ Owner(j)' /\ i # j => OwnBlocks(i)' \cap OwnBlocks(j)' = {}
  BY <1>6, <1>7, <1>9, <1>10 DEF Owned
<1>13. Sound => entries'[b] = <<>>
  <2>1. b \in DOMAIN entries
    BY DEF Basic, TypeOK
  <2>2. entries[b] # <<>> => \E d \in Inode \cup {Root} : IsDir(d) /\ b \in OwnBlocks(d)
    BY <2>1 DEF Basic, Shape
  <2>. QED  BY <1>4, <1>10, <2>2 DEF Owner
<1>14. Sound => \A c \in OwnBlocks(tool.inode)' : entries'[c] = <<>>
  <2>1. OwnBlocks(tool.inode)' = OwnBlocks(n)'
    BY <1>5 DEF OwnBlocks
  <2>. QED  BY <1>9, <1>13, <2>1
<1>15. ~Stage("cp", 1 .. 3)'
  BY <1>5 DEF Stage
<1>16. \A i : Once(table[i].block)' <=> Once(table'[i].block)
  BY DEF Once
<1>. QED  BY <1>4, <1>11, <1>12, <1>14, <1>15, <1>16 DEF Owned, Sound

LEMMA OwnedWriteDots ==
  ASSUME Basic, Owned, WriteDots
  PROVE  Owned'
<1>1. Stage("mkdir", {4}) /\ tool \in Tool /\ unmade = {}
  BY AtIs DEF WriteDots, Basic, TypeOK, ToolOK, Running, Stage
<1>2. Stage("mkdir", {5})' /\ tool'.inode = tool.inode
  <2>1. Advanced(tool)
    BY <1>1, AdvanceIs DEF WriteDots, Basic, ToolOK, Running, Stage
  <2>. QED  BY <1>1, <2>1, NextStage DEF Stage
<1>3. /\ table' = table /\ block_bitmap' = block_bitmap /\ image' = image
  BY DEF WriteDots
<1>4. /\ \A j : IsDir(j)' <=> IsDir(j)
      /\ IsDir(tool.inode)
      /\ \A j : HasRecord(j)' => HasRecord(j) \/ IsDir(j)
  BY BasicWriteDots
<1>5. \A i : Owner(i)' => Owner(i)
  <2>1. \A i : Owner(i)' => IsDir(i) \/ HasRecord(i)
    BY <1>2, <1>4 DEF Owner, Stage
  <2>2. \A i : Making(i) => i = tool.inode
    BY <1>1 DEF Making
  <2>. QED  BY <1>4, <2>1, <2>2 DEF Owner
<1>6. ~Stage("cp", 1 .. 3)' /\ ~Stage("mkdir", {4})'
  BY <1>2 DEF Stage
<1>. QED  BY <1>3, <1>5, <1>6, OwnedKept DEF Sound

\* A record more makes no owner: it is the directory being made, the file that
\* ext2_cp has written, or one with a name.
LEMMA EntryOwners ==
  ASSUME Basic, Naming, Sound, AddEntry \/ GrowDirectory
  PROVE  /\ \A i : Owner(i)' => Owner(i)
         /\ ~Stage("cp", 1 .. 3)' /\ ~Stage("mkdir", {4})'
<1>1. /\ tool \in Tool /\ Advance(tool)
      /\ Stage("mkdir", {2}) \/ Stage("cp", {4}) \/ Stage("ln", {1})
  BY NewEntryIs DEF AddEntry, GrowDirectory
<1>2. unmade = {} /\ unmade' = unmade
  BY <1>1 DEF Basic, ToolOK, Running, Stage, Advance
<1>3. Advanced(tool)
  BY <1>1, AdvanceIs DEF Basic, ToolOK, Running, Stage
<1>4. \A i : /\ IsDir(i)' <=> IsDir(i)
             /\ HasRecord(i)' => HasRecord(i) \/ i = tool.inode
  BY BasicAddEntry, BasicGrowDirectory
<1>5. \A i : ~Making(i)
  BY <1>1, <1>2 DEF Making, Stage
<1>6. CASE Stage("mkdir", {2})
  <2>1. Stage("mkdir", {3})' /\ tool'.inode = tool.inode
    BY <1>3, <1>6, NextStage DEF Stage
  <2>2. \A i : Owner(i)' => IsDir(i) \/ (HasRecord(i)' /\ i # tool.inode)
    BY <1>4, <2>1 DEF Owner, Making, Stage
  <2>3. ~Stage("cp", 1 .. 3)' /\ ~Stage("mkdir", {4})'
    BY <2>1 DEF Stage
  <2>. QED  BY <1>4, <1>5, <2>2, <2>3 DEF Owner
<1>7. CASE Stage("cp", {4})
  <2>1. tool'.cmd = "none"
    BY <1>3, <1>7, NextStage, IdleIs
  <2>2. \A i : Owner(i)' => IsDir(i) \/ HasRecord(i)'
    BY <1>4, <2>1 DEF Owner, Stage
  <2>3. ~Stage("cp", 1 .. 3)' /\ ~Stage("mkdir", {4})'
    BY <2>1 DEF Stage
  <2>. QED  BY <1>4, <1>5, <1>7, <2>2, <2>3 DEF Owner
<1>8. CASE Stage("ln", {1})
  <2>1. tool'.cmd = "ln"
    BY <1>3, <1>8, NextStage DEF Stage
  <2>2. \A i : Owner(i)' => IsDir(i) \/ HasRecord(i)'
    BY <1>4, <2>1 DEF Owner, Stage
  <2>3. ~Stage("cp", 1 .. 3)' /\ ~Stage("mkdir", {4})'
    BY <2>1 DEF Stage
  <2>4. HasRecord(tool.inode)
    BY <1>8 DEF Naming, Refers
  <2>. QED  BY <1>4, <1>5, <2>2, <2>3, <2>4 DEF Owner
<1>. QED  BY <1>1, <1>6, <1>7, <1>8

LEMMA OwnedAddEntry ==
  ASSUME Basic, Naming, Owned, AddEntry
  PROVE  Owned'
<1>1. table' = table /\ block_bitmap' = block_bitmap /\ image' = image
  BY DEF AddEntry
<1>2. CASE Sound
  BY <1>1, <1>2, EntryOwners, OwnedKept DEF Sound
<1>3. CASE ~Sound
  BY <1>1, <1>3 DEF Owned, Sound
<1>. QED  BY <1>2, <1>3

LEMMA OwnedGrowDirectory ==
  ASSUME Basic, Naming, Owned, GrowDirectory
  PROVE  Owned'
<1>1. PICK b \in Block : b = NewBlock /\ b \notin block_bitmap
  BY NewBlockIs DEF GrowDirectory
<1>2. PICK p \in Inode \cup {Root} : p = tool.parent /\ IsDir(p)
  BY NewEntryIs DEF GrowDirectory, IsDir
<1>3. /\ \A j \in Inode \cup {Root} : j # p => table'[j] = table[j]
      /\ table'[p].block = Append(table[p].block, b)
      /\ block_bitmap' = block_bitmap \cup {b} /\ image' = image
  BY <1>1, <1>2, BasicGrowDirectory DEF GrowDirectory, TakeBlock
<1>. SUFFICES ASSUME Sound PROVE Owned'
  BY <1>3 DEF Owned, Sound
<1>4. /\ \A i : Owner(i)' => Owner(i)
      /\ ~Stage("cp", 1 .. 3)' /\ ~Stage("mkdir", {4})'
  BY EntryOwners
<1>5. \A i : Owner(i) => i \in Inode \cup {Root}
  BY OwnerIs
<1>6. \A i : Owner(i) => b \notin OwnBlocks(i)
  BY <1>1, BlockAssumption DEF Owned
<1>7. Owner(p)
  BY <1>2 DEF Owner
<1>8. table[p].block \in Seq(Block \cup {RootBlock}) /\ b \in Block \cup {RootBlock}
  BY <1>1, BlocksOf DEF Basic
<1>9. OwnBlocks(p)' = OwnBlocks(p) \cup {b}
  BY <1>3, <1>8, AppendSet DEF OwnBlocks
<1>10. Once(table'[p].block)
  <2>1. Once(table[p].block) /\ b \notin ToSet(table[p].block)
    BY <1>6, <1>7 DEF Owned, OwnBlocks
  <2>. QED  BY <1>3, <1>8, <2>1, OnceAppend
<1>11. \A i : Owner(i) /\ i # p => OwnBlocks(i)' = OwnBlocks(i) /\ table'[i] = table[i]
  BY <1>3, <1>5 DEF OwnBlocks
<1>12. \A i : Owner(i)' => OwnBlocks(i)' \subseteq block_bitmap' \cup {RootBlock}
                           /\ Once(table'[i].block)
  <2>1. OwnBlocks(p)' \subseteq block_bitmap' \cup {RootBlock}
    BY <1>3, <1>7, <1>9 DEF Owned
  <2>2. ASSUME NEW i, Owner(i)', i # p
        PROVE  OwnBlocks(i)' \subseteq block_bitmap' \cup {RootBlock} /\ Once(table'[i].block)
    BY <1>3, <1>4, <1>11, <2>2 DEF Owned
  <2>. QED  BY <1>10, <2>1, <2>2
<1>13. \A i, j : Owner(i)' /\ Owner(j)' /\ i # j => OwnBlocks(i)' \cap OwnBlocks(j)' = {}
  BY <1>4, <1>6, <1>7, <1>9, <1>11 DEF Owned
<1>14. \A i : Once(table[i].block)' <=> Once(table'[i].block)
  BY DEF Once
<1>. QED  BY <1>4, <1>12, <1>13, <1>14 DEF Owned

\* A step that leaves the records, what every inode is and its blocks, makes
\* no owner unless it is the tool's own inode.
LEMMA QuietOwners ==
  ASSUME TypeOK, SameFiles, unmade' = unmade,
         ~Stage("mkdir", {3, 4}),
         (Stage("cp", {4}) \/ Stage("rm", {2, 3}))' =>
           (Stage("cp", {4}) \/ Stage("rm", {2, 3})) /\ tool'.inode = tool.inode
  PROVE  \A i : Owner(i)' => Owner(i)
<1>1. \A i : /\ IsDir(i)' <=> IsDir(i)
             /\ HasRecord(i)' <=> HasRecord(i)
  BY SameFilesIs
<1>2. \A i : Making(i) => Making(i)'
  BY DEF Making
<1>. QED  BY <1>1, <1>2 DEF Owner

LEMMA OwnedNewInode ==
  ASSUME Basic, Owned, NewInode
  PROVE  Owned'
<1>1. PICK i \in Inode : i = Min(ClearInodes)
  <2>1. ClearInodes \in SUBSET Nat /\ ClearInodes # {}
    BY InodeAssumption DEF ClearInodes, NewInode
  <2>. QED  BY <2>1, MinOf DEF ClearInodes
<1>2. Stage("mkdir", {1}) \/ Stage("cp", {1})
  BY AtIs DEF NewInode, Basic
<1>3. tool'.cmd = tool.cmd /\ tool'.at = 2 /\ tool'.got = tool.got
  <2>1. PICK t : t = [tool EXCEPT !.inode = i]
    OBVIOUS
  <2>2. t \in Tool /\ t.cmd = tool.cmd /\ t.at = tool.at /\ t.got = tool.got
    BY <1>1, <2>1 DEF Basic, TypeOK, Tool
  <2>3. Advance(t) /\ t.at \in 1 .. Len(Steps[t.cmd]) /\ t.cmd # "none"
    BY <1>1, <1>2, <2>1, <2>2 DEF NewInode, Basic, ToolOK, Running, Stage
  <2>4. Advanced(t)
    BY <2>2, <2>3, AdvanceIs
  <2>. QED  BY <1>2, <2>2, <2>4, NextStage DEF Stage
<1>4. SameFiles /\ unmade' = unmade /\ image' = image /\ block_bitmap' = block_bitmap
  BY DEF NewInode, SameFiles, Advance
<1>5. \A j : Owner(j)' => Owner(j)
  BY <1>2, <1>3, <1>4, QuietOwners DEF Basic, Stage
<1>6. ~Stage("mkdir", {4})' /\ (Stage("cp", 1 .. 3)' => Stage("cp", 1 .. 3))
  BY <1>2, <1>3 DEF Stage
<1>7. \A j : Owner(j)' => table'[j].block = table[j].block
  BY <1>4, <1>5, OwnerIs DEF SameFiles
<1>. QED  BY <1>3, <1>4, <1>5, <1>6, <1>7, OwnedKept DEF Sound

LEMMA OwnedAdvance ==
  ASSUME Basic, Naming, Owned,
         BlocksAllocated \/ CountDir \/ CountLink \/ FreeInode \/ FreeBlocks \/ FreeCounts
  PROVE  Owned'
<1>1. /\ Stage("mkdir", {5}) \/ Stage("cp", {2}) \/ Stage("ln", {2}) \/ Stage("rm", 2 .. 4)
      /\ block_bitmap' # block_bitmap => FreeBlocks /\ Stage("rm", {3})
  BY AtIs DEF Basic, BlocksAllocated, CountDir, CountLink, FreeInode, FreeBlocks, FreeCounts,
       Stage, disk
<1>2. image' = image /\ Advance(tool) /\ entries' = entries
  BY DEF BlocksAllocated, CountDir, CountLink, FreeInode, FreeBlocks, FreeCounts, disk
<1>3. tool \in Tool /\ tool.cmd # "none" /\ tool.at \in 1 .. Len(Steps[tool.cmd])
  BY <1>1 DEF Basic, TypeOK, ToolOK, Running, Stage
<1>4. Advanced(tool) /\ unmade' = unmade
  BY <1>2, <1>3, AdvanceIs DEF Advance
<1>5. SameFiles
  <2>1. CASE CountLink
    <3>1. \A i \in Inode \cup {Root} :
            table'[i].mode = table[i].mode /\ table'[i].block = table[i].block
      <4>1. table' = [table EXCEPT ![tool.parent] =
                        [table[tool.parent] EXCEPT !.links = table[tool.parent].links + 1]]
        BY <2>1 DEF CountLink
      <4>. QED  BY <4>1 DEF Basic, TypeOK
    <3>. QED  BY <1>2, <3>1 DEF SameFiles
  <2>2. CASE ~CountLink
    BY <1>2, <2>2 DEF BlocksAllocated, CountDir, FreeInode, FreeBlocks, FreeCounts, disk, SameFiles
  <2>. QED  BY <2>1, <2>2
<1>6. /\ tool' # Idle => /\ tool'.cmd = tool.cmd /\ tool'.at = tool.at + 1
                         /\ tool'.inode = tool.inode /\ tool'.got = tool.got
      /\ Stage("rm", {3}) => tool'.at = 4 /\ tool'.cmd = "rm"
  BY <1>1, <1>3, <1>4, NextStage DEF Stage
<1>7. \A i : Owner(i)' => Owner(i)
  <2>1. (Stage("cp", {4}) \/ Stage("rm", {2, 3}))' => Stage("rm", {2}) /\ tool'.inode = tool.inode
    BY <1>1, <1>6, IdleIs DEF Stage
  <2>2. ~Stage("mkdir", {3, 4}) /\ (Stage("rm", {2}) => Stage("rm", {2, 3}))
    BY <1>1 DEF Stage
  <2>. QED  BY <1>4, <1>5, <2>1, <2>2, QuietOwners DEF Basic
<1>8. Stage("cp", 1 .. 3)' => /\ Stage("cp", 1 .. 3) /\ tool'.got = tool.got
                              /\ block_bitmap \subseteq block_bitmap'
  BY <1>1, <1>6, IdleIs DEF Stage
<1>9. ~Stage("mkdir", {4})'
  BY <1>1, <1>6, IdleIs DEF Stage
<1>10. \A i : Owner(i)' => table'[i].block = table[i].block
  BY <1>5, <1>7, OwnerIs DEF SameFiles
<1>11. ASSUME Sound, NEW i, Owner(i)', NEW b \in OwnBlocks(i), b \in block_bitmap
       PROVE  b \in block_bitmap'
  <2>1. CASE block_bitmap' = block_bitmap
    BY <1>11, <2>1
  <2>2. CASE FreeBlocks /\ Stage("rm", {3})
    <3>1. block_bitmap \ OwnBlocks(tool.inode) \subseteq block_bitmap'
      <4>1. tool.inode \in Inode \cup {Root}
        BY <2>2 DEF Basic, ToolOK, Stage
      <4>. QED  BY <2>2, <4>1, PointersIs DEF FreeBlocks, Basic
    <3>2. ~HasRecord(tool.inode) /\ ~IsDir(tool.inode)
      BY <1>11, <2>2 DEF Naming, Unnamed, Stage, Basic, ToolOK, IsDir
    <3>3. i # tool.inode
      <4>1. HasRecord(i) \/ IsDir(i)
        <5>1. Owner(i)' => IsDir(i)' \/ HasRecord(i)'
          BY <1>6, <2>2 DEF Owner, Stage
        <5>. QED  BY <1>5, <1>11, <5>1, SameFilesIs DEF Basic
      <4>. QED  BY <3>2, <4>1
    <3>4. Owner(i) /\ Owner(tool.inode)
      BY <1>7, <1>11, <2>2 DEF Owner, Stage
    <3>5. OwnBlocks(i) \cap OwnBlocks(tool.inode) = {}
      BY <1>11, <3>3, <3>4 DEF Owned
    <3>. QED  BY <1>11, <3>1, <3>5
  <2>. QED  BY <1>1, <2>1, <2>2
<1>12. CASE Sound
  BY <1>2, <1>7, <1>8, <1>9, <1>10, <1>11, <1>12, OwnedKept DEF Sound
<1>13. CASE ~Sound
  BY <1>2, <1>13 DEF Owned, Sound
<1>. QED  BY <1>12, <1>13

LEMMA OwnedUnlink ==
  ASSUME Basic, Naming, Owned, Unlink
  PROVE  Owned'
<1>1. /\ Stage("rm", {1}) /\ tool \in Tool
      /\ UNCHANGED <<block_bitmap, table>>
      /\ \/ tool' = Idle /\ UNCHANGED <<unmade, image>>
         \/ Advance(tool) /\ (Sound' => Sound)
  BY UnlinkIs DEF Sound
<1>2. unmade = {} /\ unmade' = {}
  BY <1>1 DEF Basic, ToolOK, Running, Stage, Advance
<1>3. tool'.cmd = "none" \/ (tool'.cmd = "rm" /\ tool'.inode = tool.inode)
  <2>1. CASE tool' = Idle
    BY <2>1, IdleIs
  <2>2. CASE Advance(tool)
    <3>1. Advanced(tool)
      BY <1>1, <2>2, AdvanceIs DEF Basic, ToolOK, Running, Stage
    <3>. QED  BY <1>1, <3>1, NextStage DEF Stage
  <2>. QED  BY <1>1, <2>1, <2>2
<1>4. \A i : /\ IsDir(i)' <=> IsDir(i)
             /\ HasRecord(i)' => HasRecord(i)
  BY BasicUnlink
<1>5. Sound => \A i : Owner(i)' => Owner(i)
  <2>1. \A i : ~Making(i)
    BY <1>1, <1>2 DEF Making, Stage
  <2>2. \A i : Owner(i)' => IsDir(i) \/ HasRecord(i) \/ i = tool.inode
    BY <1>3, <1>4 DEF Owner, Stage
  <2>3. Sound => HasRecord(tool.inode)
    BY <1>1 DEF Naming, Refers
  <2>. QED  BY <2>1, <2>2, <2>3 DEF Owner
<1>6. ~Stage("mkdir", {4})' /\ ~Stage("cp", 1 .. 3)'
  BY <1>3 DEF Stage
<1>7. Sound' => Sound
  BY <1>1 DEF Sound
<1>8. CASE Sound
  BY <1>1, <1>5, <1>6, <1>7, <1>8, OwnedKept
<1>9. CASE ~Sound
  BY <1>7, <1>9 DEF Owned
<1>. QED  BY <1>8, <1>9

LEMMA OwnedNext == Basic /\ Naming /\ Owned /\ [Next]_vars => Owned'
<1>. SUFFICES ASSUME Basic, Naming, Owned, [Next]_vars PROVE Owned'
  OBVIOUS
<1>1. CASE Ready /\ StartsTool
  BY <1>1, StartedIs, OwnedStart
<1>2. CASE NewInode \/ AllocateFileBlock
  BY <1>2, OwnedNewInode, OwnedAllocateFileBlock
<1>3. CASE BlocksAllocated \/ CountDir \/ CountLink \/ FreeInode \/ FreeBlocks \/ FreeCounts
  BY <1>3, OwnedAdvance
<1>4. CASE WriteFileInode \/ WriteDirInode \/ WriteDots
  BY <1>4, OwnedWriteFileInode, OwnedWriteDirInode, OwnedWriteDots
<1>5. CASE AddEntry \/ GrowDirectory \/ Unlink
  BY <1>5, OwnedAddEntry, OwnedGrowDirectory, OwnedUnlink
<1>6. CASE LnWritesAstray \/ RmWritesAstray \/ InodeOverrun \/ NothingFree
  BY <1>6 DEF LnWritesAstray, RmWritesAstray, InodeOverrun, NothingFree, Undefined, Owned, Sound
<1>7. CASE Kill
  <2>1. tool'.cmd = "none" /\ entries' = entries /\ table' = table /\ image' = image
        /\ block_bitmap' = block_bitmap
    BY <1>7, IdleIs DEF Kill, disk
  <2>2. \A i : Making(i) => Making(i)'
    BY <1>7, <2>1, HalfMadeIs DEF Making, Kill, Stage, Basic
  <2>3. \A i : Owner(i)' => IsDir(i) \/ (HasRecord(i) /\ ~Making(i))
    BY <2>1, <2>2 DEF Owner, IsDir, HasRecord, Stage
  <2>4. ~Stage("cp", 1 .. 3)' /\ ~Stage("mkdir", {4})'
    BY <2>1 DEF Stage
  <2>. QED  BY <2>1, <2>3, <2>4, OwnedKept DEF Owner, Sound
<1>8. CASE Rest \/ UNCHANGED vars
  <2>1. /\ entries' = entries /\ table' = table /\ image' = image /\ tool' = tool
        /\ block_bitmap' = block_bitmap /\ unmade' = unmade
    BY <1>8 DEF Rest, vars, disk
  <2>2. \A i : (Owner(i)' <=> Owner(i)) /\ OwnBlocks(i)' = OwnBlocks(i)
    BY <2>1 DEF Owner, Making, IsDir, HasRecord, Stage, OwnBlocks
  <2>3. OwnBlocks(tool.inode)' = OwnBlocks(tool.inode)
    BY <2>1 DEF OwnBlocks
  <2>. QED  BY <2>1, <2>2, <2>3 DEF Owned, Once, Sound, Stage
<1>. QED  BY <1>1, <1>2, <1>3, <1>4, <1>5, <1>6, <1>7, <1>8 DEF Next, StartsTool

Inv == Basic /\ Naming /\ Owned

LEMMA InvAlways == Spec => []Inv
<1>1. Init => Inv
  BY BasicInit, NamingInit, OwnedInit DEF Inv
<1>2. Inv /\ [Next]_vars => Inv'
  BY BasicNext, NamingNext, OwnedNext DEF Inv
<1>. QED  BY <1>1, <1>2, PTL DEF Spec

\* A sequence without repetitions has as many members as places.
LEMMA OnceCounts ==
  ASSUME NEW S, NEW s \in Seq(S), Once(s)
  PROVE  Cardinality(ToSet(s)) = Len(s)
<1>1. Len(s) \in Nat /\ DOMAIN s = 1 .. Len(s)
  OBVIOUS
<1>2. s \in Bijection(1 .. Len(s), ToSet(s))
  <2>1. s \in [1 .. Len(s) -> ToSet(s)]
    <3>1. \A k \in 1 .. Len(s) : s[k] \in ToSet(s)
      BY ToSetIs
    <3>2. s = [k \in 1 .. Len(s) |-> s[k]]
      OBVIOUS
    <3>. QED  BY <3>1, <3>2
  <2>2. \A x \in ToSet(s) : \E k \in 1 .. Len(s) : s[k] = x
    BY ToSetIs
  <2>. QED  BY <1>1, <2>1, <2>2 DEF Bijection, Injection, IsInjective, Surjection, Once
<1>3. ExistsBijection(1 .. Len(s), ToSet(s))
  BY <1>2 DEF ExistsBijection
<1>. QED  BY <1>1, <1>3, FS_CountingElements

\* No block belongs to two files, or twice to one, and the bitmap has every
\* block of a file: after every write, whichever tools were killed where, a
\* block may be lost and is never shared.
THEOREM NoBlockIsShared == Spec => []BlocksOwnedOnce
<1>1. Inv => BlocksOwnedOnce
  <2>. SUFFICES ASSUME Inv, Sound
       PROVE  /\ \A i \in LiveInodes :
                   /\ OwnBlocks(i) \subseteq block_bitmap \cup {RootBlock}
                   /\ Cardinality(OwnBlocks(i)) = Len(table[i].block)
              /\ \A i, j \in LiveInodes : i # j => OwnBlocks(i) \cap OwnBlocks(j) = {}
    BY DEF BlocksOwnedOnce
  <2>1. ASSUME NEW i \in LiveInodes PROVE Owner(i) /\ i \in Inode \cup {Root}
    <3>1. i \in NamedInodes \cup {Root} /\ i \notin Unfinished
      BY DEF LiveInodes
    <3>2. ~Making(i)
      BY <3>1, HalfMadeIs DEF Inv, Basic, Unfinished, Making
    <3>3. HasRecord(i) \/ IsDir(i)
      BY <3>1, ViewIs DEF Inv, Basic, View, Shape
    <3>4. Owner(i)
      BY <3>2, <3>3 DEF Owner
    <3>. QED  BY <3>4, OwnerIs DEF Inv
  <2>2. ASSUME NEW i \in LiveInodes
        PROVE  /\ OwnBlocks(i) \subseteq block_bitmap \cup {RootBlock}
               /\ Cardinality(OwnBlocks(i)) = Len(table[i].block)
    <3>1. OwnBlocks(i) \subseteq block_bitmap \cup {RootBlock} /\ Once(table[i].block)
      BY <2>1 DEF Inv, Owned
    <3>2. table[i].block \in Seq(Block \cup {RootBlock})
      BY <2>1, BlocksOf DEF Inv, Basic
    <3>. QED  BY <3>1, <3>2, OnceCounts DEF OwnBlocks
  <2>. QED  BY <2>1, <2>2 DEF Inv, Owned
<1>. QED  BY <1>1, InvAlways, PTL

----------------------------------------------------------------------------
(* Only ext2_rm takes a name away                                          *)

\* The directory has a record with the name.
Has(d, n) == \E b \in OwnBlocks(d) : \E k \in 1 .. Len(entries[b]) : entries[b][k].name = n

NamesView == \A d, n : <<d, n>> \in AllNames <=> IsDir(d) /\ n \in Name /\ Has(d, n)

LEMMA NamesViewIs == Basic => NamesView
<1>. SUFFICES ASSUME Basic, NEW d, NEW n
              PROVE  <<d, n>> \in AllNames <=> IsDir(d) /\ n \in Name /\ Has(d, n)
  BY DEF NamesView
<1>1. d \in Directories <=> IsDir(d)
  BY ViewIs DEF Basic, View
<1>2. ASSUME IsDir(d) PROVE Lookup(d, n) # Missing <=> Has(d, n)
  <2>1. d \in Inode \cup {Root} /\ TypeOK
    BY <1>2 DEF IsDir, Basic
  <2>2. CASE Lookup(d, n) = Missing
    BY <2>1, <2>2, LookupIs DEF Has
  <2>3. CASE Lookup(d, n) # Missing
    <3>1. \E b \in OwnBlocks(d) : \E k \in 1 .. Len(entries[b]) :
            entries[b][k].name = n /\ entries[b][k].inode = Lookup(d, n)
      BY <2>1, <2>3, LookupIs
    <3>. QED  BY <2>3, <3>1 DEF Has
  <2>. QED  BY <2>2, <2>3
<1>. QED  BY <1>1, <1>2 DEF AllNames

LEMMA NamesViewNext == Basic' => NamesView'
BY NamesViewIs, PTL

\* The step leaves the record at k of the block b somewhere in the block.
Kept(b, k) == \E l \in 1 .. Len(entries'[b]) : entries'[b][l] = entries[b][k]

\* The block of a new directory is empty when its records are written.
LEMMA WriteDotsKeeps ==
  ASSUME Basic, Owned, WriteDots, NEW b \in Block \cup {RootBlock},
         NEW k \in 1 .. Len(entries[b])
  PROVE  Kept(b, k)
<1>1. Stage("mkdir", {4}) /\ IsDir(tool.inode) /\ Sound
  BY AtIs DEF WriteDots, Basic, ToolOK, Running, Stage
<1>2. PICK c \in Block \cup {RootBlock} :
        c = table[tool.inode].block[1] /\ c \in OwnBlocks(tool.inode)
  <2>1. table[tool.inode].block \in Seq(Block \cup {RootBlock}) /\ table[tool.inode].block # <<>>
    BY <1>1, BlocksOf DEF Basic, Shape, IsDir
  <2>2. 1 \in 1 .. Len(table[tool.inode].block)
    BY <2>1
  <2>. QED  BY <1>1, <2>2, BlocksOf DEF Basic, IsDir
<1>3. Len(entries[c]) = 0
  BY <1>1, <1>2 DEF Owned
<1>4. entries'[b] = entries[b]
  BY <1>2, <1>3 DEF WriteDots, Basic, TypeOK
<1>. QED  BY <1>4 DEF Kept

LEMMA AddEntryKeeps ==
  ASSUME Basic, AddEntry, NEW b \in Block \cup {RootBlock}, NEW k \in 1 .. Len(entries[b])
  PROVE  Kept(b, k)
<1>1. PICK c \in Block \cup {RootBlock} : c = EntryBlock
  BY NewEntryIs DEF AddEntry
<1>2. PICK R : R = Append(entries[c], NewEntry)
  OBVIOUS
<1>3. /\ Len(R) = Len(entries[c]) + 1 /\ Len(entries[c]) \in Nat
      /\ \A l \in 1 .. Len(entries[c]) : R[l] = entries[c][l]
  <2>1. entries[c] \in Seq(Entry) /\ NewEntry \in Entry
    BY <1>1, NewEntryIs DEF AddEntry, Basic, TypeOK
  <2>. QED  BY <1>2, <2>1, AppendIs
<1>4. entries'[b] = IF b = c THEN R ELSE entries[b]
  BY <1>1, <1>2 DEF AddEntry, Basic, TypeOK
<1>. QED  BY <1>3, <1>4 DEF Kept

\* A block that is free holds no record.
LEMMA GrowDirectoryKeeps ==
  ASSUME Basic, Owned, GrowDirectory, NEW b \in Block \cup {RootBlock},
         NEW k \in 1 .. Len(entries[b])
  PROVE  Kept(b, k)
<1>1. PICK c \in Block : c = NewBlock /\ c \notin block_bitmap
  BY NewBlockIs DEF GrowDirectory
<1>2. Sound
  BY NewEntryIs DEF GrowDirectory, Basic, ToolOK, Running, Stage
<1>3. b # c
  <2>1. b \in DOMAIN entries /\ entries[b] # <<>>
    BY DEF Basic, TypeOK
  <2>2. PICK d \in Inode \cup {Root} : IsDir(d) /\ b \in OwnBlocks(d)
    BY <2>1 DEF Basic, Shape
  <2>. QED  BY <1>1, <1>2, <2>2, BlockAssumption DEF Owned, Owner
<1>4. entries'[b] = entries[b]
  BY <1>1, <1>3 DEF GrowDirectory, Basic, TypeOK
<1>. QED  BY <1>4 DEF Kept

\* The record that ext2_rm takes out: the first of the file.
FirstOfFile(b, k) ==
  /\ b = Head(table[tool.parent].block) /\ entries[b][k].inode = tool.inode
  /\ \A j \in 1 .. k - 1 : entries[b][j].inode # tool.inode

LEMMA UnlinkKeeps ==
  ASSUME Basic, Unlink, NEW b \in Block \cup {RootBlock}, NEW k \in 1 .. Len(entries[b])
  PROVE  Kept(b, k) \/ (b \in OwnBlocks(tool.parent) /\ FirstOfFile(b, k))
<1>1. CASE entries' = entries
  BY <1>1 DEF Kept
<1>2. ASSUME NEW c \in OwnBlocks(tool.parent), c \in Block \cup {RootBlock},
             NEW m \in 1 .. Len(entries[c]), FirstOfFile(c, m),
             entries' = [entries EXCEPT ![c] = RemoveAt(@, m)]
      PROVE  Kept(b, k) \/ (b \in OwnBlocks(tool.parent) /\ FirstOfFile(b, k))
  <2>1. PICK R : R = RemoveAt(entries[c], m)
    OBVIOUS
  <2>2. entries'[b] = IF b = c THEN R ELSE entries[b]
    BY <1>2, <2>1 DEF Basic, TypeOK
  <2>3. entries[c] \in Seq(Entry)
    BY <1>2 DEF Basic, TypeOK
  <2>4. /\ Len(R) = Len(entries[c]) - 1
        /\ \A i \in 1 .. Len(entries[c]) - 1 :
             R[i] = IF i < m THEN entries[c][i] ELSE entries[c][i + 1]
    BY <2>1, <2>3, RemoveAtIs
  <2>5. CASE b # c
    BY <2>2, <2>5 DEF Kept
  <2>6. CASE b = c /\ k = m
    BY <1>2, <2>6
  <2>7. CASE b = c /\ k < m
    <3>1. k \in 1 .. Len(R) /\ R[k] = entries[c][k]
      BY <2>3, <2>4, <2>7
    <3>. QED  BY <2>2, <2>7, <3>1 DEF Kept
  <2>8. CASE b = c /\ k > m
    <3>1. k - 1 \in 1 .. Len(R) /\ R[k - 1] = entries[c][k]
      BY <2>3, <2>4, <2>8
    <3>. QED  BY <2>2, <2>8, <3>1 DEF Kept
  <2>. QED  BY <2>3, <2>5, <2>6, <2>7, <2>8
<1>3. PICK c \in OwnBlocks(tool.parent) :
        c = Head(table[tool.parent].block) /\ c \in Block \cup {RootBlock}
  BY UnlinkIs
<1>4. CASE Named(c) = {}
  <2>1. entries' = entries
    BY <1>3, <1>4 DEF Unlink
  <2>. QED  BY <1>1, <2>1
<1>5. CASE Named(c) # {}
  <2>1. PICK m : m = Unlinked(c)
    OBVIOUS
  <2>2. m \in Named(c) /\ \A j \in Named(c) : m <= j
    <3>1. Named(c) \in SUBSET Nat
      BY DEF Named
    <3>. QED  BY <1>5, <2>1, <3>1, MinExists DEF Unlinked
  <2>3. entries' = [entries EXCEPT ![c] = RemoveAt(@, m)]
    BY <1>3, <1>5, <2>1 DEF Unlink
  <2>4. entries[c] \in Seq(Entry)
    BY <1>3 DEF Basic, TypeOK
  <2>5. m \in 1 .. Len(entries[c]) /\ FirstOfFile(c, m)
    <3>1. m \in 1 .. Len(entries[c]) /\ entries[c][m].inode = tool.inode
      BY <2>2 DEF Named
    <3>2. ASSUME NEW j \in 1 .. m - 1, entries[c][j].inode = tool.inode PROVE FALSE
      <4>1. j \in 1 .. Len(entries[c]) /\ j < m
        BY <2>4, <3>1
      <4>2. j \in Named(c)
        BY <3>2, <4>1 DEF Named
      <4>. QED  BY <2>2, <3>1, <4>1, <4>2
    <3>. QED  BY <1>3, <3>1, <3>2 DEF FirstOfFile
  <2>. QED  BY <1>2, <1>3, <2>3, <2>5
<1>. QED  BY <1>4, <1>5

\* The steps that leave records and blocks alone.
Quiet ==
  \/ Ready /\ StartsTool
  \/ NewInode \/ AllocateFileBlock \/ BlocksAllocated \/ CountDir \/ CountLink
  \/ FreeInode \/ FreeBlocks \/ FreeCounts
  \/ LnWritesAstray \/ RmWritesAstray \/ InodeOverrun \/ NothingFree
  \/ Kill \/ Rest \/ UNCHANGED vars

LEMMA QuietIs == ASSUME Basic, Quiet PROVE SameFiles
<1>1. CASE Ready /\ StartsTool
  <2>1. PICK cmd, parent, name, inode, need : Start(cmd, parent, name, inode, need)
    BY <1>1, StartedIs DEF Started
  <2>. QED  BY <2>1 DEF Start, disk, SameFiles
<1>2. CASE CountLink
  <2>1. \A i \in Inode \cup {Root} :
          table'[i].mode = table[i].mode /\ table'[i].block = table[i].block
    <3>1. table' = [table EXCEPT ![tool.parent] =
                      [table[tool.parent] EXCEPT !.links = table[tool.parent].links + 1]]
      BY <1>2 DEF CountLink
    <3>. QED  BY <3>1 DEF Basic, TypeOK
  <2>. QED  BY <1>2, <2>1 DEF SameFiles, CountLink
<1>3. CASE \/ NewInode \/ AllocateFileBlock \/ BlocksAllocated \/ CountDir
           \/ FreeInode \/ FreeBlocks \/ FreeCounts
           \/ LnWritesAstray \/ RmWritesAstray \/ InodeOverrun \/ NothingFree
           \/ Kill \/ Rest \/ UNCHANGED vars
  BY <1>3 DEF NewInode, AllocateFileBlock, BlocksAllocated, CountDir, FreeInode, FreeBlocks,
       FreeCounts, LnWritesAstray, RmWritesAstray, InodeOverrun, NothingFree, Undefined,
       Kill, Rest, vars, disk, SameFiles
<1>. QED  BY <1>1, <1>2, <1>3 DEF Quiet

LEMMA StepIs ==
  ASSUME [Next]_vars
  PROVE  Quiet \/ WriteFileInode \/ WriteDirInode \/ WriteDots \/ AddEntry \/ GrowDirectory \/ Unlink
BY DEF Next, StartsTool, Quiet

\* Every step keeps the directories, their blocks and their records, but for
\* the one that ext2_rm takes out.
LEMMA RecordsKept ==
  ASSUME Inv, [Next]_vars, NEW b \in Block \cup {RootBlock}, NEW k \in 1 .. Len(entries[b])
  PROVE  \/ Kept(b, k)
         \/ Unlink /\ b \in OwnBlocks(tool.parent) /\ FirstOfFile(b, k)
<1>1. CASE Quiet \/ WriteFileInode \/ WriteDirInode
  <2>1. entries' = entries
    BY <1>1, QuietIs DEF Inv, SameFiles, WriteFileInode, WriteDirInode
  <2>. QED  BY <2>1 DEF Kept
<1>2. CASE WriteDots \/ AddEntry \/ GrowDirectory \/ Unlink
  BY <1>2, WriteDotsKeeps, AddEntryKeeps, GrowDirectoryKeeps, UnlinkKeeps DEF Inv
<1>. QED  BY <1>1, <1>2, StepIs

LEMMA DirectoriesKept ==
  ASSUME Inv, [Next]_vars, NEW d, IsDir(d)
  PROVE  IsDir(d)' /\ OwnBlocks(d) \subseteq OwnBlocks(d)'
<1>1. CASE Quiet
  BY <1>1, QuietIs, SameFilesIs DEF Inv, Basic, IsDir
<1>2. CASE WriteFileInode \/ WriteDirInode
  <2>1. table'[d] = table[d] /\ IsDir(d)'
    BY <1>2, BasicWriteFileInode, BasicWriteDirInode DEF Inv, IsDir
  <2>. QED  BY <2>1 DEF OwnBlocks
<1>3. CASE WriteDots \/ AddEntry \/ Unlink
  <2>1. table' = table
    BY <1>3 DEF WriteDots, AddEntry, Unlink
  <2>. QED  BY <2>1 DEF IsDir, OwnBlocks
<1>4. CASE GrowDirectory
  <2>1. PICK c \in Block : c = NewBlock
    BY <1>4, NewBlockIs DEF GrowDirectory
  <2>2. PICK p \in Inode \cup {Root} : p = tool.parent
    BY <1>4, NewEntryIs DEF GrowDirectory, IsDir, Inv
  <2>3. /\ \A j \in Inode \cup {Root} : j # p => table'[j] = table[j]
        /\ table'[p].block = Append(table[p].block, c)
        /\ IsDir(d)'
    BY <1>4, <2>1, <2>2, BasicGrowDirectory DEF Inv
  <2>4. table[p].block \in Seq(Block \cup {RootBlock}) /\ c \in Block \cup {RootBlock}
    BY <2>1, BlocksOf DEF Inv, Basic
  <2>5. ToSet(Append(table[p].block, c)) = ToSet(table[p].block) \cup {c}
    BY <2>4, AppendSet
  <2>. QED  BY <2>3, <2>5 DEF OwnBlocks, IsDir
<1>. QED  BY <1>1, <1>2, <1>3, <1>4, StepIs

\* The first record with a name comes no later than any.
LEMMA FirstWithName ==
  ASSUME NEW R \in Seq(Entry), NEW n, NEW l \in 1 .. Len(R), R[l].name = n
  PROVE  \E k \in 1 .. l : R[k].name = n /\ R[k].inode = Find(R, n)
<1>1. \E k \in 1 .. Len(R) : /\ R[k].name = n /\ R[k].inode = Find(R, n)
                             /\ \A j \in 1 .. k - 1 : R[j].name # n
  BY FindIs
<1>. QED  BY <1>1

\* A name that the first block of a directory has is looked up there.
LEMMA FoundInFirst ==
  ASSUME TypeOK, NEW d \in Inode \cup {Root}, NEW n, table[d].block # <<>>,
         NEW l \in 1 .. Len(entries[Head(table[d].block)]),
         entries[Head(table[d].block)][l].name = n
  PROVE  \E k \in 1 .. l : /\ entries[Head(table[d].block)][k].name = n
                          /\ entries[Head(table[d].block)][k].inode = Lookup(d, n)
<1>. DEFINE found == {j \in 1 .. Len(table[d].block) :
                        \E r \in ToSet(entries[table[d].block[j]]) : r.name = n}
<1>1. /\ table[d].block \in Seq(Block \cup {RootBlock})
      /\ 1 \in 1 .. Len(table[d].block) /\ Head(table[d].block) = table[d].block[1]
  BY BlocksOf
<1>2. PICK R \in Seq(Entry) : R = entries[table[d].block[1]]
  BY <1>1 DEF TypeOK
<1>3. l \in 1 .. Len(R) /\ R[l].name = n
  BY <1>1, <1>2
<1>4. 1 \in found
  <2>1. R[l] \in ToSet(R)
    BY <1>3, ToSetIs
  <2>. QED  BY <1>1, <1>2, <1>3, <2>1
<1>5. Min(found) = 1
  <2>1. found \in SUBSET Nat /\ \A j \in found : 1 <= j
    BY <1>1
  <2>. HIDE DEF found
  <2>2. PICK m : m = Min(found)
    OBVIOUS
  <2>3. m \in found /\ m <= 1
    BY <1>4, <2>1, <2>2, MinExists
  <2>4. m \in Nat /\ 1 <= m
    BY <2>1, <2>3
  <2>. QED  BY <2>2, <2>3, <2>4
<1>6. Lookup(d, n) = Find(R, n)
  BY <1>2, <1>4, <1>5 DEF Lookup
<1>. HIDE DEF found
<1>7. \E k \in 1 .. l : R[k].name = n /\ R[k].inode = Find(R, n)
  BY <1>3, FirstWithName
<1>. QED  BY <1>1, <1>2, <1>6, <1>7

\* ext2_rm takes the name it was given exactly if the directory has no other
\* of the file before it.
LEMMA UnlinkedName ==
  ASSUME Basic, Unlink, NEW b \in OwnBlocks(tool.parent), NEW k \in 1 .. Len(entries[b]),
         FirstOfFile(b, k)
  PROVE  entries[b][k].name = tool.name <=> ~OtherNameFirst
<1>1. /\ IsDir(tool.parent) /\ TypeOK
      /\ Lookup(tool.parent, tool.name) = tool.inode
  BY UnlinkIs DEF IsDir, Basic, ToolOK, Stage
<1>p. PICK p \in Inode \cup {Root} : p = tool.parent
  BY <1>1 DEF IsDir
<1>n. PICK n : n = tool.name
  OBVIOUS
<1>2. p = tool.parent /\ n = tool.name
  BY <1>p, <1>n
<1>3. table[p].block # <<>>
  BY <1>1, <1>2 DEF Basic, Shape, IsDir
<1>4. PICK R \in Seq(Entry) : R = entries[b] /\ R = entries[Head(table[p].block)]
  <2>1. b \in DOMAIN entries
    BY <1>1, <1>2, BlocksOf DEF TypeOK
  <2>. QED  BY <1>1, <1>2, <2>1 DEF TypeOK, FirstOfFile
<1>5. k \in 1 .. Len(R) /\ R[k].inode = tool.inode
      /\ \A j \in 1 .. k - 1 : R[j].inode # tool.inode
  BY <1>4 DEF FirstOfFile
<1>6. \A l \in 1 .. k : R[l].name = n => l = k
  <2>. SUFFICES ASSUME NEW l \in 1 .. k, R[l].name = n PROVE l = k
    OBVIOUS
  <2>1. l \in 1 .. Len(R)
    BY <1>5
  <2>2. PICK j \in 1 .. l : R[j].name = n /\ R[j].inode = Lookup(p, n)
    BY <1>1, <1>3, <1>4, <2>1, FoundInFirst
  <2>3. R[j].inode = tool.inode
    BY <1>1, <1>2, <2>2
  <2>. QED  BY <1>5, <2>3
<1>7. OtherNameFirst <=> \E m \in 1 .. Len(R) :
                           R[m].inode = tool.inode /\ \A l \in 1 .. m : R[l].name # n
  BY <1>2, <1>4 DEF OtherNameFirst
<1>8. ASSUME R[k].name = n PROVE ~OtherNameFirst
  <2>1. ASSUME NEW m \in 1 .. Len(R), R[m].inode = tool.inode PROVE k \in 1 .. m
    BY <1>5, <2>1
  <2>. QED  BY <1>7, <1>8, <2>1
<1>9. ASSUME R[k].name # n PROVE OtherNameFirst
  <2>1. \A l \in 1 .. k : R[l].name # n
    BY <1>6, <1>9
  <2>. QED  BY <1>5, <1>7, <2>1
<1>. QED  BY <1>2, <1>4, <1>8, <1>9

LEMMA NamesKept ==
  ASSUME Inv, [Next]_vars, NEW d, NEW n \in Name, IsDir(d), Has(d, n)
  PROVE  \/ IsDir(d)' /\ Has(d, n)'
         \/ /\ At("unlink") /\ d = tool.parent /\ Lookup(d, n) = tool.inode
            /\ n = tool.name <=> ~OtherNameFirst
<1>1. PICK b \in OwnBlocks(d) : \E k \in 1 .. Len(entries[b]) :
        entries[b][k].name = n /\ entries[b][k].inode = Lookup(d, n)
  <2>1. d \in Inode \cup {Root} /\ TypeOK
    BY DEF IsDir, Inv, Basic
  <2>. QED  BY <2>1, LookupIs DEF Has
<1>2. PICK k \in 1 .. Len(entries[b]) :
        entries[b][k].name = n /\ entries[b][k].inode = Lookup(d, n)
  BY <1>1
<1>3. b \in Block \cup {RootBlock} /\ IsDir(d)' /\ b \in OwnBlocks(d)'
  BY DirectoriesKept, BlocksOf DEF Inv, Basic, IsDir
<1>4. CASE Kept(b, k)
  BY <1>2, <1>3, <1>4 DEF Kept, Has
<1>5. CASE Unlink /\ b \in OwnBlocks(tool.parent) /\ FirstOfFile(b, k)
  <2>1. Stage("rm", {1}) /\ IsDir(tool.parent) /\ Sound /\ At("unlink")
    BY <1>5, UnlinkIs DEF Inv, Basic, ToolOK, Running, Stage, Unlink
  <2>2. d = tool.parent
    BY <1>5, <2>1 DEF Inv, Owned, Owner
  <2>3. Lookup(d, n) = tool.inode
    BY <1>2, <1>5 DEF FirstOfFile
  <2>. QED  BY <1>2, <1>5, <2>1, <2>2, <2>3, UnlinkedName DEF Inv
<1>. QED  BY <1>3, <1>4, <1>5, RecordsKept

\* A name goes only by ext2_rm, from the directory it was given, and it led to
\* the file it was given.  It is the name it was given exactly if no other name
\* of the file comes before it in the first block of that directory.
THEOREM OnlyRmTakesNames == Spec => OnlyTheNameGoes
<1>1. Inv /\ Inv' /\ [Next]_vars =>
        \A nm \in AllNames \ AllNames' :
          /\ At("unlink") /\ nm[1] = tool.parent
          /\ Lookup(nm[1], nm[2]) = tool.inode
          /\ nm[2] = tool.name <=> ~OtherNameFirst
  <2>. SUFFICES ASSUME Inv, Inv', [Next]_vars, NEW nm \in AllNames \ AllNames'
                PROVE  /\ At("unlink") /\ nm[1] = tool.parent
                       /\ Lookup(nm[1], nm[2]) = tool.inode
                       /\ nm[2] = tool.name <=> ~OtherNameFirst
    OBVIOUS
  <2>1. PICK d, n : nm = <<d, n>>
    BY DEF AllNames
  <2>2. IsDir(d) /\ n \in Name /\ Has(d, n)
    BY <2>1, NamesViewIs DEF Inv, NamesView
  <2>3. ~(IsDir(d)' /\ Has(d, n)')
    BY <2>1, <2>2, NamesViewNext DEF Inv, NamesView
  <2>4. /\ At("unlink") /\ d = tool.parent /\ Lookup(d, n) = tool.inode
        /\ n = tool.name <=> ~OtherNameFirst
    BY <2>2, <2>3, NamesKept
  <2>. QED  BY <2>1, <2>4
<1>. QED  BY <1>1, InvAlways, PTL DEF Spec, OnlyTheNameGoes

----------------------------------------------------------------------------
(* The accounts                                                            *)

Exact == Sound /\ ~killed

\* A tool has an inode marked that has no record, or no longer.
Holds == Stage("mkdir", {2}) \/ Stage("cp", 2 .. 4) \/ Stage("rm", {2})

\* What ext2_rm has freed and not counted yet, and ext2_mkdir made.
OwedInodes == IF Stage("rm", {3, 4}) THEN 1 ELSE 0
OwedBlocks == IF Stage("rm", {4}) THEN Len(table[tool.inode].block) ELSE 0
OwedDirs == IF Stage("mkdir", {4, 5}) THEN 1 ELSE 0

\* A marked inode has a record or is the tool's; a marked block belongs to an
\* inode or to the file ext2_cp is collecting.
InodesUsed ==
  Exact =>
    /\ \A i \in inode_bitmap : HasRecord(i) \/ (Holds /\ i = tool.inode)
    /\ Stage("rm", {2}) => tool.inode \in inode_bitmap
BlocksUsed ==
  Exact => \A b \in block_bitmap :
             \/ \E i : Owner(i) /\ b \in OwnBlocks(i)
             \/ Stage("cp", 1 .. 3) /\ b \in ToSet(tool.got)
InodesCounted == Exact => Cardinality(ClearInodes) = free_inodes + OwedInodes
BlocksCounted == Exact => Cardinality(ClearBlocks) = free_blocks + OwedBlocks
DirsCounted == Exact => Cardinality(Directories) = used_dirs + OwedDirs

\* The block numbers of a file fit its inode, so that ext2_rm reads them all.
FilesFit ==
  \A i \in Inode : table[i].mode = "REG" => Len(table[i].block) <= InodeRoom

Accounts ==
  /\ FilesFit
  /\ RootBlock \in OwnBlocks(Root)
  /\ InodesUsed /\ BlocksUsed
  /\ InodesCounted /\ BlocksCounted /\ DirsCounted

LEMMA FilesFitNext ==
  ASSUME Inv, FilesFit, [Next]_vars
  PROVE  FilesFit'
<1>1. CASE Quiet
  <2>1. \A i \in Inode : table'[i].mode = table[i].mode /\ table'[i].block = table[i].block
    BY <1>1, QuietIs DEF Inv, SameFiles
  <2>. QED  BY <2>1 DEF FilesFit
<1>2. CASE WriteFileInode
  <2>1. Len(tool.got) <= InodeRoom
    BY <1>2 DEF WriteFileInode
  <2>. QED  BY <1>2, <2>1, BasicWriteFileInode DEF Inv, FilesFit
<1>3. CASE WriteDirInode \/ GrowDirectory
  <2>1. PICK n : /\ IsDir(n)'
                 /\ \A i \in Inode \cup {Root} : i # n => table'[i] = table[i]
    <3>1. CASE WriteDirInode
      BY <3>1, BasicWriteDirInode DEF Inv
    <3>2. CASE GrowDirectory
      BY <3>2, BasicGrowDirectory, NewEntryIs DEF Inv, GrowDirectory
    <3>. QED  BY <1>3, <3>1, <3>2
  <2>. QED  BY <2>1 DEF FilesFit, IsDir
<1>4. CASE WriteDots \/ AddEntry \/ Unlink
  BY <1>4 DEF WriteDots, AddEntry, Unlink, FilesFit
<1>. QED  BY <1>1, <1>2, <1>3, <1>4, StepIs

\* What ext2_rm frees of its file is all of it.
LEMMA FreedIsAll ==
  ASSUME Inv, FilesFit, FreeBlocks
  PROVE  block_bitmap' = block_bitmap \ OwnBlocks(tool.inode)
<1>1. tool.inode \in Inode /\ table[tool.inode].mode = "REG" /\ TypeOK
  BY AtIs DEF FreeBlocks, Inv, Basic, ToolOK, Stage
<1>2. Len(table[tool.inode].block) <= InodeRoom
  BY <1>1 DEF FilesFit
<1>. QED  BY <1>1, <1>2, PointersIs DEF FreeBlocks

\* While nobody was killed no directory is left half made.
LEMMA NothingUnmade == Basic /\ ~killed => unmade = {}
BY DEF Basic, ToolOK, Running

LEMMA NothingUnmadeNext == (Basic /\ ~killed)' => (unmade = {})'
BY NothingUnmade, PTL

\* Nothing makes an image sound again.
LEMMA SoundStays ==
  ASSUME Inv, [Next]_vars, Sound'
  PROVE  Sound
<1>1. CASE Ready /\ StartsTool
  BY <1>1 DEF Ready, Sound
<1>2. CASE Unlink
  BY <1>2, UnlinkIs DEF Inv, Sound
<1>3. CASE ~(Ready /\ StartsTool) /\ ~Unlink
  BY <1>3 DEF Next, StartsTool, NewInode, AllocateFileBlock, BlocksAllocated, WriteFileInode,
       WriteDirInode, WriteDots, CountDir, AddEntry, GrowDirectory, CountLink,
       FreeInode, FreeBlocks, FreeCounts, LnWritesAstray, RmWritesAstray, InodeOverrun,
       NothingFree, Undefined, disk, Kill, Rest, vars, Sound
<1>. QED  BY <1>1, <1>2, <1>3

LEMMA ExactIs ==
  ASSUME Inv, Inv', [Next]_vars, Exact'
  PROVE  Exact /\ unmade = {} /\ unmade' = {}
<1>1. ~killed' => ~killed
  <2>1. CASE Ready /\ StartsTool
    BY <2>1, StartedIs DEF Inv, Started, Start
  <2>2. CASE ~(Ready /\ StartsTool)
    BY <2>2 DEF Next, StartsTool, NewInode, AllocateFileBlock, BlocksAllocated, WriteFileInode,
         WriteDirInode, WriteDots, CountDir, AddEntry, GrowDirectory, CountLink, Unlink,
         FreeInode, FreeBlocks, FreeCounts, LnWritesAstray, RmWritesAstray, InodeOverrun,
         NothingFree, Undefined, Advance, Kill, Rest, vars
  <2>. QED  BY <2>1, <2>2
<1>2. Sound' => Sound
  BY SoundStays
<1>. QED  BY <1>1, <1>2, NothingUnmade, NothingUnmadeNext DEF Exact, Inv

\* Where the tool is before and after each step.
SameTool == tool'.inode = tool.inode /\ tool'.parent = tool.parent /\ tool'.got = tool.got

LEMMA Advances ==
  ASSUME Basic, tool.cmd # "none", Advance(tool)
  PROVE  /\ Stage("mkdir", {2}) => Stage("mkdir", {3})' /\ SameTool
         /\ Stage("mkdir", {3}) => Stage("mkdir", {4})' /\ SameTool
         /\ Stage("mkdir", {4}) => Stage("mkdir", {5})' /\ SameTool
         /\ Stage("cp", {2}) => Stage("cp", {3})' /\ SameTool
         /\ Stage("cp", {3}) => Stage("cp", {4})' /\ SameTool
         /\ Stage("ln", {1}) => Stage("ln", {2})' /\ SameTool
         /\ Stage("rm", {1}) => Stage("rm", {2})' /\ SameTool
         /\ Stage("rm", {2}) => Stage("rm", {3})' /\ SameTool
         /\ Stage("rm", {3}) => Stage("rm", {4})' /\ SameTool
         /\ Stage("mkdir", {5}) \/ Stage("cp", {4}) \/ Stage("ln", {2}) \/ Stage("rm", {4})
              => tool'.cmd = "none"
<1>1. Advanced(tool)
  BY AdvanceIs DEF Basic, TypeOK, ToolOK, Running
<1>. QED  BY <1>1, NextStage, IdleIs DEF Stage, SameTool

LEMMA Moves ==
  ASSUME Basic
  PROVE  /\ BlocksAllocated => Stage("cp", {2}) /\ Stage("cp", {3})' /\ SameTool
         /\ WriteFileInode => Stage("cp", {3}) /\ Stage("cp", {4})' /\ SameTool
         /\ WriteDirInode => Stage("mkdir", {3}) /\ Stage("mkdir", {4})' /\ SameTool
         /\ WriteDots => Stage("mkdir", {4}) /\ Stage("mkdir", {5})' /\ SameTool
         /\ CountDir => Stage("mkdir", {5}) /\ tool'.cmd = "none"
         /\ CountLink => Stage("ln", {2}) /\ tool'.cmd = "none"
         /\ AddEntry \/ GrowDirectory =>
              \/ Stage("mkdir", {2}) /\ Stage("mkdir", {3})' /\ SameTool
              \/ Stage("cp", {4}) /\ tool'.cmd = "none"
              \/ Stage("ln", {1}) /\ Stage("ln", {2})' /\ SameTool
         /\ FreeInode => Stage("rm", {2}) /\ Stage("rm", {3})' /\ SameTool
         /\ FreeBlocks => Stage("rm", {3}) /\ Stage("rm", {4})' /\ SameTool
         /\ FreeCounts => Stage("rm", {4}) /\ tool'.cmd = "none"
<1>1. /\ BlocksAllocated => At("blocks") /\ Advance(tool)
      /\ WriteFileInode => Stage("cp", {3}) /\ Advance(tool)
      /\ WriteDirInode => Stage("mkdir", {3}) /\ Advance(tool)
  BY AtIs DEF Basic, BlocksAllocated, WriteFileInode, WriteDirInode, Stage
<1>2. /\ WriteDots => At("dots") /\ Advance(tool)
      /\ CountDir => At("used_dirs") /\ Advance(tool)
      /\ CountLink => At("links") /\ Advance(tool)
      /\ AddEntry \/ GrowDirectory => At("entry") /\ Advance(tool)
      /\ FreeInode => At("free_inode") /\ Advance(tool)
      /\ FreeBlocks => At("free_blocks") /\ Advance(tool)
      /\ FreeCounts => At("free_counts") /\ Advance(tool)
  BY DEF WriteDots, CountDir, CountLink, AddEntry, GrowDirectory, FreeInode, FreeBlocks, FreeCounts
<1>3. tool.cmd # "none" \/ \A s : ~At(s)
  BY DEF At
<1>4. CASE tool.cmd = "none"
  BY <1>1, <1>2, <1>3, <1>4 DEF Stage
<1>5. CASE tool.cmd # "none"
  BY <1>1, <1>2, <1>5, AtIs, Advances DEF Basic
<1>. QED  BY <1>4, <1>5

\* The inode and the block a tool takes are the first free ones.
LEMMA NewInodeIs ==
  ASSUME Basic, NewInode
  PROVE  /\ tool'.inode \in Inode \ inode_bitmap
         /\ inode_bitmap' = inode_bitmap \cup {tool'.inode}
         /\ tool'.got = tool.got
         /\ \/ Stage("mkdir", {1}) /\ Stage("mkdir", {2})'
            \/ Stage("cp", {1}) /\ Stage("cp", {2})'
<1>1. PICK i \in Inode : i = Min(ClearInodes) /\ i \notin inode_bitmap
  <2>1. ClearInodes \in SUBSET Nat /\ ClearInodes # {}
    BY InodeAssumption DEF ClearInodes, NewInode
  <2>. QED  BY <2>1, MinOf DEF ClearInodes
<1>2. Stage("mkdir", {1}) \/ Stage("cp", {1})
  BY AtIs DEF NewInode, Basic
<1>3. PICK t : t = [tool EXCEPT !.inode = i]
  OBVIOUS
<1>4. t \in Tool /\ t.cmd = tool.cmd /\ t.at = tool.at /\ t.inode = i /\ t.got = tool.got
  BY <1>1, <1>3 DEF Basic, TypeOK, Tool
<1>5. Advanced(t)
  <2>1. Advance(t) /\ t.cmd # "none" /\ t.at \in 1 .. Len(Steps[t.cmd])
    BY <1>1, <1>2, <1>3, <1>4 DEF NewInode, Basic, ToolOK, Running, Stage
  <2>. QED  BY <1>4, <2>1, AdvanceIs
<1>6. tool'.inode = i /\ tool'.got = tool.got /\ tool'.cmd = tool.cmd /\ tool'.at = 2
  BY <1>2, <1>4, <1>5, NextStage DEF Stage
<1>. QED  BY <1>1, <1>2, <1>6 DEF NewInode, Stage

LEMMA AllocateIs ==
  ASSUME Basic, AllocateFileBlock
  PROVE  /\ Stage("cp", {2}) /\ Stage("cp", {2})' /\ tool'.inode = tool.inode
         /\ tool'.got = Append(tool.got, NewBlock) /\ tool.got \in Seq(Block)
         /\ NewBlock \in Block \ block_bitmap
<1>1. Stage("cp", {2}) /\ tool \in Tool
  BY AtIs DEF AllocateFileBlock, Basic, TypeOK
<1>2. tool' = [tool EXCEPT !.need = tool.need - 1, !.got = Append(tool.got, NewBlock)]
  BY <1>1 DEF AllocateFileBlock, Tool
<1>. QED  BY <1>1, <1>2, NewBlockIs DEF AllocateFileBlock, Tool, Stage

----------------------------------------------------------------------------
(* What is marked is used                                                  *)

LEMMA RecordStays ==
  ASSUME Inv, [Next]_vars, NEW i, HasRecord(i)
  PROVE  HasRecord(i)' \/ (Unlink /\ i = tool.inode)
<1>1. PICK b \in DOMAIN entries : \E k \in 1 .. Len(entries[b]) : entries[b][k].inode = i
  BY DEF HasRecord
<1>2. PICK k \in 1 .. Len(entries[b]) : entries[b][k].inode = i
  BY <1>1
<1>3. b \in Block \cup {RootBlock}
  BY DEF Inv, Basic, TypeOK
<1>4. CASE Kept(b, k)
  <2>1. b \in DOMAIN entries'
    BY <1>3, BasicNext DEF Inv, Basic, TypeOK
  <2>. QED  BY <1>2, <1>4, <2>1 DEF Kept, HasRecord
<1>. QED  BY <1>2, <1>3, <1>4, RecordsKept DEF FirstOfFile

LEMMA NewRecord ==
  ASSUME Basic, AddEntry \/ GrowDirectory, NEW n, n = tool.inode
  PROVE  HasRecord(n)'
<1>1. PICK e : e = NewEntry
  OBVIOUS
<1>2. e \in Entry /\ e.inode = n
  BY <1>1, NewEntryIs DEF AddEntry, GrowDirectory
<1>3. CASE AddEntry
  <2>1. PICK c \in Block \cup {RootBlock} : c = EntryBlock
    BY <1>3, NewEntryIs DEF AddEntry
  <2>2. entries' = [entries EXCEPT ![c] = Append(entries[c], e)]
    BY <1>1, <1>3, <2>1 DEF AddEntry
  <2>3. c \in DOMAIN entries' /\ entries'[c] = Append(entries[c], e) /\ entries[c] \in Seq(Entry)
    BY <2>2 DEF Basic, TypeOK
  <2>4. Len(entries'[c]) \in 1 .. Len(entries'[c]) /\ entries'[c][Len(entries'[c])] = e
    BY <1>2, <2>3, AppendIs
  <2>. QED  BY <1>2, <2>3, <2>4 DEF HasRecord
<1>4. CASE GrowDirectory
  <2>1. PICK c \in Block : c = NewBlock
    BY <1>4, NewBlockIs DEF GrowDirectory
  <2>2. entries' = [entries EXCEPT ![c] = <<e>>]
    BY <1>1, <1>4, <2>1 DEF GrowDirectory
  <2>3. c \in DOMAIN entries' /\ entries'[c] = <<e>>
    BY <2>2 DEF Basic, TypeOK
  <2>4. 1 \in 1 .. Len(entries'[c]) /\ entries'[c][1] = e
    BY <2>3
  <2>. QED  BY <1>2, <2>3, <2>4 DEF HasRecord
<1>. QED  BY <1>3, <1>4

\* What the tools that start, end and stutter leave alone.
LEMMA StillIs ==
  ASSUME Inv, \/ Ready /\ StartsTool
              \/ Rest \/ UNCHANGED vars
  PROVE  /\ UNCHANGED disk /\ UNCHANGED <<unmade, image>>
         /\ \/ tool' = tool
            \/ /\ ~Holds /\ tool = Idle
               /\ tool'.at = 1 /\ tool'.got = <<>>
<1>1. CASE Ready /\ StartsTool
  <2>1. PICK cmd, parent, name, inode, need : Started(cmd, parent, name, inode, need)
    BY <1>1, StartedIs DEF Inv
  <2>2. tool = Idle /\ UNCHANGED disk /\ UNCHANGED <<unmade, image>>
        /\ tool'.at = 1 /\ tool'.got = <<>>
    BY <1>1, <2>1 DEF Ready, Started, Start
  <2>. QED  BY <2>2, IdleIs DEF Holds, Stage
<1>2. CASE Rest \/ UNCHANGED vars
  BY <1>2 DEF Rest, vars
<1>. QED  BY <1>1, <1>2

\* The step ends what is said of exact accounts.
LEMMA EndsExact == LnWritesAstray \/ RmWritesAstray \/ InodeOverrun \/ NothingFree \/ Kill => ~Exact'
BY DEF LnWritesAstray, RmWritesAstray, InodeOverrun, NothingFree, Undefined, Kill, Exact, Sound

LEMMA InodesUsedKept ==
  ASSUME InodesUsed, Exact' => Exact, inode_bitmap' = inode_bitmap,
         \A i : HasRecord(i) => HasRecord(i)',
         Holds => (Holds' /\ tool'.inode = tool.inode) \/ HasRecord(tool.inode),
         Stage("rm", {2})' => Stage("rm", {2}) /\ tool'.inode = tool.inode
  PROVE  InodesUsed'
<1>. SUFFICES ASSUME Exact'
     PROVE  /\ \A i \in inode_bitmap : HasRecord(i)' \/ (Holds' /\ i = tool'.inode)
            /\ Stage("rm", {2})' => tool'.inode \in inode_bitmap
  BY DEF InodesUsed
<1>. QED  BY DEF InodesUsed

LEMMA InodesUsedNext ==
  ASSUME Inv, Inv', InodesUsed, [Next]_vars
  PROVE  InodesUsed'
<1>e. Exact' => Exact
  BY ExactIs
<1>r. ~Unlink => \A i : HasRecord(i) => HasRecord(i)'
  BY RecordStays
<1>. SUFFICES ASSUME Exact' PROVE InodesUsed'
  BY DEF InodesUsed
<1>1. CASE (Ready /\ StartsTool) \/ Rest \/ UNCHANGED vars
  <2>1. \A i : HasRecord(i)' <=> HasRecord(i)
    BY <1>1, StillIs DEF HasRecord, disk
  <2>2. inode_bitmap' = inode_bitmap
    BY <1>1, StillIs DEF disk
  <2>3. \/ tool' = tool
        \/ ~Holds /\ tool'.at = 1
    BY <1>1, StillIs
  <2>4. /\ Holds => Holds' /\ tool'.inode = tool.inode
        /\ Stage("rm", {2})' => Stage("rm", {2}) /\ tool'.inode = tool.inode
    BY <2>3 DEF Holds, Stage
  <2>. QED  BY <1>e, <2>1, <2>2, <2>4, InodesUsedKept
<1>2. CASE NewInode
  <2>1. \A i \in inode_bitmap : HasRecord(i)'
    <3>1. ~Holds /\ ~Unlink
      BY <1>2, NewInodeIs, UnlinkIs DEF Inv, Holds, Stage
    <3>. QED  BY <1>e, <1>r, <3>1 DEF InodesUsed
  <2>2. Holds' /\ ~Stage("rm", {2})'
    BY <1>2, NewInodeIs DEF Inv, Holds, Stage
  <2>. QED  BY <1>2, <2>1, <2>2, NewInodeIs DEF Inv, InodesUsed
<1>3. CASE \/ AllocateFileBlock \/ BlocksAllocated \/ WriteFileInode \/ WriteDirInode
           \/ WriteDots \/ CountDir \/ CountLink \/ FreeBlocks \/ FreeCounts
  <2>1. /\ Holds => Holds' /\ tool'.inode = tool.inode
        /\ ~Stage("rm", {2})' /\ ~Unlink
    BY <1>3, Moves, AllocateIs, UnlinkIs DEF Inv, Holds, Stage, SameTool
  <2>2. inode_bitmap' = inode_bitmap
    BY <1>3 DEF AllocateFileBlock, BlocksAllocated, WriteFileInode, WriteDirInode, WriteDots,
         CountDir, CountLink, FreeBlocks, FreeCounts, disk
  <2>. QED  BY <1>e, <1>r, <2>1, <2>2, InodesUsedKept
<1>4. CASE AddEntry \/ GrowDirectory
  <2>1. inode_bitmap' = inode_bitmap /\ ~Stage("rm", {2})' /\ ~Unlink
    BY <1>4, Moves, UnlinkIs DEF Inv, AddEntry, GrowDirectory, Stage
  <2>2. \A i \in inode_bitmap : HasRecord(i)'
    BY <1>e, <1>4, <1>r, <2>1, NewRecord DEF Inv, InodesUsed
  <2>. QED  BY <2>1, <2>2 DEF InodesUsed
<1>5. CASE Unlink
  <2>1. Stage("rm", {1}) /\ inode_bitmap' = inode_bitmap /\ tool.inode \in Inode
    BY <1>5, UnlinkIs DEF Inv
  <2>2. tool.inode \in inode_bitmap
    BY <1>e, <2>1, InodeAssumption DEF Inv, Naming, Refers, Exact
  <2>3. \A i \in inode_bitmap : HasRecord(i)
    BY <1>e, <2>1 DEF InodesUsed, Holds, Stage
  <2>4. CASE tool' = Idle /\ entries' = entries
    <3>1. \A i : HasRecord(i)' <=> HasRecord(i)
      BY <2>4 DEF HasRecord
    <3>. QED  BY <2>1, <2>3, <2>4, <3>1, IdleIs DEF InodesUsed, Stage
  <2>5. CASE Advance(tool)
    <3>1. Stage("rm", {2})' /\ tool'.inode = tool.inode
      BY <2>1, <2>5, Advances DEF Inv, Stage, SameTool
    <3>2. \A i \in inode_bitmap : HasRecord(i)' \/ i = tool'.inode
      BY <2>3, <3>1, RecordStays
    <3>. QED  BY <2>1, <2>2, <3>1, <3>2 DEF InodesUsed, Holds
  <2>. QED  BY <1>5, <2>4, <2>5, UnlinkIs DEF Inv
<1>6. CASE FreeInode
  <2>1. Stage("rm", {2}) /\ ~Stage("rm", {2})' /\ ~Unlink
    BY <1>6, Moves, UnlinkIs DEF Inv, Stage
  <2>2. \A i \in inode_bitmap' : HasRecord(i)'
    BY <1>e, <1>6, <1>r, <2>1 DEF InodesUsed, FreeInode
  <2>. QED  BY <2>1, <2>2 DEF InodesUsed
<1>7. CASE LnWritesAstray \/ RmWritesAstray \/ InodeOverrun \/ NothingFree \/ Kill
  BY <1>7, EndsExact
<1>. QED  BY <1>1, <1>2, <1>3, <1>4, <1>5, <1>6, <1>7 DEF Next, StartsTool

\* The blocks of an inode that is not a directory change only where a tool
\* writes an inode that nobody owns.
LEMMA BlocksStay ==
  ASSUME Inv, [Next]_vars, Sound, NEW i, Owner(i), ~IsDir(i)
  PROVE  table'[i].block = table[i].block
<1>1. i \in Inode \cup {Root}
  BY OwnerIs DEF Inv
<1>2. CASE Quiet
  BY <1>1, <1>2, QuietIs DEF Inv, SameFiles
<1>3. CASE WriteFileInode
  <2>1. i # tool.inode
    BY <1>3, Moves DEF Inv, Naming, Unnamed, Stage, Owner
  <2>. QED  BY <1>1, <1>3, <2>1, BasicWriteFileInode DEF Inv
<1>4. CASE WriteDirInode
  <2>1. i # tool.inode
    BY <1>4, Moves DEF Inv, Making, Stage, Owner
  <2>. QED  BY <1>1, <1>4, <2>1, BasicWriteDirInode DEF Inv
<1>5. CASE WriteDots \/ AddEntry \/ Unlink
  BY <1>5 DEF WriteDots, AddEntry, Unlink
<1>6. CASE GrowDirectory
  <2>1. i # tool.parent
    BY <1>6, NewEntryIs DEF Inv, GrowDirectory
  <2>. QED  BY <1>1, <1>6, <2>1, BasicGrowDirectory DEF Inv
<1>. QED  BY <1>2, <1>3, <1>4, <1>5, <1>6, StepIs

\* An owner stays one and keeps its blocks, until ext2_rm frees them.
LEMMA OwnerStays ==
  ASSUME Inv, Inv', [Next]_vars, Exact', NEW i, Owner(i)
  PROVE  \/ Owner(i)' /\ OwnBlocks(i) \subseteq OwnBlocks(i)'
         \/ FreeBlocks /\ i = tool.inode
<1>1. Sound /\ unmade = {} /\ unmade' = {}
  BY ExactIs DEF Exact
<1>2. CASE IsDir(i)
  BY <1>2, DirectoriesKept DEF Owner
<1>3. CASE ~IsDir(i)
  <2>0. OwnBlocks(i) \subseteq OwnBlocks(i)'
    BY <1>1, <1>3, BlocksStay DEF OwnBlocks
  <2>. SUFFICES Owner(i)' \/ (FreeBlocks /\ i = tool.inode)
    BY <2>0
  <2>r. HasRecord(i) /\ ~Unlink => HasRecord(i)'
    BY RecordStays
  <2>1. CASE (Ready /\ StartsTool) \/ Rest \/ UNCHANGED vars
    <3>1. HasRecord(i)' <=> HasRecord(i)
      BY <2>1, StillIs DEF HasRecord, disk
    <3>2. \/ tool' = tool
          \/ tool'.at = 1 /\ tool = Idle
      BY <2>1, StillIs
    <3>. QED  BY <1>1, <1>3, <3>1, <3>2, IdleIs DEF Owner, Making, Stage
  <2>2. CASE \/ NewInode \/ AllocateFileBlock \/ BlocksAllocated \/ CountDir \/ CountLink
             \/ FreeCounts \/ WriteFileInode \/ WriteDots
    <3>1. ~Stage("cp", {4}) /\ ~Stage("rm", {2, 3}) /\ ~Unlink
      BY <2>2, NewInodeIs, AllocateIs, Moves, UnlinkIs DEF Inv, Stage
    <3>2. ~Stage("mkdir", {3, 4})'
      BY <2>2, NewInodeIs, AllocateIs, Moves DEF Inv, Stage
    <3>. QED  BY <1>1, <1>3, <2>r, <3>1, <3>2 DEF Owner, Making
  <2>3. CASE WriteDirInode
    <3>1. /\ Stage("mkdir", {3}) /\ Stage("mkdir", {4})' /\ tool'.inode = tool.inode
          /\ ~Unlink
      BY <2>3, Moves, UnlinkIs DEF Inv, Stage, SameTool
    <3>. QED  BY <1>1, <1>3, <2>r, <3>1 DEF Owner, Making, Stage
  <2>4. CASE AddEntry \/ GrowDirectory
    <3>1. CASE Stage("mkdir", {2}) /\ Stage("mkdir", {3})' /\ SameTool
      <4>1. ~Unlink /\ HasRecord(i) /\ i # tool.inode
        BY <1>1, <1>3, <3>1, UnlinkIs DEF Inv, Naming, Unnamed, Stage, Owner
      <4>. QED  BY <1>1, <2>r, <3>1, <4>1 DEF Owner, Making, SameTool
    <3>2. CASE ~(Stage("mkdir", {2}) /\ Stage("mkdir", {3})' /\ SameTool)
      <4>1. ~Stage("mkdir", {3, 4})' /\ ~Stage("rm", {1, 2, 3})
        BY <2>4, <3>2, Moves DEF Inv, Stage
      <4>2. HasRecord(i)'
        BY <1>3, <2>4, <2>r, <4>1, NewRecord, UnlinkIs DEF Inv, Owner, Stage
      <4>. QED  BY <1>1, <4>1, <4>2 DEF Owner, Making
    <3>. QED  BY <3>1, <3>2
  <2>5. CASE Unlink
    <3>1. Stage("rm", {1})
      BY <2>5, UnlinkIs DEF Inv
    <3>2. HasRecord(i)
      BY <1>3, <3>1 DEF Owner, Stage
    <3>3. CASE tool' = Idle /\ entries' = entries
      <4>1. HasRecord(i)'
        BY <3>2, <3>3 DEF HasRecord
      <4>. QED  BY <1>1, <3>3, <4>1, IdleIs DEF Owner, Making, Stage
    <3>4. CASE Advance(tool)
      <4>1. Stage("rm", {2})' /\ tool'.inode = tool.inode
        BY <3>1, <3>4, Advances DEF Inv, Stage, SameTool
      <4>2. HasRecord(i)' \/ i = tool'.inode
        BY <3>2, <4>1, RecordStays
      <4>. QED  BY <1>1, <4>1, <4>2 DEF Owner, Making, Stage
    <3>. QED  BY <2>5, <3>3, <3>4, UnlinkIs DEF Inv
  <2>6. CASE FreeInode \/ FreeBlocks
    <3>1. /\ FreeInode => Stage("rm", {2}) /\ Stage("rm", {3})' /\ tool'.inode = tool.inode
          /\ FreeBlocks => Stage("rm", {3}) /\ Stage("rm", {4})'
          /\ ~Unlink
      BY <2>6, Moves, UnlinkIs DEF Inv, Stage, SameTool
    <3>. QED  BY <1>1, <1>3, <2>6, <2>r, <3>1 DEF Owner, Making, Stage
  <2>7. CASE LnWritesAstray \/ RmWritesAstray \/ InodeOverrun \/ NothingFree \/ Kill
    BY <2>7, EndsExact
  <2>. QED  BY <2>1, <2>2, <2>3, <2>4, <2>5, <2>6, <2>7 DEF Next, StartsTool
<1>. QED  BY <1>2, <1>3

LEMMA OneSet == \A x : ToSet(<<x>>) = {x}
<1>. SUFFICES ASSUME NEW x PROVE ToSet(<<x>>) = {x}
  OBVIOUS
<1>1. PICK s : s = <<x>>
  OBVIOUS
<1>2. s \in Seq({x}) /\ Len(s) = 1 /\ s[1] = x
  BY <1>1
<1>3. x \in ToSet(s) /\ \A y \in ToSet(s) : y \in {x}
  BY <1>2, ToSetIs
<1>. QED  BY <1>1, <1>3

\* The block a tool takes goes to the file, or to the directory.
LEMMA TakenIsUsed ==
  ASSUME Inv, Inv', WriteDirInode \/ GrowDirectory
  PROVE  \E i : IsDir(i)' /\ NewBlock \in OwnBlocks(i)'
<1>1. CASE WriteDirInode
  <2>1. PICK n : n = tool.inode
    OBVIOUS
  <2>2. PICK c : c = NewBlock
    OBVIOUS
  <2>3. IsDir(n)' /\ table'[n].block = <<c>>
    BY <1>1, <2>1, <2>2, BasicWriteDirInode DEF Inv
  <2>4. c \in OwnBlocks(n)'
    BY <2>3, OneSet DEF OwnBlocks
  <2>. QED  BY <2>2, <2>3, <2>4
<1>2. CASE GrowDirectory
  <2>1. PICK n : n = tool.parent
    OBVIOUS
  <2>2. PICK c \in Block : c = NewBlock
    BY <1>2, NewBlockIs DEF GrowDirectory
  <2>3. IsDir(n) /\ IsDir(n)' /\ table'[n].block = Append(table[n].block, c)
    BY <1>2, <2>1, <2>2, BasicGrowDirectory, NewEntryIs DEF Inv, GrowDirectory
  <2>4. table[n].block \in Seq(Block \cup {RootBlock})
    BY <2>3, BlocksOf DEF Inv, Basic, IsDir
  <2>5. ToSet(table'[n].block) = ToSet(table[n].block) \cup {c}
    BY <2>2, <2>3, <2>4, AppendSet
  <2>6. NewBlock \in OwnBlocks(n)'
    BY <2>2, <2>5 DEF OwnBlocks
  <2>. QED  BY <2>3, <2>6
<1>. QED  BY <1>1, <1>2

LEMMA BlocksUsedNext ==
  ASSUME Inv, Inv', FilesFit, BlocksUsed, [Next]_vars
  PROVE  BlocksUsed'
<1>. SUFFICES ASSUME Exact', NEW b \in block_bitmap'
     PROVE  \/ \E i : Owner(i)' /\ b \in OwnBlocks(i)'
            \/ Stage("cp", 1 .. 3)' /\ b \in ToSet(tool'.got)
  BY DEF BlocksUsed
<1>0. Exact /\ tool \in Tool
  BY ExactIs DEF Inv, Basic, TypeOK
<1>k. ~Kill /\ ~NothingFree /\ ~InodeOverrun /\ ~RmWritesAstray /\ ~LnWritesAstray
  BY EndsExact
<1>1. b \in block_bitmap =>
        \/ \E i : Owner(i) /\ b \in OwnBlocks(i)
        \/ Stage("cp", 1 .. 3) /\ b \in ToSet(tool.got)
  BY <1>0 DEF BlocksUsed
<1>2. ASSUME NEW i, Owner(i), b \in OwnBlocks(i), ~(FreeBlocks /\ i = tool.inode)
      PROVE  Owner(i)' /\ b \in OwnBlocks(i)'
  BY <1>2, OwnerStays
<1>3. CASE FreeBlocks
  <2>1. b \in block_bitmap /\ b \notin OwnBlocks(tool.inode)
    BY <1>3, FreedIsAll
  <2>2. ~Stage("cp", 1 .. 3)
    BY <1>3, Moves DEF Inv, Stage
  <2>. QED  BY <1>1, <1>2, <2>1, <2>2
<1>4. CASE /\ ~FreeBlocks /\ b \in block_bitmap
           /\ Stage("cp", 1 .. 3) /\ b \in ToSet(tool.got)
  <2>1. CASE NewInode \/ BlocksAllocated \/ UNCHANGED vars
    BY <1>4, <2>1, NewInodeIs, Moves DEF Inv, Stage, SameTool, vars
  <2>2. CASE AllocateFileBlock
    <3>1. Stage("cp", {2})' /\ tool'.got = Append(tool.got, NewBlock)
          /\ tool.got \in Seq(Block) /\ NewBlock \in Block
      BY <2>2, AllocateIs DEF Inv
    <3>2. b \in ToSet(tool'.got)
      BY <1>4, <3>1, AppendSet
    <3>. QED  BY <3>1, <3>2 DEF Stage
  <2>3. CASE WriteFileInode
    <3>1. PICK n : n = tool.inode
      OBVIOUS
    <3>2. Stage("cp", {4})' /\ tool'.inode = n /\ table'[n].block = tool.got
      BY <2>3, <3>1, Moves, BasicWriteFileInode DEF Inv, SameTool
    <3>3. Owner(n)' /\ b \in OwnBlocks(n)'
      BY <1>4, <3>2 DEF Owner, OwnBlocks
    <3>. QED  BY <3>3
  <2>4. CASE \/ Ready /\ StartsTool
             \/ WriteDirInode \/ WriteDots \/ CountDir \/ AddEntry \/ GrowDirectory
             \/ CountLink \/ Unlink \/ FreeInode \/ FreeCounts \/ Rest
    <3>1. Ready \/ Rest => tool.cmd = "none"
      BY IdleIs DEF Ready, Rest
    <3>. QED  BY <1>4, <2>4, <3>1, Moves, UnlinkIs DEF Inv, Stage
  <2>. QED  BY <1>k, <1>4, <2>1, <2>2, <2>3, <2>4 DEF Next, StartsTool
<1>5. CASE b \notin block_bitmap
  <2>1. CASE AllocateFileBlock
    <3>1. Stage("cp", {2})' /\ tool'.got = Append(tool.got, NewBlock)
          /\ tool.got \in Seq(Block) /\ NewBlock \in Block /\ b = NewBlock
      BY <1>5, <2>1, AllocateIs DEF Inv, AllocateFileBlock, TakeBlock
    <3>2. b \in ToSet(tool'.got)
      BY <3>1, AppendSet
    <3>. QED  BY <3>1, <3>2 DEF Stage
  <2>2. CASE WriteDirInode \/ GrowDirectory
    <3>1. b = NewBlock
      BY <1>5, <2>2 DEF WriteDirInode, GrowDirectory, TakeBlock
    <3>. QED  BY <2>2, <3>1, TakenIsUsed DEF Owner
  <2>3. CASE ~AllocateFileBlock /\ ~WriteDirInode /\ ~GrowDirectory
    <3>1. Ready /\ StartsTool => block_bitmap' = block_bitmap
      BY StillIs DEF disk
    <3>2. block_bitmap' \subseteq block_bitmap
      BY <1>k, <2>3, <3>1, UnlinkIs DEF Inv, Next, StartsTool, NewInode, BlocksAllocated, WriteFileInode,
         WriteDots, CountDir, AddEntry, CountLink, FreeInode, FreeBlocks, FreeCounts, Rest, vars, disk
    <3>. QED  BY <1>5, <3>2
  <2>. QED  BY <2>1, <2>2, <2>3
<1>. QED  BY <1>1, <1>2, <1>3, <1>4, <1>5

----------------------------------------------------------------------------
(* The counts                                                              *)

LEMMA FiniteClear ==
  /\ IsFiniteSet(ClearInodes) /\ IsFiniteSet(ClearBlocks)
  /\ TypeOK => IsFiniteSet(Directories)
<1>1. ClearInodes \in SUBSET Inode /\ ClearBlocks \in SUBSET Block
  BY DEF ClearInodes, ClearBlocks
<1>2. IsFiniteSet(Inode \cup {Root})
  BY InodeAssumption, FS_AddElement
<1>3. Directories \in SUBSET (Inode \cup {Root})
  BY DEF Directories
<1>. QED  BY <1>1, <1>2, <1>3, FS_Subset, InodeAssumption, BlockAssumption

\* ext2_rm has nothing freed and not counted, before a step that is neither of
\* its last two and after it.
LEMMA OwesNothing ==
  ASSUME Inv, Exact', [Next]_vars,
         ~(FreeInode \/ FreeBlocks \/ FreeCounts \/ UNCHANGED vars)
  PROVE  ~Stage("rm", {3, 4}) /\ ~Stage("rm", {3, 4})'
<1>1. CASE Ready /\ StartsTool
  <2>1. PICK cmd, parent, name, inode, need : Started(cmd, parent, name, inode, need)
    BY <1>1, StartedIs DEF Inv
  <2>. QED  BY <1>1, <2>1, IdleIs DEF Ready, Started, Start, Stage
<1>2. CASE NewInode \/ AllocateFileBlock
  BY <1>2, NewInodeIs, AllocateIs DEF Inv, Stage
<1>3. CASE \/ BlocksAllocated \/ WriteFileInode \/ WriteDirInode \/ WriteDots \/ CountDir
           \/ AddEntry \/ GrowDirectory \/ CountLink
  BY <1>3, Moves DEF Inv, Stage
<1>4. CASE Unlink
  <2>1. tool' = Idle \/ Advance(tool)
    BY <1>4, UnlinkIs DEF Inv
  <2>2. Stage("rm", {1})
    BY <1>4, UnlinkIs DEF Inv
  <2>. QED  BY <2>1, <2>2, Advances, IdleIs DEF Inv, Stage
<1>5. CASE LnWritesAstray \/ RmWritesAstray \/ InodeOverrun \/ NothingFree \/ Kill
  BY <1>5, EndsExact
<1>6. CASE Rest
  BY <1>6 DEF Rest
<1>. QED  BY <1>1, <1>2, <1>3, <1>4, <1>5, <1>6 DEF Next, StartsTool

LEMMA InodesCountedNext ==
  ASSUME Inv, Inv', InodesUsed, InodesCounted, [Next]_vars
  PROVE  InodesCounted'
<1>. SUFFICES ASSUME Exact' PROVE Cardinality(ClearInodes') = free_inodes' + OwedInodes'
  BY DEF InodesCounted
<1>0. /\ Cardinality(ClearInodes) = free_inodes + OwedInodes /\ free_inodes \in Int
      /\ IsFiniteSet(ClearInodes)
  BY ExactIs, FiniteClear DEF InodesCounted, Inv, Basic, TypeOK
<1>1. CASE NewInode
  <2>1. PICK n : n = tool'.inode
    OBVIOUS
  <2>2. n \in ClearInodes /\ ClearInodes' = ClearInodes \ {n}
    BY <1>1, <2>1, NewInodeIs DEF Inv, ClearInodes
  <2>3. Cardinality(ClearInodes') = Cardinality(ClearInodes) - 1
    BY <1>0, <2>2, FS_RemoveElement
  <2>4. free_inodes' = free_inodes - 1 /\ OwedInodes = 0 /\ OwedInodes' = 0
    BY <1>1, OwesNothing, NewInodeIs DEF Inv, NewInode, OwedInodes, Stage
  <2>. QED  BY <1>0, <2>3, <2>4
<1>2. CASE FreeInode
  <2>1. PICK n : n = tool.inode
    OBVIOUS
  <2>2. Stage("rm", {2}) /\ Stage("rm", {3})'
    BY <1>2, Moves DEF Inv
  <2>3. n \in inode_bitmap /\ n \in Inode
    BY <2>1, <2>2, ExactIs DEF InodesUsed, Inv, Basic, TypeOK
  <2>4. n \notin ClearInodes /\ ClearInodes' = ClearInodes \cup {n}
    BY <1>2, <2>1, <2>3 DEF FreeInode, ClearInodes
  <2>5. Cardinality(ClearInodes') = Cardinality(ClearInodes) + 1
    BY <1>0, <2>4, FS_AddElement
  <2>6. free_inodes' = free_inodes /\ OwedInodes = 0 /\ OwedInodes' = 1
    BY <1>2, <2>2 DEF FreeInode, OwedInodes, Stage
  <2>. QED  BY <1>0, <2>5, <2>6
<1>3. CASE FreeCounts
  <2>1. Stage("rm", {4}) /\ tool'.cmd = "none"
    BY <1>3, Moves DEF Inv
  <2>. QED  BY <1>0, <1>3, <2>1 DEF FreeCounts, OwedInodes, Stage, ClearInodes
<1>4. CASE FreeBlocks
  <2>1. Stage("rm", {3}) /\ Stage("rm", {4})'
    BY <1>4, Moves DEF Inv
  <2>. QED  BY <1>0, <1>4, <2>1 DEF FreeBlocks, OwedInodes, Stage, ClearInodes
<1>5. CASE UNCHANGED vars
  BY <1>0, <1>5 DEF vars, disk, OwedInodes, Stage, ClearInodes
<1>6. CASE ~(NewInode \/ FreeInode \/ FreeBlocks \/ FreeCounts \/ UNCHANGED vars)
  <2>1. OwedInodes = 0 /\ OwedInodes' = 0
    BY <1>6, OwesNothing DEF OwedInodes
  <2>2. Ready /\ StartsTool => UNCHANGED disk
    BY StillIs
  <2>3. UNCHANGED <<inode_bitmap, free_inodes>>
    BY <1>6, <2>2, EndsExact, UnlinkIs DEF Inv, Next, StartsTool, AllocateFileBlock, BlocksAllocated, WriteFileInode,
       WriteDirInode, WriteDots, CountDir, AddEntry, GrowDirectory, CountLink, Rest, vars, disk
  <2>. QED  BY <1>0, <2>1, <2>3 DEF ClearInodes
<1>. QED  BY <1>1, <1>2, <1>3, <1>4, <1>5, <1>6

LEMMA RootBlockNext ==
  ASSUME Inv, RootBlock \in OwnBlocks(Root), [Next]_vars
  PROVE  RootBlock \in OwnBlocks(Root)'
<1>. IsDir(Root)
  BY DEF Inv, Basic, Shape
<1>. QED  BY DirectoriesKept

\* A tool that takes a block has one fewer left, and owes none.
LEMMA TakenIsCounted ==
  ASSUME Inv, Exact', [Next]_vars, AllocateFileBlock \/ WriteDirInode \/ GrowDirectory
  PROVE  /\ Cardinality(ClearBlocks') = Cardinality(ClearBlocks) - 1
         /\ free_blocks' = free_blocks - 1
         /\ OwedBlocks = 0 /\ OwedBlocks' = 0
<1>1. PICK c : c = NewBlock
  OBVIOUS
<1>2. c \in Block \ block_bitmap /\ TakeBlock(c)
  BY <1>1, NewBlockIs DEF AllocateFileBlock, WriteDirInode, GrowDirectory
<1>3. c \in ClearBlocks /\ ClearBlocks' = ClearBlocks \ {c}
  BY <1>2 DEF ClearBlocks, TakeBlock
<1>4. Cardinality(ClearBlocks') = Cardinality(ClearBlocks) - 1
  BY <1>3, FiniteClear, FS_RemoveElement
<1>5. ~Stage("rm", {4}) /\ ~Stage("rm", {4})'
  BY AllocateIs, Moves DEF Inv, Stage
<1>. QED  BY <1>2, <1>4, <1>5 DEF TakeBlock, OwedBlocks

\* The blocks ext2_rm frees were marked, each once.
LEMMA FreedIsCounted ==
  ASSUME Inv, FilesFit, Exact, RootBlock \in OwnBlocks(Root), FreeBlocks
  PROVE  /\ Cardinality(ClearBlocks') = Cardinality(ClearBlocks) + OwedBlocks'
         /\ OwedBlocks = 0
<1>0. PICK n : n = tool.inode
  OBVIOUS
<1>1. /\ Stage("rm", {3}) /\ Stage("rm", {4})' /\ tool'.inode = n /\ table' = table
      /\ block_bitmap' = block_bitmap \ OwnBlocks(n)
  BY <1>0, Moves, FreedIsAll DEF Inv, SameTool, FreeBlocks
<1>2. n \in Inode /\ n # Root
  BY <1>0, <1>1, InodeAssumption DEF Inv, Basic, ToolOK, Stage
<1>3. Owner(n) /\ Owner(Root)
  BY <1>0, <1>1 DEF Owner, Stage, Inv, Basic, Shape
<1>4. PICK T : T = OwnBlocks(n)
  OBVIOUS
<1>5. T \subseteq block_bitmap /\ block_bitmap \subseteq Block
  BY <1>2, <1>3, <1>4 DEF Inv, Owned, Exact, Basic, TypeOK
<1>6. Cardinality(T) = Len(table[n].block)
  BY <1>2, <1>3, <1>4, BlocksOf, OnceCounts DEF Inv, Basic, Owned, Exact, OwnBlocks
<1>7. IsFiniteSet(T) /\ IsFiniteSet(ClearBlocks)
  BY <1>5, FS_Subset, FiniteClear, BlockAssumption
<1>8. ClearBlocks' = ClearBlocks \cup T /\ ClearBlocks \cap T = {}
  BY <1>1, <1>4, <1>5 DEF ClearBlocks
<1>9. Cardinality(ClearBlocks') = Cardinality(ClearBlocks) + Cardinality(T)
  <2>1. Cardinality(ClearBlocks \cup T) =
          Cardinality(ClearBlocks) + Cardinality(T) - Cardinality(ClearBlocks \cap T)
    BY <1>7, FS_Union
  <2>2. Cardinality(ClearBlocks \cap T) = 0
    BY <1>8, FS_EmptySet
  <2>3. Cardinality(ClearBlocks) \in Nat /\ Cardinality(T) \in Nat
    BY <1>7, FS_CardinalityType
  <2>4. Cardinality(ClearBlocks \cup T) = Cardinality(ClearBlocks) + Cardinality(T)
    BY <2>1, <2>2, <2>3
  <2>. QED  BY <1>8, <2>4
<1>10. OwedBlocks' = Len(table[n].block) /\ OwedBlocks = 0
  BY <1>1 DEF OwedBlocks, Stage
<1>. QED  BY <1>6, <1>9, <1>10

LEMMA BlocksCountedNext ==
  ASSUME Inv, Inv', FilesFit, RootBlock \in OwnBlocks(Root), BlocksCounted, [Next]_vars
  PROVE  BlocksCounted'
<1>. SUFFICES ASSUME Exact' PROVE Cardinality(ClearBlocks') = free_blocks' + OwedBlocks'
  BY DEF BlocksCounted
<1>0. /\ Cardinality(ClearBlocks) = free_blocks + OwedBlocks /\ free_blocks \in Int
      /\ Exact
  BY ExactIs DEF BlocksCounted, Inv, Basic, TypeOK
<1>1. CASE AllocateFileBlock \/ WriteDirInode \/ GrowDirectory
  BY <1>0, <1>1, TakenIsCounted
<1>2. CASE FreeBlocks
  BY <1>0, <1>2, FreedIsCounted DEF FreeBlocks
<1>3. CASE FreeCounts
  <2>1. Stage("rm", {4}) /\ tool'.cmd = "none" /\ tool.inode \in Inode
    BY <1>3, Moves DEF Inv, Basic, ToolOK, Stage
  <2>2. OwedBlocks = Freed /\ OwedBlocks' = 0 /\ Freed \in Nat
    BY <2>1, BlocksOf DEF OwedBlocks, Stage, Freed, Inv, Basic
  <2>. QED  BY <1>0, <1>3, <2>2 DEF FreeCounts, ClearBlocks
<1>4. CASE FreeInode
  <2>1. Stage("rm", {2}) /\ Stage("rm", {3})'
    BY <1>4, Moves DEF Inv
  <2>. QED  BY <1>0, <1>4, <2>1 DEF FreeInode, OwedBlocks, Stage, ClearBlocks
<1>5. CASE UNCHANGED vars
  BY <1>0, <1>5 DEF vars, disk, OwedBlocks, Stage, ClearBlocks
<1>6. CASE ~(\/ AllocateFileBlock \/ WriteDirInode \/ GrowDirectory
             \/ FreeInode \/ FreeBlocks \/ FreeCounts \/ UNCHANGED vars)
  <2>1. OwedBlocks = 0 /\ OwedBlocks' = 0
    BY <1>6, OwesNothing DEF OwedBlocks, Stage
  <2>2. Ready /\ StartsTool => UNCHANGED disk
    BY StillIs
  <2>3. UNCHANGED <<block_bitmap, free_blocks>>
    BY <1>6, <2>2, EndsExact, UnlinkIs DEF Inv, Next, StartsTool, NewInode, BlocksAllocated, WriteFileInode,
       WriteDots, CountDir, AddEntry, CountLink, Rest, vars, disk
  <2>. QED  BY <1>0, <2>1, <2>3 DEF ClearBlocks
<1>. QED  BY <1>1, <1>2, <1>3, <1>4, <1>5, <1>6

\* Only ext2_mkdir makes a directory.
LEMMA SameDirectories ==
  ASSUME Inv, Inv', [Next]_vars, ~WriteDirInode
  PROVE  /\ \A i : IsDir(i)' <=> IsDir(i)
         /\ Directories' = Directories
<1>1. \A i : IsDir(i)' <=> IsDir(i)
  <2>1. CASE Quiet
    BY <2>1, QuietIs, SameFilesIs DEF Inv, Basic
  <2>2. CASE WriteFileInode \/ WriteDots \/ AddEntry \/ GrowDirectory \/ Unlink
    BY <2>2, BasicWriteFileInode, BasicWriteDots, BasicAddEntry, BasicGrowDirectory, BasicUnlink
       DEF Inv
  <2>. QED  BY <2>1, <2>2, StepIs
<1>2. View /\ View'
  BY ViewIs, ViewIsNext DEF Inv, Basic
<1>3. \A i : i \in Directories' <=> i \in Directories
  BY <1>1, <1>2 DEF View
<1>. QED  BY <1>1, <1>3

LEMMA DirsCountedNext ==
  ASSUME Inv, Inv', DirsCounted, [Next]_vars
  PROVE  DirsCounted'
<1>. SUFFICES ASSUME Exact' PROVE Cardinality(Directories') = used_dirs' + OwedDirs'
  BY DEF DirsCounted
<1>0. /\ Cardinality(Directories) = used_dirs + OwedDirs /\ used_dirs \in Nat
      /\ IsFiniteSet(Directories)
  BY ExactIs, FiniteClear DEF DirsCounted, Inv, Basic, TypeOK
<1>1. CASE WriteDirInode
  <2>1. PICK n : n = tool.inode
    OBVIOUS
  <2>2. ~IsDir(n) /\ \A i : IsDir(i)' <=> IsDir(i) \/ i = n
    BY <1>1, <2>1, BasicWriteDirInode DEF Inv
  <2>3. View /\ View'
    BY ViewIs, ViewIsNext DEF Inv, Basic
  <2>4. n \notin Directories /\ Directories' = Directories \cup {n}
    <3>1. \A i : i \in Directories' <=> i \in Directories \/ i = n
      BY <2>2, <2>3 DEF View
    <3>. QED  BY <2>2, <2>3, <3>1 DEF View
  <2>5. Cardinality(Directories') = Cardinality(Directories) + 1
    BY <1>0, <2>4, FS_AddElement
  <2>6. Stage("mkdir", {3}) /\ Stage("mkdir", {4})'
    BY <1>1, Moves DEF Inv
  <2>. QED  BY <1>0, <1>1, <2>5, <2>6 DEF WriteDirInode, OwedDirs, Stage
<1>2. CASE WriteDots \/ CountDir
  <2>1. Directories' = Directories
    <3>1. ~WriteDirInode
      BY <1>2, Moves DEF Inv, Stage
    <3>. QED  BY <3>1, SameDirectories
  <2>2. /\ WriteDots => Stage("mkdir", {4}) /\ Stage("mkdir", {5})'
        /\ CountDir => Stage("mkdir", {5}) /\ tool'.cmd = "none"
    BY Moves DEF Inv
  <2>3. /\ WriteDots => used_dirs' = used_dirs
        /\ CountDir => used_dirs' = used_dirs + 1
    BY DEF WriteDots, CountDir
  <2>. QED  BY <1>0, <1>2, <2>1, <2>2, <2>3 DEF OwedDirs, Stage
<1>3. CASE ~(WriteDirInode \/ WriteDots \/ CountDir)
  <2>1. Directories' = Directories
    BY <1>3, SameDirectories
  <2>2. used_dirs' = used_dirs /\ OwedDirs' = OwedDirs
    <3>1. CASE (Ready /\ StartsTool) \/ Rest \/ UNCHANGED vars
      <4>1. UNCHANGED disk /\ (tool' = tool \/ (tool = Idle /\ tool'.at = 1))
        BY <3>1, StillIs
      <4>. QED  BY <4>1, IdleIs DEF OwedDirs, Stage, disk
    <3>2. CASE NewInode \/ AllocateFileBlock
      BY <3>2, NewInodeIs, AllocateIs DEF Inv, OwedDirs, Stage, NewInode, AllocateFileBlock
    <3>3. CASE \/ BlocksAllocated \/ WriteFileInode \/ AddEntry \/ GrowDirectory \/ CountLink
               \/ FreeInode \/ FreeBlocks \/ FreeCounts
      BY <3>3, Moves DEF Inv, OwedDirs, Stage, BlocksAllocated, WriteFileInode, AddEntry,
         GrowDirectory, CountLink, FreeInode, FreeBlocks, FreeCounts, disk
    <3>4. CASE Unlink
      <4>1. /\ Stage("rm", {1}) /\ used_dirs' = used_dirs
            /\ tool' = Idle \/ Advance(tool)
        BY <3>4, UnlinkIs DEF Inv
      <4>2. OwedDirs = 0 /\ OwedDirs' = 0
        BY <4>1, Advances, IdleIs DEF Inv, OwedDirs, Stage
      <4>. QED  BY <4>1, <4>2
    <3>5. CASE LnWritesAstray \/ RmWritesAstray \/ InodeOverrun \/ NothingFree \/ Kill
      BY <3>5, EndsExact
    <3>. QED  BY <1>3, <3>1, <3>2, <3>3, <3>4, <3>5 DEF Next, StartsTool
  <2>. QED  BY <1>0, <2>1, <2>2
<1>. QED  BY <1>1, <1>2, <1>3

LEMMA AccountsInit == Init => Accounts
<1>. SUFFICES ASSUME Init PROVE Accounts
  OBVIOUS
<1>1. tool.cmd = "none" /\ inode_bitmap = {} /\ block_bitmap = {}
  BY IdleIs DEF Init
<1>2. table[Root].block = <<RootBlock>>
  BY DEF Init
<1>3. RootBlock \in OwnBlocks(Root)
  BY <1>2, OneSet DEF OwnBlocks
<1>4. InodesUsed /\ BlocksUsed
  BY <1>1 DEF InodesUsed, BlocksUsed, Stage
<1>5. ClearInodes = Inode /\ ClearBlocks = Block
  BY <1>1 DEF ClearInodes, ClearBlocks
<1>6. /\ Cardinality(Inode) \in Nat /\ Cardinality(Block) \in Nat
  BY FS_CardinalityType, InodeAssumption, BlockAssumption
<1>7. InodesCounted /\ BlocksCounted
  BY <1>1, <1>5, <1>6 DEF Init, InodesCounted, BlocksCounted, OwedInodes, OwedBlocks, Stage
<1>8. Directories = {Root}
  <2>1. \A i : i \in Directories <=> i = Root
    BY <1>1 DEF Directories, Listed
  <2>. QED  BY <2>1
<1>9. DirsCounted
  <2>1. Cardinality(Directories) = 1
    BY <1>8, FS_Singleton
  <2>2. OwedDirs = 0 /\ used_dirs = 1
    BY <1>1 DEF OwedDirs, Stage, Init
  <2>. QED  BY <2>1, <2>2 DEF DirsCounted
<1>10. FilesFit
  <2>1. \A i \in Inode : table[i].mode = "none"
    BY InodeAssumption DEF Init
  <2>. QED  BY <2>1 DEF FilesFit
<1>. QED  BY <1>3, <1>4, <1>7, <1>9, <1>10 DEF Accounts

LEMMA AccountsNext == Inv /\ Inv' /\ Accounts /\ [Next]_vars => Accounts'
BY FilesFitNext, RootBlockNext, InodesUsedNext, BlocksUsedNext, InodesCountedNext, BlocksCountedNext,
   DirsCountedNext DEF Accounts

\* Between two tools, none of them killed, nothing is on its way.
LEMMA ExactBetween ==
  ASSUME Inv, Accounts, Exact, tool = Idle
  PROVE  /\ inode_bitmap = NamedInodes \ {Root}
         /\ block_bitmap = (UNION {OwnBlocks(i) : i \in LiveInodes}) \ {RootBlock}
         /\ free_inodes = Cardinality(ClearInodes)
         /\ free_blocks = Cardinality(ClearBlocks)
         /\ used_dirs = Cardinality(Directories)
<1>1. /\ TypeOK /\ Shape /\ Naming /\ Owned /\ View
      /\ \A c, S : ~Stage(c, S) \/ c = "none"
      /\ unmade = {}
  BY IdleIs, NothingUnmade, ViewIs DEF Inv, Basic, Exact, Stage
<1>2. LiveInodes = NamedInodes \cup {Root}
  <2>1. ~HalfMade
    BY IdleIs DEF HalfMade
  <2>. QED  BY <1>1, <2>1 DEF LiveInodes, Unfinished
<1>3. inode_bitmap = NamedInodes \ {Root}
  <2>1. inode_bitmap \subseteq Inode /\ Root \notin Inode
    BY <1>1, InodeAssumption DEF TypeOK
  <2>2. \A i : i \in inode_bitmap <=> i \in NamedInodes /\ i # Root
    BY <1>1, <2>1 DEF View, Naming, Accounts, InodesUsed, Exact, Holds
  <2>. QED  BY <2>2
<1>4. \A i : i \in LiveInodes <=> Owner(i)
  <2>1. \A i : IsDir(i) => i \in NamedInodes \cup {Root}
    BY <1>1, <1>3 DEF IsDir, Shape
  <2>2. \A i : Owner(i) <=> IsDir(i) \/ HasRecord(i)
    BY <1>1 DEF Owner, Making
  <2>. QED  BY <1>1, <1>2, <2>1, <2>2 DEF View, Shape
<1>5. block_bitmap = (UNION {OwnBlocks(i) : i \in LiveInodes}) \ {RootBlock}
  <2>1. \A b \in block_bitmap : b # RootBlock /\ \E i : Owner(i) /\ b \in OwnBlocks(i)
    BY <1>1, BlockAssumption DEF TypeOK, Accounts, BlocksUsed
  <2>2. \A i : Owner(i) => OwnBlocks(i) \subseteq block_bitmap \cup {RootBlock}
    BY <1>1 DEF Owned, Exact
  <2>. QED  BY <1>4, <2>1, <2>2
<1>6. OwedInodes = 0 /\ OwedBlocks = 0 /\ OwedDirs = 0
  BY <1>1 DEF OwedInodes, OwedBlocks, OwedDirs
<1>. QED  BY <1>1, <1>3, <1>5, <1>6 DEF Accounts, InodesCounted, BlocksCounted, DirsCounted, TypeOK

\* When no tool was killed, bitmaps and counts say between two tools exactly
\* what is in use: what a step marks, counts or gives up is at every point
\* either reached by a name or held by the tool that runs.
THEOREM AccountsBalance == Spec => []AccountsExact
<1>1. Inv /\ Accounts => AccountsExact
  BY ExactBetween DEF AccountsExact, Exact
<1>2. Spec => []Accounts
  <2>1. Inv /\ Accounts /\ [Next]_vars /\ Inv' => Accounts'
    BY AccountsNext
  <2>. QED  BY <2>1, AccountsInit, InvAlways, PTL DEF Spec
<1>. QED  BY <1>1, <1>2, InvAlways, PTL

----------------------------------------------------------------------------
(* The directories are a tree                                              *)

First(d) == Head(table[d].block)

\* The record at k of the block b is a name of the inode.
IsName(b, k, i) == entries[b][k].inode = i /\ entries[b][k].name \in Name

\* The inode has one name, and that in the directory d.
OneName(i, d) ==
  \E b \in OwnBlocks(d) : \E k \in 1 .. Len(entries[b]) :
    /\ IsName(b, k, i)
    /\ \A c \in DOMAIN entries : \A l \in 1 .. Len(entries[c]) :
         IsName(c, l, i) => c = b /\ l = k

\* The block begins with "." and "..", which leads to p.
Dotted(b, p) ==
  /\ Len(entries[b]) >= 2
  /\ entries[b][1].name = "." /\ entries[b][2].name = ".." /\ entries[b][2].inode = p

\* A directory that is made has its records and one name, in the directory
\* its ".." leads to; one that is being made has the name already.
Tree ==
  Sound =>
    /\ \A d : IsDir(d) /\ ~Making(d) =>
         \E p : /\ IsDir(p) /\ Dotted(First(d), p)
                /\ d = Root \/ OneName(d, p)
    /\ Stage("mkdir", {3, 4}) => OneName(tool.inode, tool.parent)

\* The ways a step changes the records of a block.
Appends(c, e) == entries' = [entries EXCEPT ![c] = Append(entries[c], e)]
Removes(c, m) == entries' = [entries EXCEPT ![c] = RemoveAt(entries[c], m)]

\* ext2_mkdir writes the records of a new directory into its empty block.
LEMMA DotsWritten ==
  ASSUME Inv, WriteDots
  PROVE  /\ Stage("mkdir", {4}) /\ Sound /\ IsDir(tool.inode)
         /\ First(tool.inode) \in Block \cup {RootBlock} /\ entries[First(tool.inode)] = <<>>
         /\ entries' = [entries EXCEPT ![First(tool.inode)] = Dots(tool.inode)]
<1>1. Stage("mkdir", {4}) /\ IsDir(tool.inode) /\ Sound
  BY AtIs DEF WriteDots, Inv, Basic, ToolOK, Running, Stage
<1>2. PICK n \in Inode \cup {Root} : n = tool.inode
  BY <1>1 DEF IsDir
<1>3. table[n].block \in Seq(Block \cup {RootBlock}) /\ table[n].block # <<>>
  BY <1>1, <1>2, BlocksOf DEF Inv, Basic, Shape
<1>4. 1 \in 1 .. Len(table[n].block) /\ First(n) = table[n].block[1]
  BY <1>3 DEF First
<1>5. First(n) \in OwnBlocks(n) /\ First(n) \in Block \cup {RootBlock}
  BY <1>4, BlocksOf DEF Inv, Basic
<1>6. entries[First(n)] = <<>>
  BY <1>1, <1>2, <1>5 DEF Inv, Owned
<1>. QED  BY <1>1, <1>2, <1>4, <1>5, <1>6 DEF WriteDots

\* A new name goes behind the records of a block that the directory has then.
LEMMA NameWritten ==
  ASSUME Inv, AddEntry \/ GrowDirectory
  PROVE  \E c \in Block \cup {RootBlock} :
           Appends(c, NewEntry) /\ \A d : d = tool.parent => c \in OwnBlocks(d)'
<1>0. Inv /\ At("entry")
  BY DEF AddEntry, GrowDirectory
<1>1. CASE AddEntry
  <2>1. PICK c \in Block \cup {RootBlock} : c = EntryBlock /\ c \in OwnBlocks(tool.parent)
    BY <1>0, NewEntryIs DEF Inv
  <2>2. Appends(c, NewEntry) /\ table' = table
    BY <1>1, <2>1 DEF AddEntry, Appends
  <2>. QED  BY <2>1, <2>2 DEF OwnBlocks
<1>2. CASE GrowDirectory
  <2>1. PICK c \in Block : c = NewBlock /\ c \notin block_bitmap
    BY <1>2, NewBlockIs DEF GrowDirectory
  <2>2. Sound
    BY <1>0, NewEntryIs DEF Inv, Basic, ToolOK, Running, Stage
  <2>3. entries[c] = <<>>
    <3>1. ASSUME NEW d \in Inode \cup {Root}, IsDir(d) PROVE c \notin OwnBlocks(d)
      BY <2>1, <2>2, <3>1, BlockAssumption DEF Inv, Owned, Owner
    <3>. QED  BY <2>1, <3>1 DEF Inv, Basic, Shape, TypeOK
  <2>4. Append(<<>>, NewEntry) = <<NewEntry>>
    OBVIOUS
  <2>5. Appends(c, NewEntry)
    BY <1>2, <2>1, <2>3, <2>4 DEF GrowDirectory, Appends
  <2>6. PICK n \in Inode \cup {Root} : n = tool.parent
    BY <1>0, NewEntryIs DEF IsDir, Inv
  <2>7. table'[n].block = Append(table[n].block, c)
    BY <1>2, <2>1, <2>6, BasicGrowDirectory DEF Inv
  <2>8. ToSet(table'[n].block) = ToSet(table[n].block) \cup {c}
    BY <2>1, <2>7, BlocksOf, AppendSet DEF Inv, Basic
  <2>. QED  BY <2>1, <2>5, <2>6, <2>8 DEF OwnBlocks
<1>. QED  BY <1>1, <1>2

LEMMA EntriesChange ==
  ASSUME Inv, [Next]_vars
  PROVE  \/ entries' = entries
         \/ WriteDots
         \/ AddEntry \/ GrowDirectory
         \/ /\ Unlink
            /\ \E c \in Block \cup {RootBlock} : \E m \in 1 .. Len(entries[c]) :
                 Removes(c, m) /\ entries[c][m].inode = tool.inode
<1>1. CASE Quiet \/ WriteFileInode \/ WriteDirInode
  BY <1>1, QuietIs DEF Inv, SameFiles, WriteFileInode, WriteDirInode
<1>2. CASE Unlink
  BY <1>2, UnlinkIs DEF Inv, Removes
<1>. QED  BY <1>1, <1>2, StepIs

\* The inode that gets a name, or loses one, is not a directory.
LEMMA NameOfFile ==
  ASSUME Inv, Sound, AddEntry \/ GrowDirectory \/ Unlink, NEW i, IsDir(i), HasRecord(i)
  PROVE  i # tool.inode
<1>1. CASE AddEntry \/ GrowDirectory
  <2>1. Stage("mkdir", {2}) \/ Stage("cp", {4}) \/ Stage("ln", {1})
    BY <1>1, NewEntryIs DEF Inv, AddEntry, GrowDirectory
  <2>2. CASE Stage("ln", {1})
    BY <2>2 DEF Inv, Basic, ToolOK, Stage, IsDir
  <2>3. CASE Stage("mkdir", {2}) \/ Stage("cp", {4})
    BY <2>3 DEF Inv, Naming, Unnamed, Stage
  <2>. QED  BY <2>1, <2>2, <2>3
<1>2. CASE Unlink
  BY <1>2, UnlinkIs DEF Inv, IsDir
<1>. QED  BY <1>1, <1>2

LEMMA DotsKept ==
  ASSUME Inv, [Next]_vars, NEW b \in Block \cup {RootBlock}, NEW p, Dotted(b, p)
  PROVE  Dotted(b, p)'
<1>0. entries \in [Block \cup {RootBlock} -> Seq(Entry)]
  BY DEF Inv, Basic, TypeOK
<1>1. CASE entries' = entries
  BY <1>1 DEF Dotted
<1>2. CASE WriteDots
  <2>1. PICK c \in Block \cup {RootBlock} :
          /\ entries[c] = <<>>
          /\ entries' = [entries EXCEPT ![c] = Dots(tool.inode)]
    BY <1>2, DotsWritten
  <2>2. b # c
    BY <2>1 DEF Dotted
  <2>3. entries'[b] = entries[b]
    BY <1>0, <2>1, <2>2
  <2>. QED  BY <2>3 DEF Dotted
<1>3. CASE AddEntry \/ GrowDirectory
  <2>1. PICK e : e = NewEntry
    OBVIOUS
  <2>2. PICK c \in Block \cup {RootBlock} : Appends(c, e)
    BY <1>3, <2>1, NameWritten
  <2>3. e \in Entry
    BY <1>3, <2>1, NewEntryIs DEF Inv, AddEntry, GrowDirectory
  <2>4. entries'[b] = IF b = c THEN Append(entries[c], e) ELSE entries[b]
    BY <1>0, <2>2 DEF Appends
  <2>5. CASE b = c
    <3>1. entries[b] \in Seq(Entry) /\ 1 \in 1 .. Len(entries[b]) /\ 2 \in 1 .. Len(entries[b])
      BY <1>0 DEF Dotted
    <3>2. /\ Len(entries'[b]) = Len(entries[b]) + 1
          /\ entries'[b][1] = entries[b][1] /\ entries'[b][2] = entries[b][2]
      BY <2>3, <2>4, <2>5, <3>1, AppendIs
    <3>. QED  BY <3>1, <3>2 DEF Dotted
  <2>. QED  BY <2>4, <2>5 DEF Dotted
<1>4. ASSUME Unlink, NEW c \in Block \cup {RootBlock}, NEW m \in 1 .. Len(entries[c]),
             Removes(c, m), entries[c][m].inode = tool.inode
      PROVE  Dotted(b, p)'
  <2>1. PICK R : R = RemoveAt(entries[c], m)
    OBVIOUS
  <2>2. entries'[b] = IF b = c THEN R ELSE entries[b]
    BY <1>0, <1>4, <2>1 DEF Removes
  <2>3. CASE b = c
    <3>1. entries[b] \in Seq(Entry) /\ 1 \in 1 .. Len(entries[b]) /\ 2 \in 1 .. Len(entries[b])
      BY <1>0 DEF Dotted
    <3>2. entries[b][1].name \notin Name /\ entries[b][2].name \notin Name
      BY NameAssumption DEF Dotted
    <3>3. IsDir(entries[b][1].inode) /\ IsDir(entries[b][2].inode) /\ b \in DOMAIN entries
      BY <1>0, <3>1, <3>2 DEF Inv, Basic, Shape
    <3>4. m # 1 /\ m # 2
      BY <1>4, <2>3, <3>3, UnlinkIs DEF Inv, IsDir
    <3>5. /\ Len(R) = Len(entries[b]) - 1
          /\ \A i \in 1 .. Len(entries[b]) - 1 :
               R[i] = IF i < m THEN entries[b][i] ELSE entries[b][i + 1]
      BY <1>4, <2>1, <2>3, <3>1, RemoveAtIs
    <3>6. Len(R) >= 2 /\ R[1] = entries[b][1] /\ R[2] = entries[b][2]
      <4>1. m \in 1 .. Len(entries[b]) /\ m > 2 /\ Len(entries[b]) \in Nat
        BY <1>4, <2>3, <3>1, <3>4
      <4>2. Len(R) >= 2 /\ 1 \in 1 .. Len(entries[b]) - 1 /\ 2 \in 1 .. Len(entries[b]) - 1
        BY <3>5, <4>1
      <4>. QED  BY <3>5, <4>1, <4>2
    <3>. QED  BY <2>2, <2>3, <3>6 DEF Dotted
  <2>. QED  BY <2>2, <2>3 DEF Dotted
<1>. QED  BY <1>1, <1>2, <1>3, <1>4, EntriesChange

\* A directory keeps its first block.
LEMMA FirstKept ==
  ASSUME Inv, [Next]_vars, NEW d, IsDir(d)
  PROVE  First(d)' = First(d) /\ First(d) \in Block \cup {RootBlock}
<1>0. /\ d \in Inode \cup {Root}
      /\ table[d].block \in Seq(Block \cup {RootBlock}) /\ table[d].block # <<>>
  BY BlocksOf DEF Inv, Basic, Shape, IsDir
<1>1. First(d) \in Block \cup {RootBlock}
  BY <1>0 DEF First
<1>2. CASE Quiet
  BY <1>0, <1>2, QuietIs DEF Inv, SameFiles, First
<1>3. CASE WriteFileInode \/ WriteDirInode
  <2>1. table'[d] = table[d]
    BY <1>3, BasicWriteFileInode, BasicWriteDirInode DEF Inv, IsDir
  <2>. QED  BY <1>1, <2>1 DEF First
<1>4. CASE WriteDots \/ AddEntry \/ Unlink
  BY <1>1, <1>4 DEF WriteDots, AddEntry, Unlink, First
<1>5. CASE GrowDirectory
  <2>1. PICK c \in Block : c = NewBlock
    BY <1>5, NewBlockIs DEF GrowDirectory
  <2>2. PICK q \in Inode \cup {Root} : q = tool.parent
    BY <1>5, NewEntryIs DEF GrowDirectory, IsDir, Inv
  <2>3. /\ \A j \in Inode \cup {Root} : j # q => table'[j] = table[j]
        /\ table'[q].block = Append(table[q].block, c)
    BY <1>5, <2>1, <2>2, BasicGrowDirectory DEF Inv
  <2>4. CASE d = q
    <3>1. Head(Append(table[d].block, c)) = Head(table[d].block)
      BY <1>0, <2>1
    <3>. QED  BY <1>1, <2>3, <2>4, <3>1 DEF First
  <2>. QED  BY <1>0, <1>1, <2>3, <2>4 DEF First
<1>. QED  BY <1>1, <1>2, <1>3, <1>4, <1>5, StepIs

LEMMA OneNameHas ==
  ASSUME Inv, NEW i, NEW d, IsDir(d), OneName(i, d)
  PROVE  HasRecord(i)
<1>1. OwnBlocks(d) \subseteq Block \cup {RootBlock}
  BY BlocksOf DEF Inv, Basic, IsDir
<1>. QED  BY <1>1 DEF OneName, IsName, HasRecord, Inv, Basic, TypeOK

\* A step that leaves the places of the names of i leaves it its one name.
LEMMA PlacesKept ==
  ASSUME Inv, NEW i, NEW d, IsDir(d), OneName(i, d), OwnBlocks(d) \subseteq OwnBlocks(d)',
         DOMAIN entries' = DOMAIN entries,
         \A b \in DOMAIN entries : \A k :
           (k \in 1 .. Len(entries'[b]) /\ IsName(b, k, i)') <=>
             (k \in 1 .. Len(entries[b]) /\ IsName(b, k, i))
  PROVE  OneName(i, d)'
<1>1. OwnBlocks(d) \subseteq DOMAIN entries
  BY BlocksOf DEF Inv, Basic, IsDir, TypeOK
<1>2. PICK b \in OwnBlocks(d) : \E k \in 1 .. Len(entries[b]) :
        /\ IsName(b, k, i)
        /\ \A c \in DOMAIN entries : \A l \in 1 .. Len(entries[c]) :
             IsName(c, l, i) => c = b /\ l = k
  BY DEF OneName
<1>3. PICK k \in 1 .. Len(entries[b]) :
        /\ IsName(b, k, i)
        /\ \A c \in DOMAIN entries : \A l \in 1 .. Len(entries[c]) :
             IsName(c, l, i) => c = b /\ l = k
  BY <1>2
<1>4. b \in OwnBlocks(d)' /\ k \in 1 .. Len(entries'[b]) /\ IsName(b, k, i)'
  BY <1>1, <1>2, <1>3
<1>5. \A c \in DOMAIN entries' : \A l \in 1 .. Len(entries'[c]) :
        IsName(c, l, i)' => c = b /\ l = k
  BY <1>3
<1>. QED  BY <1>4, <1>5 DEF OneName

\* A record behind the others is at a new place.
LEMMA AppendPlaces ==
  ASSUME Inv, NEW c \in Block \cup {RootBlock}, NEW e \in Entry, Appends(c, e), NEW i,
         NEW n, n = Len(entries[c]) + 1
  PROVE  \A b \in DOMAIN entries : \A k :
           (k \in 1 .. Len(entries'[b]) /\ IsName(b, k, i)') <=>
             \/ k \in 1 .. Len(entries[b]) /\ IsName(b, k, i)
             \/ b = c /\ k = n /\ e.inode = i /\ e.name \in Name
<1>0. entries \in [Block \cup {RootBlock} -> Seq(Entry)]
  BY DEF Inv, Basic, TypeOK
<1>1. \A b \in DOMAIN entries : entries'[b] = IF b = c THEN Append(entries[c], e) ELSE entries[b]
  BY <1>0 DEF Appends
<1>2. /\ Len(entries[c]) \in Nat /\ Len(entries'[c]) = Len(entries[c]) + 1
      /\ \A k \in 1 .. Len(entries[c]) : entries'[c][k] = entries[c][k]
      /\ entries'[c][Len(entries[c]) + 1] = e
  <2>1. PICK R : R = Append(entries[c], e)
    OBVIOUS
  <2>2. entries[c] \in Seq(Entry) /\ entries'[c] = R
    BY <1>0, <1>1, <2>1
  <2>3. /\ Len(R) = Len(entries[c]) + 1 /\ R[Len(entries[c]) + 1] = e
        /\ \A k \in 1 .. Len(entries[c]) : R[k] = entries[c][k]
    BY <2>1, <2>2, AppendIs
  <2>. QED  BY <2>2, <2>3
<1>. SUFFICES ASSUME NEW b \in DOMAIN entries, NEW k
     PROVE  (k \in 1 .. Len(entries'[b]) /\ IsName(b, k, i)') <=>
              \/ k \in 1 .. Len(entries[b]) /\ IsName(b, k, i)
              \/ b = c /\ k = n /\ e.inode = i /\ e.name \in Name
  OBVIOUS
<1>3. CASE b # c
  BY <1>1, <1>3 DEF IsName
<1>4. CASE b = c
  <2>1. k \in 1 .. Len(entries'[c]) <=> k \in 1 .. Len(entries[c]) \/ k = n
    BY <1>2
  <2>2. CASE k \in 1 .. Len(entries[c])
    <3>1. entries'[c][k] = entries[c][k] /\ k # n
      BY <1>2, <2>2
    <3>. QED  BY <1>4, <2>1, <2>2, <3>1 DEF IsName
  <2>3. CASE k \notin 1 .. Len(entries[c])
    <3>1. ASSUME k = n PROVE entries'[c][k] = e
      BY <1>2, <3>1
    <3>. QED  BY <1>4, <2>1, <2>3, <3>1 DEF IsName
  <2>. QED  BY <2>2, <2>3
<1>. QED  BY <1>3, <1>4

\* The records behind the one that goes move up.
LEMMA OneNameUnlinked ==
  ASSUME Inv, [Next]_vars, NEW i, NEW d, IsDir(d), OneName(i, d),
         NEW c \in Block \cup {RootBlock}, NEW m \in 1 .. Len(entries[c]),
         Removes(c, m), entries[c][m].inode # i
  PROVE  OneName(i, d)'
<1>0. entries \in [Block \cup {RootBlock} -> Seq(Entry)]
  BY DEF Inv, Basic, TypeOK
<1>1. OwnBlocks(d) \subseteq OwnBlocks(d)' /\ OwnBlocks(d) \subseteq DOMAIN entries
  BY DirectoriesKept, BlocksOf DEF Inv, Basic, IsDir, TypeOK
<1>2. PICK b \in OwnBlocks(d) : \E k \in 1 .. Len(entries[b]) :
        /\ IsName(b, k, i)
        /\ \A x \in DOMAIN entries : \A l \in 1 .. Len(entries[x]) :
             IsName(x, l, i) => x = b /\ l = k
  BY DEF OneName
<1>3. PICK k \in 1 .. Len(entries[b]) :
        /\ IsName(b, k, i)
        /\ \A x \in DOMAIN entries : \A l \in 1 .. Len(entries[x]) :
             IsName(x, l, i) => x = b /\ l = k
  BY <1>2
<1>4. PICK R : R = RemoveAt(entries[c], m)
  OBVIOUS
<1>5. /\ DOMAIN entries' = DOMAIN entries
      /\ \A x \in DOMAIN entries : entries'[x] = IF x = c THEN R ELSE entries[x]
  BY <1>0, <1>4 DEF Removes
<1>6. /\ Len(R) = Len(entries[c]) - 1 /\ Len(entries[c]) \in Nat
      /\ \A j \in 1 .. Len(entries[c]) - 1 :
           R[j] = IF j < m THEN entries[c][j] ELSE entries[c][j + 1]
  BY <1>0, <1>4, RemoveAtIs
<1>7. PICK n : n = IF b = c /\ k > m THEN k - 1 ELSE k
  OBVIOUS
<1>8. b = c => k # m
  BY <1>3 DEF IsName
<1>9. b \in OwnBlocks(d)' /\ n \in 1 .. Len(entries'[b]) /\ IsName(b, n, i)'
  <2>1. CASE b # c
    BY <1>1, <1>2, <1>3, <1>5, <1>7, <2>1 DEF IsName
  <2>2. CASE b = c
    <3>1. n \in 1 .. Len(R) /\ R[n] = entries[c][k]
      BY <1>3, <1>6, <1>7, <1>8, <2>2
    <3>. QED  BY <1>1, <1>2, <1>3, <1>5, <2>2, <3>1 DEF IsName
  <2>. QED  BY <2>1, <2>2
<1>10. ASSUME NEW x \in DOMAIN entries', NEW l \in 1 .. Len(entries'[x]), IsName(x, l, i)'
       PROVE  x = b /\ l = n
  <2>1. CASE x # c
    BY <1>3, <1>5, <1>7, <1>10, <2>1 DEF IsName
  <2>2. CASE x = c
    <3>1. PICK j : j = IF l < m THEN l ELSE l + 1
      OBVIOUS
    <3>2. l \in 1 .. Len(R) /\ R[l].inode = i /\ R[l].name \in Name
      BY <1>5, <1>10, <2>2 DEF IsName
    <3>3. j \in 1 .. Len(entries[c]) /\ R[l] = entries[c][j]
      BY <1>6, <3>1, <3>2, SMTT(30)
    <3>4. IsName(c, j, i) /\ c \in DOMAIN entries
      BY <1>0, <3>2, <3>3 DEF IsName
    <3>5. c = b /\ j = k
      BY <1>3, <3>3, <3>4
    <3>6. l = n
      BY <1>3, <1>6, <1>7, <3>1, <3>2, <3>5
    <3>. QED  BY <2>2, <3>5, <3>6
  <2>. QED  BY <2>1, <2>2
<1>. QED  BY <1>9, <1>10 DEF OneName

LEMMA OneNameKept ==
  ASSUME Inv, Inv', [Next]_vars, Sound, NEW i, NEW d, IsDir(d), OneName(i, d),
         IsDir(i) \/ ~(AddEntry \/ GrowDirectory \/ Unlink)
  PROVE  OneName(i, d)'
<1>0. /\ entries \in [Block \cup {RootBlock} -> Seq(Entry)]
      /\ DOMAIN entries' = DOMAIN entries
  BY DEF Inv, Basic, TypeOK
<1>1. OwnBlocks(d) \subseteq OwnBlocks(d)'
  BY DirectoriesKept
<1>2. CASE entries' = entries
  <2>1. \A b \in DOMAIN entries : \A k :
          (k \in 1 .. Len(entries'[b]) /\ IsName(b, k, i)') <=>
            (k \in 1 .. Len(entries[b]) /\ IsName(b, k, i))
    BY <1>2 DEF IsName
  <2>. QED  BY <1>0, <1>1, <2>1, PlacesKept
<1>3. CASE WriteDots
  <2>1. PICK n : n = tool.inode
    OBVIOUS
  <2>2. PICK c \in Block \cup {RootBlock} :
          entries[c] = <<>> /\ entries' = [entries EXCEPT ![c] = Dots(n)]
    BY <1>3, <2>1, DotsWritten
  <2>3. PICK R : R = Dots(n) /\ Len(R) = 2 /\ R[1].name = "." /\ R[2].name = ".."
    <3>1. PICK x, y : x = E(".", n) /\ y = E("..", tool.parent)
      OBVIOUS
    <3>2. x.name = "." /\ y.name = ".."
      BY <3>1 DEF E
    <3>3. Dots(n) = <<x, y>>
      BY <3>1 DEF Dots
    <3>. QED  BY <3>2, <3>3
  <2>4. \A b \in DOMAIN entries : entries'[b] = IF b = c THEN R ELSE entries[b]
    BY <1>0, <2>2, <2>3
  <2>5. Len(entries[c]) = 0 /\ \A k \in 1 .. 2 : R[k].name \notin Name
    BY <2>2, <2>3, NameAssumption
  <2>6. \A b \in DOMAIN entries : \A k :
          (k \in 1 .. Len(entries'[b]) /\ IsName(b, k, i)') <=>
            (k \in 1 .. Len(entries[b]) /\ IsName(b, k, i))
    BY <2>3, <2>4, <2>5 DEF IsName
  <2>. QED  BY <1>0, <1>1, <2>6, PlacesKept
<1>4. CASE AddEntry \/ GrowDirectory
  <2>1. PICK e : e = NewEntry
    OBVIOUS
  <2>2. PICK c \in Block \cup {RootBlock} : Appends(c, e)
    BY <1>4, <2>1, NameWritten
  <2>3. e \in Entry /\ e.inode # i
    BY <1>4, <2>1, NewEntryIs, NameOfFile, OneNameHas DEF Inv, AddEntry, GrowDirectory
  <2>4. PICK n : n = Len(entries[c]) + 1
    OBVIOUS
  <2>5. \A b \in DOMAIN entries : \A k :
          (k \in 1 .. Len(entries'[b]) /\ IsName(b, k, i)') <=>
            (k \in 1 .. Len(entries[b]) /\ IsName(b, k, i))
    BY <2>2, <2>3, <2>4, AppendPlaces
  <2>. QED  BY <1>0, <1>1, <2>5, PlacesKept
<1>5. ASSUME Unlink, NEW c \in Block \cup {RootBlock}, NEW m \in 1 .. Len(entries[c]),
             Removes(c, m), entries[c][m].inode = tool.inode
      PROVE  OneName(i, d)'
  <2>1. i # tool.inode
    BY <1>5, NameOfFile, OneNameHas
  <2>. QED  BY <1>5, <2>1, OneNameUnlinked
<1>. QED  BY <1>2, <1>3, <1>4, <1>5, EntriesChange

\* When ext2_mkdir has named the directory and not written its records.
LEMMA MakingFrom ==
  ASSUME Inv, [Next]_vars, Stage("mkdir", {3, 4})'
  PROVE  \/ (AddEntry \/ GrowDirectory) /\ Stage("mkdir", {2}) /\ SameTool
         \/ WriteDirInode /\ Stage("mkdir", {3}) /\ SameTool
         \/ UNCHANGED vars
<1>1. CASE Ready /\ StartsTool
  <2>1. tool' = tool \/ tool'.at = 1
    BY <1>1, StillIs
  <2>2. tool.cmd = "none"
    BY <1>1, IdleIs DEF Ready
  <2>. QED  BY <2>1, <2>2 DEF Stage
<1>2. CASE NewInode \/ AllocateFileBlock
  BY <1>2, NewInodeIs, AllocateIs DEF Inv, Stage
<1>3. CASE \/ BlocksAllocated \/ WriteFileInode \/ WriteDirInode \/ WriteDots \/ CountDir
           \/ AddEntry \/ GrowDirectory \/ CountLink
           \/ FreeInode \/ FreeBlocks \/ FreeCounts
  BY <1>3, Moves DEF Inv, Stage
<1>4. CASE Unlink
  <2>1. Stage("rm", {1}) /\ (tool' = Idle \/ Advance(tool))
    BY <1>4, UnlinkIs DEF Inv
  <2>. QED  BY <2>1, Advances, IdleIs DEF Inv, Stage
<1>5. CASE LnWritesAstray \/ RmWritesAstray \/ InodeOverrun \/ NothingFree \/ Kill
  BY <1>5, IdleIs DEF LnWritesAstray, RmWritesAstray, InodeOverrun, NothingFree, Undefined, Kill, Stage
<1>6. CASE Rest
  BY <1>6 DEF Rest
<1>. QED  BY <1>1, <1>2, <1>3, <1>4, <1>5, <1>6 DEF Next, StartsTool

\* A directory that is being made is made by writing its records, and not if
\* the tool is killed.
LEMMA MakingUntil ==
  ASSUME Inv, [Next]_vars, Sound', NEW d, IsDir(d), Making(d)
  PROVE  Making(d)' \/ (WriteDots /\ d = tool.inode)
<1>1. CASE d \in unmade
  <2>1. Ready /\ StartsTool => unmade' = unmade
    BY StillIs
  <2>2. Unlink => unmade' = unmade
    BY UnlinkIs DEF Inv, Advance
  <2>3. unmade \subseteq unmade'
    BY <2>1, <2>2 DEF Next, StartsTool, NewInode, AllocateFileBlock, BlocksAllocated, WriteFileInode,
       WriteDirInode, WriteDots, CountDir, AddEntry, GrowDirectory, CountLink,
       FreeInode, FreeBlocks, FreeCounts, LnWritesAstray, RmWritesAstray, InodeOverrun, NothingFree, Undefined, Advance,
       Kill, Rest, vars
  <2>. QED  BY <1>1, <2>3 DEF Making
<1>2. CASE d \notin unmade
  <2>1. Stage("mkdir", {3, 4}) /\ d = tool.inode
    BY <1>2 DEF Making
  <2>2. Stage("mkdir", {4})
    BY <2>1 DEF Inv, Basic, ToolOK, TakesInode, Stage
  <2>3. CASE Kill
    BY <2>1, <2>3, HalfMadeIs DEF Inv, Basic, Kill, Making
  <2>4. CASE UNCHANGED vars
    BY <2>1, <2>4 DEF vars, Making, Stage
  <2>5. CASE (Ready /\ StartsTool) \/ Rest
    BY <2>2, <2>5, IdleIs DEF Ready, Rest, Stage
  <2>6. CASE LnWritesAstray \/ RmWritesAstray \/ InodeOverrun \/ NothingFree
    BY <2>6 DEF LnWritesAstray, RmWritesAstray, InodeOverrun, NothingFree, Undefined, Sound
  <2>7. CASE \/ NewInode \/ AllocateFileBlock \/ BlocksAllocated \/ WriteFileInode \/ WriteDirInode
             \/ CountDir \/ AddEntry \/ GrowDirectory \/ CountLink
             \/ Unlink \/ FreeInode \/ FreeBlocks \/ FreeCounts
    BY <2>2, <2>7, NewInodeIs, AllocateIs, Moves, UnlinkIs DEF Inv, Stage
  <2>. QED  BY <2>1, <2>3, <2>4, <2>5, <2>6, <2>7 DEF Next, StartsTool
<1>. QED  BY <1>1, <1>2

LEMMA NewName ==
  ASSUME Inv, Inv', Sound, AddEntry \/ GrowDirectory, Stage("mkdir", {2}),
         NEW i, i = tool.inode, NEW d, d = tool.parent
  PROVE  OneName(i, d)'
<1>1. PICK e \in Entry : e = NewEntry /\ e.inode = i /\ e.name \in Name
  BY NewEntryIs DEF Inv, AddEntry, GrowDirectory
<1>2. PICK c \in Block \cup {RootBlock} : Appends(c, e) /\ c \in OwnBlocks(d)'
  BY <1>1, NameWritten
<1>3. ~HasRecord(i)
  BY DEF Inv, Naming, Unnamed
<1>4. DOMAIN entries' = DOMAIN entries /\ c \in DOMAIN entries
  BY DEF Inv, Basic, TypeOK
<1>5. PICK n : n = Len(entries[c]) + 1
  OBVIOUS
<1>6. \A b \in DOMAIN entries : \A k :
        (k \in 1 .. Len(entries'[b]) /\ IsName(b, k, i)') <=> b = c /\ k = n
  <2>1. \A b \in DOMAIN entries : \A k : ~(k \in 1 .. Len(entries[b]) /\ IsName(b, k, i))
    BY <1>3 DEF HasRecord, IsName
  <2>2. c \in Block \cup {RootBlock} /\ e \in Entry /\ Appends(c, e)
    BY <1>1, <1>2
  <2>3. ASSUME NEW b \in DOMAIN entries, NEW k
        PROVE  (k \in 1 .. Len(entries'[b]) /\ IsName(b, k, i)') <=>
                 \/ k \in 1 .. Len(entries[b]) /\ IsName(b, k, i)
                 \/ b = c /\ k = n /\ e.inode = i /\ e.name \in Name
    BY <1>5, <2>2, AppendPlaces
  <2>. QED  BY <1>1, <1>5, <2>1, <2>3
<1>7. n \in 1 .. Len(entries'[c]) /\ IsName(c, n, i)'
  BY <1>4, <1>6
<1>8. \A b \in DOMAIN entries' : \A k \in 1 .. Len(entries'[b]) : IsName(b, k, i)' => b = c /\ k = n
  BY <1>4, <1>6
<1>. QED  BY <1>2, <1>7, <1>8 DEF OneName

\* A directory that was made stays so, with its name and its "..".
LEMMA TreeKept ==
  ASSUME Inv, Inv', Tree, [Next]_vars, Sound', NEW d, IsDir(d), ~Making(d)
  PROVE  \E p : IsDir(p)' /\ Dotted(First(d), p)' /\ (d = Root \/ OneName(d, p)')
<1>1. Sound
  BY SoundStays
<1>2. PICK p : IsDir(p) /\ Dotted(First(d), p) /\ (d = Root \/ OneName(d, p))
  BY <1>1 DEF Tree
<1>3. PICK b \in Block \cup {RootBlock} : b = First(d) /\ b = First(d)'
  BY FirstKept
<1>4. Dotted(b, p)'
  BY <1>2, <1>3, DotsKept
<1>5. IsDir(p)'
  BY <1>2, DirectoriesKept
<1>6. d = Root \/ OneName(d, p)'
  BY <1>1, <1>2, OneNameKept
<1>7. Dotted(First(d), p)'
  BY <1>3, <1>4 DEF Dotted
<1>. QED  BY <1>5, <1>6, <1>7

\* One that is being made is made where its records are written.
LEMMA TreeWritten ==
  ASSUME Inv, Inv', Tree, WriteDots, NEW d, d = tool.inode
  PROVE  \E p : IsDir(p)' /\ Dotted(First(d), p)' /\ (d = Root \/ OneName(d, p)')
<1>1. PICK p : p = tool.parent
  OBVIOUS
<1>2. Stage("mkdir", {4}) /\ Sound /\ IsDir(d) /\ [Next]_vars
  BY DotsWritten DEF Next
<1>3. ~AddEntry /\ ~GrowDirectory /\ ~Unlink
  BY <1>2, Moves, UnlinkIs DEF Inv, Stage
<1>4. OneName(d, p) /\ IsDir(p) /\ IsDir(p)'
  BY <1>1, <1>2, BasicWriteDots DEF Tree, Stage, Inv
<1>5. OneName(d, p)'
  BY <1>2, <1>3, <1>4, OneNameKept
<1>6. PICK b \in Block \cup {RootBlock} : b = First(d) /\ b = First(d)'
  BY <1>2, FirstKept
<1>7. Dotted(b, p)'
  <2>1. PICK x, y : x = E(".", d) /\ y = E("..", p)
    OBVIOUS
  <2>2. x.name = "." /\ y.name = ".." /\ y.inode = p
    BY <2>1 DEF E
  <2>3. Dots(d) = <<x, y>>
    BY <1>1, <2>1 DEF Dots
  <2>4. entries' = [entries EXCEPT ![b] = <<x, y>>]
    BY <1>6, <2>3, DotsWritten
  <2>5. entries'[b] = <<x, y>>
    BY <2>4 DEF Inv, Basic, TypeOK
  <2>. QED  BY <2>2, <2>5 DEF Dotted
<1>8. Dotted(First(d), p)'
  BY <1>6, <1>7 DEF Dotted
<1>. QED  BY <1>4, <1>5, <1>8

LEMMA TreeNext == Inv /\ Inv' /\ Tree /\ [Next]_vars => Tree'
<1>. SUFFICES ASSUME Inv, Inv', Tree, [Next]_vars, Sound'
     PROVE  /\ \A d : IsDir(d)' /\ ~Making(d)' =>
                 \E p : /\ IsDir(p)' /\ Dotted(First(d), p)'
                        /\ d = Root \/ OneName(d, p)'
            /\ Stage("mkdir", {3, 4})' => OneName(tool.inode, tool.parent)'
  BY DEF Tree
<1>0. Sound
  BY SoundStays
<1>1. ASSUME NEW d, IsDir(d)', ~Making(d)'
      PROVE  \E p : IsDir(p)' /\ Dotted(First(d), p)' /\ (d = Root \/ OneName(d, p)')
  <2>1. IsDir(d)
    <3>1. CASE WriteDirInode
      <4>1. Stage("mkdir", {4})' /\ tool'.inode = tool.inode
        BY <3>1, Moves DEF Inv, SameTool
      <4>2. d # tool.inode
        BY <1>1, <4>1 DEF Making, Stage
      <4>. QED  BY <1>1, <3>1, <4>2, BasicWriteDirInode DEF Inv
    <3>. QED  BY <1>1, <3>1, SameDirectories
  <2>2. CASE Making(d)
    BY <1>1, <2>1, <2>2, MakingUntil, TreeWritten
  <2>3. CASE ~Making(d)
    BY <2>1, <2>3, TreeKept
  <2>. QED  BY <2>2, <2>3
<1>2. ASSUME Stage("mkdir", {3, 4})' PROVE OneName(tool.inode, tool.parent)'
  <2>1. PICK i, d : i = tool.inode /\ d = tool.parent
    OBVIOUS
  <2>2. SameTool => (OneName(i, d)' <=> OneName(tool.inode, tool.parent)')
    BY <2>1 DEF SameTool, OneName, IsName
  <2>3. CASE (AddEntry \/ GrowDirectory) /\ Stage("mkdir", {2}) /\ SameTool
    BY <1>0, <2>1, <2>2, <2>3, NewName
  <2>4. CASE (WriteDirInode \/ UNCHANGED vars) /\ Stage("mkdir", {3, 4}) /\ SameTool
    <3>1. IsDir(d)
      BY <2>1, <2>4 DEF Inv, Basic, ToolOK, Running, Stage
    <3>2. OneName(i, d)
      BY <1>0, <2>1, <2>4 DEF Tree
    <3>3. entries' = entries /\ OwnBlocks(d) \subseteq OwnBlocks(d)'
      BY <2>4, <3>1, DirectoriesKept DEF WriteDirInode, vars, disk
    <3>4. OneName(i, d)'
      BY <3>2, <3>3 DEF OneName, IsName
    <3>. QED  BY <2>2, <2>4, <3>4
  <2>5. UNCHANGED vars => Stage("mkdir", {3, 4}) /\ SameTool
    BY <1>2 DEF vars, Stage, SameTool
  <2>. QED  BY <1>2, <2>3, <2>4, <2>5, MakingFrom DEF Stage
<1>. QED  BY <1>1, <1>2

LEMMA TreeInit == Init => Tree
<1>. SUFFICES ASSUME Init PROVE Tree
  OBVIOUS
<1>1. ~Stage("mkdir", {3, 4}) /\ \A d : IsDir(d) => d = Root
  BY IdleIs DEF Init, IsDir, Stage
<1>2. IsDir(Root) /\ First(Root) = RootBlock
  BY DEF Init, IsDir, First
<1>3. Dotted(RootBlock, Root)
  BY DEF Init, Dotted, E
<1>4. \A d : IsDir(d) => Dotted(First(d), Root) /\ d = Root
  BY <1>1, <1>2, <1>3
<1>. QED  BY <1>1, <1>2, <1>4 DEF Tree

\* A name that the first block of a directory has is looked up there.
LEMMA FirstLookup ==
  ASSUME TypeOK, NEW d, IsDir(d), table[d].block # <<>>,
         NEW k \in 1 .. Len(entries[First(d)])
  PROVE  LET n == entries[First(d)][k].name IN Lookup(d, n) = Find(entries[First(d)], n)
<1> DEFINE n == entries[First(d)][k].name
           blocks == table[d].block
           found == {j \in 1 .. Len(blocks) : \E r \in ToSet(entries[blocks[j]]) : r.name = n}
<1>1. blocks \in Seq(Block \cup {RootBlock}) /\ 1 \in 1 .. Len(blocks) /\ blocks[1] = First(d)
  BY BlocksOf DEF IsDir, First
<1>2. First(d) \in Block \cup {RootBlock} /\ entries[First(d)] \in Seq(Entry)
  BY <1>1 DEF TypeOK
<1>3. entries[First(d)][k] \in ToSet(entries[First(d)])
  BY <1>2, ToSetIs
<1>4. 1 \in found /\ found \in SUBSET Nat /\ \A j \in found : 1 <= j
  BY <1>1, <1>3
<1>5. Lookup(d, n) = IF found = {} THEN Missing ELSE Find(entries[blocks[Min(found)]], n)
  BY DEF Lookup
<1> HIDE DEF found
<1>6. Min(found) = 1 /\ found # {}
  BY <1>4, MinIs
<1>. QED  BY <1>1, <1>5, <1>6

LEMMA DotDotLeads ==
  ASSUME TypeOK, NEW d, IsDir(d), table[d].block # <<>>, NEW p, Dotted(First(d), p)
  PROVE  Lookup(d, "..") = p
<1>1. table[d].block \in Seq(Block \cup {RootBlock})
  BY BlocksOf DEF IsDir
<1>2. PICK R : R = entries[First(d)]
  OBVIOUS
<1>3. R \in Seq(Entry)
  BY <1>1, <1>2 DEF First, TypeOK
<1>4. Len(R) >= 2 /\ R[1].name = "." /\ R[2].name = ".." /\ R[2].inode = p /\ Len(R) \in Nat
  BY <1>2, <1>3 DEF Dotted
<1>5. Lookup(d, "..") = Find(R, "..")
  BY <1>2, <1>4, FirstLookup
<1>6. Find(R, "..") = p
  <2>1. PICK k \in 1 .. Len(R) : /\ R[k].name = ".." /\ R[k].inode = Find(R, "..")
                                 /\ \A j \in 1 .. k - 1 : R[j].name # ".."
    BY <1>3, <1>4, FindIs
  <2>2. k # 1
    BY <1>4, <2>1
  <2>3. k = 2
    BY <1>4, <2>1, <2>2
  <2>. QED  BY <1>4, <2>1, <2>3
<1>. QED  BY <1>5, <1>6

\* The one name of an inode, as a place.
LEMMA OneNameIs ==
  ASSUME Inv, Sound, NEW i, NEW p, IsDir(p), OneName(i, p)
  PROVE  Cardinality(NamesOf(i)) = 1 /\ \A nm \in NamesOf(i) : nm[1] = p
<1>1. PICK b \in OwnBlocks(p) : \E k \in 1 .. Len(entries[b]) :
        /\ IsName(b, k, i)
        /\ \A c \in DOMAIN entries : \A l \in 1 .. Len(entries[c]) :
             IsName(c, l, i) => c = b /\ l = k
  BY DEF OneName
<1>2. PICK k \in 1 .. Len(entries[b]) :
        /\ IsName(b, k, i)
        /\ \A c \in DOMAIN entries : \A l \in 1 .. Len(entries[c]) :
             IsName(c, l, i) => c = b /\ l = k
  BY <1>1
<1>3. <<p, b, k>> \in NamesOf(i)
  BY <1>1, <1>2, NamesOfIs DEF Inv, IsName
<1>4. ASSUME NEW nm \in NamesOf(i) PROVE nm = <<p, b, k>> /\ nm[1] = p
  <2>1. PICK d, c, l : d = nm[1] /\ c = nm[2] /\ l = nm[3]
    OBVIOUS
  <2>2. /\ IsDir(d) /\ c \in OwnBlocks(d) /\ c \in DOMAIN entries
        /\ l \in 1 .. Len(entries[c]) /\ IsName(c, l, i) /\ nm = <<d, c, l>>
    BY <2>1, NamesOfIs DEF Inv, Basic, TypeOK, IsName
  <2>3. c = b /\ l = k
    BY <1>2, <2>2
  <2>4. d = p
    BY <1>1, <2>2, <2>3 DEF Inv, Owned, Owner
  <2>. QED  BY <2>1, <2>2, <2>3, <2>4
<1>5. NamesOf(i) = {<<p, b, k>>}
  BY <1>3, <1>4
<1>. QED  BY <1>4, <1>5, FS_Singleton

\* The directories are a tree, whichever tools were killed where: each but the
\* root has one name, in the directory its ".." leads to, because the name is
\* written before the records, ext2_ln takes no directory, and what ext2_rm
\* takes out of a block stands behind "." and "..".
THEOREM DirectoriesFormATree == Spec => []DirectoriesAreATree
<1>1. Inv /\ Tree => DirectoriesAreATree
  <2>. SUFFICES ASSUME Inv, Tree, Sound, NEW i \in Directories, i \notin Unfinished, i # Root
       PROVE  /\ Cardinality(NamesOf(i)) = 1
              /\ \A nm \in NamesOf(i) : Lookup(i, "..") = nm[1]
    BY DEF DirectoriesAreATree
  <2>1. IsDir(i) /\ TypeOK /\ table[i].block # <<>>
    BY ViewIs DEF Inv, Basic, View, Shape
  <2>2. ~Making(i)
    BY HalfMadeIs DEF Inv, Basic, Unfinished, Making
  <2>3. PICK p : IsDir(p) /\ Dotted(First(i), p) /\ OneName(i, p)
    BY <2>1, <2>2 DEF Tree
  <2>. QED  BY <2>1, <2>3, OneNameIs, DotDotLeads
<1>2. Spec => []Tree
  <2>1. Inv /\ Tree /\ [Next]_vars /\ Inv' => Tree'
    BY TreeNext
  <2>. QED  BY <2>1, TreeInit, InvAlways, PTL DEF Spec
<1>. QED  BY <1>1, <1>2, InvAlways, PTL

----------------------------------------------------------------------------
(* What ext2_ls lists                                                      *)

\* A finite set of numbers has a greatest one, and Max is it.
LEMMA MaxExists ==
  ASSUME NEW S \in SUBSET Nat, S # {}, IsFiniteSet(S)
  PROVE  Max(S) \in S /\ \A y \in S : y <= Max(S)
<1>. DEFINE Bounds == {u \in Nat : \A y \in S : y <= u}
<1>1. PICK n \in Nat : \E f : f \in Bijection(1 .. n, S)
  <2>1. Cardinality(S) \in Nat /\ ExistsBijection(1 .. Cardinality(S), S)
    BY FS_CardinalityType
  <2>. QED  BY <2>1 DEF ExistsBijection
<1>2. PICK f : /\ \A k \in 1 .. n : f[k] \in S /\ f[k] \in Nat
               /\ \A y \in S : \E k \in 1 .. n : f[k] = y
  BY <1>1 DEF Bijection, Injection, Surjection
<1>3. Bounds # {}
  <2>. DEFINE P == {k \in 0 .. n : \E u \in Nat : \A j \in 1 .. k : f[j] <= u}
  <2>1. 0 \in P
    BY 0 \in Nat
  <2>2. ASSUME NEW k \in 0 .. n - 1, k \in P PROVE k + 1 \in P
    <3>1. PICK u \in Nat : \A j \in 1 .. k : f[j] <= u
      BY <2>2
    <3>2. PICK m \in 1 .. n : m = k + 1
      OBVIOUS
    <3>3. PICK y \in Nat : y = f[m]
      BY <1>2
    <3>4. PICK v \in Nat : v >= u /\ v >= y
      <4>1. u >= y \/ y >= u
        OBVIOUS
      <4>. QED  BY <4>1
    <3>5. ASSUME NEW j \in 1 .. m PROVE f[j] <= v
      <4>1. CASE j = m
        BY <3>3, <3>4, <4>1
      <4>2. CASE j # m
        <5>1. j \in 1 .. k /\ j \in 1 .. n
          BY <3>2, <4>2
        <5>2. f[j] <= u /\ f[j] \in Nat
          BY <1>2, <3>1, <5>1
        <5>. QED  BY <3>4, <5>2
      <4>. QED  BY <4>1, <4>2
    <3>6. m \in 0 .. n /\ \A j \in 1 .. m : f[j] <= v
      BY <3>5
    <3>. QED  BY <3>2, <3>6
  <2>3. n \in P
    <3>. HIDE DEF P
    <3>1. 0 .. n \subseteq P
      BY <2>1, <2>2, UpFromZero
    <3>. QED  BY <3>1
  <2>4. PICK u \in Nat : \A j \in 1 .. n : f[j] <= u
    BY <2>3
  <2>5. \A y \in S : y <= u
    BY <1>2, <2>4
  <2>. QED  BY <2>5
<1>4. PICK m : m = Min(Bounds)
  OBVIOUS
<1>5. m \in Bounds /\ \A u \in Bounds : m <= u
  <2>1. Bounds \in SUBSET Nat
    OBVIOUS
  <2>. HIDE DEF Bounds
  <2>. QED  BY <1>3, <1>4, <2>1, MinExists
<1>6. m \in S
  <2>. SUFFICES ASSUME m \notin S PROVE FALSE
    OBVIOUS
  <2>1. \A y \in S : y <= m /\ y # m /\ y \in Nat
    BY <1>5
  <2>2. PICK y \in S : TRUE
    OBVIOUS
  <2>3. PICK u \in Nat : u + 1 = m
    <3>1. m - 1 \in Nat /\ (m - 1) + 1 = m
      BY <1>5, <2>1, <2>2
    <3>. QED  BY <3>1
  <2>4. u \in Bounds /\ ~(m <= u)
    BY <1>5, <2>1, <2>3
  <2>. QED  BY <1>5, <2>4
<1>7. \A y \in S : m >= y
  BY <1>5
<1>8. PICK x : x = Max(S)
  OBVIOUS
<1>9. x \in S /\ \A y \in S : x >= y
  BY <1>6, <1>7, <1>8 DEF Max
<1>10. \A y \in S : y <= x
  BY <1>9
<1>. QED  BY <1>8, <1>9, <1>10

\* Where the pass of ext2_ls over the directories may be.
Found == [at : Inode \cup {Root, Missing, Astray}, found : BOOLEAN]

LEMMA AstrayIs == Astray \notin Inode \cup {Root, Missing}
BY InodeAssumption DEF Astray

LEMMA FoundIs ==
  ASSUME Basic, NEW d \in Directories, NEW n
  PROVE  /\ Find(entries[First(d)], n) \in Inode \cup {Root, Missing}
         /\ Lookup(d, n) \in Inode \cup {Root, Missing}
<1>1. IsDir(d) /\ d \in Inode \cup {Root}
  BY ViewIs DEF Basic, View, IsDir
<1>2. table[d].block \in Seq(Block \cup {RootBlock}) /\ table[d].block # <<>>
  BY <1>1, BlocksOf DEF Basic, Shape
<1>3. PICK R : R = entries[First(d)]
  OBVIOUS
<1>4. R \in Seq(Entry)
  BY <1>2, <1>3 DEF First, Basic, TypeOK
<1>5. Find(R, n) \in Inode \cup {Root, Missing}
  <2>1. CASE Find(R, n) = Missing
    BY <2>1
  <2>2. CASE Find(R, n) # Missing
    <3>1. PICK k \in 1 .. Len(R) : R[k].inode = Find(R, n)
      BY <1>4, <2>2, FindIs
    <3>2. R[k] \in Entry
      BY <1>4
    <3>. QED  BY <3>1, <3>2 DEF Entry
  <2>. QED  BY <2>1, <2>2
<1>6. Lookup(d, n) \in Inode \cup {Root, Missing}
  <2>1. CASE Lookup(d, n) = Missing
    BY <2>1
  <2>2. CASE Lookup(d, n) # Missing
    <3>1. PICK b \in OwnBlocks(d) : \E k \in 1 .. Len(entries[b]) : entries[b][k].inode = Lookup(d, n)
      BY <1>1, <2>2, LookupIs DEF Basic
    <3>2. b \in DOMAIN entries
      BY <1>1, <3>1, BlocksOf DEF Basic, TypeOK
    <3>3. HasRecord(Lookup(d, n))
      BY <3>1, <3>2 DEF HasRecord
    <3>. QED  BY <3>3, RecordIs DEF Basic
  <2>. QED  BY <2>1, <2>2
<1>. QED  BY <1>3, <1>5, <1>6

\* What the visit of a directory makes of it.
Visited(s, d, n, t) ==
  /\ d # s.at => t = s
  /\ d = s.at /\ Unwritten(d) => t = [at |-> Astray, found |-> TRUE]
  /\ d = s.at /\ ~Unwritten(d) /\ ~s.found =>
       t = [at |-> Lookup(d, n), found |-> Lookup(d, n) # Missing]
  /\ d = s.at /\ ~Unwritten(d) /\ s.found /\ Find(entries[First(d)], n) = Missing => t = s
  /\ d = s.at /\ ~Unwritten(d) /\ s.found /\ Find(entries[First(d)], n) # Missing =>
       t = [at |-> Find(entries[First(d)], n), found |-> TRUE]

LEMMA VisitIs ==
  ASSUME NEW s \in Found, NEW d, NEW n
  PROVE  Visited(s, d, n, LsVisit(s, d, n))
<1>. s.found \in BOOLEAN
  BY DEF Found
<1>1. PICK i : i = LsFind(s, d, n)
  OBVIOUS
<1>2. PICK q \in BOOLEAN : q = (i # Missing)
  OBVIOUS
<1>3. LsVisit(s, d, n) =
        IF d # s.at \/ (i = Missing /\ s.found) THEN s ELSE [at |-> i, found |-> i # Missing]
  BY <1>1 DEF LsVisit
<1>4. i = IF Unwritten(d) THEN Astray
          ELSE IF s.found THEN Find(entries[First(d)], n) ELSE Lookup(d, n)
  BY <1>1 DEF LsFind, First
<1>5. CASE d # s.at
  BY <1>3, <1>5 DEF Visited
<1>6. CASE d = s.at /\ Unwritten(d)
  <2>1. i = Astray /\ i # Missing /\ q = TRUE
    BY <1>4, <1>6, <1>2, AstrayIs
  <2>2. LsVisit(s, d, n) = [at |-> i, found |-> q]
    BY <1>3, <1>6, <1>2, <2>1, Zenon
  <2>. QED  BY <1>6, <2>1, <2>2 DEF Visited
<1>7. CASE d = s.at /\ ~Unwritten(d) /\ ~s.found
  BY <1>3, <1>4, <1>7 DEF Visited
<1>8. CASE d = s.at /\ ~Unwritten(d) /\ s.found
  BY <1>3, <1>4, <1>8 DEF Visited
<1>. QED  BY <1>5, <1>6, <1>7, <1>8

LEMMA VisitFinds ==
  ASSUME Basic, NEW s \in Found, NEW d \in Directories, NEW n
  PROVE  LsVisit(s, d, n) \in Found
<1>1. PICK t : t = LsVisit(s, d, n)
  OBVIOUS
<1>2. Visited(s, d, n, t)
  BY <1>1, VisitIs
<1>3. s.found \in BOOLEAN
  BY DEF Found
<1>4. PICK i, j \in Inode \cup {Root, Missing}, q \in BOOLEAN :
        i = Lookup(d, n) /\ j = Find(entries[First(d)], n) /\ q = (Lookup(d, n) # Missing)
  BY FoundIs, Zenon
<1>5. /\ [at |-> i, found |-> q] \in Found /\ [at |-> j, found |-> TRUE] \in Found
      /\ [at |-> Astray, found |-> TRUE] \in Found
  BY DEF Found
<1>6. \/ t = s \/ t = [at |-> i, found |-> q] \/ t = [at |-> j, found |-> TRUE]
      \/ t = [at |-> Astray, found |-> TRUE]
  BY <1>2, <1>3, <1>4, Zenon DEF Visited
<1>. QED  BY <1>1, <1>5, <1>6

\* The pass starts with nothing found.
LEMMA PassStart ==
  ASSUME NEW at, at # Astray
  PROVE  /\ LsStart(at) = [at |-> at, found |-> FALSE]
         /\ LsStart(at).at = at /\ ~LsStart(at).found
<1>1. PICK q \in BOOLEAN : q = (at = Astray)
  OBVIOUS
<1>2. LsStart(at) = [at |-> at, found |-> q]
  BY <1>1 DEF LsStart
<1>3. q = FALSE
  BY <1>1
<1>4. LsStart(at) = [at |-> at, found |-> FALSE]
  BY <1>2, <1>3, Zenon
<1>. QED  BY <1>4

\* The pass over the directories with the numbers up to last.
Passed(at, n, last, f) ==
  f = [i \in 0 .. last |->
         IF i = 0 THEN LsStart(at)
         ELSE IF i \in Directories THEN LsVisit(f[i - 1], i, n) ELSE f[i - 1]]

LEMMA PassExists ==
  ASSUME Basic, NEW at \in Inode \cup {Root}, NEW n, NEW last \in Nat
  PROVE  \E f : f \in [0 .. last -> Found] /\ Passed(at, n, last, f)
<1>0. at # Astray
  BY AstrayIs
<1>1. PICK g : g = [a \in Found \X Nat |->
                      IF a[2] \in Directories THEN LsVisit(a[1], a[2], n) ELSE a[1]]
  OBVIOUS
<1>2. ASSUME NEW s \in Found, NEW i \in Nat
      PROVE  /\ g[<<s, i>>] = IF i \in Directories THEN LsVisit(s, i, n) ELSE s
             /\ g[<<s, i>>] \in Found
  <2>1. g[<<s, i>>] = IF i \in Directories THEN LsVisit(s, i, n) ELSE s
    BY <1>1
  <2>. QED  BY <2>1, VisitFinds
<1>3. g \in [Found \X Nat -> Found]
  <2>1. ASSUME NEW a \in Found \X Nat PROVE g[a] \in Found
    <3>1. PICK s \in Found, i \in Nat : a = <<s, i>>
      OBVIOUS
    <3>. QED  BY <1>2, <3>1
  <2>. QED  BY <1>1, <2>1
<1>4. LsStart(at) \in Found
  <2>1. [at |-> at, found |-> FALSE] \in Found
    BY DEF Found
  <2>. QED  BY <1>0, <2>1, PassStart
<1>5. PICK f : /\ f \in [0 .. last -> Found] /\ f[0] = LsStart(at)
               /\ \A i \in 1 .. last : f[i] = g[<<f[i - 1], i>>]
  <2>1. \E f : Iterates(Found, LsStart(at), g, last, f)
    BY <1>3, <1>4, IterationExists
  <2>. QED  BY <2>1 DEF Iterates
<1>6. ASSUME NEW i \in 0 .. last
      PROVE  f[i] = IF i = 0 THEN LsStart(at)
                    ELSE IF i \in Directories THEN LsVisit(f[i - 1], i, n) ELSE f[i - 1]
  <2>1. CASE i = 0
    BY <1>5, <2>1
  <2>2. CASE i # 0
    <3>1. i \in 1 .. last /\ i - 1 \in 0 .. last /\ i \in Nat
      BY <2>2
    <3>2. f[i - 1] \in Found
      BY <1>5, <3>1
    <3>3. f[i] = IF i \in Directories THEN LsVisit(f[i - 1], i, n) ELSE f[i - 1]
      BY <1>2, <1>5, <3>1, <3>2
    <3>. QED  BY <2>2, <3>3
  <2>. QED  BY <2>1, <2>2
<1>. QED  BY <1>5, <1>6 DEF Passed

LEMMA PassUnique ==
  ASSUME NEW at, NEW n, NEW last \in Nat, NEW f, NEW g,
         Passed(at, n, last, f), Passed(at, n, last, g)
  PROVE  f[last] = g[last]
<1>1. \A i \in 0 .. last :
        f[i] = IF i = 0 THEN LsStart(at)
               ELSE IF i \in Directories THEN LsVisit(f[i - 1], i, n) ELSE f[i - 1]
  BY Zenon DEF Passed
<1>2. \A i \in 0 .. last :
        g[i] = IF i = 0 THEN LsStart(at)
               ELSE IF i \in Directories THEN LsVisit(g[i - 1], i, n) ELSE g[i - 1]
  BY Zenon DEF Passed
<1>3. f[0] = g[0]
  BY <1>1, <1>2
<1>4. ASSUME NEW i \in 1 .. last, f[i - 1] = g[i - 1] PROVE f[i] = g[i]
  <2>1. i \in 0 .. last /\ i # 0
    OBVIOUS
  <2>. QED  BY <1>1, <1>2, <1>4, <2>1
<1>5. SameSteps(last, f, g)
  BY <1>3, <1>4 DEF SameSteps
<1>6. last \in 0 .. last
  OBVIOUS
<1>. QED  BY <1>5, <1>6, IterationUnique

\* The last number of the pass.
LEMMA LastIs ==
  ASSUME Basic, NEW last, last = Max(Directories)
  PROVE  last \in Nat /\ \A d \in Directories : d <= last /\ d \in Nat
<1>1. IsFiniteSet(Inode \cup {Root}) /\ Inode \cup {Root} \in SUBSET Nat
  BY FS_AddElement, InodeAssumption
<1>2. Directories \subseteq Inode \cup {Root} /\ Root \in Directories
  BY DEF Directories, Listed
<1>3. IsFiniteSet(Directories) /\ Directories \in SUBSET Nat /\ Directories # {}
  BY <1>1, <1>2, FS_Subset
<1>. QED  BY <1>3, MaxExists

\* What the pass comes to.
LEMMA PassIs ==
  ASSUME Basic, NEW at, NEW n, NEW last, last = Max(Directories), NEW f, Passed(at, n, last, f)
  PROVE  LsPass(at, n) = f[last]
<1>1. PICK h : h = CHOOSE g : Passed(at, n, Max(Directories), g)
  OBVIOUS
<1>2. LsPass(at, n) = h[Max(Directories)]
  BY <1>1, Zenon DEF LsPass, Passed
<1>3. Passed(at, n, last, h)
  BY <1>1
<1>4. last \in Nat
  BY LastIs
<1>. QED  BY <1>2, <1>3, <1>4, PassUnique

\* From an inode that is no directory it comes nowhere.
LEMMA NoComponent ==
  ASSUME Basic, NEW at, at \notin Directories, at # Astray, NEW n
  PROVE  LsComponent(at, n) = Missing
<1>1. PICK last : last = Max(Directories)
  OBVIOUS
<1>2. last \in Nat
  BY <1>1, LastIs
<1>3. PICK f : f = [i \in 0 .. last |-> LsStart(at)]
  OBVIOUS
<1>4. ASSUME NEW i \in 0 .. last
      PROVE  f[i] = IF i = 0 THEN LsStart(at)
                    ELSE IF i \in Directories THEN LsVisit(f[i - 1], i, n) ELSE f[i - 1]
  <2>1. f[i] = LsStart(at) /\ (i # 0 => f[i - 1] = LsStart(at))
    <3>1. i # 0 => i - 1 \in 0 .. last
      BY <1>2
    <3>. QED  BY <1>3, <3>1
  <2>2. i \in Directories => LsVisit(LsStart(at), i, n) = LsStart(at)
    <3>1. i \in Directories => i # LsStart(at).at
      BY DEF LsStart
    <3>. QED  BY <3>1 DEF LsVisit
  <2>. QED  BY <2>1, <2>2
<1>5. Passed(at, n, last, f)
  BY <1>3, <1>4 DEF Passed
<1>6. last \in 0 .. last
  BY <1>2
<1>7. LsPass(at, n) = LsStart(at)
  BY <1>1, <1>3, <1>5, <1>6, PassIs
<1>. QED  BY <1>7, PassStart DEF LsComponent

\* The name is met again where it led.
GoesOn(at, n, k) ==
  LET i == Lookup(at, n)
  IN  i \in Directories /\ at < i /\ i <= k /\ Find(entries[First(i)], n) # Missing

\* The directory, or one that the name leads to somewhere, has no records.
Lost(at, n) ==
  \E d \in Directories :
    Unwritten(d) /\ (d = at \/ \E e \in Directories : Lookup(e, n) = d)

\* What the pass has come to after the directories with the numbers up to k.
\* Where it has gone on, to a name in a directory of a larger number; where
\* it has gone astray, in a directory without records.
Reached(at, n, k, s) ==
  /\ k < at => s = LsStart(at)
  /\ s.at = Astray => s.found /\ Lost(at, n)
  /\ k >= at /\ s.at # Astray /\ ~GoesOn(at, n, k) =>
       s.at = Lookup(at, n) /\ (s.found <=> Lookup(at, n) # Missing)
  /\ k >= at /\ s.at # Astray /\ GoesOn(at, n, k) =>
       /\ s.found
       /\ \E d \in Directories : d > at /\ Find(entries[First(d)], n) # Missing
                                 /\ s.at = Find(entries[First(d)], n)

LEMMA ReachedFirst ==
  ASSUME Basic, NEW at \in Directories, NEW n
  PROVE  Reached(at, n, 0, LsStart(at))
<1>1. at \in Inode \cup {Root}
  BY DEF Directories
<1>2. at > 0
  BY <1>1, InodeAssumption
<1>3. ~(0 >= at)
  BY <1>1, <1>2, InodeAssumption
<1>4. LsStart(at).at # Astray
  <2>1. at # Astray
    BY <1>1, AstrayIs
  <2>. QED  BY <2>1, PassStart
<1>. QED  BY <1>3, <1>4 DEF Reached

\* A name that the first block of a directory has is looked up there.
LEMMA FirstFound ==
  ASSUME Basic, NEW d \in Directories, NEW n, Find(entries[First(d)], n) # Missing
  PROVE  Lookup(d, n) = Find(entries[First(d)], n)
<1>1. IsDir(d) /\ d \in Inode \cup {Root}
  BY ViewIs DEF Basic, View, IsDir
<1>2. table[d].block \in Seq(Block \cup {RootBlock}) /\ table[d].block # <<>>
  BY <1>1, BlocksOf DEF Basic, Shape
<1>3. entries[First(d)] \in Seq(Entry)
  BY <1>2 DEF First, Basic, TypeOK
<1>4. PICK k \in 1 .. Len(entries[First(d)]) : entries[First(d)][k].name = n
  BY <1>3, FindIs
<1>. QED  BY <1>1, <1>2, <1>4, FirstLookup DEF Basic

LEMMA ReachedNext ==
  ASSUME Basic, \A d \in Directories : d \in Nat, NEW at \in Directories, NEW n,
         NEW k \in Nat, NEW s \in Found, Reached(at, n, k, s),
         NEW m \in Nat, m = k + 1, NEW t,
         t = IF m \in Directories THEN LsVisit(s, m, n) ELSE s
  PROVE  Reached(at, n, m, t)
<1>0. PICK i : i = Lookup(at, n)
  OBVIOUS
<1>1. i \in Inode \cup {Root, Missing} /\ i \in Nat /\ at \in Nat
  <2>1. i \in Inode \cup {Root, Missing}
    BY <1>0, FoundIs
  <2>. QED  BY <2>1, InodeAssumption
<1>2. \A j : GoesOn(at, n, j) <=>
        i \in Directories /\ at < i /\ i <= j /\ Find(entries[First(i)], n) # Missing
  BY <1>0 DEF GoesOn
<1>3. m # 0 /\ k < m
  OBVIOUS
<1>4. /\ s.found \in BOOLEAN /\ s.at \in Inode \cup {Root, Missing, Astray}
      /\ at # Astray /\ LsStart(at) = [at |-> at, found |-> FALSE]
  <2>1. at # Astray
    BY AstrayIs DEF Directories
  <2>. QED  BY <2>1, PassStart DEF Found
<1>5. CASE m \notin Directories
  <2>1. t = s /\ m # at
    BY <1>5
  <2>2. (k < at <=> m < at) /\ (k >= at <=> m >= at)
    BY <1>1, <2>1
  <2>3. GoesOn(at, n, k) <=> GoesOn(at, n, m)
    <3>1. i \in Directories => i # m
      BY <1>5
    <3>2. i # m => (i <= k <=> i <= m)
      BY <1>1
    <3>. QED  BY <1>2, <3>1, <3>2
  <2>. QED  BY <2>1, <2>2, <2>3 DEF Reached
<1>6. CASE m \in Directories /\ s.at = Astray
  <2>0. m # s.at
    BY <1>6, AstrayIs DEF Directories
  <2>1. t = s
    BY <1>6, <2>0, VisitIs DEF Visited
  <2>2. k >= at
    BY <1>1, <1>4, <1>6 DEF Reached
  <2>3. ~(m < at)
    BY <1>1, <2>2
  <2>. QED  BY <1>6, <2>1, <2>3 DEF Reached
<1>7. CASE m \in Directories /\ s.at = m /\ Unwritten(m)
  <2>0. m # Astray
    BY <1>7, AstrayIs DEF Directories
  <2>1. t = [at |-> Astray, found |-> TRUE]
    BY <1>7, VisitIs DEF Visited
  <2>2. ~(m < at) /\ (k < at => m = at)
    <3>1. k < at => m = at
      BY <1>4, <1>7 DEF Reached
    <3>. QED  BY <1>1, <3>1
  <2>3. Lost(at, n)
    <3>1. CASE k < at
      BY <1>7, <2>2, <3>1 DEF Lost
    <3>2. CASE k >= at /\ ~GoesOn(at, n, k)
      <4>1. Lookup(at, n) = m
        BY <1>7, <2>0, <3>2 DEF Reached
      <4>. QED  BY <1>7, <4>1 DEF Lost
    <3>3. CASE k >= at /\ GoesOn(at, n, k)
      <4>1. PICK d \in Directories : Find(entries[First(d)], n) # Missing
                                     /\ s.at = Find(entries[First(d)], n)
        BY <1>7, <2>0, <3>3 DEF Reached
      <4>2. Lookup(d, n) = m
        BY <1>7, <4>1, FirstFound
      <4>. QED  BY <1>7, <4>2 DEF Lost
    <3>4. k < at \/ k >= at
      BY <1>1
    <3>. QED  BY <3>1, <3>2, <3>3, <3>4
  <2>4. t.at = Astray /\ t.found
    BY <2>1
  <2>. QED  BY <2>2, <2>3, <2>4 DEF Reached
<1>8. CASE m \in Directories /\ s.at # Astray /\ ~(s.at = m /\ Unwritten(m))
  <2>1. Visited(s, m, n, t)
    BY <1>8, VisitIs
  <2>0. t.at # Astray
    <3>1. PICK j : j = Find(entries[First(m)], n) /\ j \in Inode \cup {Root, Missing}
      BY <1>8, FoundIs
    <3>2. PICK l : l = Lookup(m, n) /\ l \in Inode \cup {Root, Missing}
      BY <1>8, FoundIs
    <3>3. \/ t = s \/ t = [at |-> l, found |-> l # Missing]
          \/ t = [at |-> j, found |-> TRUE]
      BY <1>4, <1>8, <2>1, <3>1, <3>2 DEF Visited
    <3>4. j # Astray /\ l # Astray
      BY <3>1, <3>2, AstrayIs
    <3>. QED  BY <1>8, <3>3, <3>4
  <2>2. CASE m < at
    <3>1. k < at /\ m # at /\ ~(m >= at)
      BY <1>1, <2>2
    <3>2. s = LsStart(at) /\ s.at = at
      BY <1>4, <3>1, <1>8, <2>0 DEF Reached
    <3>. QED  BY <2>1, <3>1, <3>2, <1>8, <2>0 DEF Reached, Visited
  <2>3. CASE m = at
    <3>1. k < at /\ ~(m < at)
      BY <1>1, <2>3
    <3>2. s = LsStart(at) /\ s.at = at /\ ~s.found
      BY <1>4, <3>1, <1>8, <2>0 DEF Reached
    <3>3. PICK q \in BOOLEAN : q = (i # Missing)
      OBVIOUS
    <3>4. t = [at |-> i, found |-> q]
      BY <1>0, <2>1, <2>3, <3>2, <3>3, Zenon, <1>8 DEF Visited
    <3>5. ~GoesOn(at, n, m)
      BY <1>1, <1>2, <2>3
    <3>6. t.at = i /\ (t.found <=> i # Missing)
      <4>1. t.at = i /\ t.found = q
        BY <3>4
      <4>. QED  BY <3>3, <4>1, Zenon
    <3>. QED  BY <1>0, <3>1, <3>5, <3>6, <1>8, <2>0 DEF Reached
  <2>4. CASE m > at /\ ~GoesOn(at, n, k)
    <3>1. k >= at /\ ~(m < at)
      BY <1>1, <2>4
    <3>2. s.at = i /\ (s.found <=> i # Missing)
      BY <1>0, <2>4, <3>1, <1>8, <2>0 DEF Reached
    <3>3. CASE m # i
      <4>1. t = s
        BY <2>1, <3>2, <3>3, <1>8 DEF Visited
      <4>2. ~GoesOn(at, n, m)
        <5>1. i <= m => i <= k
          BY <1>1, <3>3
        <5>. QED  BY <1>2, <2>4, <5>1
      <4>. QED  BY <1>0, <3>1, <3>2, <4>1, <4>2, <1>8, <2>0 DEF Reached
    <3>4. CASE m = i
      <4>1. s.found
        BY <1>3, <3>2, <3>4
      <4>2. CASE Find(entries[First(m)], n) = Missing
        <5>1. t = s
          BY <2>1, <3>2, <3>4, <4>1, <4>2, <1>8 DEF Visited
        <5>2. ~GoesOn(at, n, m)
          BY <1>2, <3>4, <4>2
        <5>. QED  BY <1>0, <3>1, <3>2, <5>1, <5>2, <1>8, <2>0 DEF Reached
      <4>3. CASE Find(entries[First(m)], n) # Missing
        <5>1. t = [at |-> Find(entries[First(m)], n), found |-> TRUE]
          BY <2>1, <3>2, <3>4, <4>1, <4>3, <1>8 DEF Visited
        <5>2. GoesOn(at, n, m)
          BY <1>1, <1>2, <1>8, <2>4, <3>4, <4>3
        <5>3. t.found /\ t.at = Find(entries[First(m)], n)
          BY <5>1
        <5>. QED  BY <1>8, <2>4, <3>1, <4>3, <5>2, <5>3, <2>0 DEF Reached
      <4>. QED  BY <4>2, <4>3
    <3>. QED  BY <3>3, <3>4
  <2>5. CASE m > at /\ GoesOn(at, n, k)
    <3>1. k >= at /\ ~(m < at)
      BY <1>1, <2>5
    <3>2. GoesOn(at, n, m)
      <4>1. i <= k => i <= m
        BY <1>1, <1>3
      <4>. QED  BY <1>2, <2>5, <4>1
    <3>3. s.found /\ \E d \in Directories :
            d > at /\ Find(entries[First(d)], n) # Missing /\ s.at = Find(entries[First(d)], n)
      BY <2>5, <3>1, <1>8, <2>0 DEF Reached
    <3>4. t = s \/ (/\ t = [at |-> Find(entries[First(m)], n), found |-> TRUE]
                    /\ Find(entries[First(m)], n) # Missing)
      BY <2>1, <3>3, <1>8 DEF Visited
    <3>5. t.found /\ \E d \in Directories :
            d > at /\ Find(entries[First(d)], n) # Missing /\ t.at = Find(entries[First(d)], n)
      <4>1. CASE t = s
        BY <3>3, <4>1
      <4>2. CASE t = [at |-> Find(entries[First(m)], n), found |-> TRUE]
                 /\ Find(entries[First(m)], n) # Missing
        <5>1. t.found /\ t.at = Find(entries[First(m)], n)
          BY <4>2
        <5>. QED  BY <1>8, <2>5, <4>2, <5>1
      <4>. QED  BY <3>4, <4>1, <4>2
    <3>. QED  BY <3>1, <3>2, <3>5, <1>8, <2>0 DEF Reached
  <2>6. m < at \/ m = at \/ m > at
    BY <1>1
  <2>. QED  BY <2>2, <2>3, <2>4, <2>5, <2>6
<1>. QED  BY <1>5, <1>8, <1>6, <1>7

LEMMA ReachedLast ==
  ASSUME Basic, NEW at \in Directories, NEW n
  PROVE  \E last \in Nat : /\ \A d \in Directories : d <= last /\ d \in Nat
                           /\ LsPass(at, n) \in Found
                           /\ Reached(at, n, last, LsPass(at, n))
<1>0. at \in Inode \cup {Root}
  BY DEF Directories
<1>1. PICK last : last = Max(Directories)
  OBVIOUS
<1>2. last \in Nat /\ \A d \in Directories : d <= last /\ d \in Nat
  BY <1>1, LastIs
<1>3. PICK f : f \in [0 .. last -> Found] /\ Passed(at, n, last, f)
  BY <1>0, <1>2, PassExists
<1>4. \A i \in 0 .. last :
        f[i] = IF i = 0 THEN LsStart(at)
               ELSE IF i \in Directories THEN LsVisit(f[i - 1], i, n) ELSE f[i - 1]
  BY <1>3, Zenon DEF Passed
<1>. DEFINE P == {k \in 0 .. last : Reached(at, n, k, f[k])}
<1>5. 0 \in P
  <2>1. 0 \in 0 .. last
    BY <1>2
  <2>2. f[0] = LsStart(at)
    BY <1>4, <2>1
  <2>. QED  BY <2>1, <2>2, ReachedFirst
<1>6. ASSUME NEW k \in 0 .. last - 1, k \in P PROVE k + 1 \in P
  <2>1. PICK m \in Nat : m = k + 1 /\ m \in 0 .. last /\ m # 0 /\ m - 1 = k
    BY <1>2
  <2>2. k \in Nat /\ k \in 0 .. last
    BY <1>2
  <2>3. PICK s \in Found : s = f[k]
    BY <1>3, <2>2
  <2>4. PICK t : t = f[m]
    OBVIOUS
  <2>5. t = IF m \in Directories THEN LsVisit(s, m, n) ELSE s
    BY <1>4, <2>1, <2>3, <2>4
  <2>6. Reached(at, n, k, s)
    BY <1>6, <2>3
  <2>7. \A d \in Directories : d \in Nat
    BY <1>2
  <2>8. Reached(at, n, m, t)
    BY <2>1, <2>2, <2>5, <2>6, <2>7, ReachedNext
  <2>. QED  BY <2>1, <2>4, <2>8
<1>7. last \in P
  <2>. HIDE DEF P
  <2>1. 0 .. last \subseteq P
    BY <1>2, <1>5, <1>6, UpFromZero
  <2>. QED  BY <1>2, <2>1
<1>8. Reached(at, n, last, f[last]) /\ f[last] \in Found
  BY <1>2, <1>3, <1>7
<1>. QED  BY <1>1, <1>2, <1>3, <1>8, PassIs

\* A directory that was named and not made has no records.
UnmadeEmpty ==
  Sound => \A i \in unmade : IsDir(i) => \A b \in OwnBlocks(i) : entries[b] = <<>>

LEMMA UnmadeEmptyNext == Inv /\ UnmadeEmpty /\ [Next]_vars => UnmadeEmpty'
<1>. SUFFICES ASSUME Inv, UnmadeEmpty, [Next]_vars, Sound', NEW i \in unmade', IsDir(i)'
     PROVE  \A b \in OwnBlocks(i)' : entries'[b] = <<>>
  BY DEF UnmadeEmpty
<1>1. CASE Kill
  <2>1. /\ unmade = {} /\ HalfMade /\ i = tool.inode
        /\ table' = table /\ entries' = entries /\ image' = image
    BY <1>1 DEF Kill, disk, Inv, Basic, ToolOK, Running
  <2>2. Sound /\ IsDir(i) /\ OwnBlocks(i)' = OwnBlocks(i)
    BY <2>1 DEF Sound, IsDir, OwnBlocks
  <2>3. Stage("mkdir", {3, 4})
    BY <2>1, HalfMadeIs DEF Inv, Basic
  <2>4. Stage("mkdir", {4})
    <3>1. ~Stage("mkdir", {3})
      BY <2>1, <2>2 DEF Inv, Basic, ToolOK, TakesInode, Stage
    <3>. QED  BY <2>3, <3>1 DEF Stage
  <2>. QED  BY <2>1, <2>2, <2>4 DEF Inv, Owned
<1>2. CASE Rest \/ UNCHANGED vars
  <2>1. /\ unmade' = unmade /\ table' = table /\ entries' = entries /\ image' = image
    BY <1>2 DEF Rest, vars, disk
  <2>2. Sound /\ IsDir(i) /\ OwnBlocks(i)' = OwnBlocks(i) /\ i \in unmade
    BY <2>1 DEF Sound, IsDir, OwnBlocks
  <2>. QED  BY <2>1, <2>2 DEF UnmadeEmpty
<1>3. CASE ~Kill /\ ~(Rest \/ UNCHANGED vars)
  <2>1. tool.cmd # "none" => unmade = {}
    BY DEF Inv, Basic, ToolOK, Running
  <2>2. unmade' = unmade
    BY <1>3 DEF Next, Mkdir, Rm, Cp, Ln, Start, Advance, Undefined, NewInode, AllocateFileBlock,
                BlocksAllocated, WriteFileInode, WriteDirInode, WriteDots, CountDir, AddEntry,
                GrowDirectory, CountLink, Unlink, FreeInode, FreeBlocks, FreeCounts,
                LnWritesAstray, RmWritesAstray, InodeOverrun, NothingFree
  <2>3. unmade = {}
    <3>1. InodeOverrun => tool.cmd # "none"
      BY SizesAssumption DEF InodeOverrun, PointersWanted, At
    <3>. QED  BY <1>3, <2>1, <3>1 DEF Next, Ready, At, NewInode, AllocateFileBlock,
                BlocksAllocated, WriteFileInode, WriteDirInode, WriteDots, CountDir, AddEntry,
                GrowDirectory, CountLink, Unlink, FreeInode, FreeBlocks, FreeCounts,
                LnWritesAstray, RmWritesAstray, NothingFree
  <2>. QED  BY <2>2, <2>3
<1>. QED  BY <1>1, <1>2, <1>3

\* What has a record in its first block is made.
LEMMA MadeIfHolds ==
  ASSUME Inv, UnmadeEmpty, Sound, NEW i, IsDir(i), NEW n, Find(entries[First(i)], n) # Missing
  PROVE  ~Making(i)
<1>1. i \in Inode \cup {Root} /\ table[i].block # <<>>
  BY DEF IsDir, Inv, Basic, Shape
<1>2. table[i].block \in Seq(Block \cup {RootBlock})
  BY <1>1, BlocksOf DEF Inv, Basic
<1>3. 1 \in 1 .. Len(table[i].block) /\ First(i) = table[i].block[1]
  BY <1>1, <1>2 DEF First
<1>4. First(i) \in OwnBlocks(i)
  BY <1>1, <1>3, BlocksOf DEF Inv, Basic
<1>5. PICK R : R = entries[First(i)]
  OBVIOUS
<1>6. R \in Seq(Entry)
  BY <1>2, <1>3, <1>5 DEF Inv, Basic, TypeOK
<1>7. R # <<>>
  <2>1. PICK k \in 1 .. Len(R) : R[k].name = n
    BY <1>5, <1>6, FindIs
  <2>. QED  BY <2>1
<1>8. i \notin unmade
  BY <1>4, <1>5, <1>7 DEF UnmadeEmpty
<1>9. ~(Stage("mkdir", {3, 4}) /\ i = tool.inode)
  <2>1. ~(Stage("mkdir", {3}) /\ i = tool.inode)
    BY DEF Inv, Basic, ToolOK, TakesInode, Stage
  <2>2. ~(Stage("mkdir", {4}) /\ i = tool.inode)
    BY <1>4, <1>5, <1>7 DEF Inv, Owned
  <2>. QED  BY <2>1, <2>2 DEF Stage
<1>. QED  BY <1>8, <1>9 DEF Making

\* The directory a name leads to has no other name elsewhere.
LEMMA NotNamedTwice ==
  ASSUME Inv, Tree, Sound, NEW i, IsDir(i), i # Root, ~Making(i), NEW n \in Name,
         NEW d, IsDir(d), NEW e, IsDir(e), d # e, Lookup(d, n) = i
  PROVE  Find(entries[First(e)], n) # i
<1>. SUFFICES ASSUME Find(entries[First(e)], n) = i PROVE FALSE
  OBVIOUS
<1>1. i # Missing /\ d \in Inode \cup {Root} /\ e \in Inode \cup {Root}
  BY InodeAssumption DEF IsDir
<1>2. PICK b \in OwnBlocks(d) : \E k \in 1 .. Len(entries[b]) :
        entries[b][k].name = n /\ entries[b][k].inode = i
  BY <1>1, LookupIs DEF Inv, Basic
<1>3. PICK k \in 1 .. Len(entries[b]) : entries[b][k].name = n /\ entries[b][k].inode = i
  BY <1>2
<1>4. <<d, b, k>> \in NamesOf(i)
  BY <1>2, <1>3, NamesOfIs DEF Inv
<1>5. /\ table[e].block \in Seq(Block \cup {RootBlock}) /\ table[e].block # <<>>
  BY <1>1, BlocksOf DEF Inv, Basic, Shape
<1>6. 1 \in 1 .. Len(table[e].block) /\ First(e) = table[e].block[1]
  BY <1>5 DEF First
<1>7. PICK c, R : c = First(e) /\ R = entries[c]
  OBVIOUS
<1>8. c \in OwnBlocks(e) /\ R \in Seq(Entry)
  BY <1>1, <1>5, <1>6, <1>7, BlocksOf DEF Inv, Basic, TypeOK
<1>9. PICK l \in 1 .. Len(R) : R[l].name = n /\ R[l].inode = i
  BY <1>1, <1>7, <1>8, FindIs
<1>10. <<e, c, l>> \in NamesOf(i)
  BY <1>7, <1>8, <1>9, NamesOfIs DEF Inv
<1>11. PICK p : IsDir(p) /\ OneName(i, p)
  BY DEF Tree
<1>12. \A nm \in NamesOf(i) : nm[1] = p
  BY <1>11, OneNameIs
<1>. QED  BY <1>4, <1>10, <1>12

\* A directory without records is being made, or was.
LEMMA UnwrittenIsUnfinished ==
  ASSUME Inv, Tree, Sound, NEW d \in Directories, Unwritten(d)
  PROVE  d \in Unfinished
<1>1. IsDir(d) /\ entries[First(d)] = <<>>
  BY ViewIs DEF Inv, Basic, View, Unwritten, First
<1>2. Making(d)
  <2>. SUFFICES ASSUME ~Making(d) PROVE FALSE
    OBVIOUS
  <2>1. PICK p : Dotted(First(d), p)
    BY <1>1 DEF Tree
  <2>2. Len(entries[First(d)]) >= 2
    BY <2>1 DEF Dotted
  <2>. QED  BY <1>1, <2>2
<1>. QED  BY <1>2, HalfMadeIs DEF Making, Unfinished, Inv, Basic

\* ext2_ls finds what the other tools find, except where the directory found
\* comes later in its pass and holds the name it was found by; it finds
\* nothing but what the name leads to somewhere; and it goes astray only where
\* a directory has no records.
LEMMA ComponentFinds ==
  ASSUME Inv, Tree, UnmadeEmpty, Sound, NEW at \in Directories, NEW n \in Name
  PROVE  /\ LsComponent(at, n) = Astray => Lost(at, n)
         /\ LsComponent(at, n) # Astray =>
              (LsComponent(at, n) = Lookup(at, n) <=>
                 ~(/\ Lookup(at, n) \in Directories /\ Lookup(at, n) > at
                   /\ Find(entries[First(Lookup(at, n))], n) # Missing))
         /\ LsComponent(at, n) \notin {Missing, Astray} =>
              \E d \in Directories : Lookup(d, n) = LsComponent(at, n)
<1>1. PICK i, s : i = Lookup(at, n) /\ s = LsPass(at, n)
  OBVIOUS
<1>2. PICK last \in Nat : /\ \A d \in Directories : d <= last /\ d \in Nat
                          /\ s \in Found /\ Reached(at, n, last, s)
  BY <1>1, ReachedLast DEF Inv
<1>3. LsComponent(at, n) = IF s.found THEN s.at ELSE Missing
  BY <1>1, Zenon DEF LsComponent
<1>4. \A d : d \in Directories <=> IsDir(d)
  BY ViewIs DEF Inv, Basic, View
<1>5. last >= at /\ at \in Nat /\ at >= Root
  BY <1>2, InodeAssumption DEF Directories
<1>6. GoesOn(at, n, last) <=>
        i \in Directories /\ i > at /\ Find(entries[First(i)], n) # Missing
  <2>1. i \in Directories => (at < i <=> i > at) /\ i <= last
    BY <1>2, <1>5
  <2>. QED  BY <1>1, <2>1 DEF GoesOn
<1>7. CASE s.at = Astray
  <2>1. s.found /\ Lost(at, n)
    BY <1>2, <1>7 DEF Reached
  <2>. QED  BY <1>3, <1>7, <2>1
<1>8. CASE s.at # Astray /\ ~GoesOn(at, n, last)
  <2>1. s.at = i /\ (s.found <=> i # Missing)
    BY <1>1, <1>2, <1>5, <1>8 DEF Reached
  <2>2. LsComponent(at, n) = i /\ i # Astray
    BY <1>3, <1>8, <2>1
  <2>. QED  BY <1>1, <1>6, <1>8, <2>2
<1>9. CASE s.at # Astray /\ GoesOn(at, n, last)
  <2>1. i \in Directories /\ i > at /\ Find(entries[First(i)], n) # Missing
    BY <1>6, <1>9
  <2>2. IsDir(i) /\ i # Root /\ i # Missing /\ i \in Nat
    BY <1>2, <1>4, <1>5, <2>1
  <2>3. ~Making(i)
    BY <2>1, <2>2, MadeIfHolds
  <2>4. s.found
    BY <1>2, <1>5, <1>9 DEF Reached
  <2>5. PICK d \in Directories : /\ d > at /\ s.at = Find(entries[First(d)], n)
                                /\ Find(entries[First(d)], n) # Missing
    BY <1>2, <1>5, <1>9 DEF Reached
  <2>6. d # at /\ IsDir(d) /\ IsDir(at)
    BY <1>2, <1>4, <1>5, <2>5
  <2>7. Find(entries[First(d)], n) # i
    BY <1>1, <2>2, <2>3, <2>6, NotNamedTwice
  <2>8. LsComponent(at, n) # i
    BY <1>3, <2>4, <2>5, <2>7
  <2>9. LsComponent(at, n) = s.at /\ Lookup(d, n) = s.at
    BY <1>3, <2>4, <2>5, FirstFound DEF Inv
  <2>. QED  BY <1>1, <1>9, <2>1, <2>8, <2>9
<1>. QED  BY <1>8, <1>9, <1>7

\* ext2_ls lists what its path leads to but for a directory with a larger
\* number than its parent's that holds the name it has itself, and then it
\* never does: no directory has a second name to which the pass could go back.
\* It goes astray in no directory but one that is being made, or was when
\* ext2_mkdir was killed: that one holds the name, or the name leads to it.
THEOREM LsListsItsPath == Spec => []LsResolves
<1>1. Inv /\ Tree /\ UnmadeEmpty => LsResolves
  <2>. SUFFICES ASSUME Inv, Tree, UnmadeEmpty, Sound, NEW path \in Path \ {<<>>},
                       LsParent(path) # Astray, LsParent(path) = Parent(path)
       PROVE  IF LsResolve(path) = Astray THEN NamesUnfinished(path)
              ELSE LsResolve(path) = Resolve(path) <=> ~Nested(path)
    BY DEF LsResolves
  <2>1. PICK at, n, c : at = Parent(path) /\ n = Last(path) /\ c = LsComponent(at, n)
    OBVIOUS
  <2>2. n \in Name /\ path # <<>>
    <3>1. PICK k \in 0 .. 2 : path \in [1 .. k -> Name]
      BY DEF Path
    <3>2. Len(path) = k /\ k # 0 /\ path \in Seq(Name)
      BY <3>1
    <3>. QED  BY <2>1, <3>1, <3>2 DEF Last
  <2>3. LsResolve(path) = LsList(c) /\ Resolve(path) = Enter(at, n)
    BY <2>1, <2>2 DEF LsResolve, Resolve
  <2>4. Astray \notin Directories /\ Missing \notin Directories /\ Astray # Missing
    BY AstrayIs, InodeAssumption DEF Directories
  <2>5. CASE at \in Directories /\ c = Astray
    <3>1. Lost(at, n)
      BY <2>1, <2>2, <2>5, ComponentFinds
    <3>2. NamesUnfinished(path)
      BY <2>1, <3>1, UnwrittenIsUnfinished DEF Lost, NamesUnfinished
    <3>3. LsResolve(path) = Astray
      BY <2>3, <2>4, <2>5 DEF LsList
    <3>. QED  BY <3>2, <3>3
  <2>6. CASE at \in Directories /\ c \in Directories /\ Unwritten(c)
    <3>1. c \in Unfinished
      BY <2>6, UnwrittenIsUnfinished
    <3>2. \E d \in Directories : Lookup(d, n) = c
      BY <2>1, <2>2, <2>4, <2>6, ComponentFinds
    <3>3. LsResolve(path) = Astray
      BY <2>3, <2>6 DEF LsList
    <3>. QED  BY <2>1, <3>1, <3>2, <3>3 DEF NamesUnfinished
  <2>7. CASE at \in Directories /\ c # Astray /\ ~(c \in Directories /\ Unwritten(c))
    <3>1. Enter(at, n) = Lookup(at, n)
      BY <2>7 DEF Enter, Directories
    <3>2. Nested(path) <=>
            /\ Lookup(at, n) \in Directories /\ Lookup(at, n) > at
            /\ Find(entries[First(Lookup(at, n))], n) # Missing
      <4>1. Listed(Lookup(at, n)) <=> Lookup(at, n) \in Directories
        <5>1. Lookup(at, n) \in Inode \cup {Root, Missing}
          BY <2>7, FoundIs DEF Inv
        <5>. QED  BY <5>1, InodeAssumption DEF Directories, Listed, Inv, Basic, TypeOK
      <4>. QED  BY <2>1, <2>3, <3>1, <4>1 DEF Nested, IsDirectory, First
    <3>3. LsResolve(path) = c
      BY <2>3, <2>7 DEF LsList
    <3>4. c = Lookup(at, n) <=> ~Nested(path)
      BY <2>1, <2>2, <2>7, <3>2, ComponentFinds
    <3>. QED  BY <2>3, <2>7, <3>1, <3>3, <3>4
  <2>8. CASE at \notin Directories
    <3>1. ~Listed(at)
      BY <2>8 DEF Listed, Directories, Inv, Basic, TypeOK
    <3>2. Resolve(path) = Missing /\ ~Nested(path)
      <4>1. Resolve(path) = Missing
        BY <2>3, <3>1 DEF Enter
      <4>2. ~Listed(Missing)
        BY InodeAssumption DEF Listed, Inv, Basic, TypeOK
      <4>. QED  BY <4>1, <4>2 DEF Nested, IsDirectory
    <3>3. c = Missing
      BY <2>1, <2>8, NoComponent DEF Inv
    <3>4. LsResolve(path) = Missing
      BY <2>3, <2>4, <3>3 DEF LsList
    <3>. QED  BY <2>4, <3>2, <3>4
  <2>. QED  BY <2>5, <2>6, <2>7, <2>8
<1>2. Spec => []Tree
  <2>1. Inv /\ Tree /\ [Next]_vars /\ Inv' => Tree'
    BY TreeNext
  <2>. QED  BY <2>1, TreeInit, InvAlways, PTL DEF Spec
<1>3. Spec => []UnmadeEmpty
  <2>1. Init => UnmadeEmpty
    BY DEF Init, UnmadeEmpty
  <2>. QED  BY <2>1, UnmadeEmptyNext, InvAlways, PTL DEF Spec
<1>. QED  BY <1>1, <1>2, <1>3, InvAlways, PTL
=============================================================================
