------------------------------ MODULE DirBlock ------------------------------
(***************************************************************************)
(* One block of directory records, word by word, as update_dir_entry of    *)
(* ext2_cp, update_dir_entry_inode of ext2_mkdir, update_link_dir_entry of *)
(* ext2_ln and dir_entry_update of ext2_rm read and write it.              *)
(*                                                                         *)
(* Addresses and lengths count words of four bytes, to which the tools     *)
(* round every record: one word for the inode, one for the lengths, then   *)
(* the name.  rec_len says where the next record begins and may exceed     *)
(* what the name needs, the natural length.  A file has one name here, and *)
(* names have one to three or five to seven characters: seven is the most  *)
(* that fits the tools' buffers, and strcpy's zero byte does not fit the   *)
(* natural length of a name of four.                                       *)
(*                                                                         *)
(* An operator named Bad... is a fault of one line, next to the operator   *)
(* it would replace.                                                       *)
(***************************************************************************)
EXTENDS Integers, Sequences, FiniteSets, SequencesExt

CONSTANTS
  Inode,      \* the files, by inode
  BlockLen    \* words in a block: 256 in the code

NameLen == {3, 4}   \* natural lengths of short and of long names
Dot == 3            \* and of "." and ".."

ASSUME DirBlockAssumption ==
  /\ Inode \subseteq Nat \ {0, 1, 2}
  /\ BlockLen \in Nat /\ BlockLen >= 2 * Dot

VARIABLES
  mem,      \* what each word of the block holds
  lengths,  \* the lengths of the names used on this image
  removed,  \* history: the file of the latest step, if it was a removal
  broken    \* history: a removal did something else than remove the name

blockvars == <<mem, lengths, removed, broken>>

\* A word holds an inode, or lengths, or part of a name, of which it is
\* enough to know that it is neither.
InodeWord(i) == [inode |-> i, natural |-> 0, rec_len |-> 0]
LengthWord(n, l) == [inode |-> 0, natural |-> n, rec_len |-> l]
NameWord == [inode |-> 0, natural |-> 0, rec_len |-> 0]

\* The fields of the record at an address.
inode(m, a) == m[a].inode
natural(m, a) == m[a + 1].natural
rec_len(m, a) == m[a + 1].rec_len

SetLen(m, a, l) == [m EXCEPT ![a + 1].rec_len = l]
Put(m, a, i, n, l) ==
  [w \in DOMAIN m |-> IF w = a THEN InodeWord(i)
                      ELSE IF w = a + 1 THEN LengthWord(n, l)
                      ELSE IF w \in a + 2 .. a + n - 1 THEN NameWord
                      ELSE m[w]]

\* "." is inode 1 here, and ".." inode 2: the directory and its parent.
BlockInit ==
  /\ mem = Put(Put([w \in 0 .. BlockLen - 1 |-> NameWord], 0, 1, Dot, Dot),
               Dot, 2, Dot, BlockLen - Dot)
  /\ lengths \in SUBSET NameLen \ {{}}
  /\ removed = 0 /\ broken = FALSE

\* Where a walk goes from the record at a: out of the block if its length is
\* not one, or leads there.
Onward(m, a) ==
  IF rec_len(m, a) = 0 \/ a + rec_len(m, a) > BlockLen THEN BlockLen
  ELSE a + rec_len(m, a)

\* The addresses a walk visits, from each record to the next, until the sum
\* of their lengths reaches that of the block.
WalkOf(m) ==
  LET from[a \in 0 .. BlockLen] ==
        IF a + 1 >= BlockLen THEN <<>> ELSE <<a>> \o from[Onward(m, a)]
  IN  from[0]
Walk == WalkOf(mem)
ListingOf(m) ==
  LET W == WalkOf(m)
  IN  [k \in 1 .. Len(W) |-> inode(m, W[k])]
Listing == ListingOf(mem)

----------------------------------------------------------------------------
(* Adding a record, in the room the last one has to spare                  *)

BadSpare(a) == rec_len(mem, a) - natural(mem, a) + 1
Spare(a) == rec_len(mem, a) - natural(mem, a)

AddRecord(i, n) ==
  LET a == Last(Walk)
  IN  /\ i \notin ToSet(Listing)
      /\ Spare(a) >= n
      /\ mem' = Put(SetLen(mem, a, natural(mem, a)),
                    a + natural(mem, a), i, n, Spare(a))
      /\ removed' = 0
      /\ UNCHANGED <<lengths, broken>>

(* Removing one                                                            *)

\* The last record goes to the one before it.
MergeLast(k) ==
  SetLen(mem, Walk[k - 1], rec_len(mem, Walk[k - 1]) + rec_len(mem, Walk[k]))

\* The fields and the name at s, assigned one by one to what begins gap words
\* before; the end of a long name goes over the inode it was copied with.
Copy(m, s, gap, l) ==
  [w \in DOMAIN m |->
     IF w \notin s - gap .. s - gap + natural(m, s) - 1 THEN m[w]
     ELSE IF w = s - gap + 1 THEN LengthWord(natural(m, s), l)
     ELSE m[w + gap]]

\* The records after the k-th move up.  The length of the removed one has been
\* added twice to the sum that ends the loop.
BadCounted(k) == 2 * rec_len(mem, Walk[k])
Counted(k) == rec_len(mem, Walk[k])
Moved(k) == {j \in k + 1 .. Len(Walk) : Walk[j] + Counted(k) < BlockLen}

\* The record the loop ended at is then copied again, and made longer: as a
\* rule the last one, but the removed one itself if none has moved.
LastSeen(k) == k + Cardinality(Moved(k))
Moving(k) ==
  LET moved[j \in k .. LastSeen(k)] ==
        IF j = k THEN mem
        ELSE Copy(moved[j - 1], Walk[j], rec_len(mem, Walk[k]), rec_len(mem, Walk[j]))
  IN  moved
MoveUp(k) ==
  LET m == Moving(k)[LastSeen(k)]
      s == Walk[LastSeen(k)]
      gap == rec_len(mem, Walk[k])
  IN  Copy(m, s, gap, rec_len(m, s) + gap)

Place(i) == CHOOSE k \in 1 .. Len(Walk) : Listing[k] = i

RemoveRecord(i) ==
  /\ i \in ToSet(Listing)
  /\ mem' = IF Place(i) = Len(Walk) THEN MergeLast(Place(i)) ELSE MoveUp(Place(i))
  /\ broken' = (ListingOf(mem') # RemoveAt(Listing, Place(i)))
  /\ removed' = i
  /\ UNCHANGED lengths

\* Nothing is said of a block after a removal that went wrong.
BlockNext ==
  \/ /\ ~broken
     /\ \/ \E i \in Inode, n \in lengths : AddRecord(i, n)
        \/ \E i \in Inode : RemoveRecord(i)
  \/ broken /\ UNCHANGED blockvars

BlockSpec == BlockInit /\ [][BlockNext]_blockvars

----------------------------------------------------------------------------
(* Properties                                                              *)

\* The records follow each other to the last word of the block, each is long
\* enough for its name, and no write of another record went over the name.
RecordsTile ==
  ~broken =>
    /\ Last(Walk) + rec_len(mem, Last(Walk)) = BlockLen
    /\ \A a \in ToSet(Walk) :
         /\ natural(mem, a) > 0 /\ rec_len(mem, a) >= natural(mem, a)
         /\ \A w \in a + 2 .. a + natural(mem, a) - 1 : mem[w] = NameWord

\* ext2_rm takes away the record of the file and leaves the others, in their
\* order, if that record is the last, or if of the records after it that begin
\* farther from the end of the block than the removed one is long there is a
\* last one, with a name no longer than the removed record; it goes wrong
\* otherwise.
Exact(k) ==
  LET gap == rec_len(mem, Walk[k])
      far == {j \in k + 1 .. Len(Walk) : BlockLen - Walk[j] > gap}
  IN  \/ k = Len(Walk)
      \/ \E j \in far : natural(mem, Walk[j]) <= gap /\ \A l \in far : l <= j
RemovalExact ==
  [][removed' \in ToSet(Listing) => (broken' <=> ~Exact(Place(removed')))]_blockvars

\* With names of one length, which do not fill a block to its last word (nor
\* do they fill 256), every removal is exact: then a block is the sequence of
\* its records, as Ext2Tools has it.
OneLengthExact ==
  \A n \in NameLen :
    lengths = {n} /\ (BlockLen - 2 * Dot) % n # 0 => ~broken
=============================================================================
