# A verification of the CSC369 operating-systems programs

The repository holds the programs written for three assignments of an
operating-systems course:

* `A1`: dynamic memory allocators (`mymemory_opt.c` and relatives) and the
  multi-threaded driver `test_malloc.c` that replays allocation traces on them;
* `A2`: a virtual-memory simulator (`sim`) with a two-level page table, a swap
  file and five page-replacement algorithms;
* `A3`: tools (`ext2_ls`, `ext2_cp`, `ext2_ln`, `ext2_mkdir`, `ext2_rm`) that
  work on a memory-mapped ext2 image.

They share no code, and each is modelled on its own. Everything here can be
repeated with `tlc -config <run>.cfg <module>` and `tlapm <module>.tla` (of the
modules whose names end in `_proofs`, and of `NatSetTheorems`) in this directory; `PROJECT.json` lists the runs, the faults each property is
tried against, and the source lines each definition stands for.

## Inventory

### A2, the virtual-memory simulator

| Part | State | Operations | Talks to |
|---|---|---|---|
| page table (`pagetable.c`) | `pgdir`, second-level tables of entries (frame, valid, dirty, ref, onswap, swap_off) | `find_physpage`, `init_second_level` | frame table, swap, replacement |
| frame table (`pagetable.c`) | `coremap`: in_use and a back pointer for each frame | `allocate_frame` | replacement (`evict_fcn`), swap |
| swap file (`swap.c`) | bitmap of slots, the file | `swap_pagein`, `swap_pageout`, `bitmap_*` | `physmem` |
| replacement (`rand.c`, `fifo.c`, `lru.c`, `clock.c`, `opt.c`) | hand, clock, stamps, trace buffer | `*_init`, `*_ref`, `*_evict` | entries through `coremap` |
| driver (`sim.c`) | `physmem`, counters, options | `main`, `replay_trace`, `access_mem` | everything |
| trace reduction (`traceprogs/fastslim.py`) | buffer of pages, what is to be printed | one line of the trace | the traces |

The simulator is one thread. What is hard is not concurrency but long
sequences: the state of a page (never seen, in memory clean or dirty, on swap)
is spread over four status bits, a back pointer, a slot number, a bitmap and a
file, and each reference updates several of them. What makes it correct: the
two tables are inverse to each other, a page that leaves memory can come back,
slots are never shared, the counters add up, and the victim is the one the
algorithm is named for. A reduced trace is worth something if the simulator
misses on it as often as on the whole one.

### A1, the allocators

| Part | State | Operations |
|---|---|---|
| first fit (`mymemory_opt.c`, also `cdf/mymemory.c`) | address-ordered list of free nodes, one `sbrk` heap, one mutex | `mymalloc`, `myfree` |
| best fit (`cdf/mymemory_best_fit.c`, also `cdf/mymemory_opt.c`) | the same | the same |
| one-list best fit (`cdf/bestfit-malloc.c`) | doubly linked list of all blocks | `my_bestfit_malloc`, `my_free` |
| driver (`test_malloc.c`) | trace, `max_heap`, blocks of each thread | `update_heap`, `dowork`, `main` |
| demonstrations (`cdf/rendezvous.c`, `cdf/shared.c`) | one plain `int`; one mutex | two threads each |

The driver's threads call the allocator, which locks; they share `max_heap`,
which nothing locks. Hard here: coalescing at every position of the list, the
boundary sizes where a remainder is too small for a node, growth at the end of
the heap while other nodes are free, requests whose rounding wraps, and the
unsynchronised high-water mark of the driver. Correct means: live blocks never
overlap each other or a free node, the free list is sorted and coalesced, and
freed memory is found again. The one-list allocator follows pointers to
neighbours without testing them and gives memory back to the system; it is right
only as long as the last node of its list is in use. The two demonstrations are
right if the lines come in the promised order and both threads end, which for the
one that spins on a plain `int` depends on what the compiler makes of the loop.

### A3, the ext2 tools

| Part | State | Operations |
|---|---|---|
| image | superblock and group counters, two bitmaps, inode table, directory blocks | read and written in place through `mmap` |
| `ext2_mkdir`, `ext2_cp`, `ext2_ln`, `ext2_rm` | a copy of both bitmaps | path lookup, allocation, directory update, release |
| `ext2_ls`, `readimage` | none | lookup and listing |

The tools interact only through the image. Hard here: each makes several
updates that must agree (bitmap, counters, inode, directory entry) with no
journal, so a process that is killed leaves some of them; what one tool writes
another relies on, by its own copy of the same code with small differences; and
a directory block is a packed sequence of records that `ext2_rm` closes up by
copying. `ext2_ls` walks a path in a loop of its own, which goes on after it has
found a component. Correct means: a bitmap bit is set exactly for what is reachable, the
counters count the clear bits, names lead to allocated inodes, and a name goes
only when its tool was asked to remove it.

## Modules

One action is one operation of the code, all of it: where a call holds a lock
or the program has one thread, it is one step; where the code can be
interrupted (the driver's threads, a tool that is killed), a step ends at each
access to what is shared. Operators named `Bad...` are one-line faults, kept
next to the operator they would replace; the properties must reject them.

| Module | Models | Built on |
|---|---|---|
| `DemandPaging` | abstract: what a demand pager promises | |
| `PageTable` | `find_physpage`, `allocate_frame`, swap movement, `access_mem`, the ends of a replay; any replacement algorithm | refines `DemandPaging` |
| `Replacement` | what the algorithms share: a reference replayed with a given victim | `PageTable` |
| `FifoReplacement`, `LruReplacement`, `ClockReplacement`, `OptReplacement` | one algorithm each; `StampedReplacement` is the field two of them share | `Replacement` |
| `SwapBitmap` | `bitmap_create` and `bitmap_alloc`, word by word | |
| `FastSlim` | `fastslim.py`, one line of the trace at a time | |
| `Simulator` | `main`'s choice of an algorithm, the five composed with the bitmap | extends the four, `PageTable` for `rand`; an instance of `SwapBitmap` |
| `FastSlim_proofs` | theorems about the trace reduction | `FastSlim` |
| `PageTable_proofs`, `Simulator_proofs` | theorems about the page table, and about the simulator with each algorithm and the bitmap | `PageTable`, `Simulator` |
| `HeapContract` | abstract: what `mymalloc` and `myfree` promise | |
| `FreeListHeap` | the free list, `sbrk`, the two headers, `myfree` | |
| `FirstFitHeap`, `BestFitHeap` | first-fit and best-fit `mymalloc` | `FreeListHeap` |
| `OneListHeap` | `my_bestfit_malloc` and `my_free` of `cdf/bestfit-malloc.c` | |
| `Allocators` | a program linked with one of the three | extends `FirstFitHeap` and `BestFitHeap`; an instance of `OneListHeap`; refines `HeapContract` |
| `Allocators_proofs` | theorems about the three allocators | `Allocators` |
| `TestMalloc` | `dowork` and `update_heap` of each thread | `HeapContract` |
| `ThreadDemos` | `rendezvous.c` and `shared.c` | |
| `Ext2Tools` | the four tools that write, on one image, and the walk of `ext2_ls` | |
| `DirBlock` | one directory block, word by word | |
| `Threads_proofs` | theorems about the contract, about the driver over it, and about the demonstrations | `TestMalloc`, `ThreadDemos` |
| `Ext2Tools_proofs` | theorems about the tools: names and blocks; accounts and the tree; what `ext2_ls` finds | `Ext2Tools` |
| `DirBlock_proofs` | theorems about a directory block | `DirBlock` |
| `NatSetTheorems` | the minimum of a set of numbers; functions given by their first value and a step; a word and a bit of an index | used by the others |
| `MC...` | symmetry, views and traces for TLC | |

### State and actions against the code

**PageTable.** `pte` is the second-level entry of each page: `frame`, the
status bits of `pagetable.h`, `swap_off` counted in slots. The two-level lookup
that leads to it (`pgdir`, `init_second_level`) is abstracted to a function: a
table is made on first use with every entry as `Init` has it. `coremap`,
`physmem` (the address and the version number that `init_frame` writes and
`access_mem` checks and increments), `swapmap` (the set bits of the bitmap),
`swapfile` and `count` are the variables of those names. `Hit`, `PageIn` and
`FirstTouch` are the three branches of `find_physpage`, each with the
`allocate_frame`, the eviction and the page movement it calls and the access
`access_mem` makes afterwards; `SwapFull`, `SwapError` and `Finish` are the ways
the process ends. `stored` is a history: how many stores the trace has made to
each page, against which contents are judged. The bit `PG_ONSWAP` and the offset
are separate in the code and here: `Loaded` clears the one and keeps the other.

**Replacement modules.** Each algorithm's state is that of its file (`to_go`;
`counter`, `stamp`; `clock_pointer`, `ref`; `trace`, `buf_trace`,
`curr_trace`), its `*_evict` is an operator that answers a frame, and its
`*_ref` an update conjoined to the reference. `rand.c` needs none: the choice
`PageTable` leaves open is its behaviour. `order` and `recent` are histories. Fields that the code never sets
before it reads them (`stamp` and `ref` of an entry, the elements of
`buf_trace`) begin with any of a few values. In `Simulator`, `alg` is the option
`-a`, and `bitmap` runs beside `swapmap`: a step in which a page gets its first
slot (`TakesSlot`) is one that calls `bitmap_alloc`.

**FastSlim.** `tracebuffer`, `toprint` and `ts` are the variables of those names.
A line is skipped (`SkipsLine`), or its page is in the buffer (`SeenAgain`: the
item that is marked and stamped is the one just made, which is dropped, so
nothing changes), or it is not (`SeenFirst`). `kept` and `output` are histories.

**FreeListHeap, FirstFitHeap, BestFitHeap.** Memory is counted in words of
eight bytes. A node and a header are words with a `size`; a node's second word
is its `next`; the magic number is the other half of the first word and is
lost when something else is written there. `FreeList` is what a walk from
`head` visits; `FirstFit` and `BestFit` answer the place in it of the node that
serves a request. `mymalloc` (`bestmalloc` where both searches are in scope) is `HandsOut` and `Carve` of the chosen node, with the
`sbrk` calls it needs; `CannotGrow` is `sbrk` failing, after as many chunks as
the system grants. `myfree` is one of `FreeIntoTop`, `FreeBelowTop`,
`FreeJoined`, `FreeInserted`, or a failed assertion. Each call holds the one
mutex from its first line to every return, which is why it is one step and why
the number of threads does not matter here. `live` is a history of the blocks
that are out.

**OneListHeap.** `node` is what the words hold where a node begins; `Nodes` is the
walk from `first_node`. `MallocFirst`, `MallocExact`, `MallocSplit` and
`MallocAppend` are the four ways a request ends, `FreeLast` (the end of the heap
goes back), `FreeAlone` and `FreeMerged` the three of `my_free`; `Crash` is a write
through a pointer to nothing. **Allocators** gives the three the same `brk`, `live`
and `outcome`, so that one set of properties speaks of all; after best fit has
lost its head (`HeadLost`) the model stops, because `head`'s next field is then
the program's data.

**ThreadDemos.** `at` is each thread's place in its `Code`. A store goes through
the thread's `buffer` and gets to memory in `Drain`. `spin` is what the compiler
made of each loop `while (flag != ...);`: it may read `flag` each time, once, or
not at all, since the language lets it take a loop without effects for one that
ends. `printf` takes a lock and so waits for the thread's stores.

**TestMalloc.** A thread's step is one access to something shared: a call of
the allocator, which is any that keeps `HeapContract`, a call of `sbrk(0)`, the
read of `max_heap` in the comparison, the write. `pc` is its place in `dowork`,
`i` in its trace, `ptr` and `seen` its locals, `recorded` its `blocks` array.

**Ext2Tools.** The variables are the image: bitmaps as sets of marked inodes
and blocks, the counts, the inode table, the records in each directory block.
A tool starts with its paths resolved (`Mkdir`, `Cp`, `Ln`, `Rm`, whose guards
are the error exits) and then makes the steps listed for it in `Steps`, one for
each function that writes; `Kill` may end it between two. `GrowDirectory` is
the branch for a full block. `image` records why the model claims nothing further: a file with two
names was removed (`severed`), or the code used a variable it never set or wrote
outside what it meant to write (`undefined`). That happens in four actions, and
each has the code's condition for its guard: `NothingFree` (a full image),
`LnWritesAstray` (`ext2_ln` and a full block), `InodeOverrun` (`ext2_cp` puts all
block numbers of a file into `i_block`; the ones after the inode's last byte are
in the next inode) and `RmWritesAstray` (the loop of `dir_entry_update` meets a
second record of the file that is the last of the block: `file_rec_len` becomes
the length of that one, no name is removed, and what is copied lands before the
block). `FreeBlocks` clears the blocks whose numbers `ext2_rm` reads back
(`PointersRead`: twelve, the indirect one, and sixteen of the indirect block),
`FreeCounts` counts all of them. When `ext2_mkdir` is killed before it
wrote the directory it had named, `unmade` remembers the inode: no tool is run
any more, and the properties hold of everything else. A path is followed by
`Enter`, one component at a time through the directories `main` listed, to its
`Parent` and what it `Resolve`s to; the places of an inode's names (`NamesOf`)
are triples of a directory, a block and the number of a record. `LsResolve` is the walk of
`ext2_ls`: for each component `LsPass` goes once over the directories in the order
of their inodes, and `LsVisit` is what it does at the one it has come to. A block whose records are
not written yet (`Unwritten`) has lengths that are zero, or whatever was there
before: the loop that adds them up goes `Astray`, and `ext2_ls` does not end.

**DirBlock.** `mem` is what each word of a directory block holds: an inode, a
pair of lengths, or part of a name. `AddRecord` splits the last record;
`RemoveRecord` is `dir_entry_update` of `ext2_rm`, with the length of the
removed record added twice to the sum that ends its loop and the second copy of
the last record after it, as the code has them.

## What the runs check

| Run | Question | Instance | States |
|---|---|---|---|
| `simulator` | do the tables, the swap file and its bitmap stay consistent, is it a demand pager, and does each algorithm evict the page it is named for? | each of five algorithms, 4 pages, 3 frames, 3 slots, 8 references | 368 000 |
| `pagetable_dirty_bit` | is a modified page dirty? No | 3 pages, 2 frames, 3 slots | |
| `opt_farthest` | is `opt.c` optimal? No | 4 pages, 3 frames, 7 references | |
| `fastslim` | what does the reduction print, and when are the misses kept? | 4 pages, buffers of 0 to 3, 8 references | 30 000 |
| `allocators` | is the heap tiled, the list in order, the contract kept, by each allocator? | free lists: 4 chunks of 4 words, sizes 0, 9, 137 and 249 modulo 256; one list: 32 words, nodes of 4, 8 and 12 words | 15 900 |
| `firstfit_free_returns` | does `myfree` return? No | 3 chunks of 4 words | |
| `testmalloc` | does the driver free only its own blocks, and end? | one thread with six operations; two threads with three and two; 6 words | 156 000 |
| `testmalloc_overflow` | is a reported overflow real? No | the same | |
| `threads` | are the lines in order, and do the threads end? | both programs, every build | 665 |
| `ext2_tools` | do the tools leave an image that agrees with itself, killed anywhere, and does `ext2_ls` find its way in it? | 4 tools, 3 inodes, 4 blocks, 2 names | 97 000 |
| `ext2_other_names` | do the other names of a removed file stay good? No | the same | |
| `dir_block` | when is removing a record exact? | a block of 19 words, 4 files, long and short names | 53 000 |

The properties are stated, with the behaviour of the code they are about, at
the end of each module. In short:

* `PageTable`: the page table and the frame table are inverse
  (`FrameTableInverse`); the state the code calls impossible is, and the one it
  takes for a first reference is (`EntryStates`); a page that is dropped without
  a write can be read back (`BackedBySwap`); no slot is shared or leaked
  (`SlotOwnership`), goes back in time or changes hands (`SwapCopiesAdvance`);
  the check of `access_mem` succeeds (`CheckAddr`); the replay fails for want of
  swap only when the swap is full (`GivesUpOnlyWhenFull`); and `DemandPagingSpec`
  is implemented. `simulator` checks them of every algorithm. `MissesAccounted`
  and `CopiesOrdered` are proved and not run.
* `Simulator`: `FirstInFirstOut`, `LeastRecentlyUsed`, `SecondChance`, each
  against a history of the pages in memory that the algorithm does not keep;
  `LruButFrameZero` says what `opt.c` is instead of optimal. `BitmapIsSwapmap`:
  the words of the bitmap, with the padding bits of the last one, answer every
  request as the set of free slots does.
* `FastSlim`: `PrintsFirstReferences` says which references are printed, in
  which order; `LruMissesKept` that an LRU memory misses on them as often as on
  the windows they stand for, if every window's pages are last referenced in the
  order they were first. Without that condition it is false of this code, which
  never marks an item (buffer of 2, pages 1 2 1 3 2 1).
* `Allocators`: blocks and free nodes tile the heap (`Tiled`); the list is in
  order and ends as the code assumes without a test (`EndsAsAssumed`); headers of
  blocks that are out are never written, and no size of a block or node leaves the `int` it is kept in (`BlocksIntact`); the heap grows only for
  a block no free node can hold, and shrinks only in `my_free`
  (`HeapMovesForCause`); `HeapContract` is implemented (`KeepsContract`); best fit
  loses its head exactly when it takes the first node of a longer list
  (`HeadLostByBestFit`); the one list follows a bad pointer only after the very
  first `sbrk` failed (`CrashesOnlyAfterFirstFailure`).
* `ThreadDemos`: in `rendezvous.c` a thread whose loop the compiler left in
  prints its second line after the other's first, and in `shared.c` nothing comes
  between a thread's lines (`LinesInOrder`); no thread waits for ever unless the
  build makes it (`ThreadsEnd`), and which builds do is part of the property.
* `TestMalloc`: no block is freed by two threads, although an overflow report
  discards blocks (`PendingBlocksOwned`); with one thread the record
  of the heap is exact (`OneThreadAccurate`); `main`'s joins return
  (`EventuallyJoined`).
* `Ext2Tools`: after every single write, names lead to allocated inodes
  (`NamesResolve`), no block has two owners (`BlocksOwnedOnce`) and the
  directories form a tree (`DirectoriesAreATree`); without a kill, bitmaps and
  counts are exact between tools (`AccountsExact`); a name goes only by
  `ext2_rm`, from the directory and of the file it was given, and it is the given
  one exactly if no other of the file comes before it in that directory (`OnlyTheNameGoes`); `ext2_ls` lists
  what its path leads to, unless that is a directory with a larger inode than its
  parent's that holds its own name, and ends unless it comes to a directory that
  is named and not made (`LsResolves`).
* `DirBlock`: the records tile the block (`RecordsTile`); with names of one
  length every removal is exact (`OneLengthExact`), which is what lets
  `Ext2Tools` treat a block as a sequence of records; with mixed lengths
  `RemovalExact` says which removals go wrong, and that the others do not: it
  looks at the records after the removed one that begin farther from the end of
  the block than that one is long.

### Bounds, and why they are enough

* `PageTable`, `Simulator`: `TraceLen` bounds the references. Eight references
  to four pages with three frames let a page be written, evicted, read back,
  modified and evicted again while another does the same, the three slots fill
  from the seventh reference on, and the second word of the bitmap (two bits to a
  word) has one padding bit. Three frames let
  a hand go round more than once and a sweep spare some pages and take another. Pages
  are interchangeable (no order on them is used anywhere), so they are a
  symmetry set; frames and slots are searched in order and are not.
* `FastSlim`: eight references to four pages give more than two windows with
  every buffer up to three, and repetitions within a window;
  `-b 0` is the buffer that is never full again.
* Free lists in `Allocators`: four chunks of four words. A chunk so small makes the heap grow
  within most calls and run out in some, and sixteen words hold up to six
  blocks, so that a freed block meets a node above, below, on both sides or on
  neither, at the head, in the middle and at the end of the list. The sizes are one word (`0`), two words (`9`),
  one that rounding wraps to a single word (`249` modulo 256) and one that is too
  large for an `int` (`137`: 18 words, of which the `int` of the instance counts 15). `allocators` compares
  states by the `VIEW` `InUse`: all but what old nodes and headers left in words
  that are neither now. No action or property reads those words (`myfree` tests
  `magic` at a block that is out; `myfreeRefuses` changes nothing), so states
  that differ there have the same behaviour.
* One list in `Allocators`: 32 words hold eight smallest nodes. Requests of 16 and
  17 bytes are on both sides of the rounding, 80 bytes need a node that a freed
  pair can make, 0 gets nothing, and 300 is more than the system ever grants, so
  `sbrk` fails on the empty list too.
* `ThreadDemos` has no bound: the programs are as small as they are.
* `TestMalloc`: two threads are what a race needs; in their traces each frees
  a block that the other's growth of the heap may make it discard. The contract answers each call in every way it allows within
  `HeapLimit` words.
* `Ext2Tools`: `MaxTools` bounds the tools run; four are enough for a name to
  be made, linked, removed and its inode and blocks taken again, and for each
  tool to meet what a kill in another left. Names are a symmetry set: they are only
  compared with each other. Blocks and inodes run out, and with
  five records to a block the root directory grows at its fourth name: it is the
  first size at which a file can have two names in a block with another's record
  last, next to two names of which the second is last. `Direct` is 1
  instead of 12, `IndirectRead` 1 instead of 16 and `InodeRoom` 3 instead of 22, so that a
  file of two blocks of data needs the indirect one and fills the inode, and one of three
  overruns it. As in the code (22 against 12 + 1 + 16), a file whose numbers stay in its
  inode is one whose blocks `ext2_rm` reads back; the `ASSUME` says so.
* `DirBlock`: 19 words leave 13 after the two dots. As in a block of 256 words,
  records of one length never fill the block to its last word (250 is neither a
  multiple of 3 nor of 4, and 13 is neither); mixed ones can (3 + 3 + 3 + 4).
* Each run reaches all of its states: none has a state constraint, and
  deadlock is checked in all of them. A process that has ended stutters in an
  action of its own (`Stopped`, `Dead`, `DemoRest`, `AllJoined`, `EndOfTrace`), so that a state
  in which a running one could do nothing would be found.

### Fairness

`TestSpec` has weak fairness of `Start` and of each thread's step,
which the scheduler of the operating system gives a thread that can always run.
No lock of the driver can be held for ever: the allocator's mutex is within one
step. `EventuallyJoined` needs nothing else. `DemoSpec` has the same of
`pthread_create` and of each thread, and of `Drain`: a store reaches memory in
the end, on every machine these programs run on. The mutex of `shared.c`
needs no more, since each thread asks for it once. The other programs are single
threads whose progress is the progress of their input.

### Assumptions

* A1: nobody else calls `sbrk`; the system grants less than 2 GiB of heap, so that
  sizes fit the `int` of a node (`IntAssumption`; a request is any `unsigned int`, and those
  that are too large for the heap are refused); the compiler keeps the four padding bytes of a
  node, in which the magic number of a former header survives, when it assigns
  the node's fields; a program frees a block once, and a trace allocates an index
  before it frees it and frees it once at most (what the trace scripts write).
  For `cdf/bestfit-malloc.c`: a header has 16 bytes, as its comments say and
  `my_free` assumes (a 32-bit build), and no request overflows an `int`.
* A2: every line of a trace is a type and an address (`replay_trace` parses
  whatever does not begin with `=`); for `opt.c` they are loads only (the type means nothing there), and the buffer
  that is never filled holds zeroes, as a large fresh allocation does. `coremap`, which
  `main` allocates without clearing (`sim.c:124`) and whose `in_use` bits
  `allocate_frame` reads, is taken to be zeroes for the same reason.
* A3: tools run one after the other, and a kill falls between two functions
  that write. The image has no `lost+found`. Paths have up to two components and
  do not use `.` or `..`. In `Ext2Tools` names have one to three characters;
  `DirBlock` adds five to seven, and there a file has one name. Names of four are left out: the zero byte
  `strcpy` appends goes past the record. An inode has room for 22 block numbers from `i_block`
  to its end (15 are `i_block`'s own, no tool reads the fields after it); a file that needs more
  is undefined. File contents and `i_size` are not in the
  model: `ext2_cp` never copies the one and no tool reads the other.

## What is proved

Every theorem holds for every value of the constants that satisfies the `ASSUME`s
of its modules (finite sets of pages, inodes and blocks; sizes that are numbers; at
least two records to a block; names other than `.` and `..`; inodes with larger
numbers than the root's; a heap whose bytes an `int` can count; no more room in an inode than `ext2_rm` reads
pointers), and rests on nothing else.

| Theorem | Says |
|---|---|
| **`PageTable_proofs`** | for any pages, memory, swap file and length of the trace |
| `TypeCorrect`, `TablesInverse`, `EntryStatesHold`, `PagesBacked`, `SlotsOwned`, `AddressCheckSucceeds` | the invariants of those subjects |
| `VersionsOrdered`, `SwapNeverRegresses` | memory is never older than swap, and a slot never goes back |
| `StatisticsAddUp` | misses are evictions plus frames in use |
| `SwapFullMeansFull`, `EnoughSwap` | the replay fails for want of swap only when more pages than slots were touched; with a slot for every page it never does |
| `ImplementsDemandPaging` | `Spec => DemandPagingSpec` |
| **`Simulator_proofs`** | the same, under each of the five algorithms |
| `SimulatorImplementsPageTable`, `SimulatorConsistent`, `SimulatorPages` | every run of the simulator is one of `PageTable`, so that all of the above holds of it |
| `FifoIsFirstInFirstOut`, `LruIsLeastRecentlyUsed`, `ClockGivesSecondChance`, `OptIsLruButFrameZero` | each evicts the page it should by the history of the pages in memory |
| `BitmapStandsForSlots` | the words of the bitmap answer as the set of free slots, for any width of a word |
| **`Threads_proofs`** | for any threads, any traces that free what they allocated, and any heap |
| `BlocksNeverOverlap` | what `HeapContract` promises is enough: the blocks that are out stay apart and inside the heap |
| `DriverTyped`, `DriverKeepsContract` | the driver asks the allocator only for what the contract allows |
| `NoBlockFreedTwice` | what a thread is about to free is out, and no other thread's |
| `OneThreadIsAccurate` | with one thread `max_heap` is exact and no good block is reported |
| `LinesKeepOrder` | each demonstration prints its lines in the order it promises, for any build and any delay of a store |
| **`Allocators_proofs`** | for any heap, chunk and set of requests, each of the three allocators, `sbrk` failing wherever the heap ends |
| `AllocatorsTyped` | types |
| `HeapsAreTiled`, `ListsEndAsAssumed`, `BlocksStayIntact` | nothing overlaps and nothing is lost; the list is in order and ends as the code assumes; headers survive, blocks are as large as was asked, and every size fits its `int` |
| `HeapMoves` | the heap grows only for a block no free node can hold, and shrinks only in `my_free` |
| `HeadIsLost` | best fit loses its head exactly when it takes the first node of a longer list |
| `OnlyAFailedStartCrashes` | the one list never follows a bad pointer but the one its first `sbrk` left |
| `ContractKept` | `AllocSpec => KeepsContract` |
| **`Ext2Tools_proofs`** | for any names, inodes, blocks and number of tools, each killed anywhere |
| `ToolsTyped` | types, and no block with more records than fit |
| `NamesLeadToInodes` | every name leads to an allocated inode |
| `NoBlockIsShared` | no block has two owners, and no owned one is clear in the bitmap, for files of any size: one that overruns its inode ends the claim |
| `OnlyRmTakesNames` | a name goes only by `ext2_rm`, from the given directory and of the given file, and it is the one given exactly if no other of the file comes before it there |
| `AccountsBalance` | without a kill the bitmaps and counts are exact between tools, so that `ext2_rm` reads back all the blocks of a file that fits its inode |
| `DirectoriesFormATree` | each directory has one name, in the directory its `..` leads to |
| `LsListsItsPath` | `ext2_ls` lists what its path leads to exactly when that is no later directory that holds its own name, and fails to end only if it comes to a directory that is named and not made |
| **`DirBlock_proofs`** | for a block of any length, any files, and names of both lengths in any order |
| `BlockTiles` | the records tile the block after every addition and every exact removal |
| `BlockRemovals` | a removal is exact exactly when the records after the removed one are as stated |
| `BlockOneLength` | with names of one length, which do not fill the block to its last word, no removal goes wrong |
| **`FastSlim_proofs`** | for any trace, any pages and any buffer |
| `PrintsFirsts` | what is printed is the first reference to each page of each window that is over, in the order of the trace |
| `MissesKept` | if every window's pages are last referenced in the order they were first, an LRU memory no smaller than the buffer misses as often on what is printed as on those windows |

The invariants that TLC checks are seldom inductive, and most of the work is in
what had to be added.

**The page table.**

1. `BackedBySwap` alone does not survive a step: it speaks of pages on swap and
   of clean ones, and a dirty page that still has a slot becomes either.
   `IInv` therefore says of every page with a slot that the slot is marked and
   holds it (`SlotsHold`), and of every page that can leave memory unwritten
   that it has one (`HasSlot`), next to the type invariant, the two tables, the
   states of an entry, slot ownership and the check of addresses.
2. The two ways to bring a page in are one disjunct, `Brings`. Its effect is
   stated once for a full memory (`Eviction`: which page leaves, with which
   slot, and what changes in the swap file) and once for a free frame
   (`FillingFree`); `BringsKeepsIInv` shows each conjunct of `IInv` from them,
   and `PageInKeepsIInv`, `FirstTouchKeepsIInv`, `HitKeepsIInv` and
   `EndsKeepsIInv` the actions. `StepIInv` collects them.
3. On top of `IInv`, three smaller invariants: `VInv` orders the versions,
   `OInv` counts frames in use, misses and evictions, and `GInv` counts the
   slots against the pages referenced, with the cardinality lemmas they need.
4. The refinement maps a hit to `Use`, a fault with a free frame to `Fill`, a
   fault with a full memory to `Replace`, and an end to a stutter, from `IInv`
   and `OInv`.

**The algorithms.** The simulator is `PageTable` with fewer choices
(`SimStepRefines`), so `IInv` is there to build on. What each algorithm keeps is
then tied to `order`, the history it does not have: a page before another in the order is
closer to the hand (`FifoOrder`), has the smaller stamp (`LruOrder`), or, for
`opt.c`, has the larger one unless it is in frame 0, whose stamp is always 1
(`OptOrder`); a page used since the last fault has its bit set (`ClockBits`).
The lemmas they share, on sequences without repetitions from which one page is
taken, come first in `Simulator_proofs`. The bitmap's words are tied to the slots by
`BitmapWords`: a bit is set exactly if its index is no free slot, so that the
padding bits of the last word are set for ever.

**The allocators.** The list of nodes is the value of a recursive function, and
what such a function computes cannot be proved by induction here. The proofs go
round it: an invariant names what the fields must be, a lemma shows that the walk
is the only one that fits, and where a walk has to exist one is built from the
least step at which none would (`FreeListIs`, `NodeWalkExists`, `NodeWalkIs`).

1. `FreeInv`, of the free lists. `Heap(L)` says that the `next` fields chain the nodes
   `L` from `head` in address order (`Chain`) and that nodes and blocks together
   are tiles of the heap (`Tiles`: each begins below the next and ends where one begins,
   the last at `brk`). `Tiled` alone is not inductive: to join a block to a node, or to insert
   it between two, one has to know that the chain passes them in order and that the last node is
   the top of the heap. `Blocks` adds what the header of each block holds. Cutting a
   node replaces a tile by two and a node in the chain by another (`SplitTile`, `ChainReplace`),
   freeing joins tiles and inserts, replaces or removes a node (`JoinTiles`,
   `ChainInsert`, `ChainRemove`). After an assertion has failed the block is in neither, and once best fit
   has lost its head there is no list: `FreeInv` has a disjunct for each, as the
   properties have.
2. `OneInv`, of the one list, says which words are nodes and not in which order:
   each node ends where another begins or at `brk`, the two know each other
   (`Joined`), the last node is in use, no two neighbours are free, and those in
   use are the blocks that are out (`OneHeap`). That the last node is in use is what makes
   the untested writes of `MallocSplit` and `FreeMerged` safe: a free node
   has one after it, and joined nodes have one after them. `NodesIs` gets the
   list in its order from the set.
3. That sizes fit their `int` is the one part of `BlocksIntact` that needs the tiles: a block or
   node ends at or below `brk`, and the heap is smaller than an `int` can count (`SizesFit`).
4. What a step does to the blocks and to the end of the heap is `Moves` and
   `OneMoves`, proved with the invariants; `HeapMoves` and `ContractKept` follow from them and
   no longer need the lists. The contract names a block by the word before its
   payload, so the refinement maps a block of the one list to its second header
   word (`BlocksOut`), and the limit to the larger of the two heaps' (`MostWords`).

**The driver.** `PendingBlocksOwned` speaks of the blocks a thread has recorded.
Between `mymalloc` and the record a block is in the thread's hand, so
`HandsOwned` says the same of those; `Places` says where a thread can hold one;
`NeverAhead` bounds the stale `max_heap` by the heap, and `Alone` is what one
thread sees. The proof of `BlocksNeverOverlap` showed that the contract must
say more of a heap that shrinks than that its new end is lower: every block
that is still out has to lie below it (`FreeAndShrink`).

**The demonstrations.** `LinesInOrder` is about what has been printed; `Meeting` and `Locked` say what a
thread can conclude from its place. In `rendezvous.c` a value is in memory, or in
a buffer, only if the thread that stores it has printed its first line, and a thread that left a loop
which is still there has seen such a value. The case with an argument is `flag` = 1, which is also
what it begins with: `thread1` cannot be misled by that, because it waits after its own
store, and once that store is in memory only `thread2` can put 1 there again. While it is not, the
load answers 2, from the buffer. In `shared.c` the mutex is held from the first line to the second
one, so that the last line at the second is the thread's own first.

**The image tools.** `Basic` is the type invariant with the shape of the image
(directories are marked and have a block, records stand in blocks of directories,
only directories are called `.` or `..`) and what the running tool's variables
are at each of its steps.

1. `Naming`: `NamesResolve` breaks if a tool may enter an inode whose bit is
   clear or free one that has a name, so the invariant says that an inode just
   taken or just unlinked has no record (`Unnamed`), and that one which
   `ext2_ln` or `ext2_rm` was given has one (`Refers`). An inode without a second name has one
   record only, which is why unlinking the first leaves none.
2. `Owned`: blocks are unshared among `Owner`s, which are more than the inodes with
   a name: the file that `ext2_cp` has written and not entered yet, and the one that `ext2_rm`
   unlinked and has not released, and against both the blocks `ext2_cp` is collecting.
   It leaves out the directory that is being made, whose inode still says what
   its last owner had. The block of a new directory is empty when its records
   are written, since only directories' blocks have records.
3. `OnlyTheNameGoes` follows from these: every step keeps every record but the
   one `ext2_rm` takes out (`RecordsKept`), and keeps the blocks of directories
   (`DirectoriesKept`). The record taken out is the first of the file in the
   directory (`FirstOfFile`), and a name that the first block has is looked up there
   (`FoundInFirst`), so it is the given one exactly if none of the file comes before.
4. `FilesFit`: what a file has collected or owns fits its inode, so `ext2_rm`
   reads all of it back (`FreedIsAll`).
5. `Accounts`: in the middle of a tool nothing adds up, so each account has a
   term for what is on its way. A marked inode has a record or is the tool's
   (`Holds`), a marked block has an owner or is being collected, and the counts
   differ from the bitmaps by what was freed and not counted yet, or made and
   not counted (`OwedInodes`, `OwedBlocks`, `OwedDirs`). A kill would leave a
   term behind for ever, which is why the theorem excludes it.
6. `Tree`: a directory that is made begins with `.` and `..` and has one name, in
   the directory `..` leads to; one that is being made has its name in the
   tool's parent already, which is what its `..` is going to be. `ext2_rm` cannot hit the
   first two records, since they lead to directories and it was given a file.

**The directory block.** `WalkOf` and `Moving` are recursive functions, of
an address and of a record's number; as with the allocators' lists, a lemma shows that
a function with the right first value and steps is the only one
(`IterationExists`, `IterationUnique`), and a sequence of addresses that fits is the walk
(`WalkIs`).

1. `BlockInv`: while no removal has gone wrong, the records at the addresses of the walk
   tile the block, each has one of the two natural lengths, its inode and its name
   where they belong, and the files are different. `RecordsTile` says nothing of
   where the inode of a record is, which is what a removal destroys.
2. `AddRecord` replaces the last tile by two. Merging the last record joins
   two tiles.
3. `MoveUp` is the case with an argument. Each record that moves goes up by the
   length of the removed one, over words that were read already, so the records
   between the removed one and the last one seen arrive intact, and the records behind
   that one stay where they are (`MovingShifts`, `UpBut`). If the name of the last one seen
   is no longer than the gap, its second copy is like the first, the length added to it
   covers the gap, and a walk finds every record but the removed one (`UpClosed`).
   If it is longer, the first copy went over the inode that the second one reads, and the
   name then leads to no inode of a file (`WrongLong`). If no record moved, what is copied is the removed
   record itself, over words in front of it (`WrongStays`). In both
   the listing is different from the one without the name, whatever a walk
   finds, and so `RemovalExact` is an equivalence.
4. `OneInv`, for names of one length: records are packed, each but the last as long as
   its name needs, so that a last record cannot be as close to the end as the removed one is long
   unless it fills the block to the last word; that is where the condition on
   the length of the block comes from.

**The trace reduction.** Windows, memories and their misses are all one recursive
function of a line of the trace (`Folded`), of which two facts are enough: of nothing
it gives its first value, and of one element more the next step (`FoldedIs`).
They are proved from the function that has the right steps, as for the other walks;
`FlattenSeq` is shown to be such a function too.

1. A line either ends a window or makes the last one longer (`WindowsNext`). `SlimInv` says of the
   open window that its first and its last references are the same pages, each once
   (`Orders`), and that what waits in `toprint` and in `tracebuffer` is the first references of
   the open window, unmarked and with increasing stamps (`Waiting`), so
   that sorting by stamp changes nothing. What is out is then the first references of the
   windows that are over.
2. `MissesInv` compares two LRU memories of the same size, one after the whole trace and one after
   the reduced one. As long as the condition held of the windows that are over, the
   memories were equal when the open window began, with the pages `R` in front of what is
   referenced since; now one is `R` followed by the last references of the window and the other
   `R` followed by the first ones (`OneRest`), with equal misses, because a
   window fits the memory, so that no page of it is evicted before its end. When the window is over the
   condition makes both sequences the same (`EqualParts`). With `-b 0` no window is ever over.

**`ext2_ls`.** One pass is a function of the numbers up to the greatest directory. `Reached` says what
it has come to after each: nothing before the parent; from there on what the name
leads to; and once it has met that directory and the name in it again (`GoesOn`), something
named so in a directory after the parent. That this is never the right answer needs `Tree`: the
directory has its one name in the parent (`NotNamedTwice`). It needs one
invariant more, `UnmadeEmpty`, that the block of a directory that was named and not made has no records,
and its converse (`UnwrittenIsUnfinished`): every other directory has some. In a pass, what comes first is either the name
found or a block that leads astray (`FirstFound`), and a pass that is astray stays so (`Lost`); it got there by
a directory that holds the name without being made, or that has it.

Only model-checked: liveness (`EventuallyJoined`, `ThreadsEnd`), which the prover's
backends do not reach. Every invariant and every action property that a passing run checks is stated by a theorem. Of the driver and the
allocators together nothing is run: `ContractKept` says that each allocator is one of those the driver's
theorems are about, as long as it runs and best fit has its head.

## Where the code differs from what it says

Five runs end in a violation, each of a statement the repository makes:

1. `pagetable.c:247`: a store that hits a page loaded by a read leaves the dirty
   bit clear (`pagetable.h:14`: "set if modified"); the eviction that follows
   drops the store and is counted clean.
2. `opt.c:129`: the second loop of `opt_init` reads a file already at its end, so
   the trace is never known, and `opt_ref` looks for frame numbers in it; the
   victim is not the optimal one (`opt.c:28`).
3. `mymemory_opt.c:234`: freeing a one-word block that does not touch the only
   free node fails an assertion (`mymemory_opt.c:195`).
4. `test_malloc.c:41`: two threads in `update_heap` make `max_heap` go back, and
   a good block is reported as an overflow, dropped, and later freed as `NULL`.
5. `ext2_rm.c:97`: removing one name frees the inode and blocks of a file that
   has others (`a3notes.txt:81`).

Others are part of a property that holds because it says exactly when:

* `HeadLostByBestFit`: in `cdf/mymemory_best_fit.c:197` the head test comes after
  `best_fit_node` has moved, so `head` stays on a block that was handed out
  (line 196: "if the best_fit_node is the head node, we don't care about
  best_fit_node_prev").
* `CrashesOnlyAfterFirstFailure`: `cdf/bestfit-malloc.c:43` keeps the answer of a
  failed `sbrk` in `first_node`; the request after it reads through it.
* `LsResolves`: where `/a/a` exists and `/a` has a larger inode than the root,
  `ext2_ls /a` lists `/a/a` (`ext2_ls.c:121`); and after an `ext2_mkdir /a` that was
  killed before it wrote the records of the directory, it does not end
  (`ext2_ls.c:134`).
* `OnlyTheNameGoes`: `ext2_rm` finds the record by the inode and not by the name, so of two
  names of a file in one directory the first goes, whichever was given (`ext2_rm.c:269`).
* `PrintsFirstReferences`: `fastslim.py` marks the item it drops (line 81) and
  never prints its last window.
* `ThreadsEnd`: `rendezvous.c` may hang if the compiler reads the plain `int` once.

`RemovalExact` describes one more: `dir_entry_update` of `ext2_rm` counts the removed record twice and
copies the last record twice. Removing a record of twelve bytes before a last
one with a name of five to seven characters replaces the inode of the last one by
letters of its name; and where the last record is no longer than the removed one
before it, the record in front of both is overwritten.

Noted on the way, without a statement to hold against them: `myfree`
accepts a second free of a block that has become a free node at its own address,
where the magic number survives; a free node below the head is never joined to
it; a size above the last multiple of eight wraps to one word; the hand of the
clock stays on the frame it chose; `ext2_ln` counts links in the parent
directory; `ext2_cp` into a directory does not look the name up there; it writes the
numbers of blocks past `i_block`, from 22 blocks of data on into the next inode;
`ext2_rm` on a file with two names in a block of which the second is last removes neither
and writes before the block.

## What is not modelled

* A2: the two-level index and its unmasked shift, the
  options of `main` (without `-s` or `-m` their values are unset or zero),
  `lru_v2.c` (not built), the programs that are traced and the scripts, printing.
* A1: the placeholder and system allocators, `tt.c`, trace generation, parsing
  and timing.
* A3: `readimage` (it prints), the buffer of `ext2_ls` for its path (nine bytes on
  a 64-bit build: longer paths are undefined), the earlier `ext2_mkdir` in
  `buffer/`, scratch programs, error messages, `lost+found`.
* What the tools do to an image with a directory half made, a file severed or
  after an undefined value: the model stops there.

## Plan

The order was: the page table and its proofs, because everything else in A2
stands on them; the replacement algorithms; the allocators and their contract;
the driver over the contract; the image tools; the directory block; then the swap
bitmap, the one-list allocator, the demonstrations, the trace reduction and
`ext2_ls`. What is to follow, in this order:

1. The two-level index of the page table, with the pages that share a directory
   entry.
2. `Ext2Tools` with `lost+found`, `.` and `..` in paths, and a kill inside the
   functions that write more than one structure.
