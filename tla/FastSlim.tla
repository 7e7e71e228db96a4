------------------------------ MODULE FastSlim ------------------------------
(***************************************************************************)
(* traceprogs/fastslim.py, which reduces a trace for the simulator.  It    *)
(* keeps a buffer of the pages seen since the last output; when a page     *)
(* comes that the full buffer does not hold, what is waiting is printed    *)
(* and the buffer is emptied.  A line is one step.                         *)
(***************************************************************************)
EXTENDS Integers, Sequences, FiniteSets, SequencesExt

CONSTANTS
  Page,          \* the pages of the trace
  BufferSizes,   \* what option -b may give
  MaxRefs        \* bound: the lines of the trace that are not skipped

ASSUME PageAssumption == IsFiniteSet(Page)
ASSUME BufferSizesAssumption == BufferSizes \subseteq Nat
ASSUME MaxRefsAssumption == MaxRefs \in Nat

VARIABLES
  buffersize, keepcode,   \* the options
  tracebuffer,            \* the items in the buffer: equal if of one page
  toprint,                \* those to be printed when the buffer is full
  ts,                     \* the number of the line, of those not skipped
  output,                 \* history: the pages printed
  kept                    \* history: the pages of the lines not skipped

slimvars == <<buffersize, keepcode, tracebuffer, toprint, ts, output, kept>>

SlimInit ==
  /\ buffersize \in BufferSizes /\ keepcode \in BOOLEAN
  /\ tracebuffer = {} /\ toprint = <<>> /\ ts = 0
  /\ output = <<>> /\ kept = <<>>

TraceItem(p) == [pg |-> p, tstamp |-> ts, marked |-> FALSE]
Buffered(p) == \E ti \in tracebuffer : ti.pg = p

\* emit_marked_in_ts_order: what waits and what is marked in the buffer, by
\* stamps, which differ.
Sorted(items) ==
  LET before(ti) == {b \in items : b.tstamp < ti.tstamp}
  IN  [i \in 1 .. Cardinality(items) |->
         CHOOSE ti \in items : Cardinality(before(ti)) = i - 1]

BadEmitted == [i \in 1 .. Len(toprint) |-> toprint[Len(toprint) + 1 - i].pg]
Emitted ==
  LET items == ToSet(toprint) \cup {ti \in tracebuffer : ti.marked}
  IN  [i \in 1 .. Cardinality(items) |-> Sorted(items)[i].pg]

\* Code pages are left out unless -k is given.
SkipsLine(type) ==
  /\ type = "I" /\ ~keepcode
  /\ UNCHANGED slimvars

ReadsRef(p) ==
  /\ ts < MaxRefs
  /\ ts' = ts + 1
  /\ kept' = Append(kept, p)
  /\ UNCHANGED <<buffersize, keepcode>>

\* The page is in the buffer.  The item that is marked, and stamped with the
\* number of this line, is the new one, and it is dropped: those in the buffer
\* never are.
SeenAgain(p) ==
  /\ Buffered(p)
  /\ ReadsRef(p)
  /\ UNCHANGED <<tracebuffer, toprint, output>>

BadFull == Cardinality(tracebuffer) > buffersize
Full == Cardinality(tracebuffer) = buffersize

\* The page is not: a full buffer is printed and emptied first.
SeenFirst(p) ==
  /\ ~Buffered(p)
  /\ ReadsRef(p)
  /\ IF Full
     THEN /\ output' = output \o Emitted
          /\ tracebuffer' = {TraceItem(p)}
          /\ toprint' = <<TraceItem(p)>>
     ELSE /\ tracebuffer' = tracebuffer \cup {TraceItem(p)}
          /\ toprint' = Append(toprint, TraceItem(p))
          /\ UNCHANGED output

\* The trace may end anywhere, and what is waiting is never printed.
EndOfTrace == UNCHANGED slimvars

SlimNext ==
  \/ \E type \in {"I", "L"} :
       \/ SkipsLine(type)
       \/ (type = "I" => keepcode) /\ \E p \in Page : SeenAgain(p) \/ SeenFirst(p)
  \/ EndOfTrace

SlimSpec == SlimInit /\ [][SlimNext]_slimvars

----------------------------------------------------------------------------
(* What a reduction is, of the references kept                             *)

\* What a step, from x on, makes of the elements of a sequence.
Folded(step, x, seq) ==
  LET upTo[n \in 0 .. Len(seq)] == IF n = 0 THEN x ELSE step[upTo[n - 1]][seq[n]]
  IN  upTo[Len(seq)]

Refs == Seq(Page)

\* The references in windows, each as long as it can be with buffersize pages.
Begins(windows, p) ==
  \/ windows = <<>>
  \/ /\ p \notin ToSet(Last(windows))
     /\ Cardinality(ToSet(Last(windows))) = buffersize
Extended ==
  [windows \in Seq(Refs) |-> [p \in Page |->
     IF Begins(windows, p) THEN Append(windows, <<p>>)
     ELSE Append(Front(windows), Append(Last(windows), p))]]
Windows == Folded(Extended, <<>>, kept)

\* The windows that are over, and their pages: by their first references, by
\* their last ones, and with all of them.
Over == IF Windows = <<>> THEN <<>> ELSE Front(Windows)

Added ==
  [seq \in Refs |-> [p \in Page |-> IF Contains(seq, p) THEN seq ELSE Append(seq, p)]]
ToLast == [seq \in Refs |-> [p \in Page |-> Append(RemoveFirst(seq, p), p)]]
FirstRefs(window) == Folded(Added, <<>>, window)
LastRefs(window) == Folded(ToLast, <<>>, window)
FirstsIn(windows) == FlattenSeq([i \in DOMAIN windows |-> FirstRefs(windows[i])])
LastsIn(windows) == FlattenSeq([i \in DOMAIN windows |-> LastRefs(windows[i])])
Firsts == FirstsIn(Over)
Lasts == LastsIn(Over)
Whole == FlattenSeq(Over)

\* The misses of an LRU memory of m frames, its least recent page first.
Lru(m) ==
  [mem \in [pages : Refs, misses : Nat] |-> [p \in Page |->
     LET hit == Contains(mem.pages, p)
         rest == IF hit THEN RemoveFirst(mem.pages, p)
                 ELSE IF Len(mem.pages) = m THEN Tail(mem.pages)
                 ELSE mem.pages
     IN  [pages |-> Append(rest, p), misses |-> mem.misses + (IF hit THEN 0 ELSE 1)]]]
LruMisses(refs, m) == Folded(Lru(m), [pages |-> <<>>, misses |-> 0], refs).misses

----------------------------------------------------------------------------
(* Properties                                                              *)

\* "Reduced trace according to the Fastslim-Demand algorithm", which prints
\* first and last references: the code prints the first ones of each window,
\* in their order, of those that are over.  (With -b 0 the first window never
\* is.)
PrintsFirstReferences == output = Firsts

\* What a reduction is for: an LRU memory at least as large as the buffer
\* misses as often as on the whole trace.  It does here if the pages of each
\* window are last referenced in the order they were first.
LruMissesKept ==
  Firsts = Lasts =>
    \A m \in buffersize .. Cardinality(Page) :
      m > 0 => LruMisses(output, m) = LruMisses(Whole, m)
=============================================================================
