------------------------------ MODULE BlockMap ------------------------------
(***************************************************************************)
(* The blocks of a file (Project 3, fs.c): balloc, bfree, bmap with its    *)
(* three levels of tables, itrunc, readi and writei.  Each of the four     *)
(* calls runs with the inode locked and inside a transaction, so it is one *)
(* step here; module Inodes has the locks and module Log the transaction.  *)
(*                                                                         *)
(* A block is a row of words, read as table entries or as data.  The only  *)
(* abstraction is that a word, and not a byte, is the unit of an offset,   *)
(* so that NINDIRECT is also the size of a block.                          *)
(***************************************************************************)
EXTENDS BlockPath, Sequences, FiniteSets, SequencesExt, FiniteSetsExt

CONSTANTS
  File,      \* the files
  SIZE,      \* sb.size: blocks of the disk
  META,      \* blocks mkfs marks as in use: the log, the inodes, the bitmap
  Word(_, _), \* Word(f, o): what is written at offset o of file f, never 0
  MaxSize,   \* MaxSize[f]: bound on the size of f in a run
  Counts(_), \* Counts(f): the numbers of words a run's calls ask for
  MaxTruncs  \* bound on the truncations of a run

ASSUME LayoutAssumption == SIZE \in Nat /\ META \in 1..SIZE

VARIABLE fs
\* fs.disk[b]: the words of block b.  fs.bitmap: the blocks in use.
\* fs.dinode[f], fs.inode[f]: the inode on disk and in the cache.
\* fs.panicked: why the kernel stopped, "" while it runs.  fs.truncs: the
\* truncations so far, for the bound.

BSIZE   == NINDIRECT
Block   == 0..(SIZE - 1)

Zeroes     == [i \in 0..(NINDIRECT - 1) |-> 0]
EmptyInode == [addrs |-> [i \in 0..(NDIRECT + 2) |-> 0], size |-> 0]

Init == fs = [disk     |-> [b \in Block |-> Zeroes],
              bitmap   |-> 0..(META - 1),
              dinode   |-> [f \in File |-> EmptyInode],
              inode    |-> [f \in File |-> EmptyInode],
              panicked |-> "",
              truncs   |-> 0]

Panic(s, why) == [s EXCEPT !.panicked = IF @ = "" THEN why ELSE @]

Free(s) == Block \ s.bitmap

\* The first free block, zeroed.
Balloc(s) ==
  IF Free(s) = {} THEN [s |-> Panic(s, "balloc: out of blocks"), at |-> 0]
  ELSE LET b == Min(Free(s))
       IN  [s  |-> [s EXCEPT !.bitmap = @ \union {b}, !.disk[b] = Zeroes],
            at |-> b]

Bfree(s, b) == IF b \in s.bitmap THEN [s EXCEPT !.bitmap = @ \ {b}]
               ELSE Panic(s, "freeing free block")

\* An entry of the inode (at = 0) or of table at; a missing one is allocated.
Entry(s, f, at, i) == IF at = 0 THEN s.inode[f].addrs[i] ELSE s.disk[at][i]

Follow(f, r, i) ==
  LET addr == Entry(r.s, f, r.at, i)
      new  == Balloc(r.s)
  IN  CASE r.s.panicked # "" -> r
        [] addr # 0          -> [r EXCEPT !.at = addr]
        [] OTHER ->
             [s  |-> IF r.at = 0 THEN [new.s EXCEPT !.inode[f].addrs[i] = new.at]
                     ELSE [new.s EXCEPT !.disk[r.at][i] = new.at],
              at |-> new.at]

Bmap(s, f, bn) ==
  FoldLeft(LAMBDA r, i : Follow(f, r, i), [s |-> s, at |-> 0], PathOf(bn))

\* The pieces of [off, off + n), one per block it touches.
Touched(off, n) ==
  IF n = 0 THEN <<>>
  ELSE [i \in 1..((off + n - 1) \div BSIZE - off \div BSIZE + 1) |->
          off \div BSIZE + i - 1]
Part(off, n, bn) == {o \in off..(off + n - 1) : o \div BSIZE = bn}

Iupdate(s, f) == [s EXCEPT !.dinode[f] = s.inode[f]]

Readi(s, f, off, n) ==
  LET m     == Min({n, s.inode[f].size - off})
      Copy(r, bn) ==
        LET b == Bmap(r.s, f, bn)
        IN  [s |-> b.s,
             words |-> r.words \o [i \in 1..Cardinality(Part(off, m, bn)) |->
               b.s.disk[b.at][(Min(Part(off, m, bn)) + i - 1) % BSIZE]]]
  IN  IF off > s.inode[f].size THEN [s |-> s, words |-> <<-1>>]
      ELSE FoldLeft(Copy, [s |-> s, words |-> <<>>], Touched(off, m))

WriteBlock(s, f, off, n, bn) ==
  LET b == Bmap(s, f, bn)
  IN  IF b.s.panicked # "" THEN b.s
      ELSE [b.s EXCEPT !.disk[b.at] = [i \in DOMAIN @ |->
              IF bn * BSIZE + i \in Part(off, n, bn)
                THEN Word(f, bn * BSIZE + i) ELSE @[i]]]

Written(s, f, off, n) ==
  FoldLeft(LAMBDA r, bn : WriteBlock(r, f, off, n, bn), s, Touched(off, n))

Writei(s, f, off, n) ==
  LET r == Written(s, f, off, n)
  IN  CASE off > s.inode[f].size \/ off + n > MAXFILE * BSIZE -> s
        [] r.panicked # "" -> r
        [] n > 0 /\ off + n > r.inode[f].size ->
             Iupdate([r EXCEPT !.inode[f].size = off + n], f)
        [] OTHER -> r

\* What itrunc frees, in its order: the entries of a table, then the table.
Entries(s, b)   == SelectSeq([i \in 1..NINDIRECT |-> s.disk[b][i - 1]],
                             LAMBDA a : a # 0)
TableOf(s, b)   == Entries(s, b) \o <<b>>
\* The double level without its last bfree.
DoubleKeepsTable(s, b) ==
  FoldLeft(LAMBDA q, c : q \o TableOf(s, c), <<>>, Entries(s, b))
DoubleOf(s, b) ==
  FoldLeft(LAMBDA q, c : q \o TableOf(s, c), <<>>, Entries(s, b)) \o <<b>>
TripleOf(s, b) ==
  FoldLeft(LAMBDA q, c : q \o DoubleOf(s, c), <<>>, Entries(s, b)) \o <<b>>

BlocksOf(s, f) ==
  LET addrs == s.inode[f].addrs
      Under(Tree(_, _), i) == IF addrs[i] = 0 THEN <<>> ELSE Tree(s, addrs[i])
  IN  SelectSeq([i \in 1..NDIRECT |-> addrs[i - 1]], LAMBDA a : a # 0)
        \o Under(TableOf, NDIRECT) \o Under(DoubleOf, NDIRECT + 1)
        \o Under(TripleOf, NDIRECT + 2)

Itrunc(s, f) ==
  Iupdate([FoldLeft(Bfree, s, BlocksOf(s, f)) EXCEPT !.inode[f] = EmptyInode], f)

-----------------------------------------------------------------------------

Running == fs.panicked = ""

\* The offsets of a run: the start, the end and one too far.
Offsets(f) == {0, fs.inode[f].size, fs.inode[f].size + 1}

Write(f) ==
  /\ Running
  /\ \E off \in Offsets(f), n \in Counts(f) :
       /\ off + n <= MaxSize[f]
       /\ fs' = Writei(fs, f, off, n)

Read(f) ==
  /\ Running
  /\ \E off \in Offsets(f), n \in Counts(f) : fs' = Readi(fs, f, off, n).s

Truncate(f) ==
  /\ Running
  /\ fs.truncs < MaxTruncs
  /\ fs' = [Itrunc(fs, f) EXCEPT !.truncs = @ + 1]

\* The inode leaves the cache, and ilock() reads it from the disk again.
Ilock(f) == Running /\ fs' = [fs EXCEPT !.inode[f] = fs.dinode[f]]

Next == \E f \in File : Write(f) \/ Read(f) \/ Truncate(f) \/ Ilock(f)

Spec == Init /\ [][Next]_fs

-----------------------------------------------------------------------------

\* readi() returns what was last written at each offset, wherever the bytes lie
\* and however many levels of tables lead to them, no more of them than the file
\* has, and allocates nothing (bmap allocates a block that it does not find).
ReadiIsRight ==
  Running =>
    \A f \in File : \A off \in 0..fs.inode[f].size :
      \A n \in {1, fs.inode[f].size} :
        LET r == Readi(fs, f, off, n)
        IN  /\ r.s = fs
            /\ Len(r.words) = Min({n, fs.inode[f].size - off})
            /\ \A i \in DOMAIN r.words : r.words[i] = Word(f, off + i - 1)

\* The places that hold an address of file f: the ends of the paths to its
\* blocks and to the tables on the way.
PlacesOf(f) ==
  UNION {LET p == PathOf(bn) IN {SubSeq(p, 1, k) : k \in 1..Len(p)} :
         bn \in 0..((fs.dinode[f].size + BSIZE - 1) \div BSIZE - 1)}
AddressAt(f, p) ==
  FoldLeft(LAMBDA at, i : fs.disk[at][i], fs.dinode[f].addrs[p[1]], Tail(p))

\* A block is in use exactly when one place of one file, reached from the inode
\* on the disk, holds its address: writei() shares no block between two files or
\* two offsets, itrunc() loses none of any level and frees none twice, and
\* bmap() leaves no address in the cached inode only.  So balloc() panics only
\* when the files fill the disk, and bfree() never does.
BlocksAreAccounted ==
  LET held == UNION {{<<f, p>> : p \in PlacesOf(f)} : f \in File}
  IN  /\ fs.panicked \in {"", "balloc: out of blocks"}
      /\ Running => /\ fs.bitmap = 0..(META - 1)
                           \union {AddressAt(h[1], h[2]) : h \in held}
                    /\ Cardinality(fs.bitmap) = META + Cardinality(held)
=============================================================================
