-------------------------------- MODULE Pipe --------------------------------
(***************************************************************************)
(* The ring of a pipe (pipe.c of Project3): PIPESIZE bytes, and two        *)
(* unsigned counters of the bytes read and written that wrap around at     *)
(* WRAP (2^32 in the code) and whose remainder is the place in the ring.   *)
(***************************************************************************)
EXTENDS Integers, Sequences

CONSTANTS PIPESIZE,   \* bytes of the ring (512)
          WRAP,       \* values of a counter
          Byte, Blank \* what a byte may be, and what fresh memory holds

ASSUME PipeAssumption ==
    /\ PIPESIZE \in Nat \ {0}
    /\ WRAP \in Nat /\ WRAP > PIPESIZE /\ WRAP % PIPESIZE = 0
    /\ Blank \in Byte

Ring == [data : [0 .. PIPESIZE - 1 -> Byte], nread : 0 .. WRAP - 1,
         nwrite : 0 .. WRAP - 1]

NewRing == [data |-> [k \in 0 .. PIPESIZE - 1 |-> Blank], nread |-> 0, nwrite |-> 0]

\* An unsigned sum of a counter and at most WRAP.
Plus(c, n) == IF c + n >= WRAP THEN c + n - WRAP ELSE c + n

IsEmpty(r) == r.nread = r.nwrite
IsFull(r)  == r.nwrite = Plus(r.nread, PIPESIZE)

\* A mutant of PutByte: the counter moves before the byte is stored.
PutByteAfter(r, c) ==
    [r EXCEPT !.data[Plus(r.nwrite, 1) % PIPESIZE] = c, !.nwrite = Plus(r.nwrite, 1)]

\* One turn of the loops of pipewrite() and piperead().
PutByte(r, c) ==
    [r EXCEPT !.data[r.nwrite % PIPESIZE] = c, !.nwrite = Plus(r.nwrite, 1)]

NextByte(r) == r.data[r.nread % PIPESIZE]

DropByte(r) == [r EXCEPT !.nread = Plus(r.nread, 1)]

\* As many turns as there are bytes; as many turns as are asked for.
PutBytes(r, bs) ==
    LET ring[k \in 0 .. Len(bs)] == IF k = 0 THEN r ELSE PutByte(ring[k - 1], bs[k])
    IN  ring[Len(bs)]

DropBytes(r, n) ==
    LET ring[k \in 0 .. n] == IF k = 0 THEN r ELSE DropByte(ring[k - 1])
    IN  ring[n]

\* How many bytes are in the ring, and which.
Steps(a, b) == IF b >= a THEN b - a ELSE b - a + WRAP

Used(r) == Steps(r.nread, r.nwrite)

Bytes(r) ==
    [i \in 1 .. Used(r) |-> r.data[Plus(r.nread, i - 1) % PIPESIZE]]

\* A ring the code can produce: never more bytes than it has room for.
Valid(r) == r \in Ring /\ Used(r) <= PIPESIZE
=============================================================================
