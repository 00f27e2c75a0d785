----------------------------- MODULE BlockPath -----------------------------
(***************************************************************************)
(* Where the address of a block of a file is kept (Project 3, fs.c:373):   *)
(* in the inode, or in a table one, two or three levels below it.          *)
(***************************************************************************)
EXTENDS Integers

CONSTANTS
  NDIRECT,   \* addresses in the inode
  NINDIRECT  \* addresses in a table, and words in a block

ASSUME PathAssumption == /\ NDIRECT \in Nat \ {0}
                         /\ NINDIRECT \in Nat \ {0}

DOUBLE  == NINDIRECT * NINDIRECT
TRIPLE  == DOUBLE * NINDIRECT
MAXFILE == NDIRECT + NINDIRECT + DOUBLE + TRIPLE

\* The index of the first level taken again at the second.
PathRepeated(bn) ==
  LET single == bn - NDIRECT
      triple == single - NINDIRECT - DOUBLE
  IN  CASE bn < NDIRECT       -> <<bn>>
        [] single \in 0..(NINDIRECT - 1) -> <<NDIRECT, single>>
        [] triple \in (0 - DOUBLE)..-1 ->
             <<NDIRECT + 1, (triple + DOUBLE) \div NINDIRECT,
               (triple + DOUBLE) % NINDIRECT>>
        [] OTHER -> <<NDIRECT + 2, triple \div DOUBLE, triple \div DOUBLE,
                      triple % NINDIRECT>>

\* The index of block bn of a file in the inode and in each table on the way.
PathOf(bn) ==
  LET single == bn - NDIRECT
      double == single - NINDIRECT
      triple == double - DOUBLE
      pair   == triple % DOUBLE
  IN  CASE bn < NDIRECT       -> <<bn>>
        [] single \in 0..(NINDIRECT - 1) -> <<NDIRECT, single>>
        [] double \in 0..(DOUBLE - 1) ->
             <<NDIRECT + 1, double \div NINDIRECT, double % NINDIRECT>>
        [] triple >= 0 ->
             <<NDIRECT + 2, triple \div DOUBLE, pair \div NINDIRECT,
               pair % NINDIRECT>>
=============================================================================
