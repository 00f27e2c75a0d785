----------------------------- MODULE MCBlockMap -----------------------------
\* Two files on a small disk: f1 may fill all three levels of tables.
EXTENDS BlockMap, TLC

CONSTANTS f1, f2
MCWord(f, o) == (IF f = f1 THEN 100 ELSE 200) + o
MCCounts(f)  == IF f = f1 THEN {5} ELSE {0, 2}
MCMaxSize    == f1 :> MAXFILE * BSIZE + 1 @@ f2 :> 4
=============================================================================
