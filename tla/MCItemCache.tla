----------------------------- MODULE MCItemCache -----------------------------
(* Two threads on two listings; a third thread repeats one of the two.     *)
EXTENDS ItemCache

CONSTANTS t1, t2, l1, l2

MCThreads == {t1, t2}
MCListings == {l1, l2}
=============================================================================
