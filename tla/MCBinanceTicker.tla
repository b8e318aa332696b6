---------------------------- MODULE MCBinanceTicker ----------------------------
(* Instances of BinanceTicker for TLC. *)
EXTENDS BinanceTicker

\* At once; one page that fails to the end, three times 10 s and 3 s of waiting; four
\* pages that each need all of that.
PageTimes == {0, 33, 132}

\* At once, a whole period, and more than two of them.
SlowDatabase == {0, 300, 700}
================================================================================
