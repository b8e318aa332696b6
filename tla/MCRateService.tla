---------------------------- MODULE MCRateService ----------------------------
(* Instances of RateService for TLC. *)
EXTENDS RateService, TLC

CONSTANTS v1, v2

\* BCV, with the two currencies it persists one after the other.
BcvJob == {"BCV"}
BcvApplies == [p \in BcvJob |-> <<"usd_bcv", "eur_bcv">>]
BcvThreshold == [p \in BcvJob |-> 1]
None == {}

\* The job that is consolidated every night, with two of its currencies.
UsdtJob == {"USDT"}
UsdtApplies == [p \in UsdtJob |-> <<"usdt", "usdt_compra">>]
UsdtThreshold == [p \in UsdtJob |-> 1]
Usdt == {"usdt", "usdt_compra"}

\* Both jobs, one with two currencies.
BothJobs == {"BCV", "USDT"}
BothApplies == [p \in BothJobs |-> IF p = "BCV" THEN <<"usd_bcv", "eur_bcv">> ELSE <<"usdt">>]
BothThreshold == [p \in BothJobs |-> 1]

Symmetry == Permutations(Value)
================================================================================
