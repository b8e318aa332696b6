---------------------------- MODULE MCConsolidation ----------------------------
(* Instances of Consolidation for TLC. *)
EXTENDS Consolidation

TwoCurrencies == <<"usdt", "usdt_compra">>
OneCurrency == <<"usdt">>
================================================================================
