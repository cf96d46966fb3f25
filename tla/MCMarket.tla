------------------------------- MODULE MCMarket --------------------------------
(* Instances of Market for TLC: the array of workers. *)
EXTENDS Market

CONSTANTS w1, w2

TwoWorkers == <<w1, w2>>

================================================================================
