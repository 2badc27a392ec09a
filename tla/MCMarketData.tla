---------------------------- MODULE MCMarketData ----------------------------
(***************************************************************************)
(* Values for MarketData: one identifier bondCreatorMap does not know.     *)
(***************************************************************************)
EXTENDS MarketData

MCIndeterminate == {[price |-> 0, quantity |-> 0, side |-> BID]}

=============================================================================
