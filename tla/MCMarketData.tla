---------------------------- MODULE MCMarketData ----------------------------
(* Instances of the market-data service for model checking.                *)
EXTENDS MarketData

CONSTANTS t1, t2, i1, i2

ThreeIds == 0..2
TunedTiers == {"account", "group", "instrument"}
Short == {2}
Ages == {1}

=============================================================================
