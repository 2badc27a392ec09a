---------------------------- MODULE MCStreaming -----------------------------
(***************************************************************************)
(* Values for Streaming: 99-31+ and 99-317, whose mid is half a tick, on   *)
(* every prices.txt of MaxLines lines or less.  The services do not tell   *)
(* one product from another, so the first line may be about a given one.   *)
(***************************************************************************)
EXTENDS Streaming

MCWirePrices ==
  {[whole |-> 99, xy |-> 31, z |-> PLUS], [whole |-> 99, xy |-> 31, z |-> 7]}

MCPricesFiles ==
  LET Files == UNION {[1 .. n -> PriceLine \cup {Unreadable}] : n \in 0 .. MaxLines}
      first == CHOOSE p \in Products : TRUE
  IN  {f \in Files : f # <<>> /\ f[1] # Unreadable => f[1].product = first}

=============================================================================
