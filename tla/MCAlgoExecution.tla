-------------------------- MODULE MCAlgoExecution ---------------------------
(***************************************************************************)
(* Values for AlgoExecution.  A quote nobody assigned may cross anything   *)
(* or nothing.  No definition tells one known product from another, so     *)
(* they are symmetric.                                                     *)
(***************************************************************************)
EXTENDS AlgoExecution, TLC

MCIndeterminate ==
  {[price |-> 0, quantity |-> 0, side |-> BID],
   [price |-> 9, quantity |-> 0, side |-> BID]}

ProductSymmetry == Permutations(KnownCusips)

Plain(line) == line.cusip \in KnownCusips /\ line.quantity = 10

OneProduct == \A i, j \in DOMAIN feed : feed[i].cusip = feed[j].cusip

(***************************************************************************)
(* Bound on the feeds: a second window is closed on feeds of plain lines,  *)
(* a third on those that are about one product.                            *)
(***************************************************************************)
FeedBound ==
  \/ Len(feed) <= 3
  \/ (\A i \in DOMAIN feed : Plain(feed[i])) /\ (Len(feed) <= 4 \/ OneProduct)

=============================================================================
