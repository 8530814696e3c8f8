------------------------------ MODULE MempoolMC ------------------------------
EXTENDS MempoolGossip

CONSTANTS t1, t2, p, rpc

(* One transaction is submitted to this node, the other comes from the peer. *)
SomeOffers == {<<t1, rpc>>, <<t2, p>>}
=============================================================================
