-------------------------- MODULE MCLoadBalancer --------------------------
(* Small instances of LoadBalancer; conversations are interchangeable. *)
EXTENDS LoadBalancer, TLC

Conversations == Permutations(Request)

=============================================================================
