----------------------------- MODULE MCBackoff -----------------------------
(* Instances of Backoff for TLC: a Duration of 10 bits, the defaults 3 and *)
(* 60 for 100 ms and 30 s.                                                 *)
EXTENDS Backoff

B(lo, hi, n, d, j) == [min |-> lo, max |-> hi, num |-> n, den |-> d, jitter |-> j]

(* Default and given bounds, Min above Max, factors from 1/2 to 3, and     *)
(* jitters from none to all, those out of range included.                  *)
MCPolicies ==
  {B(lo, hi, f[1], f[2], j) :
     lo \in {0, 5, 100}, hi \in {-1, 60, 500},
     f \in {<<0, 1>>, <<1, 1>>, <<1, 2>>, <<3, 2>>, <<3, 1>>},
     j \in {-1, 0, 1, 4, 7}}
=============================================================================
