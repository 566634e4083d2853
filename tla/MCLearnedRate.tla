--------------------------- MODULE MCLearnedRate ---------------------------
(* Values for LearnedRate: the rate unit is 0.25 requests per second.       *)
EXTENDS LearnedRate

CONSTANTS a, b, \* limiters
          Service \* the key of the vendor table that names the service called

\* Configured above what the vendor documents; and below AIMD_MIN_RATE_RPS.
Caps == [l \in Limiters |-> IF l = a THEN 10 ELSE 1]

\* One limiter that owns its namespace; two that share it; two whose writes may fail.
MCSetups ==
  {[cap |-> Caps, built |-> {a}, refuses |-> FALSE],
   [cap |-> Caps, built |-> {a, b}, refuses |-> FALSE],
   [cap |-> Caps, built |-> {a, b}, refuses |-> TRUE]}

VendorTable == [n \in {Service} |-> 8]

=============================================================================
