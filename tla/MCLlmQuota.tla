----------------------------- MODULE MCLlmQuota -----------------------------
(* Values for LlmQuota: two requests and four tokens fill the buckets.      *)
EXTENDS LlmQuota

BucketSizes == [b \in Buckets |-> 4]
Flow        == [b \in Buckets |-> IF b = "requests" THEN 1 ELSE 2]

=============================================================================
