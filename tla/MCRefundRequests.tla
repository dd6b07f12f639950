-------------------------- MODULE MCRefundRequests --------------------------
EXTENDS RefundRequestsProps, TLC

Symmetric == Permutations(Processes)
=============================================================================
