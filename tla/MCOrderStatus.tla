--------------------------- MODULE MCOrderStatus ---------------------------
EXTENDS OrderStatusProps, TLC

Symmetric == Permutations(Processes)
=============================================================================
