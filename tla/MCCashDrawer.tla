---------------------------- MODULE MCCashDrawer ----------------------------
EXTENDS CashDrawerProps, TLC

\* Every register belongs to the one sede of the instance.
OneLocation == [r \in Registers |-> CHOOSE l \in Locations : TRUE]
Symmetric == Permutations(Requests)
=============================================================================
