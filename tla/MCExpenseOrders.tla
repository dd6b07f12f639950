-------------------------- MODULE MCExpenseOrders --------------------------
EXTENDS ExpenseOrdersProps, TLC

Symmetric == Permutations(Processes)
=============================================================================
