---------------------------- MODULE MCWorkOrders ----------------------------
EXTENDS WorkOrdersProps, TLC

Row(order, status, number) ==
  [order |-> order, status |-> status, number |-> number, uses |-> [s \in Supplies |-> 1]]

\* Two work orders in the workshop, of two orders; the third is to be created.
Workshop == (1 :> Row("a", "IN_PRODUCTION", 1)) @@ (2 :> Row("b", "READY", 2)) @@ (3 :> None)

OneOfEach == [s \in Supplies |-> 1]
Symmetric == Permutations(Processes) \cup Permutations(Supplies)
=============================================================================
