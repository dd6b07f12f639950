------------------------- MODULE MCProductionOrders -------------------------
EXTENDS ProductionOrdersProps, TLC

Recipe(component, order, phase) == [component |-> component, order |-> order, phase |-> phase]

\* Two steps of printing and one of material in parallel, then armado, then despacho.
Notebook == <<Recipe(1, 1, "impresion"), Recipe(1, 2, "impresion"), Recipe(2, 1, "material"),
              Recipe(3, 1, "armado"), Recipe(4, 1, "despacho")>>

\* A piece that is printed in two steps and sent, with nothing to assemble.
Leaflet == <<Recipe(1, 1, "impresion"), Recipe(1, 2, "impresion"), Recipe(2, 1, "despacho")>>

\* A component whose first two steps have the same order.
Repeated == <<Recipe(1, 1, "impresion"), Recipe(1, 1, "impresion"), Recipe(1, 2, "impresion")>>

Symmetric == Permutations(Processes)
=============================================================================
