----------------------------- MODULE StatusTable -----------------------------
(***************************************************************************)
(* The statuses of an order and the transition tables of                   *)
(* backend/src/modules/orders/order-status-transitions.ts.                 *)
(***************************************************************************)

OrderStatuses == {"DRAFT", "CONFIRMED", "IN_PRODUCTION", "READY", "PAID", "DELIVERED",
                "DELIVERED_ON_CREDIT", "WARRANTY", "RETURNED", "ANULADO"}

AllowedTransitions(s) ==
  CASE s = "DRAFT"               -> {"CONFIRMED", "ANULADO"}
    [] s = "CONFIRMED"           -> {"IN_PRODUCTION", "ANULADO"}
    [] s = "IN_PRODUCTION"       -> {"READY", "ANULADO"}
    [] s = "READY"               -> {"PAID", "DELIVERED_ON_CREDIT", "ANULADO"}
    [] s = "PAID"                -> {"DELIVERED"}
    [] s = "DELIVERED"           -> {"WARRANTY"}
    [] s = "DELIVERED_ON_CREDIT" -> {"WARRANTY", "ANULADO"}
    [] s = "WARRANTY"            -> {"DELIVERED"}
    [] OTHER                     -> {}

IsValidTransition(from, to) == to \in AllowedTransitions(from)

IsBackwardTransition(from, to) ==
  <<from, to>> \in {<<"IN_PRODUCTION", "CONFIRMED">>, <<"READY", "IN_PRODUCTION">>,
                    <<"PAID", "READY">>}

\* What a user who is not an administrator needs an approved request for,
\* whatever the status of the order.
AlwaysAuthorized == {"DELIVERED_ON_CREDIT", "ANULADO"}
=============================================================================
