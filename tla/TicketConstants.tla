---------------------------- MODULE TicketConstants ----------------------------
(***************************************************************************)
(* What the promise about tickets and its implementation are both          *)
(* parameterised by.                                                       *)
(***************************************************************************)
EXTENDS Integers, FiniteSets

CONSTANTS Events, Customers,
          Keys,           \* idempotency keys
          NoKey,          \* the request carries no Idempotency-Key header
          Capacities,     \* the capacities an organizer may choose
          MaxQuantity     \* the most tickets one booking may hold (10 in the code)

ASSUME CapacitiesPositive == Capacities \subseteq Nat \ {0}
ASSUME MaxQuantityPositive == MaxQuantity \in Nat \ {0}
ASSUME NoKeyIsNoKey == NoKey \notin Keys

Quantities == 1..MaxQuantity

\* What a booking is for, the validated body, the Idempotency-Key header and
\* the token's user: fixed when the request is made, never changed.
Orders == [event: Events, quantity: Quantities,
           customer: Customers, key: Keys \cup {NoKey}]
================================================================================
