------------------------- MODULE TicketInventory_proofs -------------------------
(***************************************************************************)
(* Proofs about TicketInventory, for every set of events, bookings and     *)
(* keys, every capacity and every bound on a booking's tickets.            *)
(***************************************************************************)
EXTENDS TicketInventory, FiniteSetTheorems, TLAPS

(***************************************************************************)
(* Counting tickets                                                        *)
(***************************************************************************)

\* The tickets of a booking are as many as its quantity.
LEMMA TicketsCount ==
    ASSUME TypeOK, NEW b \in Bookings
    PROVE  /\ IsFiniteSet(Tickets(b))
           /\ Cardinality(Tickets(b)) = order[b].quantity
<1> DEFINE q == order[b].quantity
<1>1. q \in Nat /\ q >= 1
  BY MaxQuantityPositive DEF TypeOK, Orders, Quantities
<1>2. IsFiniteSet(1..q) /\ Cardinality(1..q) = q
  <2> HIDE DEF q
  <2>1. q \in Int /\ 1 \in Int /\ ~(1 > q) /\ q - 1 + 1 = q
    BY <1>1
  <2>2. /\ IsFiniteSet(1..q)
        /\ Cardinality(1..q) = IF 1 > q THEN 0 ELSE q - 1 + 1
    BY <2>1, FS_Interval, Zenon
  <2> QED
    BY <2>1, <2>2
<1>3. IsFiniteSet({b}) /\ Cardinality({b}) = 1
  BY FS_Singleton
<1>4. /\ IsFiniteSet({b} \X (1..q))
      /\ Cardinality({b} \X (1..q)) = 1 * q
  BY <1>2, <1>3, FS_Product
<1> QED
  BY <1>1, <1>4 DEF Tickets

\* However many bookings there may be, finitely many have been made.
FinitelyMade == IsFiniteSet({b \in Bookings : Exists(b)})

\* The sold tickets of an event are finitely many.
LEMMA SoldTicketsFinite ==
    ASSUME FinitelyMade, NEW e \in Events
    PROVE  /\ IsFiniteSet(SoldTickets(e))
           /\ Cardinality(SoldTickets(e)) \in Nat
<1>1. IsFiniteSet(Quantities)
  BY MaxQuantityPositive, FS_Interval DEF Quantities
<1> DEFINE made == {b \in Bookings : Exists(b)}
<1>2. IsFiniteSet(made \X Quantities)
  BY <1>1, FS_Product DEF FinitelyMade
<1>3. SoldTickets(e) \subseteq made \X Quantities
  BY DEF SoldTickets, Exists
<1> QED
  BY <1>2, <1>3, FS_Subset, FS_CardinalityType

\* The tickets of a booking are among the tickets a booking can hold.
LEMMA TicketsOfABooking ==
    ASSUME TypeOK, NEW b \in Bookings
    PROVE  Tickets(b) = {t \in Bookings \X Quantities :
                            t[1] = b /\ t[2] <= order[b].quantity}
<1> DEFINE q == order[b].quantity
<1>1. q \in 1..MaxQuantity /\ MaxQuantity \in Nat
  BY MaxQuantityPositive DEF TypeOK, Orders, Quantities
<1>2. \A i : i \in 1..q <=> i \in 1..MaxQuantity /\ i <= q
  BY <1>1
<1> QED
  BY <1>2 DEF Tickets, Quantities

(***************************************************************************)
(* What each step does to the sold tickets                                 *)
(***************************************************************************)

\* A booking adds its tickets to its event's and to no other's.
LEMMA BookSells ==
    ASSUME TypeOK, NEW b \in Bookings, Book(b), NEW e \in Events
    PROVE  /\ order[b].event = e => /\ SoldTickets(e)' = SoldTickets(e) \cup Tickets(b)
                                    /\ SoldTickets(e) \cap Tickets(b) = {}
           /\ order[b].event # e => SoldTickets(e)' = SoldTickets(e)
<1>1. /\ bookingStatus[b] = "NONE"
      /\ order' = order
      /\ \A a \in Bookings : bookingStatus'[a] = IF a = b THEN "CONFIRMED" ELSE bookingStatus[a]
  BY DEF Book, Exists, TypeOK
<1>2. SoldTickets(e)' = {t \in Bookings \X Quantities :
                            /\ t[1] = b \/ bookingStatus[t[1]] = "CONFIRMED"
                            /\ order[t[1]].event = e
                            /\ t[2] <= order[t[1]].quantity}
  BY <1>1 DEF SoldTickets
<1>3. Tickets(b) = {t \in Bookings \X Quantities : t[1] = b /\ t[2] <= order[b].quantity}
  BY TicketsOfABooking
<1> QED
  BY <1>1, <1>2, <1>3 DEF SoldTickets

\* A cancellation takes its booking's tickets from its event's and from no other's.
LEMMA CancelReturns ==
    ASSUME TypeOK, NEW b \in Bookings, Cancel(b), NEW e \in Events
    PROVE  /\ order[b].event = e => /\ SoldTickets(e)' = SoldTickets(e) \ Tickets(b)
                                    /\ Tickets(b) \subseteq SoldTickets(e)
           /\ order[b].event # e => SoldTickets(e)' = SoldTickets(e)
<1>1. /\ bookingStatus[b] = "CONFIRMED"
      /\ order' = order
      /\ \A a \in Bookings : bookingStatus'[a] = IF a = b THEN "CANCELLED" ELSE bookingStatus[a]
  BY DEF Cancel, TypeOK
<1>2. SoldTickets(e)' = {t \in Bookings \X Quantities :
                            /\ t[1] # b /\ bookingStatus[t[1]] = "CONFIRMED"
                            /\ order[t[1]].event = e
                            /\ t[2] <= order[t[1]].quantity}
  BY <1>1 DEF SoldTickets
<1>3. Tickets(b) = {t \in Bookings \X Quantities : t[1] = b /\ t[2] <= order[b].quantity}
  BY TicketsOfABooking
<1> QED
  BY <1>1, <1>2, <1>3 DEF SoldTickets

(***************************************************************************)
(* The inductive invariant: types, stock that never goes below zero, and   *)
(* the two promises.  Stock and sold tickets adding up to the capacity and *)
(* stock staying non-negative are what bounds the sold tickets.            *)
(***************************************************************************)
NonNegative == \A e \in Events : avail[e] >= 0

IInv == TypeOK /\ FinitelyMade /\ NonNegative /\ Conserved /\ OneBookingPerKey

\* With no event open and no booking made every conjunct holds.
LEMMA InitIInv == Init => IInv
<1> SUFFICES ASSUME Init PROVE IInv
  OBVIOUS
<1>1. TypeOK /\ NonNegative
  BY DEF Init, TypeOK, NonNegative, BookingStatuses
<1>2. Conserved
  <2> SUFFICES ASSUME NEW e \in Events PROVE avail[e] + Cardinality(SoldTickets(e)) = total[e]
    BY DEF Conserved
  <2>1. SoldTickets(e) = {}
    BY DEF SoldTickets, Init
  <2> QED
    BY <2>1, FS_EmptySet DEF Init
<1>3. OneBookingPerKey
  BY DEF Init, OneBookingPerKey, Exists
<1>4. FinitelyMade
  <2>1. {b \in Bookings : Exists(b)} = {}
    BY DEF Init, Exists
  <2> QED
    BY <2>1, FS_EmptySet DEF FinitelyMade
<1> QED
  BY <1>1, <1>2, <1>3, <1>4 DEF IInv

\* Each step keeps the types.
LEMMA StepTypeOK ==
    ASSUME TypeOK, [Next]_vars
    PROVE  TypeOK'
<1>1. ASSUME NEW e \in Events, Open(e) PROVE TypeOK'
  BY <1>1, CapacitiesPositive DEF TypeOK, Open
<1>2. ASSUME NEW b \in Bookings, Book(b) PROVE TypeOK'
  <2>1. order[b].event \in Events /\ order[b].quantity \in Int
    BY MaxQuantityPositive DEF TypeOK, Orders, Quantities
  <2> QED
    BY <1>2, <2>1 DEF TypeOK, Book, BookingStatuses
<1>3. ASSUME NEW b \in Bookings, Cancel(b) PROVE TypeOK'
  <2>1. order[b].event \in Events /\ order[b].quantity \in Int
    BY MaxQuantityPositive DEF TypeOK, Orders, Quantities
  <2> QED
    BY <1>3, <2>1 DEF TypeOK, Cancel, BookingStatuses
<1>4. CASE UNCHANGED vars
  BY <1>4 DEF vars, TypeOK
<1> QED
  BY <1>1, <1>2, <1>3, <1>4 DEF Next

\* Each step makes one booking or none.
LEMMA StepFinitelyMade ==
    ASSUME TypeOK, FinitelyMade, [Next]_vars
    PROVE  FinitelyMade'
<1> DEFINE made == {b \in Bookings : Exists(b)}
<1>1. ASSUME NEW e \in Events, Open(e) PROVE FinitelyMade'
  BY <1>1 DEF Open, FinitelyMade, Exists
<1>2. ASSUME NEW b \in Bookings, Book(b) PROVE FinitelyMade'
  <2>1. made' = made \cup {b}
    BY <1>2 DEF Book, TypeOK, Exists
  <2>2. IsFiniteSet(made \cup {b})
    BY FS_AddElement DEF FinitelyMade
  <2> QED
    BY <2>1, <2>2 DEF FinitelyMade
<1>3. ASSUME NEW b \in Bookings, Cancel(b) PROVE FinitelyMade'
  <2>1. made' = made
    BY <1>3 DEF Cancel, TypeOK, Exists
  <2> QED
    BY <2>1 DEF FinitelyMade
<1>4. CASE UNCHANGED vars
  BY <1>4 DEF vars, FinitelyMade, Exists
<1> QED
  BY <1>1, <1>2, <1>3, <1>4 DEF Next

\* Each step keeps stock non-negative.
LEMMA StepNonNegative ==
    ASSUME TypeOK, NonNegative, [Next]_vars
    PROVE  NonNegative'
<1>0. \A b \in Bookings : order[b].event \in Events /\ order[b].quantity \in Nat
  BY MaxQuantityPositive DEF TypeOK, Orders, Quantities
<1>1. ASSUME NEW e \in Events, Open(e) PROVE NonNegative'
  BY <1>1, CapacitiesPositive DEF TypeOK, NonNegative, Open
<1>2. ASSUME NEW b \in Bookings, Book(b) PROVE NonNegative'
  BY <1>0, <1>2 DEF TypeOK, NonNegative, Book
<1>3. ASSUME NEW b \in Bookings, Cancel(b) PROVE NonNegative'
  BY <1>0, <1>3 DEF TypeOK, NonNegative, Cancel
<1>4. CASE UNCHANGED vars
  BY <1>4 DEF vars, NonNegative
<1> QED
  BY <1>1, <1>2, <1>3, <1>4 DEF Next

\* Each step keeps stock and sold tickets adding up to the capacity.
LEMMA StepConserved ==
    ASSUME TypeOK, FinitelyMade, NonNegative, Conserved, [Next]_vars
    PROVE  Conserved'
<1> SUFFICES ASSUME NEW e \in Events
             PROVE  avail'[e] + Cardinality(SoldTickets(e)') = total'[e]
  BY DEF Conserved
<1>0. /\ avail[e] + Cardinality(SoldTickets(e)) = total[e]
      /\ avail[e] \in Int /\ avail[e] >= 0 /\ total[e] \in Nat
      /\ Cardinality(SoldTickets(e)) \in Nat
  BY SoldTicketsFinite DEF Conserved, TypeOK, NonNegative
<1>1. ASSUME NEW d \in Events, Open(d)
      PROVE  avail'[e] + Cardinality(SoldTickets(e)') = total'[e]
  <2>1. SoldTickets(e)' = SoldTickets(e)
    BY <1>1 DEF Open, SoldTickets
  <2>2. CASE e = d
    <3>1. total[e] = 0
      BY <1>1, <2>2 DEF Open
    <3>2. Cardinality(SoldTickets(e)) = 0
      BY <1>0, <3>1
    <3>3. \E c \in Nat : avail'[e] = c /\ total'[e] = c
      BY <1>1, <2>2, CapacitiesPositive DEF Open, TypeOK
    <3> QED
      BY <2>1, <3>2, <3>3
  <2>3. CASE e # d
    <3>1. avail'[e] = avail[e] /\ total'[e] = total[e]
      BY <1>1, <2>3 DEF Open, TypeOK
    <3> QED
      BY <1>0, <2>1, <3>1
  <2> QED
    BY <2>2, <2>3
<1>2. ASSUME NEW b \in Bookings, Book(b)
      PROVE  avail'[e] + Cardinality(SoldTickets(e)') = total'[e]
  <2> DEFINE q == order[b].quantity
  <2>1. /\ IsFiniteSet(Tickets(b)) /\ Cardinality(Tickets(b)) = q
        /\ q \in Nat /\ order[b].event \in Events
    BY TicketsCount, MaxQuantityPositive DEF TypeOK, Orders, Quantities
  <2>2. total' = total
    BY <1>2 DEF Book
  <2>3. CASE order[b].event = e
    <3>1. /\ SoldTickets(e)' = SoldTickets(e) \cup Tickets(b)
          /\ SoldTickets(e) \cap Tickets(b) = {}
      BY <1>2, <2>3, BookSells
    <3>2. Cardinality(SoldTickets(e)') = Cardinality(SoldTickets(e)) + q - 0
      BY <2>1, <3>1, SoldTicketsFinite, FS_Union, FS_EmptySet
    <3>3. avail'[e] = avail[e] - q
      BY <1>2, <2>3 DEF Book, TypeOK
    <3> HIDE DEF q
    <3> QED
      BY <1>0, <2>1, <2>2, <3>2, <3>3
  <2>4. CASE order[b].event # e
    <3>1. SoldTickets(e)' = SoldTickets(e)
      BY <1>2, <2>4, BookSells
    <3>2. avail'[e] = avail[e]
      BY <1>2, <2>1, <2>4 DEF Book, TypeOK
    <3> QED
      BY <1>0, <2>2, <3>1, <3>2
  <2> QED
    BY <2>3, <2>4
<1>3. ASSUME NEW b \in Bookings, Cancel(b)
      PROVE  avail'[e] + Cardinality(SoldTickets(e)') = total'[e]
  <2> DEFINE q == order[b].quantity
  <2>1. /\ IsFiniteSet(Tickets(b)) /\ Cardinality(Tickets(b)) = q
        /\ q \in Nat /\ order[b].event \in Events
    BY TicketsCount, MaxQuantityPositive DEF TypeOK, Orders, Quantities
  <2>2. total' = total
    BY <1>3 DEF Cancel
  <2>3. CASE order[b].event = e
    <3>1. /\ SoldTickets(e)' = SoldTickets(e) \ Tickets(b)
          /\ SoldTickets(e) \cap Tickets(b) = Tickets(b)
      BY <1>3, <2>3, CancelReturns
    <3>2. Cardinality(SoldTickets(e)') = Cardinality(SoldTickets(e)) - q
      <4>1. IsFiniteSet(SoldTickets(e))
        BY SoldTicketsFinite
      <4>2. Cardinality(SoldTickets(e) \ Tickets(b)) =
                Cardinality(SoldTickets(e)) - Cardinality(SoldTickets(e) \cap Tickets(b))
        BY <4>1, FS_Difference, Zenon
      <4> QED
        BY <2>1, <3>1, <4>2
    <3>3. avail'[e] = avail[e] + q
      BY <1>3, <2>3 DEF Cancel, TypeOK
    <3> HIDE DEF q
    <3> QED
      BY <1>0, <2>1, <2>2, <3>2, <3>3
  <2>4. CASE order[b].event # e
    <3>1. SoldTickets(e)' = SoldTickets(e)
      BY <1>3, <2>4, CancelReturns
    <3>2. avail'[e] = avail[e]
      BY <1>3, <2>1, <2>4 DEF Cancel, TypeOK
    <3> QED
      BY <1>0, <2>2, <3>1, <3>2
  <2> QED
    BY <2>3, <2>4
<1>4. CASE UNCHANGED vars
  <2>1. SoldTickets(e)' = SoldTickets(e) /\ avail' = avail /\ total' = total
    BY <1>4 DEF vars, SoldTickets
  <2> QED
    BY <1>0, <2>1
<1> QED
  BY <1>1, <1>2, <1>3, <1>4 DEF Next

\* Each step keeps keys unique among the bookings that exist.
LEMMA StepOneBookingPerKey ==
    ASSUME TypeOK, OneBookingPerKey, [Next]_vars
    PROVE  OneBookingPerKey'
<1>1. ASSUME NEW e \in Events, Open(e) PROVE OneBookingPerKey'
  BY <1>1 DEF Open, OneBookingPerKey, Exists
<1>2. ASSUME NEW b \in Bookings, Book(b) PROVE OneBookingPerKey'
  <2>1. /\ order' = order
        /\ \A a \in Bookings : a # b => bookingStatus'[a] = bookingStatus[a]
        /\ KeyUnused(order[b].key)
    BY <1>2 DEF Book, TypeOK
  <2> QED
    BY <2>1 DEF OneBookingPerKey, Exists, KeyUnused
<1>3. ASSUME NEW b \in Bookings, Cancel(b) PROVE OneBookingPerKey'
  <2>1. /\ order' = order
        /\ \A a \in Bookings : Exists(a)' => Exists(a)
    BY <1>3 DEF Cancel, TypeOK, Exists
  <2> QED
    BY <2>1 DEF OneBookingPerKey
<1>4. CASE UNCHANGED vars
  BY <1>4 DEF vars, OneBookingPerKey, Exists
<1> QED
  BY <1>1, <1>2, <1>3, <1>4 DEF Next

\* Types, conservation and key uniqueness hold in every reachable state.
THEOREM InductiveInvariant == Spec => []IInv
<1>1. IInv /\ [Next]_vars => IInv'
  BY StepTypeOK, StepFinitelyMade, StepNonNegative, StepConserved, StepOneBookingPerKey
     DEF IInv
<1> QED
  BY InitIInv, <1>1, PTL DEF Spec

\* Stock and confirmed bookings always add up to the capacity: the decrement
\* of a booking and the increment of a cancellation neither lose nor invent a
\* ticket (createBooking, cancelBooking).
THEOREM TicketsConserved == Spec => []Conserved
<1>1. IInv => Conserved
  BY DEF IInv
<1> QED
  BY InductiveInvariant, <1>1, PTL

\* No event is ever oversold, and none advertises more than its capacity.
THEOREM NeverOversold == Spec => []NoOverselling
<1>1. IInv => NoOverselling
  <2> SUFFICES ASSUME IInv, NEW e \in Events
               PROVE  /\ Cardinality(SoldTickets(e)) <= total[e]
                      /\ avail[e] \in 0..total[e]
    BY DEF NoOverselling
  <2>1. /\ avail[e] + Cardinality(SoldTickets(e)) = total[e]
        /\ avail[e] \in Int /\ avail[e] >= 0 /\ total[e] \in Nat
        /\ Cardinality(SoldTickets(e)) \in Nat
    BY SoldTicketsFinite DEF IInv, Conserved, TypeOK, NonNegative
  <2> QED
    BY <2>1
<1> QED
  BY InductiveInvariant, <1>1, PTL

\* A key names at most one booking, for ever.
THEOREM KeysUnique == Spec => []OneBookingPerKey
<1>1. IInv => OneBookingPerKey
  BY DEF IInv
<1> QED
  BY InductiveInvariant, <1>1, PTL
================================================================================
