---------------------------- MODULE ReservationWalk ----------------------------
(***************************************************************************)
(* A call of reservationAccessLocked, round by round: the loop of the code *)
(* over a Go map, which yields its entries in any order.                   *)
(* ReservationBook!Access says in closed form what it can answer; Station  *)
(* builds on that, and Station!AccessIsExact compares the two.             *)
(* Definitions marked "faulty variant" are no part of the specification.   *)
(***************************************************************************)
EXTENDS ReservationBook, SequencesExt

CONSTANT NoReservation  \* what a book has for an id it does not hold

\* Faulty variant: the entries of other connectors are not skipped.
RelevantAnywhere(reservation, c) == reservation.live
\* The entry concerns the call: it has not expired and is for this connector or
\* for the station.
Relevant(reservation, c) == reservation.live /\ reservation.connector \in {0, c}

\* The call in the loop, with the local variable matchedGlobal, and after a return.
Looping(matched) == [id |-> matched, ok |-> TRUE, pc |-> "looping"]
LetThrough(id) == [id |-> id, ok |-> TRUE, pc |-> "returned"]
Refused == [id |-> 0, ok |-> FALSE, pc |-> "returned"]

\* One round of the loop, on the entry of reservation r.
Visit(call, r, book, c, tag) ==
    IF call.pc = "returned" \/ ~Relevant(book[r], c) THEN call
    ELSE IF tag \notin book[r].admits THEN Refused
    ELSE IF book[r].connector = c THEN LetThrough(r)
    ELSE Looping(r)

\* The call at the end of the loop, the map yielding its entries in this order.
Called(order, book, c, tag) ==
    LET call[n \in 0 .. Len(order)] ==
            IF n = 0 THEN Looping(0) ELSE Visit(call[n - 1], order[n], book, c, tag)
    IN  call[Len(order)]

Entries(book) == {r \in ReservationId : book[r] # NoReservation}

\* The answers of a call, over every order of the entries.
Answers(book, c, tag) ==
    {[id |-> call.id, ok |-> call.ok] :
        call \in {Called(order, book, c, tag) : order \in SetToSeqs(Entries(book))}}
=============================================================================
