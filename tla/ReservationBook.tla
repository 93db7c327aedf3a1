---------------------------- MODULE ReservationBook ----------------------------
(* What the simulator reads out of its reservations, in closed form.  A book  *)
(* maps every reservation id to a record: the connector, 0 for the station,   *)
(* the idTags it admits, and whether its expiry still lies ahead.             *)
EXTENDS Integers

CONSTANTS ReservationId  \* reservation ids the central system uses

LiveAt(book, c) == {r \in ReservationId : book[r].connector = c /\ book[r].live}

\* reservationAccessLocked: the results its walk over the map can have.  Go
\* iterates in no fixed order, and the walk ends at the first reservation of
\* the connector itself and at the first station-wide one that refuses the tag.
Access(book, c, tag) ==
    LET own == LiveAt(book, c)
        anywhere == LiveAt(book, 0)
        refusing == {r \in own \cup anywhere : tag \notin book[r].admits}
        none == [id |-> 0, ok |-> TRUE]
    IN  {[id |-> r, ok |-> TRUE] : r \in own \ refusing}
        \cup {[id |-> 0, ok |-> FALSE] : r \in refusing}
        \cup (IF own \cup refusing # {} THEN {}
              ELSE IF anywhere = {} THEN {none}
              ELSE {[id |-> r, ok |-> TRUE] : r \in anywhere})
=============================================================================
