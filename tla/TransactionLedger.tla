-------------------------- MODULE TransactionLedger --------------------------
(***************************************************************************)
(* What a charge point promises about the transactions of its central      *)
(* system, whatever its connectors, reservations and goroutines do: a      *)
(* transaction is held by one connector at a time, a connector holds one   *)
(* transaction at a time, and a transaction that was given up or never     *)
(* taken up does not come back.                                            *)
(***************************************************************************)
EXTENDS Integers

CONSTANTS
    Connector,       \* numbered from 1
    TransactionId    \* the ids the central system issues, none of them 0

VARIABLES
    phase,           \* of each transaction: where it is in its life
    holder           \* the connector that holds it, 0 for none

ledger == <<phase, holder>>

Init ==
    /\ phase = [x \in TransactionId |-> "unissued"]
    /\ holder = [x \in TransactionId |-> 0]

\* The central system starts x; the station does not know of it yet.
Issue(x) ==
    /\ phase[x] = "unissued"
    /\ phase' = [phase EXCEPT ![x] = "issued"]
    /\ UNCHANGED holder

\* Connector c takes x up and gives up the transaction it may have had.
Take(x, c) ==
    /\ phase[x] = "issued"
    /\ phase' = [y \in TransactionId |->
                    IF y = x THEN "held" ELSE IF holder[y] = c THEN "over" ELSE phase[y]]
    /\ holder' = [y \in TransactionId |->
                    IF y = x THEN c ELSE IF holder[y] = c THEN 0 ELSE holder[y]]

\* Some transactions are given up, by a stop or a reset, or one that was
\* started is never taken up, because the station does not learn of it.
GiveUp(xs) ==
    /\ xs # {}
    /\ \A x \in xs : phase[x] \in {"issued", "held"}
    /\ phase' = [y \in TransactionId |-> IF y \in xs THEN "over" ELSE phase[y]]
    /\ holder' = [y \in TransactionId |-> IF y \in xs THEN 0 ELSE holder[y]]

Next ==
    \/ \E x \in TransactionId : Issue(x)
    \/ \E x \in TransactionId, c \in Connector : Take(x, c)
    \/ \E xs \in SUBSET TransactionId : GiveUp(xs)

Spec == Init /\ [][Next]_ledger
=============================================================================
