---------------------------- MODULE RemovedFields ----------------------------
(* What the loop of removePrivateFields does to the fields of one struct, by  *)
(* its outcome: PrivateFields is the loop itself, and its runs compare the    *)
(* two.  The fields, and those of them that are private, are sets of numbers: *)
(* they are listed in that order.                                             *)
EXTENDS Integers, FiniteSets

IsLast(fields, e) == e \in fields /\ \A d \in fields : d <= e

\* Nothing is between the field d and the field e behind it.
Follows(fields, d, e) == d < e /\ \A k \in fields : ~(d < k /\ k < e)

\* A private field with the private fields right before it.
Row(fields, private, e) ==
    {d \in fields : d <= e /\ \A k \in fields : d <= k /\ k <= e => k \in private}

\* A deletion moves the next field to where the loop has been, so that of private
\* neighbours every second one stays.
Removed(fields, private) ==
    {e \in fields : Cardinality(Row(fields, private, e)) % 2 = 1}

\* What the deletions leave behind the end of the slice are copies of the last field:
\* the loop comes to it again, and if it is private cuts what is not there.
PanicsOn(fields, private) ==
    \E e \in fields \cap private : IsLast(fields, e) /\ fields \cap private # {e}

\* How often the loop comes to a field: not at all when the one before it is deleted,
\* and again to the last for every deletion that let it skip none, or not the last.
Visits(fields, private, e) ==
    IF IsLast(fields, e)
      THEN 1 + Cardinality({d \in Removed(fields, private) : d # e /\ ~Follows(fields, d, e)})
    ELSE IF \E d \in Removed(fields, private) : Follows(fields, d, e) THEN 0 ELSE 1
=============================================================================
