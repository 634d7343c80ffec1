---------------------------- MODULE PrivateFields ----------------------------
(* removePrivateFields, which takes the fields marked private out of the      *)
(* declarations of a CUE file.  It deletes from the slice it ranges over: the *)
(* range goes over the elements of the array as they were counted at first,   *)
(* while a deletion shifts the array under it and shortens the slice.         *)
(*                                                                            *)
(* A field is its position in the file.  The value of a field that is a struct*)
(* is treated by the same loop on its own fields, whenever this one comes to  *)
(* the field.                                                                 *)
EXTENDS RemovedFields

CONSTANT MaxFields  \* bound on the fields of a file

ASSUME ConstantsAssumption == MaxFields \in Nat

VARIABLES
  n,        \* the number of fields
  private,  \* those that are private
  array,    \* the array behind the slice
  len,      \* the length of the slice
  i,        \* the next index of the range
  visits,   \* how often the loop has come to each field, and into its value
  panicked  \* a slice expression was out of bounds

vars == <<n, private, array, len, i, visits, panicked>>

TypeOK ==
    /\ n \in 0..MaxFields /\ private \subseteq 1..n
    /\ array \in [1..n -> 1..n]
    /\ len \in 0..n /\ i \in 1..n+1 /\ panicked \in BOOLEAN
    /\ visits \in [1..n -> Nat]

Init ==
    /\ n \in 0..MaxFields /\ private \in SUBSET (1..n)
    /\ array = [k \in 1..n |-> k] /\ len = n /\ i = 1 /\ panicked = FALSE
    /\ visits = [k \in 1..n |-> 0]

Running == i <= n /\ ~panicked

\* Mutant: the field after the deleted one goes, too.
RemoveTwo ==
    /\ array' = [k \in 1..n |-> IF k \in i..len-2 THEN array[k+2] ELSE array[k]]
    /\ len' = len - 2

\* Mutant: the field behind it goes instead.
RemoveNext ==
    /\ array' = [k \in 1..n |-> IF k \in i+1..len-1 THEN array[k+1] ELSE array[k]]
    /\ len' = len - 1

\* append(values[:i], values[i+1:]...)
Remove ==
    /\ array' = [k \in 1..n |-> IF k \in i..len-1 THEN array[k+1] ELSE array[k]]
    /\ len' = len - 1

\* Mutant: the loop ends with the first deletion.
VisitFirst ==
    /\ Running
    /\ \/ /\ array[i] \in private => i <= len
          /\ IF array[i] \in private THEN Remove /\ i' = n + 1
                                    ELSE i' = i + 1 /\ UNCHANGED <<array, len>>
          /\ visits' = [visits EXCEPT ![array[i]] = @ + 1]
          /\ UNCHANGED panicked
       \/ array[i] \in private /\ i > len /\ panicked' = TRUE /\ UNCHANGED <<array, len, i, visits>>
    /\ UNCHANGED <<n, private>>

\* One iteration: the element comes from the array, which may be longer than the
\* slice by now.  Slicing from behind the end of the slice panics.
Visit ==
    /\ Running
    /\ \/ /\ array[i] \in private => i <= len
          /\ IF array[i] \in private THEN Remove ELSE UNCHANGED <<array, len>>
          /\ i' = i + 1 /\ visits' = [visits EXCEPT ![array[i]] = @ + 1]
          /\ UNCHANGED panicked
       \/ array[i] \in private /\ i > len /\ panicked' = TRUE /\ UNCHANGED <<array, len, i, visits>>
    /\ UNCHANGED <<n, private>>

Spec == Init /\ [][Visit]_vars

-----------------------------------------------------------------------------
Result == {array[k] : k \in 1..len}

\* No public field is ever lost, moved or doubled, however many deletions shift
\* the array under the range.
PublicKept ==
    /\ (1..n) \ private \subseteq Result
    /\ \A j, k \in 1..len : j < k => array[j] < array[k]

\* When no two private fields are neighbours, and the last field is public or the
\* only private one, the loop does not panic and leaves none of them.
SparseIsClean ==
    /\ \A k \in private : k + 1 \notin private
    /\ n \in private => private = {n}
    => /\ ~panicked
       /\ i > n => Result \cap private = {}

\* The closed form of the loop, with which ConfigFile goes through structs of any
\* depth, is right: what stays, how often each field is visited, and when it panics.
OutcomeOfLoop ==
    /\ panicked => PanicsOn(1..n, private)
    /\ i > n =>
         /\ ~PanicsOn(1..n, private)
         /\ Result = (1..n) \ Removed(1..n, private)
         /\ visits = [e \in 1..n |-> Visits(1..n, private, e)]
=============================================================================
