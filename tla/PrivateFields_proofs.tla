------------------------ MODULE PrivateFields_proofs ------------------------
(* What removePrivateFields guarantees, for files of any length. *)
EXTENDS PrivateFields, FiniteSetTheorems, TLAPS

\* Lengths, indices and fields are numbers.
LEMMA Numbers ==
    ASSUME TypeOK
    PROVE  /\ n \in Nat /\ len \in Nat /\ i \in Nat
           /\ len <= n /\ 1 <= i /\ i <= n + 1
           /\ \A k \in 1..n : array[k] \in 1..n
<1>1. n \in Nat
  BY ConstantsAssumption DEF ConstantsAssumption, TypeOK
<1> QED BY <1>1 DEF TypeOK

\* An iteration removes a field of the slice, passes a public one, or panics.
LEMMA Iteration ==
    ASSUME TypeOK, Visit
    PROVE  /\ i \in 1..n /\ n' = n /\ private' = private /\ ~panicked
           /\ \/ /\ array[i] \in private /\ i <= len /\ Remove /\ i' = i + 1
                 /\ visits' = [visits EXCEPT ![array[i]] = @ + 1] /\ panicked' = panicked
              \/ /\ array[i] \notin private /\ UNCHANGED <<array, len>> /\ i' = i + 1
                 /\ visits' = [visits EXCEPT ![array[i]] = @ + 1] /\ panicked' = panicked
              \/ /\ array[i] \in private /\ i > len /\ panicked' = TRUE
                 /\ UNCHANGED <<array, len, i, visits>>
<1>1. i \in 1..n /\ n' = n /\ private' = private /\ ~panicked
  BY Numbers DEF Visit, Running
<1>2. CASE /\ array[i] \in private => i <= len
           /\ IF array[i] \in private THEN Remove ELSE UNCHANGED <<array, len>>
           /\ i' = i + 1 /\ visits' = [visits EXCEPT ![array[i]] = @ + 1]
           /\ UNCHANGED panicked
  <2>1. CASE array[i] \in private
    BY <1>1, <1>2, <2>1
  <2>2. CASE array[i] \notin private
    BY <1>1, <1>2, <2>2
  <2> QED BY <2>1, <2>2
<1>3. CASE array[i] \in private /\ i > len /\ panicked' = TRUE /\ UNCHANGED <<array, len, i, visits>>
  BY <1>1, <1>3
<1> QED BY <1>2, <1>3 DEF Visit

\* A deletion in the slice shifts what follows it, and nothing else.
LEMMA Shift ==
    ASSUME TypeOK, Remove, i \in 1..n, i <= len
    PROVE  /\ array' \in [1..n -> 1..n] /\ len' \in 0..n
           /\ \A k \in 1..n : k < i => array'[k] = array[k]
           /\ \A k \in 1..n : i <= k /\ k < len => array'[k] = array[k+1]
           /\ \A k \in 1..n : len <= k => array'[k] = array[k]
           /\ len' = len - 1
<1>1. /\ n \in Nat /\ len \in 0..n /\ i \in Nat
      /\ array' = [k \in 1..n |-> IF k \in i..len-1 THEN array[k+1] ELSE array[k]]
      /\ len' = len - 1 /\ \A k \in 1..n : array[k] \in 1..n
  BY Numbers DEF Remove, TypeOK
<1>2. \A k \in 1..n : IF k \in i..len-1 THEN array'[k] = array[k+1] ELSE array'[k] = array[k]
  BY <1>1
<1>3. \A k \in 1..n : k \in i..len-1 => k+1 \in 1..n
  BY <1>1
<1>4. array' \in [1..n -> 1..n]
  BY <1>1, <1>3
<1> QED BY <1>1, <1>2, <1>4

\* The loop keeps its variables in their ranges (see TypeOK).
THEOREM TypeCorrect == Spec => []TypeOK
<1>1. Init => TypeOK
  <2> SUFFICES ASSUME Init PROVE TypeOK
    OBVIOUS
  <2>1. n \in 0..MaxFields /\ private \subseteq 1..n
    BY DEF Init
  <2>2. array \in [1..n -> 1..n]
    BY DEF Init
  <2>3. len \in 0..n
    BY ConstantsAssumption DEF ConstantsAssumption, Init
  <2>4. i \in 1..n+1
    BY ConstantsAssumption DEF ConstantsAssumption, Init
  <2>5. panicked \in BOOLEAN
    BY DEF Init
  <2>6. visits \in [1..n -> Nat]
    BY DEF Init
  <2> QED BY <2>1, <2>2, <2>3, <2>4, <2>5, <2>6 DEF TypeOK
<1>2. TypeOK /\ [Visit]_vars => TypeOK'
  <2> SUFFICES ASSUME TypeOK, [Visit]_vars PROVE TypeOK'
    OBVIOUS
  <2>1. CASE Visit
    <3>0. i \in 1..n /\ n' = n /\ private' = private
      BY <2>1, Iteration
    <3>1. i' \in 1..n'+1 /\ panicked' \in BOOLEAN /\ visits' \in [1..n' -> Nat]
      <4>1. i' \in {i, i + 1} /\ panicked' \in BOOLEAN
        BY <2>1, Iteration DEF TypeOK
      <4>2. visits' \in [1..n -> Nat]
        <5>1. array[i] \in 1..n /\ visits \in [1..n -> Nat]
          BY <3>0, Numbers DEF TypeOK
        <5>2. visits' = visits \/ visits' = [visits EXCEPT ![array[i]] = @ + 1]
          BY <2>1, Iteration
        <5> QED BY <5>1, <5>2
      <4> QED BY <3>0, <4>1, <4>2, Numbers
    <3>2. n' \in 0..MaxFields /\ private' \subseteq 1..n'
      BY <3>0 DEF TypeOK
    <3>3. array' \in [1..n' -> 1..n'] /\ len' \in 0..n'
      <4>1. CASE Remove /\ i <= len
        BY <3>0, <4>1, Shift
      <4>2. CASE UNCHANGED <<array, len>>
        BY <3>0, <4>2 DEF TypeOK
      <4> QED BY <2>1, <4>1, <4>2, Iteration
    <3> QED BY <3>1, <3>2, <3>3 DEF TypeOK
  <2>2. CASE UNCHANGED vars
    BY <2>2 DEF vars, TypeOK
  <2> QED BY <2>1, <2>2
<1> QED BY <1>1, <1>2, PTL DEF Spec

\* The public fields are in the slice, in their order (see PublicKept).
THEOREM NothingLost == Spec => []PublicKept
<1>1. Init => PublicKept
  BY DEF Init, PublicKept, Result
<1>2. TypeOK /\ PublicKept /\ [Visit]_vars => PublicKept'
  <2> SUFFICES ASSUME TypeOK, PublicKept, [Visit]_vars PROVE PublicKept'
    OBVIOUS
  <2>1. CASE /\ Visit /\ array[i] \in private /\ i <= len /\ Remove
             /\ i \in 1..n /\ n' = n /\ private' = private
    <3>1. ASSUME NEW p \in (1..n) \ private PROVE \E k \in 1..len' : array'[k] = p
      <4>1. PICK k \in 1..len : array[k] = p
        BY <3>1 DEF PublicKept, Result
      <4>2. k # i
        BY <2>1, <3>1, <4>1
      <4>3. CASE k < i
        BY <2>1, <4>1, <4>3, Shift, Numbers
      <4>4. CASE k > i
        <5>1. k - 1 \in 1..len' /\ array'[k-1] = array[k]
          BY <2>1, <4>1, <4>4, Shift, Numbers
        <5> QED BY <5>1, <4>1
      <4> QED BY <4>2, <4>3, <4>4 DEF TypeOK
    <3>2. ASSUME NEW j \in 1..len', NEW k \in 1..len', j < k PROVE array'[j] < array'[k]
      <4>1. /\ j \in 1..n /\ k \in 1..n /\ k + 1 \in 1..len /\ j + 1 \in 1..len
            /\ j \in 1..len /\ k \in 1..len
        BY <2>1, <3>2, Shift, Numbers
      <4>2. array'[j] = IF j < i THEN array[j] ELSE array[j+1]
        BY <2>1, <4>1, Shift, Numbers
      <4>3. array'[k] = IF k < i THEN array[k] ELSE array[k+1]
        BY <2>1, <4>1, Shift, Numbers
      <4>4. \A a, b \in 1..len : a < b => array[a] < array[b]
        BY DEF PublicKept
      <4> QED BY <2>1, <3>2, <4>1, <4>2, <4>3, <4>4
    <3> QED BY <2>1, <3>1, <3>2, Shift, Numbers DEF PublicKept, Result
  <2>2. CASE UNCHANGED <<array, len, n, private>>
    BY <2>2 DEF PublicKept, Result
  <2> QED BY <2>1, <2>2, Iteration DEF vars
<1> QED BY <1>1, <1>2, TypeCorrect, PTL DEF Spec

-----------------------------------------------------------------------------
Sparse ==
    /\ \A k \in private : k + 1 \notin private
    /\ n \in private => private = {n}

\* What is still to come is the file from behind the last field visited; behind
\* the end of the slice the array holds its last field again and again; and a
\* last field that is private is visited once.
Ahead ==
    Sparse =>
      /\ ~panicked
      /\ \A k \in 1..n : i <= k => array[k] = IF k <= len THEN k + n - len ELSE n
      /\ \A k \in 1..len : k < i => array[k] \notin private
      /\ n \in private => len = n \/ i = n + 1

\* Sparse private fields are all removed, without a panic (see SparseIsClean).
THEOREM SparseRemoved == Spec => []SparseIsClean
<1>1. Init => Ahead
  BY DEF Init, Ahead
<1>2. TypeOK /\ Ahead /\ [Visit]_vars => Ahead'
  <2> SUFFICES ASSUME TypeOK, Ahead, [Visit]_vars, Sparse' PROVE Ahead'
    BY DEF Ahead
  <2>1. CASE Visit
    <3>0. /\ n' = n /\ private' = private /\ Sparse /\ ~panicked /\ i \in 1..n /\ n \in Nat
          /\ len \in 0..n
          /\ array[i] = IF i <= len THEN i + n - len ELSE n
      BY <2>1, Iteration, Numbers DEF Sparse, Ahead
    <3>1. CASE array[i] \notin private /\ i' = i + 1 /\ UNCHANGED <<array, len, panicked>>
      <4>1. \A k \in 1..len : k < i' => array[k] \notin private
        BY <3>0, <3>1, Numbers DEF Ahead
      <4>2. n \in private => len = n \/ i' = n + 1
        BY <3>0, <3>1, Numbers DEF Ahead
      <4>3. \A k \in 1..n : i' <= k => array[k] = IF k <= len THEN k + n - len ELSE n
        BY <3>0, <3>1, Numbers DEF Ahead
      <4> QED BY <3>0, <3>1, <4>1, <4>2, <4>3 DEF Ahead
    <3>2. CASE array[i] \in private /\ i <= len /\ Remove /\ i' = i + 1 /\ UNCHANGED panicked
      <4>1. array[i] = i + n - len
        BY <3>0, <3>2
      <4>2. \A k \in 1..n : i' <= k => array'[k] = IF k <= len' THEN k + n' - len' ELSE n'
        <5> SUFFICES ASSUME NEW k \in 1..n, i + 1 <= k
                     PROVE  array'[k] = IF k <= len - 1 THEN k + n - len + 1 ELSE n
          BY <2>1, <3>0, <3>2, Shift, Numbers
        <5>1. CASE k < len
          <6>1. array'[k] = array[k+1]
            <7>1. i <= k /\ k < len /\ Remove /\ i <= len
              BY <3>0, <3>2, <5>1
            <7> QED BY <3>0, <7>1, Shift
          <6>2. array[k+1] = (k + 1) + n - len
            BY <3>0, <5>1, Numbers DEF Ahead
          <6> QED BY <5>1, <6>1, <6>2, Numbers
        <5>2. CASE len <= k
          <6>1. array'[k] = array[k]
            BY <2>1, <3>0, <3>2, <5>2, Shift, Numbers
          <6>2. array[k] = n
            BY <3>0, <5>2, Numbers DEF Ahead
          <6> QED BY <5>2, <6>1, <6>2, Numbers
        <5> QED BY <5>1, <5>2, Numbers
      <4>3. ASSUME NEW k \in 1..len', k < i' PROVE array'[k] \notin private'
        <5>1. CASE k < i
          <6>1. k \in 1..n /\ k \in 1..len /\ array'[k] = array[k]
            BY <3>0, <3>2, <4>3, <5>1, Shift, Numbers
          <6>2. array[k] \notin private
            BY <3>0, <5>1, <6>1 DEF Ahead
          <6> QED BY <3>0, <6>1, <6>2
        <5>2. CASE k = i
          <6>1. i < len
            BY <2>1, <3>0, <3>2, <4>3, <5>2, Shift
          <6>2. array'[i] = i + 1 + n - len
            <7>1. array'[i] = array[i+1]
              BY <3>0, <3>2, <6>1, Shift
            <7>2. i + 1 \in 1..n /\ i <= i + 1 /\ i + 1 <= len
              BY <3>0, <6>1
            <7>3. array[i+1] = IF i + 1 <= len THEN i + 1 + n - len ELSE n
              BY <3>0, <7>2 DEF Ahead
            <7> QED BY <7>1, <7>2, <7>3
          <6>3. array'[i] = array[i] + 1
            BY <4>1, <6>2, <3>0
          <6> QED BY <3>0, <3>2, <5>2, <6>3 DEF Sparse
        <5> QED BY <3>0, <3>2, <4>3, <5>1, <5>2 DEF TypeOK
      <4>4. n' \in private' => i' = n' + 1
        <5> SUFFICES ASSUME n \in private PROVE i = n
          BY <3>0, <3>2
        <5>1. array[i] = n
          BY <3>0, <3>2 DEF Sparse
        <5>2. len = n \/ i = n + 1
          BY <3>0 DEF Ahead
        <5> QED BY <3>0, <4>1, <5>1, <5>2
      <4> QED BY <3>0, <3>2, <4>2, <4>3, <4>4 DEF Ahead
    <3>3. ~(array[i] \in private /\ i > len)
      <4> SUFFICES ASSUME array[i] \in private, i > len PROVE FALSE
        OBVIOUS
      <4>1. n \in private
        BY <3>0
      <4>2. len = n \/ i = n + 1
        BY <3>0, <4>1 DEF Ahead
      <4> QED BY <3>0, <4>2
    <3> QED BY <2>1, <3>1, <3>2, <3>3, Iteration
  <2>2. CASE UNCHANGED vars
    BY <2>2 DEF vars, Ahead, Sparse
  <2> QED BY <2>1, <2>2
<1>3. TypeOK /\ Ahead => SparseIsClean
  BY DEF TypeOK, Ahead, Sparse, SparseIsClean, Result
<1> QED BY <1>1, <1>2, <1>3, TypeCorrect, PTL DEF Spec
-----------------------------------------------------------------------------
(* The closed form *)

Gone == Removed(1..n, private)

\* A number can be added once to a finite set.
LEMMA OneMore ==
    ASSUME NEW S, IsFiniteSet(S), NEW x, x \notin S
    PROVE  /\ IsFiniteSet(S \cup {x}) /\ Cardinality(S) \in Nat
           /\ Cardinality(S \cup {x}) = Cardinality(S) + 1
BY FS_AddElement, FS_CardinalityType

\* Of private fields in a row every second one goes, from the first on.
LEMMA EverySecond ==
    ASSUME n \in Nat, private \subseteq 1..n
    PROVE  /\ Gone \subseteq private /\ IsFiniteSet(Gone)
           /\ \A e \in 1..n : e \in Gone <=> e \in private /\ e-1 \notin Gone
<1> DEFINE R(e) == Row(1..n, private, e)
<1>1. ASSUME NEW e \in 0..n PROVE IsFiniteSet(R(e)) /\ Cardinality(R(e)) \in Nat
  <2>1. IsFiniteSet(1..n) /\ R(e) \subseteq 1..n
    BY FS_Interval DEF Row
  <2> HIDE DEF R
  <2>2. IsFiniteSet(R(e))
    BY <2>1, FS_Subset
  <2> QED BY <2>2, FS_CardinalityType
<1>2. ASSUME NEW e \in 0..n, e \notin private PROVE Cardinality(R(e)) = 0
  <2>1. ASSUME NEW d \in R(e) PROVE FALSE
    <3>1. d \in 1..n /\ d <= e /\ \A k \in 1..n : d <= k /\ k <= e => k \in private
      BY <2>1 DEF Row
    <3> QED BY <1>2, <3>1
  <2>2. R(e) = {}
    BY <2>1
  <2> QED BY <2>2, FS_EmptySet
<1>3. ASSUME NEW e \in 1..n, e \in private
      PROVE  Cardinality(R(e)) = Cardinality(R(e-1)) + 1
  <2>0. e \in Nat /\ e-1 \in 0..n /\ e-1 < e /\ \A k \in 1..n : k <= e <=> k <= e-1 \/ k = e
    OBVIOUS
  <2>1. ASSUME NEW d \in R(e) PROVE d \in R(e-1) \/ d = e
    <3>1. d \in 1..n /\ d <= e /\ \A k \in 1..n : d <= k /\ k <= e => k \in private
      BY <2>1 DEF Row
    <3> QED BY <2>0, <3>1 DEF Row
  <2>2. ASSUME NEW d \in R(e-1) PROVE d \in R(e) /\ d # e
    <3>1. d \in 1..n /\ d <= e-1 /\ \A k \in 1..n : d <= k /\ k <= e-1 => k \in private
      BY <2>2 DEF Row
    <3> QED BY <1>3, <2>0, <3>1 DEF Row
  <2>3. e \in R(e)
    <3>1. \A k \in 1..n : e <= k /\ k <= e => k = e
      BY <2>0
    <3> QED BY <1>3, <2>0, <3>1 DEF Row
  <2>4. R(e) = R(e-1) \cup {e} /\ e \notin R(e-1)
    BY <2>1, <2>2, <2>3
  <2>5. IsFiniteSet(R(e-1))
    BY <1>1, <2>0
  <2> HIDE DEF R
  <2> QED BY <2>4, <2>5, OneMore
<1>4. Gone = {e \in 1..n : Cardinality(R(e)) % 2 = 1}
  BY DEF Gone, Removed
<1> HIDE DEF R
<1>5. Gone \subseteq private
  BY <1>2, <1>4
<1>6. ASSUME NEW e \in 1..n PROVE e \in Gone <=> e \in private /\ e-1 \notin Gone
  <2>1. CASE e \notin private
    BY <1>5, <2>1
  <2>2. CASE e \in private
    <3>1. Cardinality(R(e)) = Cardinality(R(e-1)) + 1 /\ Cardinality(R(e-1)) \in Nat
      BY <1>1, <1>3, <2>2
    <3>2. CASE e = 1
      <4>1. 0 \notin private /\ 0 \notin Gone
        BY <1>5
      <4>2. Cardinality(R(0)) = 0
        BY <1>2, <4>1
      <4> QED BY <1>4, <2>2, <3>1, <3>2, <4>1, <4>2
    <3>3. CASE e # 1
      <4>1. e-1 \in 1..n
        BY <3>3
      <4> QED BY <1>4, <2>2, <3>1, <4>1
    <3> QED BY <3>2, <3>3
  <2> QED BY <2>1, <2>2
<1>7. IsFiniteSet(Gone)
  <2>1. IsFiniteSet(1..n) /\ Gone \subseteq 1..n
    BY <1>5, FS_Interval
  <2> QED BY <2>1, FS_Subset
<1> QED BY <1>5, <1>6, <1>7
\* The field that the range comes to at an index of the slice.
Coming == i + n - len

GoneBefore == {d \in Gone : d < Coming}

\* What is to come in the array, and what has been kept of what came.
ArrayIsRight ==
    /\ \A k \in 1..n : i <= k => array[k] = IF k <= len THEN k + n - len ELSE n
    /\ \A k \in 1..len : k < i => array[k] < Coming /\ array[k] \notin Gone
    /\ \A d \in (1..n) \ Gone : d < Coming => \E k \in 1..len : k < i /\ array[k] = d

\* A field that comes is not behind a removed one, and the slice is shorter by what is removed.
\* Behind its end, the last field was removed, or skipped, if it is private.
LengthIsRight ==
    /\ i <= len => Coming-1 \notin Gone
    /\ n - len = Cardinality(GoneBefore)
    /\ n \in private /\ i > len => Coming = IF n \in Gone THEN n + 2 ELSE n + 1

\* A field was visited if the one before it stays, the last also behind the end of the slice.
VisitsAreRight ==
    /\ \A d \in 1..n : d < n => visits[d] = IF d < Coming /\ d-1 \notin Gone THEN 1 ELSE 0
    /\ n >= 1 => visits[n] = IF i <= len THEN 0
                             ELSE (IF n-1 \in Gone THEN 0 ELSE 1)
                                  + (IF n \in private THEN 0 ELSE i - len - 1)

\* As long as it has not panicked, the loop is on the way to the closed form.
OnTheWay ==
    /\ panicked => i <= n /\ PanicsOn(1..n, private)
    /\ ~panicked => ArrayIsRight /\ LengthIsRight /\ VisitsAreRight

\* The fields are as in TypeOK.
LEMMA Fields ==
    ASSUME TypeOK
    PROVE  /\ n \in Nat /\ private \subseteq 1..n /\ len \in 0..n /\ i \in 1..n+1
           /\ Coming \in Nat /\ Coming >= i
           /\ Gone \subseteq private /\ IsFiniteSet(Gone)
           /\ \A e \in 1..n : e \in Gone <=> e \in private /\ e-1 \notin Gone
           /\ IsFiniteSet(GoneBefore) /\ Cardinality(GoneBefore) \in Nat
<1>1. n \in Nat /\ private \subseteq 1..n /\ len \in 0..n /\ i \in 1..n+1
  BY Numbers DEF TypeOK
<1>2. Coming \in Nat /\ Coming >= i
  BY <1>1 DEF Coming
<1>3. /\ Gone \subseteq private /\ IsFiniteSet(Gone)
      /\ \A e \in 1..n : e \in Gone <=> e \in private /\ e-1 \notin Gone
  BY <1>1, EverySecond
<1>4. GoneBefore \subseteq Gone
  BY DEF GoneBefore
<1>5. IsFiniteSet(GoneBefore) /\ Cardinality(GoneBefore) \in Nat
  BY <1>3, <1>4, FS_Subset, FS_CardinalityType
<1> QED BY <1>1, <1>2, <1>3, <1>5

\* Of the fields, Gone stays what it is.
LEMMA GoneStays ==
    ASSUME n' = n, private' = private
    PROVE  Gone' = Gone
BY DEF Gone

\* A deletion is right, for the array ...
LEMMA DeletedFromArray ==
    ASSUME TypeOK, ArrayIsRight, LengthIsRight, i \in 1..n, array[i] \in private,
           i <= len, Remove, i' = i + 1, n' = n, private' = private
    PROVE  /\ Coming \in Gone /\ Coming \in 1..n /\ Coming+1 \notin Gone
           /\ array[i] = Coming /\ Coming' = Coming + 2 /\ ArrayIsRight'
<1>1. array[i] = Coming /\ Coming \in 1..n
  BY Fields DEF ArrayIsRight, Coming
<1>2. Coming \in Gone
  BY <1>1, Fields DEF LengthIsRight
<1>3. Coming+1 \notin Gone
  <2>1. CASE Coming+1 \in 1..n
    BY <1>1, <1>2, <2>1, Fields
  <2>2. CASE Coming+1 \notin 1..n
    BY <2>2, Fields
  <2> QED BY <2>1, <2>2
<1>4. /\ array' \in [1..n -> 1..n] /\ len' = len - 1 /\ len' \in 0..n
      /\ \A k \in 1..n : k < i => array'[k] = array[k]
      /\ \A k \in 1..n : i <= k /\ k < len => array'[k] = array[k+1]
      /\ \A k \in 1..n : len <= k => array'[k] = array[k]
  BY Shift
<1>5. Coming' = Coming + 2
  BY <1>4, Numbers DEF Coming
<1>6. Gone' = Gone
  BY GoneStays
<1>7. ASSUME NEW k \in 1..n, i + 1 <= k
      PROVE  array'[k] = IF k <= len - 1 THEN k + n - len + 1 ELSE n
  <2>1. CASE k < len
    <3>1. array'[k] = array[k+1]
      BY <1>4, <1>7, <2>1, Fields
    <3>2. k+1 \in 1..n /\ i <= k+1 /\ k+1 <= len
      BY <1>7, <2>1, Fields
    <3>3. array[k+1] = (k+1) + n - len
      BY <3>2 DEF ArrayIsRight
    <3> QED BY <2>1, <3>1, <3>3, Fields
  <2>2. CASE len <= k
    <3>1. array'[k] = array[k]
      BY <1>4, <2>2
    <3>2. array[k] = n
      BY <1>7, <2>2, Fields DEF ArrayIsRight
    <3> QED BY <2>2, <3>1, <3>2, Fields
  <2> QED BY <2>1, <2>2, Fields
<1>8. ASSUME NEW k \in 1..len-1, k < i + 1
      PROVE  array'[k] < Coming + 2 /\ array'[k] \notin Gone
  <2>1. CASE k < i
    <3>1. array'[k] = array[k] /\ k \in 1..len /\ array[k] \in Nat
      BY <1>4, <1>8, <2>1, Fields, Numbers
    <3>2. array[k] < Coming /\ array[k] \notin Gone
      BY <2>1, <3>1 DEF ArrayIsRight
    <3> QED BY <3>1, <3>2, Fields
  <2>2. CASE k = i
    <3>1. array'[k] = array[i+1] /\ i + 1 \in 1..n /\ i + 1 <= len
      BY <1>4, <1>8, <2>2, Fields
    <3>2. array[i+1] = (i+1) + n - len
      BY <3>1, Fields DEF ArrayIsRight
    <3>3. array'[k] = Coming + 1
      BY <3>1, <3>2, Fields DEF Coming
    <3> QED BY <1>3, <3>3, Fields
  <2> QED BY <1>8, <2>1, <2>2, Fields
<1>9. ASSUME NEW d \in (1..n) \ Gone, d < Coming + 2
      PROVE  \E k \in 1..len-1 : k < i + 1 /\ array'[k] = d
  <2>1. CASE d < Coming
    <3>1. PICK k \in 1..len : k < i /\ array[k] = d
      BY <2>1 DEF ArrayIsRight
    <3>2. k \in 1..n /\ k \in 1..len-1 /\ array'[k] = d
      BY <1>4, <3>1, Fields
    <3> QED BY <3>1, <3>2
  <2>2. CASE d >= Coming
    <3>1. d = Coming + 1
      BY <1>2, <1>9, <2>2, Fields
    <3>2. i + 1 \in 1..n /\ i + 1 <= len /\ i \in 1..len-1
      BY <3>1, Fields DEF Coming
    <3>3. array'[i] = array[i+1]
      BY <1>4, <3>2, Fields
    <3>4. array[i+1] = (i+1) + n - len
      BY <3>2, Fields DEF ArrayIsRight
    <3>5. array'[i] = d
      BY <3>1, <3>3, <3>4, Fields DEF Coming
    <3> QED BY <3>2, <3>5
  <2> QED BY <2>1, <2>2, Fields
<1>10. ArrayIsRight'
  <2>1. \A k \in 1..n' : i' <= k => array'[k] = IF k <= len' THEN k + n' - len' ELSE n'
    BY <1>4, <1>7, Fields
  <2>2. \A k \in 1..len' : k < i' => array'[k] < Coming' /\ array'[k] \notin Gone'
    BY <1>4, <1>5, <1>6, <1>8
  <2>3. \A d \in (1..n') \ Gone' : d < Coming' => \E k \in 1..len' : k < i' /\ array'[k] = d
    BY <1>4, <1>5, <1>6, <1>9
  <2> QED BY <2>1, <2>2, <2>3 DEF ArrayIsRight
<1> QED BY <1>1, <1>2, <1>3, <1>5, <1>10

\* ... and for the lengths and visits.
LEMMA DeletedFromSlice ==
    ASSUME TypeOK, ArrayIsRight, LengthIsRight, VisitsAreRight, i \in 1..n, array[i] \in private,
           i <= len, Remove, i' = i + 1, n' = n, private' = private,
           visits' = [visits EXCEPT ![array[i]] = @ + 1]
    PROVE  LengthIsRight' /\ VisitsAreRight'
<1>1. /\ Coming \in Gone /\ Coming \in 1..n /\ Coming+1 \notin Gone /\ array[i] = Coming
      /\ Coming' = Coming + 2
  BY DeletedFromArray
<1>2. len' = len - 1 /\ Gone' = Gone
  BY Shift, GoneStays
<1>3. GoneBefore' = GoneBefore \cup {Coming} /\ Coming \notin GoneBefore
  <2>1. \A d \in Gone : d < Coming + 2 <=> d < Coming \/ d = Coming
    BY <1>1, Fields
  <2>2. GoneBefore' = {d \in Gone : d < Coming + 2} /\ GoneBefore = {d \in Gone : d < Coming}
    BY <1>1, <1>2 DEF GoneBefore
  <2>3. ~(Coming < Coming)
    BY Fields
  <2> QED BY <1>1, <2>1, <2>2, <2>3
<1>4. n' - len' = Cardinality(GoneBefore')
  <2>1. Cardinality(GoneBefore') = Cardinality(GoneBefore) + 1
    BY <1>3, Fields, OneMore
  <2> QED BY <1>2, <2>1, Fields DEF LengthIsRight
<1>5. i' <= len' => Coming' - 1 \notin Gone'
  BY <1>1, <1>2, Fields
<1>6. n' \in private' /\ i' > len' => Coming' = IF n' \in Gone' THEN n' + 2 ELSE n' + 1
  <2> SUFFICES ASSUME n \in private, i + 1 > len - 1
               PROVE  Coming + 2 = IF n \in Gone THEN n + 2 ELSE n + 1
    BY <1>1, <1>2
  <2>1. Coming = n \/ Coming = n - 1
    BY <1>1, Fields DEF Coming
  <2> QED BY <1>1, <2>1, Fields
<1>7. LengthIsRight'
  BY <1>4, <1>5, <1>6 DEF LengthIsRight
<1>8. visits \in [1..n -> Nat] /\ visits'[Coming] = visits[Coming] + 1
      /\ \A d \in 1..n : d # Coming => visits'[d] = visits[d]
  BY <1>1 DEF TypeOK
<1>9. ASSUME NEW d \in 1..n, d < n
      PROVE  visits'[d] = IF d < Coming + 2 /\ d-1 \notin Gone THEN 1 ELSE 0
  <2>1. visits[d] = IF d < Coming /\ d-1 \notin Gone THEN 1 ELSE 0
    BY <1>9 DEF VisitsAreRight
  <2>2. CASE d = Coming
    BY <1>1, <1>8, <2>1, <2>2, Fields
  <2>3. CASE d = Coming + 1
    <3>1. d-1 \in Gone /\ visits'[d] = visits[d]
      BY <1>1, <1>8, <2>3, Fields
    <3> QED BY <2>1, <3>1
  <2>4. CASE d # Coming /\ d # Coming + 1
    <3>1. d < Coming + 2 <=> d < Coming
      BY <2>4, Fields
    <3> QED BY <1>8, <2>1, <2>4, <3>1
  <2> QED BY <2>2, <2>3, <2>4
<1>10. visits'[n] = IF i + 1 <= len - 1 THEN 0
                    ELSE (IF n-1 \in Gone THEN 0 ELSE 1)
                         + (IF n \in private THEN 0 ELSE (i + 1) - (len - 1) - 1)
  <2>1. visits[n] = 0
    BY Fields DEF VisitsAreRight
  <2>2. CASE Coming = n
    <3>1. visits'[n] = 1 /\ n \in private /\ n-1 \notin Gone /\ i = len
      BY <1>1, <1>8, <2>1, <2>2, Fields DEF Coming
    <3> QED BY <3>1, Fields
  <2>3. CASE Coming = n - 1
    <3>1. i = len - 1 /\ n \in 1..n /\ n # Coming
      BY <1>1, <2>3, Numbers DEF Coming
    <3>2. visits'[n] = 0 /\ n-1 \in Gone
      BY <1>1, <1>8, <2>1, <2>3, <3>1
    <3> QED BY <3>1, <3>2, Numbers
  <2>4. CASE Coming < n - 1
    <3>1. visits'[n] = 0 /\ i + 1 <= len - 1
      BY <1>1, <1>8, <2>1, <2>4, Fields DEF Coming
    <3> QED BY <3>1
  <2> QED BY <1>1, <2>2, <2>3, <2>4, Fields
<1>11. VisitsAreRight'
  BY <1>1, <1>2, <1>9, <1>10 DEF VisitsAreRight
<1> QED BY <1>7, <1>11
\* Passing a public field is right.
LEMMA Passed ==
    ASSUME TypeOK, ArrayIsRight, LengthIsRight, VisitsAreRight, i \in 1..n, array[i] \notin private,
           UNCHANGED <<array, len, n, private>>, i' = i + 1,
           visits' = [visits EXCEPT ![array[i]] = @ + 1]
    PROVE  ArrayIsRight' /\ LengthIsRight' /\ VisitsAreRight'
<1>0. Gone' = Gone /\ Coming' = Coming + 1
  <2>1. Coming' = Coming + 1
    BY Numbers DEF Coming
  <2> QED BY <2>1, GoneStays
<1>1. array[i] = IF i <= len THEN Coming ELSE n
  BY Fields DEF ArrayIsRight, Coming
<1>2. /\ i <= len => Coming \in 1..n /\ array[i] = Coming
      /\ i > len => Coming > n /\ array[i] = n
      /\ Coming \notin Gone
  <2>1. i <= len => Coming \in 1..n
    BY Numbers DEF Coming
  <2>2. i > len => Coming > n
    BY Numbers DEF Coming
  <2>3. Coming \notin Gone
    <3>1. CASE i <= len
      BY <1>1, <2>1, <3>1, Fields
    <3>2. CASE i > len
      BY <2>2, <3>2, Fields
    <3> QED BY <3>1, <3>2, Fields
  <2> QED BY <1>1, <2>1, <2>2, <2>3, Fields
<1>3. GoneBefore' = GoneBefore
  <2>1. \A d \in Gone : d < Coming + 1 <=> d < Coming
    BY <1>2, Fields
  <2>2. GoneBefore' = {d \in Gone : d < Coming + 1} /\ GoneBefore = {d \in Gone : d < Coming}
    BY <1>0 DEF GoneBefore
  <2> QED BY <2>1, <2>2
<1>4. ASSUME NEW k \in 1..len, k < i + 1 PROVE array[k] < Coming + 1 /\ array[k] \notin Gone
  <2>1. CASE k < i
    <3>1. array[k] < Coming /\ array[k] \notin Gone /\ array[k] \in Nat
      BY <2>1, Fields, Numbers DEF ArrayIsRight
    <3> QED BY <3>1, Fields
  <2>2. CASE k = i
    BY <1>2, <2>2, Fields
  <2> QED BY <1>4, <2>1, <2>2, Fields
<1>5. ASSUME NEW d \in (1..n) \ Gone, d < Coming + 1
      PROVE  \E k \in 1..len : k < i + 1 /\ array[k] = d
  <2>1. CASE d < Coming
    <3>1. PICK k \in 1..len : k < i /\ array[k] = d
      BY <2>1 DEF ArrayIsRight
    <3> QED BY <3>1, Fields
  <2>2. CASE d >= Coming
    <3>1. d = Coming
      BY <1>5, <2>2, Fields
    <3>2. i <= len
      BY <1>2, <3>1, Fields
    <3> QED BY <1>2, <3>1, <3>2, Fields
  <2> QED BY <2>1, <2>2, Fields
<1>6. ArrayIsRight'
  <2>1. \A k \in 1..n' : i' <= k => array'[k] = IF k <= len' THEN k + n' - len' ELSE n'
    BY Fields DEF ArrayIsRight
  <2> QED BY <1>0, <1>4, <1>5, <2>1 DEF ArrayIsRight
<1>7. LengthIsRight'
  <2>1. n' - len' = Cardinality(GoneBefore')
    BY <1>3 DEF LengthIsRight
  <2>2. i' <= len' => Coming' - 1 \notin Gone'
    BY <1>0, <1>2, Fields
  <2>3. n' \in private' /\ i' > len' => Coming' = IF n' \in Gone' THEN n' + 2 ELSE n' + 1
    <3> SUFFICES ASSUME n \in private, i + 1 > len PROVE FALSE
      BY <1>0
    <3>1. i = len \/ i > len
      BY Numbers
    <3>2. array[i] = n
      <4>1. i = len => Coming = n
        BY Numbers DEF Coming
      <4> QED BY <1>1, <3>1, <4>1, Numbers
    <3> QED BY <3>2
  <2> QED BY <2>1, <2>2, <2>3 DEF LengthIsRight
<1>8. visits \in [1..n -> Nat] /\ array[i] \in 1..n /\ visits'[array[i]] = visits[array[i]] + 1
      /\ \A d \in 1..n : d # array[i] => visits'[d] = visits[d]
  <2>1. visits \in [1..n -> Nat] /\ array[i] \in 1..n
    BY Numbers DEF TypeOK
  <2> QED BY <2>1
<1>9. ASSUME NEW d \in 1..n, d < n
      PROVE  visits'[d] = IF d < Coming + 1 /\ d-1 \notin Gone THEN 1 ELSE 0
  <2>1. visits[d] = IF d < Coming /\ d-1 \notin Gone THEN 1 ELSE 0
    BY <1>9 DEF VisitsAreRight
  <2>2. CASE d = Coming
    <3>1. i <= len /\ array[i] = d
      BY <1>2, <2>2, Fields
    <3>2. d-1 \notin Gone /\ ~(d < Coming) /\ d < Coming + 1
      BY <2>2, <3>1, Fields DEF LengthIsRight
    <3> QED BY <1>8, <2>1, <3>1, <3>2
  <2>3. CASE d # Coming
    <3>1. (d < Coming + 1 <=> d < Coming) /\ d # array[i]
      BY <1>2, <1>9, <2>3, Fields
    <3> QED BY <1>8, <2>1, <3>1
  <2> QED BY <2>2, <2>3
<1>10. visits'[n] = IF i + 1 <= len THEN 0
                    ELSE (IF n-1 \in Gone THEN 0 ELSE 1)
                         + (IF n \in private THEN 0 ELSE (i + 1) - len - 1)
  <2>1. n \in 1..n
    BY Numbers
  <2>2. visits[n] = IF i <= len THEN 0
                    ELSE (IF n-1 \in Gone THEN 0 ELSE 1)
                         + (IF n \in private THEN 0 ELSE i - len - 1)
    BY <2>1 DEF VisitsAreRight
  <2>3. CASE i < len
    <3>1. array[i] # n /\ visits[n] = 0 /\ i + 1 <= len
      BY <1>2, <2>2, <2>3, Numbers DEF Coming
    <3> QED BY <1>8, <2>1, <3>1
  <2>4. CASE i = len
    <3>1. Coming = n /\ array[i] = n /\ n \notin private /\ visits[n] = 0
      BY <1>1, <2>2, <2>4, Numbers DEF Coming
    <3>2. n-1 \notin Gone
      BY <2>4, <3>1, Numbers DEF LengthIsRight
    <3> QED BY <1>8, <2>1, <2>4, <3>1, <3>2, Numbers
  <2>5. CASE i > len
    <3>1. array[i] = n /\ n \notin private
      BY <1>2, <2>5
    <3> QED BY <1>8, <2>2, <2>5, <3>1, Numbers
  <2> QED BY <2>3, <2>4, <2>5, Numbers
<1>11. VisitsAreRight'
  BY <1>0, <1>9, <1>10 DEF VisitsAreRight
<1> QED BY <1>6, <1>7, <1>11

\* A private field besides the last one goes, or the one before it.
LEMMA OneGoes ==
    ASSUME TypeOK, n \in private, private # {n}
    PROVE  \E d \in Gone : d < n
<1>1. PICK m \in private : m # n
  OBVIOUS
<1>2. m \in 1..n /\ m < n
  BY <1>1, Fields
<1>3. m \in Gone \/ m-1 \in Gone
  BY <1>2, Fields
<1> QED BY <1>2, <1>3, Fields

\* The loop panics only on what the closed form says it panics on.
LEMMA RightPanic ==
    ASSUME TypeOK, ArrayIsRight, LengthIsRight, i \in 1..n, array[i] \in private, i > len
    PROVE  PanicsOn(1..n, private)
<1>1. n \in 1..n /\ n \in private
  BY Fields DEF ArrayIsRight
<1>2. IsLast(1..n, n)
  BY <1>1, Fields DEF IsLast
<1>3. private # {n}
  <2> SUFFICES ASSUME private = {n} PROVE FALSE
    OBVIOUS
  <2>1. n \in Gone /\ GoneBefore \subseteq {n}
    <3>1. n-1 \notin Gone
      BY Fields
    <3> QED BY <1>1, <3>1, Fields DEF GoneBefore
  <2>2. Coming = n + 2
    BY <1>1, <2>1 DEF LengthIsRight
  <2>3. n - len >= 2
    BY <2>2, Numbers DEF Coming
  <2>4. Cardinality(GoneBefore) <= 1
    <3>1. IsFiniteSet({n}) /\ Cardinality({n}) = 1
      BY FS_Singleton
    <3> QED BY <2>1, <3>1, FS_Subset
  <2> QED BY <2>3, <2>4, Fields DEF LengthIsRight
<1>4. private \subseteq 1..n
  BY Fields
<1> QED BY <1>1, <1>2, <1>3, <1>4 DEF PanicsOn

\* The field behind another is the next one.
LEMMA NextField ==
    ASSUME NEW m \in Nat, NEW d \in 1..m, NEW e \in 1..m
    PROVE  Follows(1..m, d, e) <=> d = e-1
<1>1. ASSUME Follows(1..m, d, e) PROVE d = e-1
  <2>1. d < e /\ ~(d < d+1 /\ d+1 < e)
    <3>1. d < e => d+1 \in 1..m
      OBVIOUS
    <3> QED BY <1>1, <3>1 DEF Follows
  <2> QED BY <2>1
<1>2. ASSUME d = e-1 PROVE Follows(1..m, d, e)
  BY <1>2 DEF Follows
<1> QED BY <1>1, <1>2

\* When the loop is over it has done what the closed form says.
LEMMA Over ==
    ASSUME TypeOK, OnTheWay, ~panicked, i > n
    PROVE  /\ ~PanicsOn(1..n, private)
           /\ Result = (1..n) \ Gone
           /\ visits = [e \in 1..n |-> Visits(1..n, private, e)]
<1>1. ArrayIsRight /\ LengthIsRight /\ VisitsAreRight
  BY DEF OnTheWay
<1>2. i = n + 1 /\ i > len /\ Coming > n /\ \A d \in 1..n : d < Coming
  BY Numbers DEF Coming
<1>3. GoneBefore = Gone
  BY <1>2, Fields DEF GoneBefore
<1>4. ASSUME PanicsOn(1..n, private) PROVE FALSE
  <2>1. n \in private /\ private # {n}
    <3>1. PICK e \in (1..n) \cap private : IsLast(1..n, e) /\ (1..n) \cap private # {e}
      BY <1>4 DEF PanicsOn
    <3>2. e = n
      BY <3>1, Fields DEF IsLast
    <3>3. (1..n) \cap private = private
      BY Fields
    <3> QED BY <3>1, <3>2, <3>3
  <2>2. PICK d \in Gone : d < n
    BY <2>1, OneGoes
  <2>3. CASE n \notin Gone
    <3>1. n - len = 0
      BY <1>1, <1>2, <2>1, <2>3, Numbers DEF LengthIsRight, Coming
    <3>2. Gone # {} /\ Cardinality(Gone) = 0
      BY <1>1, <1>3, <2>2, <3>1 DEF LengthIsRight
    <3> QED BY <3>2, Fields, FS_EmptySet
  <2>4. CASE n \in Gone
    <3>1. n - len = 1
      BY <1>1, <1>2, <2>1, <2>4, Numbers DEF LengthIsRight, Coming
    <3>2. Cardinality(Gone) = 1
      BY <1>1, <1>3, <3>1 DEF LengthIsRight
    <3>3. PICK x : Gone = {x}
      BY <3>2, Fields, FS_Singleton
    <3> QED BY <2>2, <2>4, <3>3, Fields
  <2> QED BY <2>3, <2>4
<1>5. Result = (1..n) \ Gone
  <2>1. \A k \in 1..len : k < i /\ array[k] \in 1..n
    BY <1>2, Numbers
  <2>2. Result \subseteq (1..n) \ Gone
    BY <1>1, <2>1 DEF ArrayIsRight, Result
  <2>3. (1..n) \ Gone \subseteq Result
    BY <1>1, <1>2 DEF ArrayIsRight, Result
  <2> QED BY <2>2, <2>3
<1>6. ASSUME NEW e \in 1..n, e < n PROVE visits[e] = Visits(1..n, private, e)
  <2>1. ~IsLast(1..n, e)
    BY <1>6, Fields DEF IsLast
  <2>2. ASSUME NEW d \in Gone PROVE Follows(1..n, d, e) <=> d = e-1
    BY Fields, NextField
  <2>3. (\E d \in Gone : Follows(1..n, d, e)) <=> e-1 \in Gone
    BY <2>2
  <2>4. Visits(1..n, private, e) = IF e-1 \in Gone THEN 0 ELSE 1
    BY <2>1, <2>3 DEF Visits, Gone
  <2> QED BY <1>1, <1>2, <1>6, <2>4 DEF VisitsAreRight
<1>7. ASSUME n \in 1..n PROVE visits[n] = Visits(1..n, private, n)
  <2> DEFINE D == {d \in Gone : d # n /\ ~Follows(1..n, d, n)}
  <2>1. IsLast(1..n, n)
    BY <1>7, Fields DEF IsLast
  <2>2. Visits(1..n, private, n) = 1 + Cardinality(D)
    BY <2>1 DEF Visits, Gone
  <2>3. ASSUME NEW d \in Gone PROVE Follows(1..n, d, n) <=> d = n-1
    BY <1>7, Fields, NextField
  <2>4. D = {d \in Gone : d # n /\ d # n-1}
    BY <2>3
  <2> HIDE DEF D
  <2>5. visits[n] = (IF n-1 \in Gone THEN 0 ELSE 1)
                    + (IF n \in private THEN 0 ELSE Cardinality(Gone))
    <3>1. i - len - 1 = Cardinality(Gone)
      BY <1>1, <1>2, <1>3, Numbers DEF LengthIsRight
    <3> QED BY <1>1, <1>2, <1>7, <3>1, Numbers DEF VisitsAreRight
  <2>6. CASE n \in private
    <3>1. private = {n}
      BY <1>4, <1>7, <2>1, <2>6, Fields DEF PanicsOn
    <3>2. n-1 \notin Gone /\ Gone \subseteq {n}
      BY <3>1, Fields
    <3>3. D = {}
      BY <2>4, <3>2
    <3>4. Cardinality(D) = 0
      BY <3>3, FS_EmptySet
    <3> QED BY <2>2, <2>5, <2>6, <3>2, <3>4
  <2>7. CASE n \notin private
    <3>1. n \notin Gone /\ Cardinality(Gone) \in Nat
      BY <2>7, Fields, FS_CardinalityType
    <3>2. D = Gone \ {n-1}
      BY <2>4, <3>1
    <3>3. Cardinality(D) = IF n-1 \in Gone THEN Cardinality(Gone) - 1 ELSE Cardinality(Gone)
      BY <3>2, Fields, FS_RemoveElement
    <3> QED BY <2>2, <2>5, <2>7, <3>1, <3>3
  <2> QED BY <2>6, <2>7
<1>8. visits = [e \in 1..n |-> Visits(1..n, private, e)]
  <2>1. \A e \in 1..n : visits[e] = Visits(1..n, private, e)
    <3>1. \A e \in 1..n : e < n \/ (e = n /\ n \in 1..n)
      BY Fields
    <3> QED BY <1>6, <1>7, <3>1
  <2> QED BY <2>1 DEF TypeOK
<1> QED BY <1>4, <1>5, <1>8

\* What the loop does, for files of any length, is the closed form with which ConfigFile
\* goes through structs (see OutcomeOfLoop).
THEOREM ClosedForm == Spec => []OutcomeOfLoop
<1>1. TypeOK /\ Init => OnTheWay
  <2> SUFFICES ASSUME TypeOK, Init PROVE OnTheWay
    OBVIOUS
  <2>1. /\ array = [k \in 1..n |-> k] /\ len = n /\ i = 1 /\ ~panicked
        /\ visits = [k \in 1..n |-> 0] /\ n \in Nat
    BY Numbers DEF Init
  <2>2. Coming = 1 /\ \A d \in 1..n : ~(d < Coming)
    BY <2>1 DEF Coming
  <2>3. 0 \notin Gone /\ GoneBefore = {}
    BY <2>2, Fields DEF GoneBefore
  <2>4. ArrayIsRight
    BY <2>1, <2>2 DEF ArrayIsRight
  <2>5. LengthIsRight
    <3>1. n - len = Cardinality(GoneBefore)
      BY <2>1, <2>3, FS_EmptySet
    <3>2. i <= len => Coming-1 \notin Gone
      BY <2>2, <2>3
    <3>3. n \in private => ~(i > len)
      BY <2>1, Fields
    <3> QED BY <3>1, <3>2, <3>3 DEF LengthIsRight
  <2>6. VisitsAreRight
    BY <2>1, <2>2 DEF VisitsAreRight
  <2> QED BY <2>1, <2>4, <2>5, <2>6 DEF OnTheWay
<1>2. TypeOK /\ OnTheWay /\ [Visit]_vars => OnTheWay'
  <2> SUFFICES ASSUME TypeOK, OnTheWay, [Visit]_vars PROVE OnTheWay'
    OBVIOUS
  <2>1. CASE Visit
    <3>1. /\ i \in 1..n /\ n' = n /\ private' = private
          /\ ArrayIsRight /\ LengthIsRight /\ VisitsAreRight
      BY <2>1, Iteration DEF OnTheWay
    <3>2. CASE /\ array[i] \in private /\ i <= len /\ Remove /\ i' = i + 1
               /\ visits' = [visits EXCEPT ![array[i]] = @ + 1] /\ panicked' = panicked
      <4>1. ArrayIsRight' /\ LengthIsRight' /\ VisitsAreRight'
        BY <3>1, <3>2, DeletedFromArray, DeletedFromSlice
      <4>2. ~panicked'
        BY <2>1, <3>2, Iteration
      <4> QED BY <4>1, <4>2 DEF OnTheWay
    <3>3. CASE /\ array[i] \notin private /\ UNCHANGED <<array, len>> /\ i' = i + 1
               /\ visits' = [visits EXCEPT ![array[i]] = @ + 1] /\ panicked' = panicked
      <4>1. ArrayIsRight' /\ LengthIsRight' /\ VisitsAreRight'
        BY <3>1, <3>3, Passed
      <4>2. ~panicked'
        BY <2>1, <3>3, Iteration
      <4> QED BY <4>1, <4>2 DEF OnTheWay
    <3>4. CASE array[i] \in private /\ i > len /\ panicked' = TRUE /\ UNCHANGED <<array, len, i, visits>>
      <4>1. PanicsOn(1..n, private)
        BY <3>1, <3>4, RightPanic
      <4>2. i' <= n'
        BY <3>1, <3>4, Numbers
      <4> QED BY <3>1, <3>4, <4>1, <4>2 DEF OnTheWay
    <3> QED BY <2>1, <3>2, <3>3, <3>4, Iteration
  <2>2. CASE UNCHANGED vars
    BY <2>2 DEF vars, OnTheWay, ArrayIsRight, LengthIsRight, VisitsAreRight, GoneBefore, Gone, Coming
  <2> QED BY <2>1, <2>2
<1>3. TypeOK /\ OnTheWay => OutcomeOfLoop
  <2> SUFFICES ASSUME TypeOK, OnTheWay PROVE OutcomeOfLoop
    OBVIOUS
  <2>1. panicked => PanicsOn(1..n, private)
    BY DEF OnTheWay
  <2>2. panicked => ~(i > n)
    BY Numbers DEF OnTheWay
  <2> QED BY <2>1, <2>2, Over DEF OutcomeOfLoop, Gone
<1> QED BY <1>1, <1>2, <1>3, TypeCorrect, PTL DEF Spec
=============================================================================
