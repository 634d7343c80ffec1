------------------------- MODULE ConfigFile_proofs -------------------------
(* What becomes of config.cue, for any schemas, versions and edits, and for   *)
(* files of any depth.                                                        *)
EXTENDS ConfigFile, FiniteSetTheorems, WellFoundedInduction, TLAPS

-----------------------------------------------------------------------------
(* Numbers and paths *)

\* A set of numbers has a least one, from which inductions follow.
LEMMA Least ==
    ASSUME NEW T, T \subseteq Nat, T # {}
    PROVE  \E m \in T : \A k \in T : m <= k
<1>1. PICK m \in T : \A k \in T : ~(<<k, m>> \in OpToRel(<, Nat))
  BY NatLessThanWellFounded, WFMin
<1>2. ASSUME NEW k \in T PROVE m <= k
  <2>1. m \in Nat /\ k \in Nat
    OBVIOUS
  <2>2. ~(k < m)
    BY <1>1, <2>1 DEF OpToRel
  <2> QED BY <2>1, <2>2
<1> QED BY <1>2

\* A path with one name.
LEMMA OneName ==
    ASSUME NEW q \in Seq(Names), Len(q) = 1
    PROVE  q = <<q[1]>>
OBVIOUS

\* The length of a path that is put together.
LEMMA LenOfConcat ==
    ASSUME NEW q \in Seq(Names), NEW r \in Seq(Names)
    PROVE  Len(q \o r) = Len(q) + Len(r)
OBVIOUS

\* What is above a path is what it begins with.
LEMMA AbovePath ==
    ASSUME NEW p \in Seq(Names), p # <<>>
    PROVE  /\ \A q \in Above(p) :
                /\ q \in Seq(Names) /\ q # <<>> /\ Len(q) <= Len(p) /\ q[1] = p[1]
                /\ \A k \in 1..Len(q) : q[k] = p[k]
                /\ Len(q) = Len(p) => q = p
           /\ \A l \in 1..Len(p) : SubSeq(p, 1, l) \in Above(p) /\ Len(SubSeq(p, 1, l)) = l
           /\ p \in Above(p) /\ <<p[1]>> \in Above(p)
<1>0. Len(p) \in Nat /\ Len(p) >= 1 /\ p \in Seq(Names)
  OBVIOUS
<1>1. ASSUME NEW q \in Above(p)
      PROVE  /\ q \in Seq(Names) /\ q # <<>> /\ Len(q) <= Len(p) /\ q[1] = p[1]
             /\ \A k \in 1..Len(q) : q[k] = p[k]
             /\ Len(q) = Len(p) => q = p
  <2>1. PICK l \in 0..Len(p) : q = SubSeq(p, 1, l)
    BY DEF Above, Prefixes
  <2>2. q \in Seq(Names) /\ q # <<>> /\ Len(q) = l
    BY <1>0, <2>1 DEF Above
  <2>3. \A k \in 1..Len(q) : q[k] = p[k]
    BY <1>0, <2>1, <2>2
  <2>4. Len(q) >= 1
    BY <2>2
  <2>5. Len(q) = Len(p) => q = p
    BY <1>0, <2>1, <2>2
  <2> QED BY <1>0, <2>1, <2>2, <2>3, <2>4, <2>5
<1>2. ASSUME NEW l \in 1..Len(p)
      PROVE  SubSeq(p, 1, l) \in Above(p) /\ Len(SubSeq(p, 1, l)) = l
  <2>1. Len(SubSeq(p, 1, l)) = l
    BY <1>0
  <2>2. SubSeq(p, 1, l) # <<>>
    BY <2>1
  <2> QED BY <1>0, <2>1, <2>2 DEF Above, Prefixes
<1>3. p \in Above(p)
  <2>1. SubSeq(p, 1, Len(p)) = p
    BY <1>0
  <2>2. SubSeq(p, 1, Len(p)) \in Above(p)
    BY <1>0, <1>2
  <2> QED BY <2>1, <2>2
<1>4. <<p[1]>> \in Above(p)
  <2>1. SubSeq(p, 1, 1) \in Above(p) /\ Len(SubSeq(p, 1, 1)) = 1
    BY <1>0, <1>2
  <2>2. SubSeq(p, 1, 1) \in Seq(Names) /\ SubSeq(p, 1, 1)[1] = p[1]
    BY <1>0
  <2>3. SubSeq(p, 1, 1) = <<p[1]>>
    BY <2>1, <2>2, OneName
  <2> QED BY <2>1, <2>3
<1> QED BY <1>1, <1>2, <1>3, <1>4

\* What is above something above a path is above the path.
LEMMA AboveAbove ==
    ASSUME NEW p \in Seq(Names), p # <<>>, NEW q \in Above(p)
    PROVE  /\ Above(q) \subseteq Above(p)
           /\ \A r \in Above(q) : r # q => r # p
<1>0. Len(p) \in Nat /\ Len(p) >= 1 /\ p \in Seq(Names)
  OBVIOUS
<1>1. PICK l \in 0..Len(p) : q = SubSeq(p, 1, l)
  BY DEF Above, Prefixes
<1>2. Len(q) = l /\ q \in Seq(Names) /\ q # <<>>
  <2>1. Len(q) = l
    BY <1>0, <1>1
  <2> QED BY <2>1, AbovePath
<1>3. ASSUME NEW r \in Above(q) PROVE r \in Above(p) /\ (r # q => r # p)
  <2>1. PICK k \in 0..l : r = SubSeq(q, 1, k) /\ r # <<>>
    BY <1>2 DEF Above, Prefixes
  <2>2. SubSeq(q, 1, k) = SubSeq(p, 1, k)
    BY <1>0, <1>1, <2>1
  <2>3. k \in 0..Len(p)
    BY <1>0, <2>1
  <2>4. r \in Above(p)
    BY <2>1, <2>2, <2>3 DEF Above, Prefixes
  <2>5. ASSUME r = p PROVE r = q
    <3>1. q \in Seq(Names) /\ k \in 0..Len(q) /\ Len(r) = k
      BY <1>2, <2>1
    <3>2. k = l
      BY <1>0, <1>2, <2>5, <3>1
    <3> QED BY <1>2, <2>1, <3>1, <3>2
  <2> QED BY <2>4, <2>5
<1> QED BY <1>3

-----------------------------------------------------------------------------
(* Where fieldsDelta looks *)

\* The places of longer and longer beginnings of a path are well-defined.
LEMMA PlacesExist ==
    ASSUME NEW p \in Seq(Names), NEW n \in Nat
    PROVE  \E at : at = [k \in 0..n |-> IF k = 0 THEN <<>> ELSE at[k-1] \o SubSeq(p, 1, k)]
<1> DEFINE Is(m, g) == g = [k \in 0..m |-> IF k = 0 THEN <<>> ELSE g[k-1] \o SubSeq(p, 1, k)]
<1> DEFINE Bad == {m \in Nat : ~\E g : Is(m, g)}
<1>1. Is(0, [k \in 0..0 |-> <<>>])
  OBVIOUS
<1>2. ASSUME NEW m \in Nat, m > 0, NEW g, Is(m-1, g)
      PROVE  Is(m, [k \in 0..m |-> IF k = m THEN g[m-1] \o SubSeq(p, 1, m) ELSE g[k]])
  BY <1>2
<1> HIDE DEF Is
<1>3. Bad = {}
  <2> SUFFICES ASSUME Bad # {} PROVE FALSE
    OBVIOUS
  <2>1. PICK m \in Bad : \A k \in Bad : m <= k
    BY Least
  <2>2. m # 0
    BY <1>1, <2>1
  <2>3. m-1 \in Nat /\ m-1 \notin Bad
    BY <2>1, <2>2
  <2>4. PICK g : Is(m-1, g)
    BY <2>3
  <2>5. m \in Nat /\ m > 0
    BY <2>1, <2>2
  <2>6. \E h : Is(m, h)
    BY <1>2, <2>4, <2>5
  <2> QED BY <2>1, <2>6
<1>4. \E g : Is(n, g)
  BY <1>3
<1> QED BY <1>4 DEF Is

\* They are sequences of names.
LEMMA PlacesAreSequences ==
    ASSUME NEW p \in Seq(Names), NEW n \in Nat, n <= Len(p), NEW at,
           at = [k \in 0..n |-> IF k = 0 THEN <<>> ELSE at[k-1] \o SubSeq(p, 1, k)]
    PROVE  /\ at[0] = <<>>
           /\ \A k \in 0..n : at[k] \in Seq(Names)
           /\ \A k \in 1..n : at[k] = at[k-1] \o SubSeq(p, 1, k)
<1>1. at[0] = <<>>
  OBVIOUS
<1>2. ASSUME NEW k \in 1..n PROVE at[k] = at[k-1] \o SubSeq(p, 1, k)
  OBVIOUS
<1>3. \A k \in 1..n : SubSeq(p, 1, k) \in Seq(Names)
  OBVIOUS
<1> DEFINE Odd == {k \in 0..n : at[k] \notin Seq(Names)}
<1>4. Odd = {}
  <2> SUFFICES ASSUME Odd # {} PROVE FALSE
    OBVIOUS
  <2>1. PICK m \in Odd : \A k \in Odd : m <= k
    <3>1. Odd \subseteq Nat
      OBVIOUS
    <3> HIDE DEF Odd
    <3> QED BY <3>1, Least
  <2>2. m # 0 /\ m \in 0..n
    BY <1>1, <2>1
  <2>3. m \in 1..n /\ m-1 \in 0..n
    BY <2>2
  <2>4. m-1 \notin Odd
    <3> HIDE DEF Odd
    <3> QED BY <2>1, <2>3
  <2>5. at[m-1] \in Seq(Names)
    BY <2>3, <2>4
  <2>6. at[m] \in Seq(Names)
    BY <1>2, <1>3, <2>3, <2>5
  <2> QED BY <2>1, <2>6
<1> QED BY <1>1, <1>2, <1>4

\* A short path is looked for where it is, and a longer one in places with more than
\* three names.
LEMMA PlaceOfPath ==
    ASSUME NEW p \in Seq(Names), p # <<>>
    PROVE  /\ Place(p) \in Seq(Names) /\ Place(p) # <<>>
           /\ Len(p) <= 2 => Place(p) = p
           /\ Len(p) > 2 => Len(Place(p)) > 3
<1> DEFINE at == CHOOSE g : g = [k \in 0..Len(p)-1 |->
                                   IF k = 0 THEN <<>> ELSE g[k-1] \o SubSeq(p, 1, k)]
<1>1. Place(p) = Append(at[Len(p)-1], p[Len(p)])
  BY DEF Place
<1>2. PICK n \in Nat : Len(p)-1 = n /\ Len(p) = n+1
  OBVIOUS
<1>3. at = [k \in 0..n |-> IF k = 0 THEN <<>> ELSE at[k-1] \o SubSeq(p, 1, k)]
  BY <1>2, PlacesExist
<1> HIDE DEF at
<1>4. /\ at[0] = <<>>
      /\ \A k \in 0..n : at[k] \in Seq(Names)
      /\ \A k \in 1..n : at[k] = at[k-1] \o SubSeq(p, 1, k)
  BY <1>2, <1>3, PlacesAreSequences
<1>5. at[n] \in Seq(Names) /\ p[n+1] \in Names /\ Place(p) = Append(at[n], p[n+1])
  BY <1>1, <1>2, <1>4
<1>6. Place(p) \in Seq(Names) /\ Place(p) # <<>> /\ Len(Place(p)) = Len(at[n]) + 1
  BY <1>5
<1>7. CASE n = 0
  <2>1. Place(p) = p
    BY <1>2, <1>4, <1>5, <1>6, <1>7
  <2> QED BY <1>2, <1>6, <1>7, <2>1
<1>8. CASE n >= 1
  <2>1. at[1] = SubSeq(p, 1, 1)
    <3>1. 1 \in 1..n /\ 1-1 = 0
      BY <1>8
    <3>2. at[1] = at[0] \o SubSeq(p, 1, 1)
      BY <1>4, <3>1
    <3>3. SubSeq(p, 1, 1) \in Seq(Names)
      OBVIOUS
    <3> QED BY <1>4, <3>2, <3>3
  <2>2. Len(at[1]) = 1 /\ at[1][1] = p[1] /\ at[1] \in Seq(Names)
    BY <1>2, <1>8, <2>1
  <2>3. CASE n = 1
    <3>1. Place(p) = Append(at[1], p[2])
      BY <1>5, <2>3
    <3>2. Len(Place(p)) = 2 /\ Place(p)[1] = p[1] /\ Place(p)[2] = p[2]
      BY <1>2, <2>2, <2>3, <3>1
    <3>3. Place(p) = p
      BY <1>2, <1>6, <2>3, <3>2
    <3> QED BY <1>2, <1>6, <2>3, <3>3
  <2>4. CASE n > 1
    <3>1. at[n] = at[n-1] \o SubSeq(p, 1, n) /\ at[n-1] \in Seq(Names)
      <4>1. n \in 1..n /\ n-1 \in 0..n
        BY <2>4
      <4> QED BY <1>4, <4>1
    <3>2. SubSeq(p, 1, n) \in Seq(Names) /\ Len(SubSeq(p, 1, n)) = n
      BY <1>2, <2>4
    <3>3. Len(at[n]) = Len(at[n-1]) + n
      BY <3>1, <3>2, LenOfConcat
    <3>4. PICK m \in Nat : m = Len(at[n-1])
      BY <3>1
    <3>5. n = 2 => m = 1
      BY <2>2, <3>4
    <3>6. m + n > 2
      BY <2>4, <3>5
    <3> QED BY <1>2, <1>6, <2>4, <3>3, <3>4, <3>6
  <2> QED BY <1>8, <2>3, <2>4
<1> QED BY <1>7, <1>8

-----------------------------------------------------------------------------
(* What is done to fields and files *)

\* The shape of a file.
LEMMA FileShape ==
    ASSUME NEW f, IsFile(f)
    PROVE  /\ f = [p \in DOMAIN f |-> f[p]]
           /\ \A p \in DOMAIN f :
                /\ p \in Seq(Names) /\ p # <<>> /\ f[p] \in Field
                /\ Above(p) \subseteq DOMAIN f /\ p \in Above(p)
                /\ <<p[1]>> \in Above(p) /\ <<p[1]>> \in DOMAIN f
                /\ \A q \in Above(p) : q # p => IsStruct(f[q])
<1>1. f = [p \in DOMAIN f |-> f[p]]
  BY DEF IsFile
<1>2. ASSUME NEW p \in DOMAIN f
      PROVE  /\ p \in Seq(Names) /\ p # <<>> /\ f[p] \in Field
             /\ Above(p) \subseteq DOMAIN f
             /\ \A q \in Above(p) : q # p => IsStruct(f[q])
  BY DEF IsFile
<1>3. ASSUME NEW p \in DOMAIN f PROVE p \in Above(p) /\ <<p[1]>> \in Above(p)
  BY <1>2, AbovePath
<1> QED BY <1>1, <1>2, <1>3

\* Structs stay structs, and a default becomes the value.
LEMMA ResolvedField ==
    ASSUME NEW c \in Field
    PROVE  /\ Resolve(c) \in Field /\ Resolve(c).default = None
           /\ Resolve(c).private = c.private /\ Resolve(c).optional = c.optional
           /\ IsStruct(c) => IsStruct(Resolve(c))
           /\ c.default = None => Resolve(c) = c
           /\ \A b \in BOOLEAN : /\ [Resolve(c) EXCEPT !.private = b] \in Field
                                 /\ [Resolve(c) EXCEPT !.optional = b] \in Field
<1>0. Struct \notin Values /\ None \notin Values /\ None # Struct
  BY ConstantsAssumption DEF ConstantsAssumption
<1>1. /\ c \in [allowed : SUBSET (Values \cup {Struct}), default : Values \cup {None},
                private : BOOLEAN, optional : BOOLEAN]
      /\ c.default \in c.allowed \cup {None}
  BY DEF Field
<1>2. CASE c.default = None
  BY <1>1, <1>2 DEF Resolve, Field
<1>3. CASE c.default # None
  <2>1. c.default \in Values /\ c.allowed # {Struct}
    BY <1>0, <1>1, <1>3
  <2> QED BY <1>1, <1>3, <2>1 DEF Resolve, Field, IsStruct
<1> QED BY <1>2, <1>3

\* Two fields meet in a field; a struct meets only structs.
LEMMA MetField ==
    ASSUME NEW b \in Field, NEW c \in Field
    PROVE  /\ Meet(b, c) \in Field
           /\ IsStruct(b) \/ IsStruct(c) => IsStruct(Meet(b, c)) \/ Meet(b, c).allowed = {}
<1>0. Struct \notin Values /\ None \notin Values /\ None # Struct
  BY ConstantsAssumption DEF ConstantsAssumption
<1>1. /\ b.allowed \in SUBSET (Values \cup {Struct}) /\ c.allowed \in SUBSET (Values \cup {Struct})
      /\ b.default \in Values \cup {None} /\ c.default \in Values \cup {None}
      /\ b.private \in BOOLEAN /\ c.private \in BOOLEAN
      /\ b.optional \in BOOLEAN /\ c.optional \in BOOLEAN
  BY DEF Field
<1> DEFINE both == b.allowed \cap c.allowed
           defaults == {b.default, c.default} \cap both
           default == IF \E v \in defaults : defaults = {v} THEN CHOOSE v \in defaults : TRUE
                                                            ELSE None
<1>2. Meet(b, c) = [allowed |-> both, default |-> default,
                    private |-> b.private \/ c.private, optional |-> b.optional /\ c.optional]
  BY DEF Meet
<1>3. default \in defaults \cup {None}
  OBVIOUS
<1>4. defaults \subseteq both /\ defaults \subseteq Values
  BY <1>0, <1>1
<1> HIDE DEF default
<1>5. Meet(b, c) \in Field
  BY <1>1, <1>2, <1>3, <1>4 DEF Field
<1>6. IsStruct(b) \/ IsStruct(c) => IsStruct(Meet(b, c)) \/ Meet(b, c).allowed = {}
  BY <1>2 DEF IsStruct
<1> QED BY <1>5, <1>6

\* Files are unified to a file.
LEMMA UnifiedFile ==
    ASSUME NEW f, IsFile(f), NEW g, IsFile(g)
    PROVE  IsFile(UnifyFiles(f, g))
<1> DEFINE both == [p \in DOMAIN f \cup DOMAIN g |->
                      IF p \notin DOMAIN f THEN g[p]
                      ELSE IF p \notin DOMAIN g THEN f[p] ELSE Meet(f[p], g[p])]
           kept == {p \in DOMAIN both : \A q \in Above(p) \ {p} : both[q].allowed # {}}
<1>1. UnifyFiles(f, g) = [p \in kept |-> both[p]]
  BY DEF UnifyFiles, Restrict
<1>2. ASSUME NEW p \in DOMAIN both
      PROVE  /\ p \in Seq(Names) /\ p # <<>> /\ both[p] \in Field
             /\ Above(p) \subseteq DOMAIN both
  BY FileShape, MetField
<1>3. ASSUME NEW p \in DOMAIN both, NEW q \in Above(p), q # p, both[q].allowed # {}
      PROVE  IsStruct(both[q])
  <2>1. /\ p \in DOMAIN f => q \in DOMAIN f /\ IsStruct(f[q])
        /\ p \in DOMAIN g => q \in DOMAIN g /\ IsStruct(g[q])
    BY <1>3, FileShape
  <2>2. q \in DOMAIN f => f[q] \in Field
    BY FileShape
  <2>3. q \in DOMAIN g => g[q] \in Field
    BY FileShape
  <2> QED BY <1>3, <2>1, <2>2, <2>3, MetField
<1> HIDE DEF both
<1>4. ASSUME NEW p \in kept, NEW q \in Above(p) PROVE q \in kept
  BY <1>2, AboveAbove
<1>5. \A p \in kept : both[p] \in Field
  BY <1>2
<1>6. ASSUME NEW p \in kept, NEW q \in Above(p), q # p PROVE IsStruct(both[q])
  BY <1>3, <1>6
<1> HIDE DEF kept
<1>7. kept \subseteq DOMAIN both
  BY DEF kept
<1> QED BY <1>1, <1>2, <1>4, <1>5, <1>6, <1>7 DEF IsFile

\* The files of any number of pipelines are unified to a file.
LEMMA UnifiedFiles ==
    ASSUME NEW fs \in Seq(Files)
    PROVE  IsFile(Unified(fs))
<1>1. PICK n \in Nat : n = Len(fs)
  OBVIOUS
<1>2. \A f \in Files : IsFile(f)
  BY ConstantsAssumption DEF ConstantsAssumption
<1>3. IsFile(<<>>)
  BY DEF IsFile
<1> DEFINE Is(m, g) == g = [k \in 0..m |-> IF k = 0 THEN <<>> ELSE UnifyFiles(g[k-1], fs[k])]
<1> DEFINE Bad == {m \in Nat : ~\E g : Is(m, g)}
<1>4. Is(0, [k \in 0..0 |-> <<>>])
  OBVIOUS
<1>5. ASSUME NEW m \in Nat, m > 0, NEW g, Is(m-1, g)
      PROVE  Is(m, [k \in 0..m |-> IF k = m THEN UnifyFiles(g[m-1], fs[m]) ELSE g[k]])
  BY <1>5
<1> HIDE DEF Is
<1>6. Bad = {}
  <2> SUFFICES ASSUME Bad # {} PROVE FALSE
    OBVIOUS
  <2>1. PICK m \in Bad : \A k \in Bad : m <= k
    BY Least
  <2>2. m # 0
    BY <1>4, <2>1
  <2>3. m-1 \in Nat /\ m-1 \notin Bad
    BY <2>1, <2>2
  <2>4. PICK g : Is(m-1, g)
    BY <2>3
  <2>5. m \in Nat /\ m > 0
    BY <2>1, <2>2
  <2>6. \E h : Is(m, h)
    BY <1>5, <2>4, <2>5
  <2> QED BY <2>1, <2>6
<1>7. \E g : Is(Len(fs), g)
  BY <1>1, <1>6
<1> DEFINE upTo == CHOOSE g : Is(Len(fs), g)
<1>8. Is(n, upTo)
  BY <1>1, <1>7
<1>9. Unified(fs) = upTo[n]
  BY <1>1 DEF Unified, Is
<1> HIDE DEF upTo
<1>10. /\ upTo[0] = <<>>
      /\ \A k \in 1..n : upTo[k] = UnifyFiles(upTo[k-1], fs[k])
  BY <1>8 DEF Is
<1> DEFINE Odd == {k \in 0..n : ~IsFile(upTo[k])}
<1>11. Odd = {}
  <2> SUFFICES ASSUME Odd # {} PROVE FALSE
    OBVIOUS
  <2>1. PICK m \in Odd : \A k \in Odd : m <= k
    <3>1. Odd \subseteq Nat
      OBVIOUS
    <3> HIDE DEF Odd
    <3> QED BY <3>1, Least
  <2>2. m # 0 /\ m \in 0..n
    BY <1>3, <1>10, <2>1
  <2>3. m \in 1..n /\ m-1 \in 0..n
    BY <2>2
  <2>4. m-1 \notin Odd
    <3> HIDE DEF Odd
    <3> QED BY <2>1, <2>3
  <2>5. IsFile(upTo[m-1])
    BY <2>3, <2>4
  <2>6. fs[m] \in Files
    BY <1>1, <2>3
  <2>7. IsFile(upTo[m])
    BY <1>2, <1>10, <2>3, <2>5, <2>6, UnifiedFile
  <2> QED BY <2>1, <2>7
<1> QED BY <1>9, <1>11

-----------------------------------------------------------------------------
(* What is missing, and what is added *)

\* What fieldsDelta finds is public and in the schema, and at the top it is missing in
\* the data; it is never three names deep, and it has all that is missing one or two
\* names deep.
LEMMA Delta ==
    ASSUME NEW s, IsFile(s), NEW d, IsFile(d)
    PROVE  /\ \A x \in FieldsDelta(s, d) :
                /\ x \in DOMAIN s /\ ~s[x].private /\ Len(x) # 3
                /\ Len(x) = 1 => x \notin DOMAIN d
           /\ \A p \in DOMAIN s :
                Len(p) <= 2 /\ p \notin DOMAIN d /\ (\A q \in Above(p) : ~s[q].private)
                  => p \in FieldsDelta(s, d)
<1> DEFINE Reached(p) == \A q \in Above(p) : /\ Place(q) \in DOMAIN s /\ ~s[Place(q)].private
                                             /\ q # p => IsStruct(s[Place(q)])
           missing == {p \in (UNION {Suffixes(q) : q \in DOMAIN s}) \ {<<>>} :
                         p \notin DOMAIN d /\ Reached(p)}
<1>1. FieldsDelta(s, d) = {Place(p) : p \in missing}
  BY DEF FieldsDelta
<1>2. ASSUME NEW p \in missing PROVE p \in Seq(Names) /\ p # <<>>
  <2>1. PICK q \in DOMAIN s : p \in Suffixes(q)
    OBVIOUS
  <2>2. q \in Seq(Names)
    BY FileShape
  <2>3. p = <<>> \/ \E l \in 1..Len(q) : p = SubSeq(q, l, Len(q))
    BY <2>1 DEF Suffixes
  <2>4. \A l \in 1..Len(q) : SubSeq(q, l, Len(q)) \in Seq(Names)
    BY <2>2
  <2>5. p # <<>>
    OBVIOUS
  <2> HIDE DEF missing
  <2>6. p \in Seq(Names)
    BY <2>3, <2>4, <2>5
  <2> QED BY <2>5, <2>6
<1>3. ASSUME NEW p \in missing
      PROVE  /\ Place(p) \in DOMAIN s /\ ~s[Place(p)].private /\ Len(Place(p)) # 3
             /\ Len(Place(p)) = 1 => Place(p) \notin DOMAIN d
  <2>1. p \in Seq(Names) /\ p # <<>>
    BY <1>2
  <2>2. p \in Above(p)
    BY <2>1, AbovePath
  <2>3. Place(p) \in DOMAIN s /\ ~s[Place(p)].private /\ p \notin DOMAIN d
    BY <2>2
  <2>4. PICK n \in Nat : n = Len(p)
    BY <2>1
  <2>5. CASE n <= 2
    <3>1. Place(p) = p
      BY <2>1, <2>4, <2>5, PlaceOfPath
    <3>2. n # 3
      BY <2>5
    <3>3. Len(Place(p)) # 3
      BY <2>4, <3>1, <3>2, Zenon
    <3>4. Place(p) \in DOMAIN s /\ ~s[Place(p)].private /\ Place(p) \notin DOMAIN d
      BY <2>3, <3>1
    <3> HIDE DEF missing
    <3> QED BY <3>3, <3>4
  <2>6. CASE n > 2
    <3>1. Place(p) \in Seq(Names) /\ Len(Place(p)) > 3
      BY <2>1, <2>4, <2>6, PlaceOfPath
    <3>2. PICK m \in Nat : m = Len(Place(p)) /\ m > 3
      BY <3>1
    <3>3. Len(Place(p)) # 3 /\ Len(Place(p)) # 1
      <4>1. m > 3
        BY <3>2
      <4>2. m # 3 /\ m # 1
        BY <4>1
      <4> QED BY <3>2, <4>2
    <3> HIDE DEF missing
    <3> QED BY <2>3, <3>3
  <2> QED BY <2>5, <2>6
<1>4. ASSUME NEW p \in DOMAIN s, Len(p) <= 2, p \notin DOMAIN d,
             \A q \in Above(p) : ~s[q].private
      PROVE  p \in FieldsDelta(s, d)
  <2>1. p \in Seq(Names) /\ p # <<>>
    BY FileShape
  <2>2. PICK n \in Nat : n = Len(p) /\ n >= 1
    BY <2>1
  <2>3. p \in Suffixes(p)
    <3>1. SubSeq(p, 1, Len(p)) = p
      BY <2>1
    <3>2. 1 \in 1..Len(p)
      BY <2>2
    <3> QED BY <3>1, <3>2 DEF Suffixes
  <2>4. ASSUME NEW q \in Above(p) PROVE Place(q) = q /\ q \in DOMAIN s
    <3>1. q \in Seq(Names) /\ q # <<>> /\ Len(q) <= Len(p)
      BY <2>1, AbovePath
    <3>2. PICK m \in Nat : m = Len(q)
      BY <3>1
    <3>3. Len(q) <= 2
      BY <1>4, <2>2, <3>1, <3>2
    <3>4. Place(q) = q
      BY <3>1, <3>3, PlaceOfPath
    <3> QED BY <3>4, FileShape
  <2>5. Reached(p)
    BY <1>4, <2>4, FileShape
  <2> HIDE DEF Reached
  <2>6. p \in missing
    <3>1. p \in (UNION {Suffixes(q) : q \in DOMAIN s}) \ {<<>>}
      BY <2>1, <2>3
    <3> QED BY <1>4, <2>5, <3>1
  <2>7. Place(p) = p
    BY <2>1, <2>4, AbovePath
  <2> QED BY <1>1, <2>6, <2>7
<1> HIDE DEF missing
<1> QED BY <1>1, <1>3, <1>4

\* makeValues adds what Merge should add: see Added.
LEMMA ValuesAreAdded ==
    ASSUME NEW s, IsFile(s), NEW d, IsFile(d)
    PROVE  /\ MakeValues(s, FieldsDelta(s, d)) =
                [p \in Added(d, s) |-> [Resolve(s[p]) EXCEPT !.optional = FALSE]]
           /\ \A p \in Added(d, s) :
                /\ p \in DOMAIN s /\ p \notin DOMAIN d /\ p \in Above(p)
                /\ Above(p) \subseteq Added(d, s) /\ Above(p) \cap DOMAIN d = {}
<1> DEFINE delta == FieldsDelta(s, d)
<1>a. \A x \in delta : /\ x \in DOMAIN s /\ ~s[x].private /\ Len(x) # 3
                       /\ Len(x) = 1 => x \notin DOMAIN d
  BY Delta
<1>b. \A p \in DOMAIN s :
        Len(p) <= 2 /\ p \notin DOMAIN d /\ (\A q \in Above(p) : ~s[q].private) => p \in delta
  BY Delta
<1> HIDE DEF delta
<1>1. ASSUME NEW p \in DOMAIN s, Above(p) \subseteq delta PROVE p \in Added(d, s)
  <2>1. p \in Seq(Names) /\ p # <<>> /\ <<p[1]>> \in Above(p)
    BY FileShape
  <2>2. Len(<<p[1]>>) = 1
    OBVIOUS
  <2>3. <<p[1]>> \notin DOMAIN d
    <3>1. <<p[1]>> \in delta
      BY <1>1, <2>1
    <3> QED BY <1>a, <2>2, <3>1
  <2>4. ASSUME NEW q \in Above(p) PROVE ~s[q].private
    <3>1. q \in delta
      BY <1>1
    <3> QED BY <1>a, <3>1
  <2>5. PICK n \in Nat : n = Len(p)
    BY <2>1
  <2>6. ASSUME n > 2 PROVE FALSE
    <3>1. 3 \in 1..Len(p)
      BY <2>5, <2>6
    <3>2. SubSeq(p, 1, 3) \in Above(p) /\ Len(SubSeq(p, 1, 3)) = 3
      BY <2>1, <3>1, AbovePath
    <3>3. SubSeq(p, 1, 3) \in delta
      BY <1>1, <3>2
    <3> QED BY <1>a, <3>2, <3>3
  <2>7. Len(p) <= 2
    BY <2>5, <2>6
  <2> QED BY <2>3, <2>4, <2>7 DEF Added
<1>2. ASSUME NEW p \in Added(d, s), NEW q \in Above(p)
      PROVE  q \in Added(d, s) /\ q \notin DOMAIN d /\ q \in delta
  <2>1. /\ p \in DOMAIN s /\ Len(p) <= 2 /\ <<p[1]>> \notin DOMAIN d
        /\ \A r \in Above(p) : ~s[r].private
    BY DEF Added
  <2>2. p \in Seq(Names) /\ p # <<>> /\ q \in DOMAIN s
    BY <2>1, FileShape
  <2>3. q \in Seq(Names) /\ q # <<>> /\ Len(q) <= Len(p) /\ q[1] = p[1]
    BY <2>2, AbovePath
  <2>4. PICK n \in Nat : n = Len(p) /\ n <= 2
    BY <2>1, <2>2
  <2>5. PICK m \in Nat : m = Len(q) /\ m <= n
    BY <2>3, <2>4
  <2>6. Len(q) <= 2
    BY <2>4, <2>5
  <2>7. \A r \in Above(q) : ~s[r].private
    BY <2>1, <2>2, AboveAbove
  <2>8. q \notin DOMAIN d
    BY <2>1, <2>3, FileShape
  <2>9. q \in delta
    BY <1>b, <2>2, <2>6, <2>7, <2>8
  <2> QED BY <2>1, <2>2, <2>3, <2>6, <2>7, <2>8, <2>9 DEF Added
<1>3. Added(d, s) \subseteq DOMAIN s
  BY DEF Added
<1>4. {p \in DOMAIN s : Above(p) \subseteq delta} = Added(d, s)
  BY <1>1, <1>2, <1>3
<1>5. MakeValues(s, delta) = [p \in Added(d, s) |-> [Resolve(s[p]) EXCEPT !.optional = FALSE]]
  BY <1>4 DEF MakeValues
<1>6. \A p \in Added(d, s) : p \in Above(p)
  BY <1>3, FileShape
<1> QED BY <1>2, <1>3, <1>5, <1>6 DEF delta

\* File m is d with what is missing at the top.
Completes(m, d, s) ==
    /\ IsFile(m) /\ DOMAIN m = DOMAIN d \cup Added(d, s)
    /\ \A p \in DOMAIN d : m[p] = d[p]
    /\ \A p \in Added(d, s) : m[p] = [Resolve(s[p]) EXCEPT !.optional = FALSE]

\* Merge keeps what is there, and adds what is missing at the top.
LEMMA Merged ==
    ASSUME NEW s, IsFile(s), NEW d, IsFile(d)
    PROVE  Completes(Merge(d, s), d, s)
<1> DEFINE new == MakeValues(s, FieldsDelta(s, d))
           both == [p \in DOMAIN d \cup DOMAIN new |->
                      IF p \notin DOMAIN d THEN new[p]
                      ELSE IF p \notin DOMAIN new THEN d[p] ELSE Meet(d[p], new[p])]
           kept == {p \in DOMAIN both : \A q \in Above(p) \ {p} : both[q].allowed # {}}
<1>1. /\ DOMAIN new = Added(d, s)
      /\ \A p \in Added(d, s) : new[p] = [Resolve(s[p]) EXCEPT !.optional = FALSE]
      /\ \A p \in Added(d, s) : p \in DOMAIN s /\ p \notin DOMAIN d
      /\ \A p \in Added(d, s) : Above(p) \subseteq Added(d, s)
      /\ new = [p \in Added(d, s) |-> new[p]]
  <2>1. new = [p \in Added(d, s) |-> [Resolve(s[p]) EXCEPT !.optional = FALSE]]
    BY ValuesAreAdded
  <2> HIDE DEF new
  <2> QED BY <2>1, ValuesAreAdded
<1> HIDE DEF new
<1>2. IsFile(new)
  <2>1. ASSUME NEW p \in DOMAIN new
        PROVE  /\ p \in Seq(Names) /\ p # <<>> /\ new[p] \in Field
               /\ \A q \in Above(p) : q \in DOMAIN new /\ (q # p => IsStruct(new[q]))
    <3>1. p \in Seq(Names) /\ p # <<>> /\ s[p] \in Field
      BY <1>1, FileShape
    <3>2. new[p] \in Field
      BY <1>1, <3>1, ResolvedField
    <3>3. ASSUME NEW q \in Above(p) PROVE q \in DOMAIN new /\ (q # p => IsStruct(new[q]))
      <4>1. q \in DOMAIN new /\ (q # p => IsStruct(s[q])) /\ s[q] \in Field
        BY <1>1, FileShape
      <4>2. q # p => IsStruct(Resolve(s[q])) /\ Resolve(s[q]) \in Field
        BY <4>1, ResolvedField
      <4> QED BY <1>1, <4>1, <4>2 DEF IsStruct, Field
    <3> QED BY <3>1, <3>2, <3>3
  <2> QED BY <1>1, <2>1 DEF IsFile
<1>3. Merge(d, s) = UnifyFiles(d, new)
  BY DEF Merge, new
<1>4. UnifyFiles(d, new) = [p \in kept |-> both[p]]
  BY DEF UnifyFiles, Restrict
<1>5. /\ \A p \in DOMAIN d : both[p] = d[p]
      /\ \A p \in DOMAIN new : both[p] = new[p]
      /\ DOMAIN both = DOMAIN d \cup DOMAIN new
  BY <1>1
<1> HIDE DEF both
<1>6. kept = DOMAIN both
  <2>1. ASSUME NEW p \in DOMAIN both, NEW q \in Above(p), q # p PROVE both[q].allowed # {}
    <3>1. CASE p \in DOMAIN d
      <4>1. q \in DOMAIN d /\ IsStruct(d[q])
        BY <2>1, <3>1, FileShape
      <4> QED BY <1>5, <4>1 DEF IsStruct
    <3>2. CASE p \in DOMAIN new
      <4>1. q \in DOMAIN new /\ IsStruct(new[q])
        BY <1>2, <2>1, <3>2, FileShape
      <4> QED BY <1>5, <4>1 DEF IsStruct
    <3> QED BY <1>5, <3>1, <3>2
  <2> QED BY <2>1
<1>7. IsFile(Merge(d, s))
  BY <1>2, <1>3, UnifiedFile
<1> HIDE DEF kept
<1>8. DOMAIN Merge(d, s) = DOMAIN d \cup Added(d, s) /\ \A p \in DOMAIN both : Merge(d, s)[p] = both[p]
  BY <1>1, <1>3, <1>4, <1>5, <1>6
<1> QED BY <1>1, <1>5, <1>7, <1>8 DEF Completes

-----------------------------------------------------------------------------
(* Configurations *)

\* A configuration says what is, and nothing about what may be.
Plain(f) == IsFile(f) /\ \A p \in DOMAIN f : f[p].default = None /\ ~f[p].optional

\* Whatever is kept of a file with all that is above it, resolved, is a configuration,
\* with or without the private attributes.
LEMMA ResolvedFile ==
    ASSUME NEW f, IsFile(f), NEW D, D \subseteq DOMAIN f, \A p \in D : Above(p) \subseteq D,
           \A p \in D : ~f[p].optional,
           NEW g, g = [p \in D |-> g[p]],
           \A p \in D : g[p] \in {Resolve(f[p]), [Resolve(f[p]) EXCEPT !.private = FALSE]}
    PROVE  Plain(g)
<1>1. ASSUME NEW p \in D
      PROVE  /\ p \in Seq(Names) /\ p # <<>> /\ g[p] \in Field
             /\ g[p].default = None /\ ~g[p].optional
             /\ IsStruct(f[p]) => IsStruct(g[p])
  <2>1. p \in Seq(Names) /\ p # <<>> /\ f[p] \in Field /\ ~f[p].optional
    BY FileShape
  <2>2. /\ Resolve(f[p]) \in Field /\ Resolve(f[p]).default = None
        /\ Resolve(f[p]).optional = f[p].optional
        /\ IsStruct(f[p]) => IsStruct(Resolve(f[p]))
    BY <2>1, ResolvedField
  <2>3. CASE g[p] = Resolve(f[p])
    BY <2>1, <2>2, <2>3
  <2>4. CASE g[p] = [Resolve(f[p]) EXCEPT !.private = FALSE]
    <3>1. g[p] \in Field
      BY <2>1, <2>4, ResolvedField
    <3>2. /\ g[p].default = None /\ ~g[p].optional
          /\ IsStruct(f[p]) => IsStruct(g[p])
      BY <2>1, <2>2, <2>4 DEF Field, IsStruct
    <3> QED BY <2>1, <3>1, <3>2
  <2> QED BY <2>3, <2>4
<1>2. ASSUME NEW p \in D, NEW q \in Above(p), q # p PROVE IsStruct(g[q])
  BY <1>1, <1>2, FileShape
<1>3. DOMAIN g = D
  OBVIOUS
<1> QED BY <1>1, <1>2, <1>3 DEF Plain, IsFile

\* What is present is present with all that is above it.
LEMMA PresentPaths ==
    ASSUME NEW f, IsFile(f)
    PROVE  /\ Present(f) \subseteq DOMAIN f
           /\ \A p \in Present(f) : Above(p) \subseteq Present(f) /\ ~f[p].optional
<1>1. ASSUME NEW p \in Present(f) PROVE Above(p) \subseteq Present(f) /\ ~f[p].optional
  <2>1. /\ p \in DOMAIN f /\ p \in Seq(Names) /\ p # <<>> /\ p \in Above(p)
        /\ Above(p) \subseteq DOMAIN f /\ \A q \in Above(p) : ~f[q].optional
    BY FileShape DEF Present
  <2>2. \A q \in Above(p) : Above(q) \subseteq Above(p)
    BY <2>1, AboveAbove
  <2> QED BY <2>1, <2>2 DEF Present
<1> QED BY <1>1 DEF Present

\* Eval makes a configuration of what is present.
LEMMA EvalOfFile ==
    ASSUME NEW f, IsFile(f)
    PROVE  /\ Plain(Eval(f)) /\ DOMAIN Eval(f) = Present(f)
           /\ \A p \in Present(f) : Eval(f)[p] = [Resolve(f[p]) EXCEPT !.private = FALSE]
<1>1. Eval(f) = [p \in Present(f) |-> [Resolve(f[p]) EXCEPT !.private = FALSE]]
  BY DEF Eval, Evaluate
<1> QED BY <1>1, PresentPaths, ResolvedFile

\* The fields of a struct, and what is done to them, are finitely many.
LEMMA FieldsAreFinite ==
    ASSUME NEW f, NEW path
    PROVE  /\ FieldsOf(f, path) \subseteq Names /\ FieldsOf(f, path) \subseteq Nat
           /\ PrivateOf(f, path) \subseteq FieldsOf(f, path)
           /\ IsFiniteSet(Names)
BY ConstantsAssumption DEF ConstantsAssumption, FieldsOf, PrivateOf

\* Every round over a struct leaves some of what the round before has left.
LEMMA LeftOfStruct ==
    ASSUME NEW f, NEW path, NEW n \in Nat
    PROVE  /\ LeftAfter(f, path, n) \subseteq FieldsOf(f, path)
           /\ n = 0 => LeftAfter(f, path, n) = FieldsOf(f, path)
           /\ n > 0 => LeftAfter(f, path, n) \cap Removed(FieldsOf(f, path), PrivateOf(f, path)) = {}
<1> DEFINE F == FieldsOf(f, path)
           P == PrivateOf(f, path)
           Rest(s) == s \ Removed(s, P)
           Is(m, g) == g = [j \in 0..m |-> IF j = 0 THEN F ELSE Rest(g[j-1])]
<1> DEFINE Bad == {m \in Nat : ~\E g : Is(m, g)}
<1>0. F = FieldsOf(f, path) /\ P = PrivateOf(f, path)
  OBVIOUS
<1>a. LeftAfter(f, path, n) = (CHOOSE g : Is(n, g))[n]
  BY DEF LeftAfter
<1> HIDE DEF F, P, Rest
<1>1. Is(0, [j \in 0..0 |-> F])
  OBVIOUS
<1>2. ASSUME NEW m \in Nat, m > 0, NEW g, Is(m-1, g)
      PROVE  Is(m, [j \in 0..m |-> IF j = m THEN Rest(g[m-1]) ELSE g[j]])
  BY <1>2
<1> HIDE DEF Is
<1>3. Bad = {}
  <2> SUFFICES ASSUME Bad # {} PROVE FALSE
    OBVIOUS
  <2>1. PICK m \in Bad : \A k \in Bad : m <= k
    BY Least
  <2>2. m # 0
    BY <1>1, <2>1
  <2>3. m-1 \in Nat /\ m-1 \notin Bad
    BY <2>1, <2>2
  <2>4. PICK g : Is(m-1, g)
    BY <2>3
  <2>5. m \in Nat /\ m > 0
    BY <2>1, <2>2
  <2>6. \E h : Is(m, h)
    BY <1>2, <2>4, <2>5
  <2> QED BY <2>1, <2>6
<1> DEFINE left == CHOOSE g : Is(n, g)
<1>4. Is(n, left)
  <2>1. \E g : Is(n, g)
    BY <1>3
  <2> QED BY <2>1
<1>5. LeftAfter(f, path, n) = left[n]
  BY <1>a
<1> HIDE DEF left
<1>6. left[0] = F /\ \A j \in 1..n : left[j] = left[j-1] \ Removed(left[j-1], P)
  <2>1. left[0] = F /\ \A j \in 1..n : left[j] = Rest(left[j-1])
    BY <1>4 DEF Is
  <2> QED BY <2>1 DEF Rest
<1> DEFINE Right(j) == left[j] \subseteq F /\ (j > 0 => left[j] \cap Removed(F, P) = {})
           Odd == {j \in 0..n : ~Right(j)}
<1>7. Odd = {}
  <2> SUFFICES ASSUME Odd # {} PROVE FALSE
    OBVIOUS
  <2>1. PICK m \in Odd : \A k \in Odd : m <= k
    <3>1. Odd \subseteq Nat
      OBVIOUS
    <3> HIDE DEF Odd
    <3> QED BY <3>1, Least
  <2>2. m # 0 /\ m \in 0..n
    BY <1>6, <2>1
  <2>3. m \in 1..n /\ m-1 \in 0..n
    BY <2>2
  <2>4. m-1 \notin Odd
    <3> HIDE DEF Odd
    <3> QED BY <2>1, <2>3
  <2>5. Right(m-1)
    BY <2>3, <2>4
  <2>6. left[m] = left[m-1] \ Removed(left[m-1], P)
    BY <1>6, <2>3
  <2>7. CASE m = 1
    BY <1>6, <2>1, <2>6, <2>7
  <2>8. CASE m # 1
    <3>1. m - 1 > 0
      BY <2>3, <2>8
    <3> QED BY <2>1, <2>5, <2>6, <3>1
  <2> QED BY <2>7, <2>8
<1>8. Right(n)
  BY <1>7
<1> QED BY <1>0, <1>5, <1>6, <1>8

\* What is removed is private and, of private fields that are apart, all that is.
LEMMA RemovedIsPrivate ==
    ASSUME NEW F, F \subseteq Nat, NEW P, P \subseteq F
    PROVE  /\ Removed(F, P) \subseteq P
           /\ (\A d, e \in P : d < e => \E k \in F \ P : d < k /\ k < e) => P \subseteq Removed(F, P)
<1>1. ASSUME NEW e \in Removed(F, P) PROVE e \in P
  <2>1. e \in F /\ Cardinality(Row(F, P, e)) % 2 = 1
    BY DEF Removed
  <2>2. Row(F, P, e) # {}
    BY <2>1, FS_EmptySet
  <2>3. PICK d \in Row(F, P, e) : TRUE
    BY <2>2
  <2>4. d <= e /\ \A k \in F : d <= k /\ k <= e => k \in P
    BY DEF Row
  <2>5. e \in Nat /\ e <= e
    BY <2>1
  <2> QED BY <2>1, <2>4, <2>5
<1>2. ASSUME \A d, e \in P : d < e => \E k \in F \ P : d < k /\ k < e, NEW e \in P
      PROVE  e \in Removed(F, P)
  <2>1. ASSUME NEW d \in Row(F, P, e) PROVE d = e
    <3>1. d \in F /\ d <= e /\ d \in Nat /\ e \in Nat /\ \A k \in F : d <= k /\ k <= e => k \in P
      BY DEF Row
    <3>2. d \in P
      BY <3>1
    <3>3. ASSUME d < e PROVE FALSE
      <4>1. PICK k \in F \ P : d < k /\ k < e
        BY <1>2, <3>2, <3>3
      <4>2. k \in Nat
        OBVIOUS
      <4> QED BY <3>1, <4>1, <4>2
    <3> QED BY <3>1, <3>3
  <2>2. e \in Row(F, P, e)
    <3>1. e \in F /\ e \in Nat
      OBVIOUS
    <3>2. \A k \in F : e <= k /\ k <= e => k = e
      BY <3>1
    <3> QED BY <3>1, <3>2 DEF Row
  <2>3. Row(F, P, e) = {e}
    BY <2>1, <2>2
  <2>4. Cardinality(Row(F, P, e)) = 1
    BY <2>3, FS_Singleton
  <2> QED BY <2>4 DEF Removed
<1> QED BY <1>1, <1>2

\* The loop comes to a field a bounded number of times.
LEMMA VisitsAreNumbers ==
    ASSUME NEW F, F \subseteq Names, NEW P, NEW e
    PROVE  Visits(F, P, e) \in Nat /\ Visits(F, P, e) <= Cardinality(Names) + 1
<1> DEFINE D == {d \in Removed(F, P) : d # e /\ ~Follows(F, d, e)}
<1>1. D \in SUBSET Names
  BY DEF Removed
<1>2. IsFiniteSet(Names)
  BY ConstantsAssumption DEF ConstantsAssumption
<1>3. /\ Cardinality(Names) \in Nat /\ Cardinality(D) \in Nat
      /\ Cardinality(D) <= Cardinality(Names)
  <2> HIDE DEF D
  <2>1. IsFiniteSet(D) /\ Cardinality(D) <= Cardinality(Names)
    BY <1>1, <1>2, FS_Subset
  <2> QED BY <1>2, <2>1, FS_CardinalityType
<1>4. Visits(F, P, e) \in {0, 1, 1 + Cardinality(D)}
  BY DEF Visits
<1> HIDE DEF D
<1> QED BY <1>3, <1>4

\* Nor is a field come to more often than the struct is gone over so often, and at least
\* once if it is when all fields are there.
LEMMA TimesAreNumbers ==
    ASSUME NEW f, NEW path, NEW e, NEW r \in Nat
    PROVE  /\ Cardinality(Times(f, path, e, r)) \in Nat
           /\ r > 0 /\ e \in FieldsOf(f, path)
                /\ Visits(FieldsOf(f, path), PrivateOf(f, path), e) > 0
              => Cardinality(Times(f, path, e, r)) > 0
<1> DEFINE M == Cardinality(Names) + 1
           V(k) == Visits(LeftAfter(f, path, k), PrivateOf(f, path), e)
           T == Times(f, path, e, r)
<1>1. M \in Nat
  BY FieldsAreFinite, FS_CardinalityType
<1>2. ASSUME NEW k \in 0..r-1 PROVE V(k) \in Nat /\ V(k) <= M
  <2>1. LeftAfter(f, path, k) \subseteq Names
    BY LeftOfStruct, FieldsAreFinite
  <2> QED BY <2>1, VisitsAreNumbers
<1>3. T = UNION {{k} \X (1..V(k)) : k \in {j \in 0..r-1 : e \in LeftAfter(f, path, j)}}
  BY DEF Times
<1> HIDE DEF M, V
<1>4. T \subseteq (0..r-1) \X (1..M)
  <2> SUFFICES ASSUME NEW t \in T PROVE t \in (0..r-1) \X (1..M)
    OBVIOUS
  <2>1. PICK k \in 0..r-1 : t \in {k} \X (1..V(k))
    BY <1>3
  <2>2. 1..V(k) \subseteq 1..M
    BY <1>1, <1>2
  <2> QED BY <2>1, <2>2
<1>5. IsFiniteSet((0..r-1) \X (1..M))
  <2>1. IsFiniteSet(0..r-1) /\ IsFiniteSet(1..M)
    BY <1>1, FS_Interval
  <2> QED BY <2>1, FS_Product
<1> HIDE DEF T
<1>6. IsFiniteSet(T)
  BY <1>4, <1>5, FS_Subset
<1>7. Cardinality(T) \in Nat
  BY <1>6, FS_CardinalityType
<1>8. ASSUME r > 0, e \in FieldsOf(f, path),
             Visits(FieldsOf(f, path), PrivateOf(f, path), e) > 0
      PROVE  Cardinality(T) > 0
  <2>1. 0 \in 0..r-1 /\ LeftAfter(f, path, 0) = FieldsOf(f, path)
    BY <1>8, LeftOfStruct
  <2>2. V(0) \in Nat /\ V(0) > 0
    BY <1>2, <1>8, <2>1 DEF V
  <2>3. <<0, 1>> \in {0} \X (1..V(0))
    BY <2>2
  <2>4. <<0, 1>> \in T
    BY <1>3, <1>8, <2>1, <2>3
  <2>5. Cardinality(T) # 0
    BY <1>6, <2>4, FS_EmptySet
  <2> QED BY <1>7, <2>5
<1> QED BY <1>7, <1>8 DEF T

\* A struct above a private field is gone over when all its fields are there.
LEMMA RoundsOverStruct ==
    ASSUME NEW f, IsFile(f), Apart(f), NEW q \in DOMAIN f, f[q].private
    PROVE  Rounds(f, Front(q)) \in Nat /\ Rounds(f, Front(q)) > 0
<1> DEFINE u == Front(q)
<1>0. /\ q \in Seq(Names) /\ q # <<>> /\ Len(q) \in Nat /\ Len(q) >= 1
      /\ Above(q) \subseteq DOMAIN f /\ \A p \in Above(q) : p # q => IsStruct(f[p])
  <2>1. /\ q \in Seq(Names) /\ q # <<>>
        /\ Above(q) \subseteq DOMAIN f /\ \A p \in Above(q) : p # q => IsStruct(f[p])
    BY FileShape
  <2> QED BY <2>1
<1>1. PICK n \in Nat : n = Len(u) /\ Len(q) = n + 1
  BY <1>0 DEF Front
<1>2. ASSUME NEW l \in 1..n
      PROVE  /\ SubSeq(u, 1, l-1) \in Structs(f)
             /\ u[l] \in FieldsOf(f, SubSeq(u, 1, l-1))
             /\ Append(SubSeq(u, 1, l-1), u[l]) \in Above(q)
  <2>1. /\ SubSeq(u, 1, l-1) = SubSeq(q, 1, l-1) /\ u[l] = q[l] /\ u[l] \in Names
        /\ Append(SubSeq(u, 1, l-1), u[l]) = SubSeq(q, 1, l)
    BY <1>0, <1>1 DEF Front
  <2>2. l \in 1..Len(q)
    BY <1>1
  <2>3. SubSeq(q, 1, l) \in Above(q)
    BY <1>0, <2>2, AbovePath
  <2>4. u[l] \in FieldsOf(f, SubSeq(u, 1, l-1))
    BY <1>0, <2>1, <2>3 DEF FieldsOf
  <2>5. SubSeq(q, 1, l-1) \in Structs(f)
    <3>1. CASE l = 1
      <4>1. SubSeq(q, 1, l-1) = <<>>
        BY <1>0, <3>1
      <4> QED BY <4>1 DEF Structs
    <3>2. CASE l # 1
      <4>1. l-1 \in 1..Len(q) /\ l-1 # Len(q)
        BY <1>1, <3>2
      <4>2. SubSeq(q, 1, l-1) \in Above(q) /\ Len(SubSeq(q, 1, l-1)) = l-1
        BY <1>0, <4>1, AbovePath
      <4>3. SubSeq(q, 1, l-1) # q
        BY <4>1, <4>2
      <4> QED BY <1>0, <4>2, <4>3 DEF Structs
    <3> QED BY <3>1, <3>2
  <2> QED BY <2>1, <2>3, <2>4, <2>5
<1>3. ASSUME NEW l \in 1..n
      PROVE  LET up == SubSeq(u, 1, l-1)
             IN  Visits(FieldsOf(f, up), PrivateOf(f, up), u[l]) > 0
  <2> DEFINE up == SubSeq(u, 1, l-1)
             F == FieldsOf(f, up)
             P == PrivateOf(f, up)
  <2>1. /\ F \subseteq Nat /\ F \subseteq Names /\ P \subseteq F /\ up \in Structs(f)
        /\ u[l] \in F /\ Append(up, u[l]) \in Above(q)
    BY <1>2, FieldsAreFinite
  <2>2. /\ \A d, e \in P : d < e => \E k \in F \ P : d < k /\ k < e
        /\ \A d \in P, e \in F \ P :
             Follows(F, d, e) /\ ~IsLast(F, e) =>
               \A p \in DOMAIN f : Append(up, e) \in Above(p) => ~f[p].private
    BY <2>1 DEF Apart
  <2> HIDE DEF F, P, up
  <2>3. CASE IsLast(F, u[l])
    <3> DEFINE D == {d \in Removed(F, P) : d # u[l] /\ ~Follows(F, d, u[l])}
    <3>1. D \subseteq Names
      BY <2>1 DEF Removed
    <3>2. Cardinality(D) \in Nat
      <4> HIDE DEF D
      <4>1. IsFiniteSet(D)
        BY <3>1, FieldsAreFinite, FS_Subset
      <4> QED BY <4>1, FS_CardinalityType
    <3>3. Visits(F, P, u[l]) = 1 + Cardinality(D)
      BY <2>3 DEF Visits
    <3> HIDE DEF D
    <3>4. Visits(F, P, u[l]) > 0
      BY <3>2, <3>3
    <3> QED BY <3>4 DEF F, P, up
  <2>4. CASE ~IsLast(F, u[l])
    <3>1. ASSUME NEW d \in Removed(F, P), Follows(F, d, u[l]) PROVE FALSE
      <4>1. d \in P
        BY <2>1, RemovedIsPrivate
      <4>2. CASE u[l] \in P
        <5>1. PICK k \in F \ P : d < k /\ k < u[l]
          BY <2>2, <3>1, <4>1, <4>2 DEF Follows
        <5> QED BY <3>1, <5>1 DEF Follows
      <4>3. CASE u[l] \notin P
        BY <1>0, <2>1, <2>2, <2>4, <3>1, <4>1, <4>3
      <4> QED BY <4>2, <4>3
    <3>2. Visits(F, P, u[l]) = 1
      BY <2>4, <3>1 DEF Visits
    <3> QED BY <3>2 DEF F, P, up
  <2> QED BY <2>3, <2>4
<1> DEFINE Count(l, r) == Cardinality(Times(f, SubSeq(u, 1, l-1), u[l], r))
           Is(m, g) == g = [l \in 0..m |-> IF l = 0 THEN 1 ELSE Count(l, g[l-1])]
<1>4. ASSUME NEW l \in 1..n, NEW r \in Nat PROVE Count(l, r) \in Nat /\ (r > 0 => Count(l, r) > 0)
  BY <1>2, <1>3, TimesAreNumbers
<1>5. Rounds(f, u) = (CHOOSE g : Is(n, g))[n]
  BY <1>1 DEF Rounds
<1> HIDE DEF Count, u
<1> DEFINE Bad == {m \in Nat : ~\E g : Is(m, g)}
<1>6. Is(0, [l \in 0..0 |-> 1])
  OBVIOUS
<1>7. ASSUME NEW m \in Nat, m > 0, NEW g, Is(m-1, g)
      PROVE  Is(m, [l \in 0..m |-> IF l = m THEN Count(m, g[m-1]) ELSE g[l]])
  BY <1>7
<1> HIDE DEF Is
<1>8. Bad = {}
  <2> SUFFICES ASSUME Bad # {} PROVE FALSE
    OBVIOUS
  <2>1. PICK m \in Bad : \A k \in Bad : m <= k
    BY Least
  <2>2. m # 0
    BY <1>6, <2>1
  <2>3. m-1 \in Nat /\ m-1 \notin Bad
    BY <2>1, <2>2
  <2>4. PICK g : Is(m-1, g)
    BY <2>3
  <2>5. m \in Nat /\ m > 0
    BY <2>1, <2>2
  <2>6. \E h : Is(m, h)
    BY <1>7, <2>4, <2>5
  <2> QED BY <2>1, <2>6
<1> DEFINE rounds == CHOOSE g : Is(n, g)
<1>9. Is(n, rounds)
  <2>1. \E g : Is(n, g)
    BY <1>8
  <2> QED BY <2>1
<1>10. Rounds(f, u) = rounds[n]
  BY <1>5
<1> HIDE DEF rounds
<1>11. rounds[0] = 1 /\ \A l \in 1..n : rounds[l] = Count(l, rounds[l-1])
  BY <1>9 DEF Is
<1> DEFINE Odd == {l \in 0..n : ~(rounds[l] \in Nat /\ rounds[l] > 0)}
<1>12. Odd = {}
  <2> SUFFICES ASSUME Odd # {} PROVE FALSE
    OBVIOUS
  <2>1. PICK m \in Odd : \A k \in Odd : m <= k
    <3>1. Odd \subseteq Nat
      OBVIOUS
    <3> HIDE DEF Odd
    <3> QED BY <3>1, Least
  <2>2. m # 0 /\ m \in 0..n
    BY <1>11, <2>1
  <2>3. m \in 1..n /\ m-1 \in 0..n
    BY <2>2
  <2>4. m-1 \notin Odd
    <3> HIDE DEF Odd
    <3> QED BY <2>1, <2>3
  <2>5. rounds[m-1] \in Nat /\ rounds[m-1] > 0
    BY <2>3, <2>4
  <2>6. rounds[m] \in Nat /\ rounds[m] > 0
    BY <1>4, <1>11, <2>3, <2>5
  <2> QED BY <2>1, <2>6
<1>13. rounds[n] \in Nat /\ rounds[n] > 0
  BY <1>12
<1> QED BY <1>10, <1>13 DEF u

\* What a path adds to the path above it.
LEMMA FrontOfPath ==
    ASSUME NEW q \in Seq(Names), q # <<>>
    PROVE  /\ Append(Front(q), Last(q)) = q /\ Last(q) \in Names
           /\ Front(q) = <<>> \/ (Front(q) \in Above(q) /\ Front(q) # q)
<1>1. Append(Front(q), Last(q)) = q /\ Last(q) \in Names
  BY DEF Front, Last
<1>2. PICK m \in Nat : m = Len(q) /\ m >= 1
  OBVIOUS
<1>3. CASE m = 1
  <2>1. Front(q) = <<>>
    BY <1>2, <1>3 DEF Front
  <2> QED BY <1>1, <2>1
<1>4. CASE m # 1
  <2>1. m-1 \in 1..Len(q) /\ m-1 # Len(q)
    BY <1>2, <1>4
  <2>2. Front(q) \in Above(q) /\ Len(Front(q)) = m-1
    BY <1>2, <2>1, AbovePath DEF Front
  <2> QED BY <1>1, <1>2, <2>1, <2>2
<1> QED BY <1>3, <1>4

\* EvalWithoutPrivateFields makes a configuration of what is present and, if the private
\* fields are apart, public.
LEMMA PublicOfFile ==
    ASSUME NEW f, IsFile(f)
    PROVE  /\ Plain(EvalWithoutPrivateFields(f))
           /\ \A p \in DOMAIN EvalWithoutPrivateFields(f) :
                /\ p \in DOMAIN f
                /\ Apart(Evaluate(f)) => \A q \in Above(p) : ~f[q].private
<1> DEFINE e == Evaluate(f)
           left == [u \in Structs(e) |-> Left(e, u)]
           D == {p \in DOMAIN e : \A q \in Above(p) : Last(q) \in left[Front(q)]}
           g == EvalWithoutPrivateFields(f)
<1>1. e = [p \in Present(f) |-> Resolve(f[p])] /\ Present(f) \subseteq DOMAIN f
  BY PresentPaths DEF Evaluate
<1>2. IsFile(e) /\ \A p \in Present(f) : Above(p) \subseteq Present(f) /\ ~f[p].optional
  <2>1. \A p \in Present(f) : Above(p) \subseteq Present(f) /\ ~f[p].optional
    BY PresentPaths
  <2> HIDE DEF e
  <2>2. Plain(e)
    BY <1>1, <2>1, ResolvedFile
  <2> QED BY <2>1, <2>2 DEF Plain
<1>3. g = [p \in D |-> e[p]]
  BY DEF EvalWithoutPrivateFields, Restrict
<1> HIDE DEF e, left
<1>4. ASSUME NEW p \in D
      PROVE  p \in DOMAIN f /\ ~f[p].optional /\ Above(p) \subseteq D /\ g[p] = Resolve(f[p])
  <2>1. p \in DOMAIN e /\ p \in Seq(Names) /\ p # <<>> /\ Above(p) \subseteq DOMAIN e
    BY <1>2, FileShape
  <2>2. Above(p) \subseteq D
    BY <2>1, AboveAbove
  <2> QED BY <1>1, <1>2, <1>3, <2>1, <2>2
<1>5. Plain(g)
  <2> HIDE DEF D, g
  <2>1. D \subseteq DOMAIN f /\ g = [p \in D |-> g[p]]
    BY <1>3, <1>4
  <2> QED BY <1>4, <2>1, ResolvedFile
<1>6. ASSUME Apart(e), NEW p \in D, NEW q \in Above(p), f[q].private PROVE FALSE
  <2>1. /\ p \in Seq(Names) /\ p # <<>> /\ q \in DOMAIN e /\ q \in DOMAIN f
        /\ q \in Seq(Names) /\ q # <<>> /\ Above(q) \subseteq DOMAIN e
        /\ \A r \in Above(q) : r # q => IsStruct(e[r])
    BY <1>1, <1>2, FileShape
  <2>2. e[q].private
    <3>1. e[q] = Resolve(f[q]) /\ f[q] \in Field
      BY <1>1, <2>1, FileShape
    <3> QED BY <1>6, <3>1, ResolvedField
  <2> DEFINE u == Front(q)
  <2>3. u \in Structs(e) /\ Append(u, Last(q)) = q /\ Last(q) \in Names
    <3>1. /\ Append(u, Last(q)) = q /\ Last(q) \in Names
          /\ u = <<>> \/ (u \in Above(q) /\ u # q)
      BY <2>1, FrontOfPath
    <3> QED BY <2>1, <3>1 DEF Structs
  <2>4. Last(q) \in PrivateOf(e, u)
    BY <2>1, <2>2, <2>3 DEF PrivateOf, FieldsOf
  <2>5. Last(q) \in Left(e, u)
    BY <1>6, <2>3 DEF left
  <2>6. Rounds(e, u) \in Nat /\ Rounds(e, u) > 0
    BY <1>2, <1>6, <2>1, <2>2, RoundsOverStruct
  <2>7. Left(e, u) \cap Removed(FieldsOf(e, u), PrivateOf(e, u)) = {}
    BY <2>6, LeftOfStruct DEF Left
  <2>8. PrivateOf(e, u) \subseteq Removed(FieldsOf(e, u), PrivateOf(e, u))
    <3>1. \A d, c \in PrivateOf(e, u) : d < c =>
            \E k \in FieldsOf(e, u) \ PrivateOf(e, u) : d < k /\ k < c
      BY <1>6, <2>3 DEF Apart
    <3> QED BY <3>1, FieldsAreFinite, RemovedIsPrivate
  <2> QED BY <2>4, <2>5, <2>7, <2>8
<1>7. DOMAIN g = D
  BY <1>3
<1> HIDE DEF D, g
<1>8. \A p \in DOMAIN g : p \in DOMAIN f /\ (Apart(e) => \A q \in Above(p) : ~f[q].private)
  BY <1>4, <1>6, <1>7
<1> QED BY <1>5, <1>8 DEF g, e
\* A configuration that lacks nothing stays as it is.
LEMMA NothingAdded ==
    ASSUME NEW d, IsFile(d), NEW s, IsFile(s), Added(d, s) = {}
    PROVE  Merge(d, s) = d
<1>0. Completes(Merge(d, s), d, s)
  BY Merged
<1>1. IsFile(Merge(d, s)) /\ DOMAIN Merge(d, s) = DOMAIN d
  BY <1>0 DEF Completes
<1>2. \A p \in DOMAIN d : Merge(d, s)[p] = d[p]
  BY <1>0 DEF Completes
<1>3. Merge(d, s) = [p \in DOMAIN d |-> Merge(d, s)[p]] /\ d = [p \in DOMAIN d |-> d[p]]
  BY <1>1, FileShape
<1> QED BY <1>2, <1>3

\* An upgrade keeps the configuration, and lacks nothing of the schema.
LEMMA Upgraded ==
    ASSUME NEW d, Plain(d), NEW s, IsFile(s), NEW c, c = Eval(Merge(d, s))
    PROVE  /\ Plain(c) /\ DOMAIN c = DOMAIN d \cup Added(d, s)
           /\ \A p \in DOMAIN d : c[p].allowed = d[p].allowed
           /\ Merge(c, s) = c
<1> DEFINE m == Merge(d, s)
<1>0. IsFile(d)
  BY DEF Plain
<1>1. Completes(m, d, s)
  BY <1>0, Merged
<1> HIDE DEF m
<1> USE DEF Completes
<1>2. ASSUME NEW p \in DOMAIN m PROVE ~m[p].optional
  <2>1. CASE p \in DOMAIN d
    BY <1>1, <2>1 DEF Plain
  <2>2. CASE p \in Added(d, s)
    <3>1. s[p] \in Field
      BY <2>2, FileShape DEF Added
    <3>2. Resolve(s[p]) \in Field
      BY <3>1, ResolvedField
    <3> QED BY <1>1, <2>2, <3>2 DEF Field
  <2> QED BY <1>1, <2>1, <2>2
<1>3. Present(m) = DOMAIN m
  BY <1>1, <1>2, FileShape DEF Present
<1>4. Plain(c) /\ DOMAIN c = DOMAIN d \cup Added(d, s)
  BY <1>1, <1>3, EvalOfFile DEF m
<1>5. ASSUME NEW p \in DOMAIN d PROVE c[p].allowed = d[p].allowed
  <2>1. c[p] = [Resolve(d[p]) EXCEPT !.private = FALSE]
    BY <1>1, <1>3, EvalOfFile DEF m
  <2>2. d[p] \in Field /\ d[p].default = None
    BY <1>0, FileShape DEF Plain
  <2>3. Resolve(d[p]) = d[p]
    BY <2>2, ResolvedField
  <2> QED BY <2>1, <2>2, <2>3 DEF Field
<1>6. ASSUME NEW p \in Added(c, s) PROVE FALSE
  <2>1. /\ p \in DOMAIN s /\ Len(p) <= 2 /\ <<p[1]>> \notin DOMAIN c
        /\ \A q \in Above(p) : ~s[q].private
    BY DEF Added
  <2>2. p \in Added(d, s)
    BY <1>4, <2>1 DEF Added
  <2>3. p \in DOMAIN c /\ IsFile(c)
    BY <1>4, <2>2 DEF Plain
  <2> QED BY <2>1, <2>3, FileShape
<1>7. Merge(c, s) = c
  BY <1>4, <1>6, NothingAdded DEF Plain
<1> QED BY <1>4, <1>5, <1>7

\* What is left when a field is removed is a configuration.
LEMMA UnsetField ==
    ASSUME NEW f, Plain(f), NEW p
    PROVE  Plain(Unset(f, p)) /\ DOMAIN Unset(f, p) = {q \in DOMAIN f : p \notin Above(q)}
<1> DEFINE g == Unset(f, p)
           D == {q \in DOMAIN f : p \notin Above(q)}
<1>1. g = [q \in D |-> f[q]]
  BY DEF Unset, Restrict
<1>2. IsFile(f) /\ \A q \in DOMAIN f : f[q].default = None /\ ~f[q].optional
  BY DEF Plain
<1>3. ASSUME NEW q \in D
      PROVE  /\ q \in Seq(Names) /\ q # <<>> /\ f[q] \in Field
             /\ \A r \in Above(q) : r \in D /\ (r # q => IsStruct(f[r]))
  <2>1. /\ q \in DOMAIN f /\ q \in Seq(Names) /\ q # <<>> /\ f[q] \in Field
        /\ \A r \in Above(q) : r \in DOMAIN f /\ (r # q => IsStruct(f[r]))
    BY <1>2, FileShape
  <2>2. \A r \in Above(q) : Above(r) \subseteq Above(q)
    BY <2>1, AboveAbove
  <2>3. \A r \in Above(q) : r \in D
    BY <2>1, <2>2
  <2> QED BY <2>1, <2>3
<1>4. D \subseteq DOMAIN f
  OBVIOUS
<1>5. DOMAIN g = D
  BY <1>1
<1> HIDE DEF D, g
<1>6. \A q \in D : g[q] = f[q]
  BY <1>1
<1> QED BY <1>1, <1>2, <1>3, <1>4, <1>5, <1>6 DEF Plain, IsFile, g, D

\* A field that is set in structs that are there makes a configuration.
LEMMA SetField ==
    ASSUME NEW f, Plain(f), NEW p \in Seq(Names), p # <<>>, NEW x \in Values,
           \A q \in Above(p) \ {p} : q \in DOMAIN f /\ IsStruct(f[q])
    PROVE  Plain(Set(f, p, x)) /\ DOMAIN Set(f, p, x) \subseteq DOMAIN f \cup {p}
<1> DEFINE g == Set(f, p, x)
           D == {q \in DOMAIN f : p \notin Above(q)}
           new == [allowed |-> {x}, default |-> None, private |-> FALSE, optional |-> FALSE]
<1>1. g = [q \in D \cup {p} |-> IF q = p THEN new ELSE f[q]]
  BY UnsetField DEF Set
<1>2. new \in Field
  BY DEF Field
<1>3. IsFile(f) /\ \A q \in DOMAIN f : f[q].default = None /\ ~f[q].optional
  BY DEF Plain
<1>4. ASSUME NEW q \in D \cup {p}
      PROVE  /\ q \in Seq(Names) /\ q # <<>> /\ g[q] \in Field
             /\ g[q].default = None /\ ~g[q].optional
  <2>1. CASE q = p
    <3>1. g[q] = new
      BY <1>1, <2>1
    <3> QED BY <1>2, <2>1, <3>1
  <2>2. CASE q # p
    <3>1. q \in DOMAIN f /\ g[q] = f[q]
      BY <1>1, <2>2
    <3> QED BY <1>3, <3>1, FileShape
  <2> QED BY <2>1, <2>2
<1>5. ASSUME NEW q \in D \cup {p}, NEW r \in Above(q)
      PROVE  r \in D \cup {p} /\ (r # q => IsStruct(g[r]))
  <2>0. Above(r) \subseteq Above(q) /\ (r # q => r \in DOMAIN f /\ IsStruct(f[r]))
    <3>1. q \in Seq(Names) /\ q # <<>>
      BY <1>4
    <3> QED BY <1>3, <3>1, AboveAbove, FileShape
  <2>1. CASE q = p
    <3>1. r # p => r \in D
      <4>1. r # p => p \notin Above(r)
        BY <2>1, AboveAbove
      <4> QED BY <2>0, <2>1, <4>1
    <3> QED BY <1>1, <2>0, <2>1, <3>1
  <2>2. CASE q # p
    <3>1. r \in D
      <4>1. q \in DOMAIN f /\ p \notin Above(q)
        BY <2>2
      <4> QED BY <1>3, <2>0, <4>1, FileShape
    <3>2. r # p
      <4>1. r \in Seq(Names) /\ r # <<>>
        BY <1>4, <3>1
      <4>2. r \in Above(r)
        BY <4>1, AbovePath
      <4> QED BY <3>1, <4>2
    <3> QED BY <1>1, <2>0, <3>1, <3>2
  <2> QED BY <2>1, <2>2
<1>6. DOMAIN g = D \cup {p} /\ g = [q \in D \cup {p} |-> g[q]]
  BY <1>1
<1>7. D \subseteq DOMAIN f
  OBVIOUS
<1> HIDE DEF g, D
<1>8. Plain(g)
  BY <1>4, <1>5, <1>6 DEF Plain, IsFile
<1> QED BY <1>6, <1>7, <1>8 DEF g

-----------------------------------------------------------------------------
(* The inductive invariant *)

\* A schema of the product as it was unified, or as it was evaluated in place.
Schemas == {Schema(v) : v \in Versions} \cup {EvalWithoutPrivateFields(Schema(v)) : v \in Versions}

Config(f, secret) == Plain(f) /\ DOMAIN f \cap secret = {}

\* A pull request proposes a configuration; as long as nobody edits it, it is complete
\* and has what was there.
Proposal(r, secret, schemas) ==
    /\ r = [config |-> r.config, schema |-> r.schema, from |-> r.from, seen |-> r.seen,
            edited |-> r.edited]
    /\ Config(r.config, secret) /\ r.schema \in schemas
    /\ ~r.edited => Merge(r.config, r.schema) = r.config
    /\ ~r.edited /\ r.seen # None =>
         \A p \in DOMAIN r.seen : p \in DOMAIN r.config /\ r.config[p].allowed = r.seen[p].allowed

\* What is merged was proposed, and edited; what is fetched and applied was merged.
Inv ==
    /\ product \in Products /\ last \in {0} \cup Versions /\ edits \in 0..MaxEdits
    /\ pulls = [v \in Versions |-> pulls[v]]
    /\ \A v \in Versions : pulls[v] # None => Proposal(pulls[v], Secret, Schemas) /\ v <= last
    /\ main = [version |-> main.version, config |-> main.config, schema |-> main.schema]
    /\ main.version \in {0} \cup Versions /\ main.version <= last
    /\ main.version = 0 => main.config = None /\ main.schema = None
    /\ main.version # 0 => Config(main.config, Secret) /\ main.schema \in Schemas
    /\ fetched # None => Config(fetched, Secret)
    /\ applied # None => applied \in Schemas
    /\ values # None => IsFile(values)

\* Versions are numbers from 1, and their schemas are files.
LEMMA ProductShape ==
    ASSUME product \in Products
    PROVE  /\ \A v \in Versions : v \in Nat /\ v >= 1 /\ IsFile(Schema(v))
           /\ 0 \notin Versions
<1>1. product \in Seq(Seq(Files))
  BY ConstantsAssumption DEF ConstantsAssumption
<1>2. \A v \in Versions : v \in Nat /\ v >= 1 /\ product[v] \in Seq(Files)
  BY <1>1 DEF Versions
<1> QED BY <1>2, UnifiedFiles DEF Schema

\* What config.cue may have of a version is not secret.
LEMMA ExposedIsNotSecret ==
    ASSUME NEW v \in Versions
    PROVE  Exposed(v) \cap Secret = {}
<1>1. Exposed(v) \in {Exposed(w) : w \in Versions}
  OBVIOUS
<1>2. Exposed(v) \subseteq UNION {Exposed(w) : w \in Versions}
  BY <1>1
<1> QED BY <1>2 DEF Secret

\* What is left of a schema without a configuration is not secret.
LEMMA EvaluatedIsNotSecret ==
    ASSUME product \in Products, NEW v \in Versions
    PROVE  DOMAIN EvalWithoutPrivateFields(Schema(v)) \cap Secret = {}
<1> DEFINE s == Schema(v)
<1>1. ASSUME NEW p \in DOMAIN EvalWithoutPrivateFields(s) PROVE p \in Exposed(v)
  <2>1. p \in DOMAIN s /\ (Apart(Evaluate(s)) => \A q \in Above(p) : ~s[q].private)
    BY ProductShape, PublicOfFile
  <2> HIDE DEF s
  <2>2. p \in DOMAIN s /\ (Apart(Evaluate(s)) => p \notin Private(v))
    BY <2>1 DEF Private, s
  <2> QED BY <2>2 DEF Exposed, s
<1>2. Exposed(v) \cap Secret = {}
  BY ExposedIsNotSecret
<1> QED BY <1>1, <1>2 DEF s

\* What is public in a schema is not secret.
LEMMA PublicIsNotSecret ==
    ASSUME product \in Products, NEW s \in Schemas
    PROVE  /\ IsFile(s)
           /\ \A p \in DOMAIN s : (\A q \in Above(p) : ~s[q].private) => p \notin Secret
<1>1. CASE \E v \in Versions : s = Schema(v)
  <2>1. PICK v \in Versions : s = Schema(v)
    BY <1>1
  <2>2. ASSUME NEW p \in DOMAIN s, \A q \in Above(p) : ~s[q].private PROVE p \in Exposed(v)
    BY <2>1, <2>2 DEF Exposed, Private
  <2>3. Exposed(v) \cap Secret = {}
    BY ExposedIsNotSecret
  <2>4. IsFile(s)
    BY <2>1, ProductShape
  <2> QED BY <2>2, <2>3, <2>4
<1>2. CASE \E v \in Versions : s = EvalWithoutPrivateFields(Schema(v))
  <2>1. PICK v \in Versions : s = EvalWithoutPrivateFields(Schema(v))
    BY <1>2
  <2>2. IsFile(Schema(v))
    BY ProductShape
  <2>3. IsFile(s)
    BY <2>1, <2>2, PublicOfFile DEF Plain
  <2> QED BY <2>1, <2>3, EvaluatedIsNotSecret
<1> QED BY <1>1, <1>2 DEF Schemas

\* What Merge adds is public.
LEMMA MergedConfig ==
    ASSUME product \in Products, NEW d, Config(d, Secret), NEW s \in Schemas
    PROVE  /\ IsFile(Merge(d, s)) /\ DOMAIN Merge(d, s) = DOMAIN d \cup Added(d, s)
           /\ DOMAIN Merge(d, s) \cap Secret = {}
<1>1. IsFile(d) /\ DOMAIN d \cap Secret = {}
  BY DEF Config, Plain
<1>2. IsFile(Merge(d, s)) /\ DOMAIN Merge(d, s) = DOMAIN d \cup Added(d, s)
  BY <1>1, Merged, PublicIsNotSecret DEF Completes
<1>3. Added(d, s) \cap Secret = {}
  BY PublicIsNotSecret DEF Added
<1> QED BY <1>1, <1>2, <1>3

\* What is generated can be proposed.
LEMMA GeneratedProposal ==
    ASSUME product \in Products, NEW v \in Versions, NEW d, d # None => Config(d, Secret),
           NEW r, NEW from,
           r = [config |-> Generated(v, d).config, schema |-> Generated(v, d).schema,
                from |-> from, seen |-> d, edited |-> FALSE]
    PROVE  Proposal(r, Secret, Schemas)
<1> DEFINE s == Schema(v)
<1>0. IsFile(s) /\ s \in Schemas /\ EvalWithoutPrivateFields(s) \in Schemas
  BY ProductShape DEF Schemas
<1>1. CASE d = None
  <2> DEFINE e == EvalWithoutPrivateFields(s)
  <2>1. r.config = e /\ r.schema = e /\ r.seen = None
    BY <1>1 DEF Generated
  <2>2. Plain(e)
    BY <1>0, PublicOfFile
  <2>3. DOMAIN e \cap Secret = {}
    BY EvaluatedIsNotSecret
  <2>4. Added(e, e) = {}
    BY <2>2, FileShape DEF Added, Plain
  <2>5. Merge(e, e) = e
    BY <2>2, <2>4, NothingAdded DEF Plain
  <2> HIDE DEF e
  <2> QED BY <1>0, <2>1, <2>2, <2>3, <2>5 DEF Proposal, Config, e
<1>2. CASE d # None
  <2> DEFINE c == Eval(Merge(d, s))
  <2>1. r.config = c /\ r.schema = s /\ r.seen = d
    BY <1>2 DEF Generated
  <2>2. Plain(d)
    BY <1>2 DEF Config
  <2>3. /\ Plain(c) /\ DOMAIN c = DOMAIN d \cup Added(d, s)
        /\ \A p \in DOMAIN d : c[p].allowed = d[p].allowed
        /\ Merge(c, s) = c
    BY <1>0, <2>2, Upgraded
  <2>4. DOMAIN c \cap Secret = {}
    BY <1>0, <1>2, <2>3, MergedConfig
  <2> HIDE DEF c, s
  <2> QED BY <1>0, <2>1, <2>3, <2>4 DEF Proposal, Config
<1> QED BY <1>1, <1>2

\* What people make of a configuration is one.
LEMMA EditedConfig ==
    ASSUME product \in Products, NEW v \in Versions, NEW f, Config(f, Secret),
           NEW g \in Edited(f, v)
    PROVE  Config(g, Secret)
<1>0. Plain(f) /\ DOMAIN f \cap Secret = {} /\ IsFile(Schema(v))
  BY ProductShape DEF Config
<1>1. ASSUME NEW p, g = Unset(f, p) PROVE Config(g, Secret)
  <2>1. Plain(g) /\ DOMAIN g \subseteq DOMAIN f
    BY <1>0, <1>1, UnsetField
  <2> QED BY <1>0, <2>1 DEF Config
<1>2. ASSUME NEW p \in DOMAIN Schema(v), NEW x \in Values, g = Set(f, p, x),
             \A q \in Above(p) : ~Schema(v)[q].private,
             \A q \in Above(p) \ {p} : q \in DOMAIN f /\ IsStruct(f[q])
      PROVE  Config(g, Secret)
  <2>1. p \in Seq(Names) /\ p # <<>>
    BY <1>0, FileShape
  <2>2. Plain(g) /\ DOMAIN g \subseteq DOMAIN f \cup {p}
    BY <1>0, <1>2, <2>1, SetField
  <2>3. p \notin Secret
    BY <1>2, PublicIsNotSecret DEF Schemas
  <2> QED BY <1>0, <2>2, <2>3 DEF Config
<1> QED BY <1>1, <1>2 DEF Edited

\* As long as the product stays, so do its schemas.
LEMMA SameProduct ==
    ASSUME product' = product
    PROVE  Versions' = Versions /\ Secret' = Secret /\ Schemas' = Schemas
<1>1. Versions' = Versions
  BY DEF Versions
<1>2. \A v : Schema(v)' = Schema(v)
  BY DEF Schema
<1>3. \A v : Private(v)' = Private(v)
  BY <1>2 DEF Private
<1>4. Secret' = Secret
  <2>1. \A v : Exposed(v)' = Exposed(v)
    BY <1>2, <1>3 DEF Exposed
  <2> QED BY <1>1, <1>3, <2>1 DEF Secret
<1>5. Schemas' = Schemas
  BY <1>1, <1>2 DEF Schemas
<1> QED BY <1>1, <1>4, <1>5

\* Every step keeps the invariant.
LEMMA Inductive == Spec => []Inv
<1>1. Init => Inv
  <2> SUFFICES ASSUME Init PROVE Inv
    OBVIOUS
  <2>5. product \in Products /\ last = 0 /\ 0 \in 0..MaxEdits /\ edits = 0
    BY ConstantsAssumption DEF Init, ConstantsAssumption
  <2> QED BY <2>5 DEF Init, Inv
<1>2. Inv /\ [Next]_vars => Inv'
  <2> SUFFICES ASSUME Inv, [Next]_vars PROVE Inv'
    OBVIOUS
  <2>1. product' = product
    BY DEF Next, Generate, EditPull, MergePull, Publish, EditMain, Fetch, Apply, vars
  <2>2. Versions' = Versions /\ Secret' = Secret /\ Schemas' = Schemas
    BY <2>1, SameProduct
  <2>3. product \in Products /\ \A v \in Versions : v \in Nat /\ v >= 1
    BY ProductShape DEF Inv
  <2>4. last \in Nat /\ main.version \in Nat
    BY <2>3 DEF Inv
  <2>5. ASSUME NEW v \in Versions, Generate(v) PROVE Inv'
    <3> DEFINE r == [config |-> Generated(v, fetched).config,
                     schema |-> Generated(v, fetched).schema,
                     from |-> main.config, seen |-> fetched, edited |-> FALSE]
    <3>1. /\ v > last /\ last' = v /\ pulls' = [pulls EXCEPT ![v] = r]
          /\ UNCHANGED <<product, main, fetched, applied, edits, values>>
      BY <2>5 DEF Generate
    <3>2. Proposal(r, Secret, Schemas)
      BY <2>3, GeneratedProposal DEF Inv
    <3> HIDE DEF r
    <3>3. pulls' = [w \in Versions |-> pulls'[w]] /\ pulls'[v] = r
          /\ \A w \in Versions : w # v => pulls'[w] = pulls[w]
      BY <3>1 DEF Inv
    <3>4. ASSUME NEW w \in Versions, pulls'[w] # None
          PROVE  Proposal(pulls'[w], Secret, Schemas) /\ w <= last'
      <4>1. CASE w = v
        BY <2>3, <3>1, <3>2, <3>3, <4>1
      <4>2. CASE w # v
        <5>1. Proposal(pulls[w], Secret, Schemas) /\ w <= last
          BY <3>3, <3>4, <4>2 DEF Inv
        <5> QED BY <2>3, <2>4, <3>1, <3>3, <4>2, <5>1
      <4> QED BY <4>1, <4>2
    <3>5. main'.version <= last'
      BY <2>3, <2>4, <3>1 DEF Inv
    <3> QED BY <2>2, <3>1, <3>3, <3>4, <3>5 DEF Inv
  <2>6. ASSUME NEW v \in Versions, EditPull(v) PROVE Inv'
    <3>1. PICK f \in Edited(pulls[v].config, v) :
            pulls' = [pulls EXCEPT ![v].config = f, ![v].edited = TRUE]
      BY <2>6 DEF EditPull
    <3>2. /\ pulls[v] # None /\ edits < MaxEdits /\ edits' = edits + 1
          /\ UNCHANGED <<product, main, fetched, applied, last, values>>
      BY <2>6 DEF EditPull
    <3>3. Proposal(pulls[v], Secret, Schemas)
      BY <3>2 DEF Inv
    <3>4. Config(f, Secret)
      BY <2>3, <3>1, <3>3, EditedConfig DEF Proposal
    <3>5. /\ pulls' = [w \in Versions |-> pulls'[w]]
          /\ pulls'[v] = [config |-> f, schema |-> pulls[v].schema, from |-> pulls[v].from,
                          seen |-> pulls[v].seen, edited |-> TRUE]
          /\ \A w \in Versions : w # v => pulls'[w] = pulls[w]
      <4>1. pulls[v] = [config |-> pulls[v].config, schema |-> pulls[v].schema,
                        from |-> pulls[v].from, seen |-> pulls[v].seen,
                        edited |-> pulls[v].edited]
        BY <3>3 DEF Proposal
      <4> QED BY <3>1, <4>1 DEF Inv
    <3>6. Proposal(pulls'[v], Secret, Schemas)
      BY <3>3, <3>4, <3>5 DEF Proposal
    <3>7. \A w \in Versions : pulls'[w] # None => Proposal(pulls'[w], Secret, Schemas) /\ w <= last
      BY <3>2, <3>5, <3>6 DEF Inv
    <3>8. edits' \in 0..MaxEdits
      BY <3>2, ConstantsAssumption DEF Inv, ConstantsAssumption
    <3> QED BY <2>2, <3>2, <3>5, <3>7, <3>8 DEF Inv
  <2>7. ASSUME NEW v \in Versions, MergePull(v) PROVE Inv'
    <3>1. /\ pulls[v] # None /\ pulls' = [pulls EXCEPT ![v] = None]
          /\ main' = [version |-> v, config |-> pulls[v].config, schema |-> pulls[v].schema]
          /\ UNCHANGED <<product, fetched, applied, edits, last, values>>
      BY <2>7 DEF MergePull
    <3>2. Proposal(pulls[v], Secret, Schemas) /\ v <= last
      BY <3>1 DEF Inv
    <3>3. /\ pulls' = [w \in Versions |-> pulls'[w]]
          /\ \A w \in Versions : pulls'[w] # None => pulls'[w] = pulls[w]
      BY <3>1 DEF Inv
    <3>4. /\ main'.version = v /\ v # 0 /\ Config(main'.config, Secret)
          /\ main'.schema \in Schemas
          /\ main' = [version |-> main'.version, config |-> main'.config,
                      schema |-> main'.schema]
      BY <2>3, <3>1, <3>2 DEF Proposal
    <3>5. \A w \in Versions : pulls'[w] # None => Proposal(pulls'[w], Secret, Schemas) /\ w <= last
      BY <3>3 DEF Inv
    <3> QED BY <2>2, <3>1, <3>2, <3>3, <3>4, <3>5 DEF Inv
  <2>8. CASE Publish
    <3>1. /\ fetched # None /\ applied # None /\ values' = Merge(fetched, applied)
          /\ UNCHANGED <<product, main, fetched, applied, edits, last, pulls>>
      BY <2>8 DEF Publish
    <3>2. Config(fetched, Secret) /\ applied \in Schemas
      BY <3>1 DEF Inv
    <3>3. IsFile(values')
      BY <2>3, <3>1, <3>2, MergedConfig
    <3> QED BY <2>2, <3>1, <3>3 DEF Inv
  <2>9. CASE EditMain
    <3>1. PICK f \in Edited(main.config, main.version) : main' = [main EXCEPT !.config = f]
      BY <2>9 DEF EditMain
    <3>2. /\ main.version # 0 /\ edits < MaxEdits /\ edits' = edits + 1
          /\ UNCHANGED <<product, fetched, applied, last, pulls, values>>
      BY <2>9 DEF EditMain
    <3>3. main.version \in Versions /\ Config(main.config, Secret) /\ main.schema \in Schemas
      BY <3>2 DEF Inv
    <3>4. Config(f, Secret)
      BY <2>3, <3>1, <3>3, EditedConfig
    <3>5. main' = [version |-> main.version, config |-> f, schema |-> main.schema]
      BY <3>1 DEF Inv
    <3>6. edits' \in 0..MaxEdits
      BY <3>2, ConstantsAssumption DEF Inv, ConstantsAssumption
    <3> QED BY <2>2, <3>2, <3>3, <3>4, <3>5, <3>6 DEF Inv
  <2>10. CASE Fetch
    <3>1. /\ fetched' = main.config
          /\ UNCHANGED <<product, main, applied, edits, last, pulls, values>>
      BY <2>10 DEF Fetch
    <3> QED BY <2>2, <3>1 DEF Inv
  <2>11. CASE Apply
    <3>1. /\ applied' = main.schema
          /\ UNCHANGED <<product, main, fetched, edits, last, pulls, values>>
      BY <2>11 DEF Apply
    <3> QED BY <2>2, <3>1 DEF Inv
  <2>12. CASE UNCHANGED vars
    BY <2>2, <2>12 DEF vars, Inv
  <2> QED BY <2>5, <2>6, <2>7, <2>8, <2>9, <2>10, <2>11, <2>12 DEF Next
<1> QED BY <1>1, <1>2, PTL DEF Spec

-----------------------------------------------------------------------------
(* What follows *)

\* What is proposed, merged, fetched, applied and published are files, for the versions
\* that were generated (see TypeOK).
THEOREM TypeCorrect == Spec => []TypeOK
<1>1. Inv => TypeOK
  <2> SUFFICES ASSUME Inv PROVE TypeOK
    OBVIOUS
  <2>1. \A s \in Schemas : IsFile(s)
    BY PublicIsNotSecret DEF Inv
  <2>2. \A v \in Versions : pulls[v] # None => IsFile(pulls[v].config) /\ IsFile(pulls[v].schema)
    BY <2>1 DEF Inv, Proposal, Config, Plain
  <2>3. /\ main.config # None => IsFile(main.config)
        /\ main.schema # None => IsFile(main.schema)
    BY <2>1 DEF Inv, Config, Plain
  <2>4. /\ fetched # None => IsFile(fetched)
        /\ applied # None => IsFile(applied)
        /\ values # None => IsFile(values)
    BY <2>1 DEF Inv, Config, Plain
  <2> QED BY <2>2, <2>3, <2>4 DEF Inv, TypeOK
<1> QED BY <1>1, Inductive, PTL

\* What is private in every version that has it, in a schema whose private fields are apart,
\* never gets into config.cue, however deep the schemas are (see PrivateStaysOut).
THEOREM NothingPrivate == Spec => []PrivateStaysOut
<1>1. Inv => PrivateStaysOut
  BY DEF Inv, Proposal, Config, PrivateStaysOut, Secret
<1> QED BY <1>1, Inductive, PTL

\* Merge adds what is missing at the top with what is public in it one level down, and
\* nothing else, however deep the schema is (see MergeAddsMissing).
THEOREM AddsMissing == Spec => []MergeAddsMissing
<1>1. Inv => MergeAddsMissing
  <2> SUFFICES ASSUME Inv, NEW d \in {main.config, fetched} \ {None},
                      NEW s \in ({applied} \ {None}) \cup {Schema(v) : v \in Versions}
               PROVE  /\ DOMAIN Merge(d, s) = DOMAIN d \cup Added(d, s)
                      /\ \A p \in Added(d, s) :
                           Merge(d, s)[p] = [Resolve(s[p]) EXCEPT !.optional = FALSE]
    BY DEF MergeAddsMissing
  <2>1. IsFile(d)
    BY DEF Inv, Config, Plain
  <2>2. s \in Schemas
    BY DEF Inv, Schemas
  <2>3. IsFile(s)
    BY <2>2, PublicIsNotSecret DEF Inv
  <2> QED BY <2>1, <2>3, Merged DEF Completes
<1> QED BY <1>1, Inductive, PTL

\* Nothing is added to a configuration that was reviewed as it was generated (see
\* ReviewedIsPublished).
THEOREM ReviewedStays == Spec => []ReviewedIsPublished
<1>1. Inv => ReviewedIsPublished
  BY DEF Inv, Proposal, ReviewedIsPublished
<1> QED BY <1>1, Inductive, PTL

\* No upgrade changes or drops a value that it has seen (see UpgradeKeepsSeen).
THEOREM SeenIsKept == Spec => []UpgradeKeepsSeen
<1>1. Inv => UpgradeKeepsSeen
  BY DEF Inv, Proposal, UpgradeKeepsSeen
<1> QED BY <1>1, Inductive, PTL
=============================================================================
