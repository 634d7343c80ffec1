----------------------------- MODULE ConfigFile -----------------------------
(* The life of the configuration of a product: every version brings a schema, *)
(* the generator proposes config.cue in a pull request, people edit and merge *)
(* it, and the ProductDeployment publishes the values.  Generator and         *)
(* ProductDeployment read what source-controller has fetched, which may be    *)
(* older than what is merged, as may be the schema that is applied.           *)
(*                                                                            *)
(* A CUE file is a function from paths to fields.  A field allows a set of    *)
(* values, one of which may be its default; it is concrete when it determines *)
(* one.  A struct is a field that allows only Struct.                         *)
EXTENDS RemovedFields, SequencesExt

CONSTANTS None,
          Struct,
          Names,     \* names of fields: numbers, in the order in which files list them
          Values,    \* values of the fields that are not structs
          Files,     \* what the schemas of pipelines may be
          Products,  \* what the versions of a product may bring
          MaxEdits   \* bound on the edits of people

Field == {c \in [allowed : SUBSET (Values \cup {Struct}), default : Values \cup {None},
                 private : BOOLEAN, optional : BOOLEAN] : c.default \in c.allowed \cup {None}}

IsStruct(c) == c.allowed = {Struct}

Above(path) == Prefixes(path) \ {<<>>}

\* A path is in a file with all that is above it, which are structs.
IsFile(f) ==
    /\ f \in [DOMAIN f -> Field]
    /\ \A p \in DOMAIN f :
        /\ p \in Seq(Names) /\ p # <<>>
        /\ \A q \in Above(p) : q \in DOMAIN f /\ (q # p => IsStruct(f[q]))

\* A product has the schemas of the pipelines of each version, in their order.
ASSUME ConstantsAssumption ==
    /\ MaxEdits \in Nat /\ Names \subseteq Nat /\ IsFiniteSet(Names)
    /\ Struct \notin Values /\ None \notin Values /\ None # Struct
    /\ \A f \in Files : IsFile(f)
    /\ Products \subseteq Seq(Seq(Files))

VARIABLES
  \* what people and other controllers provide
  product,  \* what the versions of this product bring
  main,     \* what is merged: the version, config.cue and the schema, None at first
  fetched,  \* the config.cue that was fetched last, None if there was none
  applied,  \* the schema of the ProductDeployment in the cluster, None at first
  edits,    \* the number of edits so far
  \* what the controllers produce
  last,     \* the version that was generated last
  pulls,    \* the pull request of each version, None if there is none
  values    \* the values that are published, None at first

vars == <<product, main, fetched, applied, edits, last, pulls, values>>

Versions == DOMAIN product

-----------------------------------------------------------------------------
(* What the CUE evaluator does *)

IsConcrete(c) == c.default # None \/ (\E v \in c.allowed : c.allowed = {v})

\* The greatest lower bound.  Of two defaults that are still allowed none is left.
Meet(b, c) ==
    LET both == b.allowed \cap c.allowed
        defaults == {b.default, c.default} \cap both
    IN  [allowed |-> both,
         default |-> IF \E v \in defaults : defaults = {v} THEN CHOOSE v \in defaults : TRUE
                                                           ELSE None,
         private |-> b.private \/ c.private, optional |-> b.optional /\ c.optional]

\* A contradiction has no fields.
UnifyFiles(f, g) ==
    LET both == [p \in DOMAIN f \cup DOMAIN g |->
                   IF p \notin DOMAIN f THEN g[p]
                   ELSE IF p \notin DOMAIN g THEN f[p] ELSE Meet(f[p], g[p])]
    IN  Restrict(both, {p \in DOMAIN both : \A q \in Above(p) \ {p} : both[q].allowed # {}})

\* The fields that are there, and not only constrained in case they are.
Present(f) == {p \in DOMAIN f : \A q \in Above(p) : ~f[q].optional}

Consistent(f) == \A p \in Present(f) : f[p].allowed # {}

Vet(f) == \A p \in Present(f) : IsConcrete(f[p])

\* A default becomes the value of its field.
Resolve(c) == IF c.default = None THEN c ELSE [c EXCEPT !.allowed = {c.default}, !.default = None]

Evaluate(f) == [p \in Present(f) |-> Resolve(f[p])]

-----------------------------------------------------------------------------
(* cue.go *)

Eval(f) == [p \in Present(f) |-> [Evaluate(f)[p] EXCEPT !.private = FALSE]]

\* The fields of the struct with this path, and those that are marked private.
FieldsOf(f, path) == {e \in Names : Append(path, e) \in DOMAIN f}
PrivateOf(f, path) == {e \in FieldsOf(f, path) : f[Append(path, e)].private}

\* What removePrivateFields has left of a struct when it has gone over it k times.
LeftAfter(f, path, k) ==
    LET left[j \in 0..k] == IF j = 0 THEN FieldsOf(f, path)
                            ELSE left[j-1] \ Removed(left[j-1], PrivateOf(f, path))
    IN  left[k]

\* The times it comes to a field of a struct that it goes over so often.
Times(f, path, e, rounds) ==
    UNION {{k} \X (1..Visits(LeftAfter(f, path, k), PrivateOf(f, path), e)) :
             k \in {j \in 0..rounds-1 : e \in LeftAfter(f, path, j)}}

\* How often it goes over a struct: whenever it comes to it in the struct above.
Rounds(f, path) ==
    LET rounds[l \in 0..Len(path)] ==
          IF l = 0 THEN 1
          ELSE Cardinality(Times(f, SubSeq(path, 1, l-1), path[l], rounds[l-1]))
    IN  rounds[Len(path)]

Structs(f) == {<<>>} \cup {p \in DOMAIN f : IsStruct(f[p])}

Panics(f) == \E p \in Structs(f) : \E k \in 0..Rounds(f, p)-1 :
                PanicsOn(LeftAfter(f, p, k), PrivateOf(f, p))

Left(f, path) == LeftAfter(f, path, Rounds(f, path))

\* Private fields that are left keep the attribute.
EvalWithoutPrivateFields(f) ==
    LET e == Evaluate(f)
        left == [u \in Structs(e) |-> Left(e, u)]
    IN  Restrict(e, {p \in DOMAIN e : \A q \in Above(p) : Last(q) \in left[Front(q)]})

Validate(c, s) == LET both == UnifyFiles(c, s) IN Consistent(both) /\ Vet(both)

\* Where fieldsDelta looks for the field with this path, and what it calls it then: every
\* struct is looked up, by its path from the root, in the value that was reached.
Place(path) ==
    LET at[k \in 0..Len(path)-1] == IF k = 0 THEN <<>> ELSE at[k-1] \o SubSeq(path, 1, k)
    IN  Append(at[Len(path)-1], path[Len(path)])

\* Mutant: private fields are taken for missing.
DeltaWithPrivate(s, d) ==
    LET Reached(p) == \A q \in Above(p) : /\ Place(q) \in DOMAIN s
                                          /\ q # p => IsStruct(s[Place(q)])
        missing == {p \in (UNION {Suffixes(q) : q \in DOMAIN s}) \ {<<>>} :
                      p \notin DOMAIN d /\ Reached(p)}
    IN  {Place(p) : p \in missing}

\* fieldsDelta: the public fields of the schema that the data lacks.  The end of a
\* place is the path that was looked for there.
FieldsDelta(s, d) ==
    LET Reached(p) == \A q \in Above(p) : /\ Place(q) \in DOMAIN s /\ ~s[Place(q)].private
                                          /\ q # p => IsStruct(s[Place(q)])
        missing == {p \in (UNION {Suffixes(q) : q \in DOMAIN s}) \ {<<>>} :
                      p \notin DOMAIN d /\ Reached(p)}
    IN  {Place(p) : p \in missing}

\* Mutant: it goes down through every field.
MakeAllValues(s, paths) ==
    [p \in {q \in DOMAIN s : q \in paths} |-> [Resolve(s[p]) EXCEPT !.optional = FALSE]]

\* makeValues: it goes down only through fields that are missing themselves.
MakeValues(s, paths) ==
    [p \in {q \in DOMAIN s : Above(q) \subseteq paths} |->
        [Resolve(s[p]) EXCEPT !.optional = FALSE]]

\* Mutant: what the schema has replaces what the data has.
MergeOver(d, s) ==
    LET new == MakeValues(s, {p \in DOMAIN s : \A q \in Above(p) : ~s[q].private})
    IN  [p \in DOMAIN d \cup DOMAIN new |-> IF p \in DOMAIN new THEN new[p] ELSE d[p]]

Merge(d, s) == UnifyFiles(d, MakeValues(s, FieldsDelta(s, d)))

-----------------------------------------------------------------------------
(* State *)

Unified(files) ==
    LET upTo[k \in 0..Len(files)] == IF k = 0 THEN <<>> ELSE UnifyFiles(upTo[k-1], files[k])
    IN  upTo[Len(files)]

\* The files of the pipelines are unified to the schema of the version.
Schema(v) == Unified(product[v])

TypeOK ==
    /\ product \in Products /\ last \in {0} \cup Versions /\ edits \in 0..MaxEdits
    /\ \A v \in Versions : pulls[v] # None =>
         IsFile(pulls[v].config) /\ IsFile(pulls[v].schema)
    /\ main.version \in {0} \cup Versions /\ main.version <= last
    /\ \A f \in {main.config, main.schema, fetched, applied, values} : f # None => IsFile(f)

Init ==
    /\ product \in Products
    /\ main = [version |-> 0, config |-> None, schema |-> None]
    /\ fetched = None /\ applied = None /\ edits = 0
    /\ last = 0 /\ pulls = [v \in Versions |-> None] /\ values = None

-----------------------------------------------------------------------------
(* createProductDeployment *)

\* Mutant: the schema is not evaluated along with the configuration.
GeneratedApart(v, existing) ==
    IF existing = None
      THEN [config |-> EvalWithoutPrivateFields(Schema(v)), schema |-> Schema(v)]
      ELSE [config |-> Eval(existing), schema |-> Schema(v)]

\* Without a config.cue the schema itself is evaluated, in place, so that it is the
\* schema of the ProductDeployment and of the Validation as well.
Generated(v, existing) ==
    LET s == Schema(v)
        public == EvalWithoutPrivateFields(s)
    IN  IF existing = None THEN [config |-> public, schema |-> public]
                           ELSE [config |-> Eval(Merge(existing, s)), schema |-> s]

\* Mutant: a version that is lower than the last is generated, too.
GenerateAny(v) ==
    /\ v # last
    /\ product[v] # <<>> /\ Consistent(Schema(v))
    /\ LET g == Generated(v, fetched)
       IN  /\ Validate(g.config, g.schema)
           /\ pulls' = [pulls EXCEPT ![v] = [config |-> g.config, schema |-> g.schema,
                                             from |-> main.config, seen |-> fetched,
                                             edited |-> FALSE]]
    /\ last' = v
    /\ UNCHANGED <<product, main, fetched, applied, edits, values>>

\* A version with at least one schema, none of which contradicts another, whose
\* configuration is valid.  Its pull request starts from what is merged.  One in which
\* the removal of private fields panics is never generated.
Generate(v) ==
    /\ v > last
    /\ product[v] # <<>> /\ Consistent(Schema(v))
    /\ fetched = None => ~Panics(Evaluate(Schema(v)))
    /\ LET g == Generated(v, fetched)
       IN  /\ Validate(g.config, g.schema)
           /\ pulls' = [pulls EXCEPT ![v] = [config |-> g.config, schema |-> g.schema,
                                             from |-> main.config, seen |-> fetched,
                                             edited |-> FALSE]]
    /\ last' = v
    /\ UNCHANGED <<product, main, fetched, applied, edits, values>>

-----------------------------------------------------------------------------
(* createOrUpdatedValuesConfigMap *)

\* Mutant: values that are published once stay.
PublishOnce ==
    /\ fetched # None /\ applied # None /\ values = None
    /\ Validate(fetched, applied)
    /\ values' = Merge(fetched, applied)
    /\ UNCHANGED <<product, main, fetched, applied, edits, last, pulls>>

\* The configuration is validated and completed; what is not concrete has no YAML.
Publish ==
    /\ fetched # None /\ applied # None
    /\ Validate(fetched, applied)
    /\ values' = Merge(fetched, applied)
    /\ Consistent(values') /\ Vet(values')
    /\ UNCHANGED <<product, main, fetched, applied, edits, last, pulls>>

-----------------------------------------------------------------------------
(* What people and other controllers do *)

Unset(f, p) == Restrict(f, {q \in DOMAIN f : p \notin Above(q)})

Set(f, p, x) ==
    [q \in DOMAIN Unset(f, p) \cup {p} |->
        IF q = p THEN [allowed |-> {x}, default |-> None, private |-> FALSE, optional |-> FALSE]
                 ELSE f[q]]

\* People set public fields of the version in the structs that are there, also such
\* that it does not allow, and remove fields.
Edited(f, v) ==
    LET s == Schema(v)
        open == {p \in DOMAIN s : /\ ~IsStruct(s[p]) /\ \A q \in Above(p) : ~s[q].private
                                  /\ \A q \in Above(p) \ {p} : q \in DOMAIN f /\ IsStruct(f[q])}
    IN  {Set(f, p, x) : p \in open, x \in Values} \cup {Unset(f, p) : p \in DOMAIN f}

EditPull(v) ==
    /\ pulls[v] # None /\ edits < MaxEdits /\ edits' = edits + 1
    /\ \E f \in Edited(pulls[v].config, v) :
         pulls' = [pulls EXCEPT ![v].config = f, ![v].edited = TRUE]
    /\ UNCHANGED <<product, main, fetched, applied, last, values>>

EditMain ==
    /\ main.version # 0 /\ edits < MaxEdits /\ edits' = edits + 1
    /\ \E f \in Edited(main.config, main.version) : main' = [main EXCEPT !.config = f]
    /\ UNCHANGED <<product, fetched, applied, last, pulls, values>>

\* Git merges what does not conflict with what was merged in between.
MergePull(v) ==
    /\ pulls[v] # None /\ pulls[v].from = main.config
    /\ main' = [version |-> v, config |-> pulls[v].config, schema |-> pulls[v].schema]
    /\ pulls' = [pulls EXCEPT ![v] = None]
    /\ UNCHANGED <<product, fetched, applied, edits, last, values>>

Fetch ==
    /\ fetched # main.config /\ fetched' = main.config
    /\ UNCHANGED <<product, main, applied, edits, last, pulls, values>>

Apply ==
    /\ applied # main.schema /\ applied' = main.schema
    /\ UNCHANGED <<product, main, fetched, edits, last, pulls, values>>

Next ==
    \/ \E v \in Versions : Generate(v) \/ EditPull(v) \/ MergePull(v)
    \/ Publish \/ EditMain \/ Fetch \/ Apply

Spec == Init /\ [][Next]_vars

\* The ProductDeployment comes back at its interval; the others poll.
FairSpec == Spec /\ WF_vars(Publish) /\ WF_vars(Fetch) /\ WF_vars(Apply)

-----------------------------------------------------------------------------
(* Safety *)

Private(v) == LET s == Schema(v) IN {p \in DOMAIN s : \E q \in Above(p) : s[q].private}

\* In every struct there is a public field between two private ones, and a field behind
\* a private one, unless it is the last, has no private fields below it.
Apart(f) ==
    \A p \in Structs(f) :
      /\ \A d, e \in PrivateOf(f, p) : d < e =>
           \E k \in FieldsOf(f, p) \ PrivateOf(f, p) : d < k /\ k < e
      /\ \A d \in PrivateOf(f, p), e \in FieldsOf(f, p) \ PrivateOf(f, p) :
           Follows(FieldsOf(f, p), d, e) /\ ~IsLast(FieldsOf(f, p), e) =>
             \A q \in DOMAIN f : Append(p, e) \in Above(q) => ~f[q].private

\* What config.cue may have of a version: the public fields, but unless the private ones
\* are apart all.
Exposed(v) == DOMAIN Schema(v) \ IF Apart(Evaluate(Schema(v))) THEN Private(v) ELSE {}

\* What is private in every version that has it, apart from other private fields.
Secret == (UNION {Private(v) : v \in Versions}) \ (UNION {Exposed(v) : v \in Versions})

\* What is private in every version that has it, in a schema whose private fields are
\* apart, never gets into config.cue, whatever schemas and configurations of different
\* versions meet.
PrivateStaysOut ==
    /\ \A v \in Versions : pulls[v] # None => DOMAIN pulls[v].config \cap Secret = {}
    /\ \A f \in {main.config, fetched} \ {None} : DOMAIN f \cap Secret = {}

\* What Merge adds: for the public fields at the top that are missing, these and their
\* public fields, with their defaults; nothing below that, and nothing to the
\* structs that are there.
Added(d, s) ==
    {p \in DOMAIN s : /\ Len(p) <= 2 /\ <<p[1]>> \notin DOMAIN d
                      /\ \A q \in Above(p) : ~s[q].private}

MergeAddsMissing ==
    \A d \in {main.config, fetched} \ {None} :
      \A s \in ({applied} \ {None}) \cup {Schema(v) : v \in Versions} :
        LET merged == Merge(d, s) IN
        /\ DOMAIN merged = DOMAIN d \cup Added(d, s)
        /\ \A p \in Added(d, s) : merged[p] = [Resolve(s[p]) EXCEPT !.optional = FALSE]

\* What people review is what is published: a configuration as it was generated is
\* complete with respect to the schema that it is deployed with.
ReviewedIsPublished ==
    \A v \in Versions : pulls[v] # None /\ ~pulls[v].edited =>
        Merge(pulls[v].config, pulls[v].schema) = pulls[v].config

\* An upgrade keeps every value of the configuration that it has seen.  It may drop
\* the private attribute, where that is left.
UpgradeKeepsSeen ==
    \A v \in Versions : pulls[v] # None /\ ~pulls[v].edited /\ pulls[v].seen # None =>
        \A p \in DOMAIN pulls[v].seen :
            p \in DOMAIN pulls[v].config /\ pulls[v].config[p].allowed = pulls[v].seen[p].allowed

-----------------------------------------------------------------------------
(* Liveness *)

\* A configuration that is valid and stays is published in the end with its own
\* schema, although the two arrive at different times.
PublishedInTheEnd ==
    <>[](/\ main.version # 0 /\ Validate(main.config, main.schema)
         /\ Vet(Merge(main.config, main.schema)))
      => <>[](main.version # 0 /\ values = Merge(main.config, main.schema))

-----------------------------------------------------------------------------
(* What a comment of the code claims and the code does not do *)

\* testdata/schema.cue:5: "The following parameters are available for configuration":
\* a configuration that the schema of the product allows is accepted.
EditsAreAccepted ==
    \A v \in Versions : pulls[v] # None /\ Validate(pulls[v].config, Schema(v)) =>
        Validate(pulls[v].config, pulls[v].schema)
=============================================================================
