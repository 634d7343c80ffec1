---------------------------- MODULE MCConfigFile ----------------------------
(* Instances of ConfigFile for TLC. *)
EXTENDS ConfigFile

a == 1
s == 2
x == 3
b == 4
t == 5

Leaf(allowed, default) ==
    [allowed |-> allowed, default |-> default, private |-> FALSE, optional |-> FALSE]
Group == Leaf({Struct}, None)
Hidden(c) == [c EXCEPT !.private = TRUE]
Optional(c) == [c EXCEPT !.optional = TRUE]

\* A field and a struct with a private field, as in the code's test data.
First == (<<a>> :> Leaf(Values, 1)) @@ (<<s>> :> Group)
         @@ (<<s, a>> :> Leaf(Values, 1)) @@ (<<s, x>> :> Hidden(Leaf({2}, None)))

\* What a later version may add: a value that has to be set, or may be, fields in a struct that
\* is there, a struct in a struct, an optional struct, a private struct; private neighbours,
\* a struct with a private field behind a private field, private fields at the end.
Additions == {
    <<>>,
    <<b>> :> Leaf(Values, None),
    <<b>> :> Optional(Leaf(Values, None)),
    (<<s>> :> Group) @@ (<<s, b>> :> Leaf(Values, 1)),
    (<<t>> :> Group) @@ (<<t, a>> :> Leaf(Values, 2)) @@ (<<t, x>> :> Hidden(Leaf({1}, None)))
      @@ (<<t, s>> :> Group) @@ (<<t, s, a>> :> Leaf(Values, 2)),
    (<<t>> :> Optional(Group)) @@ (<<t, a>> :> Optional(Leaf(Values, None))),
    (<<x>> :> Hidden(Group)) @@ (<<x, a>> :> Leaf(Values, 1)),
    (<<x>> :> Hidden(Leaf({1}, None))) @@ (<<b>> :> Hidden(Leaf({2}, None)))
      @@ (<<t>> :> Group) @@ (<<t, x>> :> Hidden(Leaf({1}, None))),
    (<<x>> :> Hidden(Leaf({1}, None))) @@ (<<t>> :> Leaf(Values, 1))
      @@ (<<b>> :> Group) @@ (<<b, x>> :> Hidden(Leaf({1}, None))),
    (<<x>> :> Hidden(Leaf({1}, None))) @@ (<<t>> :> Hidden(Leaf({2}, None)))}

MCFiles == {First} \cup Additions \cup {First @@ f : f \in Additions}
           \cup {[First EXCEPT ![<<a>>] = Leaf({2}, None)]}

\* A file of the later version that comes beside the first, for another pipeline.
Beside == {f \in Additions : DOMAIN f \in {{<<b>>}, {<<s>>, <<s, b>>}}}

\* The later version is one file, or one for each of two pipelines; or the first is empty.
Upgrades == {<< <<First>>, <<First @@ f>> >> : f \in Additions}
            \cup {<< <<First>>, <<First, f>> >> : f \in Beside}
            \cup {<< <<First>>, << [First EXCEPT ![<<a>>] = Leaf({2}, None)] >> >>,
                  << <<>>, <<First>> >>}
=============================================================================
