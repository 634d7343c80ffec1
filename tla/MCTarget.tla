------------------------------- MODULE MCTarget -------------------------------
(* Instances of Target for TLC. *)
EXTENDS Target

CONSTANTS n1, n2

With(access, ns, account, selector, periodic) ==
    [access |-> access, ns |-> ns, account |-> account, selector |-> selector,
     periodic |-> periodic]

\* A good target, and the ways to get one wrong.
Various == {With("kubernetes", n1, TRUE, TRUE, TRUE), With("kubernetes", n1, FALSE, FALSE, FALSE),
            With("kubernetes", n2, TRUE, TRUE, FALSE), With("malformed", n1, TRUE, TRUE, TRUE),
            With("malformed", n2, FALSE, FALSE, FALSE), With("absent", n1, FALSE, FALSE, TRUE),
            With("absent", n2, FALSE, FALSE, FALSE)}
=============================================================================
