----------------------------- MODULE MCTracing -----------------------------
EXTENDS Tracing, TLC
CONSTANTS a, b, c, d

\* Two pipelines: a owns one and b and d help it, c owns the other.
MCEvents == (a :> <<1, 2>>) @@ (b :> <<2, 1>>) @@ (c :> <<1, 1>>) @@ (d :> <<1>>)
MCOwner == (a :> a) @@ (b :> a) @@ (c :> c) @@ (d :> a)
=============================================================================
