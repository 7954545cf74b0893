------------------------------ MODULE MCOptions ------------------------------
(* An instance of Options for TLC: 3-bit and 6-bit integers, doubles with  *)
(* 4 digits; values of every type, and the numbers at the edges.  String   *)
(* 10 is string 1 followed by a zero and more, 11 is a single zero, 12 is  *)
(* not UTF-8 and is decoded as string 13.                                  *)
EXTENDS Options

Edges == {-5, -4, -1, 0, 1, 3, 4, 8, 32, 60, 64, 72}
SomeValues ==
  {Num(n) : n \in Edges} \cup {Bool(FALSE), Bool(TRUE), Null, Undefined}
    \cup {Str(0), Str(1), Str(10), Js("buffer", 0), Js("buffer", 1)}
    \cup {Js("buffer", 11), Js("buffer", 12)}
    \cup {UserName, AllSubs, AllSubsUnsubs}
SomeText ==
  [n \in 0 .. 13 |-> CASE n = 10 -> 1 [] n = 11 -> 0 [] n = 12 -> 13
                       [] OTHER -> n]
SomeBuilds == {{}, {"curve", "gssapi"}}
=============================================================================
