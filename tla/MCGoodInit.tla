----------------------------- MODULE MCGoodInit ------------------------------
(* Small instances of SemGoodInit.                                           *)
EXTENDS SemGoodInit, TLC

CONSTANTS p1, p2, p3

ThreeProcs == {p1, p2, p3}
\* p2 brings a value above SEMVMX; the last one of p3 is cut to 1.
SomeValues == (p1 :> <<3, -1>>) @@ (p2 :> <<2, 5>>) @@ (p3 :> <<0, 9>>)
Nobody == {}
=============================================================================
