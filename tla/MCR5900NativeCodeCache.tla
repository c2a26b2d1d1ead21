----------------------- MODULE MCR5900NativeCodeCache -----------------------
(***************************************************************************)
(* A small instance of the dispatcher's native code for TLC.                *)
(***************************************************************************)
EXTENDS R5900NativeCodeCache, TLC

CONSTANTS a, b, w1, w2, w3, w4, c1, c2

MCStartPc == {a, b}
MCObject == {a, b, Compiled, Replacement}
MCWords == {w1, w2, w3, w4}

\* Two words compile to the same code, and one does not lower.
MCCodeOf == w1 :> c1 @@ w2 :> c2 @@ w3 :> c2 @@ w4 :> NoCode
=============================================================================
