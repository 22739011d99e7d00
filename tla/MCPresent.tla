----------------------------- MODULE MCPresent -----------------------------
(* Constants for model-checking Present.                                   *)
EXTENDS Present

PointerShapes == {<<1, 2>>, <<2, 1>>, <<2, 2>>}
=============================================================================
