------------------------------- MODULE MCVidPn -------------------------------
(* Model-checking VidPn.                                                   *)
EXTENDS VidPn
=============================================================================
