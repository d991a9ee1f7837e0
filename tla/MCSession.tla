------------------------------ MODULE MCSession -----------------------------
(***************************************************************************)
(* Small instances of Session.  Refusals that end a call alike need not    *)
(* all be there when tasks interleave; with one task every kind is.        *)
(***************************************************************************)
EXTENDS Session

OneRefusal == {"status"}

AllRefusals == (DOMAIN LoginError \cup DOMAIN GetError) \ {"unauthorized"}
=============================================================================
