----------------------------- MODULE MCUfExtract -----------------------------
(* Two recordings of one language, one whose sidecar has its deployment      *)
(* number and one without, which share a bundle or do not, and a message     *)
(* from S3 in another language.                                              *)
EXTENDS UfExtract, TLC

CONSTANTS r1, r2

MCLanguage == (1 :> "en") @@ (2 :> "en") @@ (3 :> "fr")
MCSizes == {[m \in Messages |-> 1], (1 :> 2) @@ (2 :> 2) @@ (3 :> 4)}
MCSidecars == (1 :> NotYet) @@ (2 :> Right)

Alike == Permutations(Runs)
=============================================================================
