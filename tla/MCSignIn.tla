------------------------------ MODULE MCSignIn ------------------------------
(* SignIn on a small instance. *)
EXTENDS SignIn, TLC

\* Codes, grants and requests are interchangeable.
MCSymmetry == Permutations(Code) \cup Permutations(Grant) \cup Permutations(Request)
=============================================================================
