----------------------- MODULE MCShortcutCredentials -----------------------
(* Small instances of ShortcutCredentials for TLC.                         *)
EXTENDS ShortcutCredentials, TLC

MCSymmetry == Permutations(Credential) \cup Permutations(Request)
=============================================================================
