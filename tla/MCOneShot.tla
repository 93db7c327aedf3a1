------------------------------ MODULE MCOneShot ------------------------------
(* OneShot with every text of an error that an exit code could depend on.     *)
EXTENDS OneShot

MCAllTexts == {"plain", "flagLike", "timeoutLike"}
=============================================================================
