--------------------------- MODULE MCCapabilities ---------------------------
(* Two calls of one registration, or one call and two identities of a name.  *)
EXTENDS Capabilities, TLC

CONSTANTS g1, g2, n1, c1, c2

MCRegIds == {g1, g2}
OneReg == {g1}
MCNames == {n1}
MCCalls == {c1, c2}
OneCall == {c1}

\* Calls are interchangeable, and so are the identities of registrations.
MCSymmetry == Permutations({g1, g2}) \cup Permutations({c1, c2})
=============================================================================
