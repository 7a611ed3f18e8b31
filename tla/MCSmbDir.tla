------------------------------ MODULE MCSmbDir ------------------------------
(* Two connections over one share root holding a file; a second name can  *)
(* be created by either connection while the other lists the root.        *)
EXTENDS SmbDir

CONSTANTS c1, c2, a, b

MCConns == {c1, c2}
MCEntryNames == {a, b}
MCInitEntries == {a}

\* The connections are interchangeable, and so are the two names once
\* neither exists: only c1/c2 are permuted (a exists at the start, b not).
MCSymmetry == Permutations(MCConns)
=============================================================================
