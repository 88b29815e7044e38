--------------------------- MODULE MCFirefoxWindows ---------------------------
(* FirefoxWindows for TLC.                                                   *)
EXTENDS FirefoxWindows, FiniteSetsExt, TLC

CONSTANTS alpha, beta, newKey, oldKey, MaxCreations, MaxTogether

Symmetry == Permutations(Scopes)

\* No more creations are asked for than windows can open; and processes of the
\* controller, those of Firefox and creations share a bound, so that no
\* behaviour has the most of all three.
Bounded ==
  LET creations == MapThenSumSet(LAMBDA s : sent[s], Scopes)
  IN creations <= MaxCreations /\ creations + starts + gen <= MaxTogether
==============================================================================
