----------------------------- MODULE MCPromptPage -----------------------------
EXTENDS PromptPage, TLC

CONSTANTS u1, u2, p1, p2, f1, f2, w1, w2

\* Only safety is checked, and nothing tells prompts or slots apart.
Symmetry ==
    Permutations({p1, p2}) \cup Permutations({f1, f2}) \cup Permutations({w1, w2})
=============================================================================
