-------------------------- MODULE MCAuthAvailability --------------------------
\* The values AuthAvailability is checked with: two models of one family, one of
\* another and one of none.
EXTENDS AuthAvailability, TLC

CONSTANTS g1, g2, c1, x1, gemini, claude, e1

CooldownOfLevel == [l \in 0..MaxLevel |-> l + 1]

FamilyOfModel ==
    [m \in Models |-> CASE m \in {g1, g2} -> gemini [] m = c1 -> claude [] m = x1 -> NoFamily]

SameFamily == Permutations({g1, g2})
==============================================================================
