--------------------------- MODULE MCAuthSession ---------------------------
EXTENDS AuthSession, TLC

CONSTANTS t1, t2, t3, d1, d2

\* Two tabs of one profile and one tab of another.
TwoDevices == t1 :> d1 @@ t2 :> d1 @@ t3 :> d2
\* Three tabs of one profile.
OneProfile == [t \in Tabs |-> d1]

\* Nothing fails and nobody logs out.
Quiet == written_off = {}

Symmetry == Permutations(Tokens) \cup Permutations(Handlers)
=============================================================================
