------------------------------- MODULE Strict -------------------------------
\* F(x), for which TLC evaluates x once
With(x, F(_)) == CHOOSE y \in {F(v) : v \in {x}} : TRUE
=============================================================================
