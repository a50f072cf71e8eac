--------------------------- MODULE MCExitSelect ---------------------------
EXTENDS ExitSelect

\* Three exits, so that a best and a tie are possible at once; capacities on both
\* sides of zero; loads below, at and above 90% of the capacities.
ThreeNumbers == 1..3
SomeCapacities == {0, 2, 12}
SomeLoads == {0, 1, 11}
=============================================================================
