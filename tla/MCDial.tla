------------------------------- MODULE MCDial -------------------------------
\* MxDial with three candidates: a winner, one that answers before and one that
\* answers after the drainer starts.
EXTENDS MxDial

CONSTANTS h1, h2, h3
=============================================================================
