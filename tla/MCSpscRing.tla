----------------------------- MODULE MCSpscRing -----------------------------
\* SpscRing for TLC: a ring of four slots under indices that wrap after two
\* laps, two byte values, and calls that ask for more than the ring holds.
EXTENDS SpscRing

MCByte == {0, 1}
=============================================================================
