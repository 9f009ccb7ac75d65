----------------------------- MODULE MCRoaming -----------------------------
\* Constants of the runs of Roaming: powers below the low threshold, just
\* above it, and two that differ by more than the roaming threshold.
EXTENDS Roaming

MCLevels == {-85, -76, -60}
MCLow == -79
=============================================================================
