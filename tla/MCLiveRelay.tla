---------------------------- MODULE MCLiveRelay ----------------------------
\* A small instance of LiveRelay for TLC.
EXTENDS LiveRelay

CONSTANTS r1, r2, run, design, other
=============================================================================
