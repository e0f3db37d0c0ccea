-------------------------- MODULE MCAndroidSession --------------------------
\* Small instances of AndroidSession for TLC.
EXTENDS AndroidSession

CONSTANTS c1, c2

OneCaller == {c1}
TwoCallers == {c1, c2}
=============================================================================
