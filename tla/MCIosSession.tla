---------------------------- MODULE MCIosSession ----------------------------
\* Small instances of IosSession for TLC.
EXTENDS IosSession
=============================================================================
