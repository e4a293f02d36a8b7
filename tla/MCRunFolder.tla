---------------------------- MODULE MCRunFolder ----------------------------
EXTENDS RunFolder
=============================================================================
