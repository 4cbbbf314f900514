---------------------------- MODULE MCGoogleSignIn ----------------------------
EXTENDS GoogleSignIn, TLC

CONSTANTS a1, a2
=============================================================================
