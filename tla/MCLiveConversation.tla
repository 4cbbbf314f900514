-------------------------- MODULE MCLiveConversation --------------------------
EXTENDS LiveConversation

CONSTANTS k1
=============================================================================
