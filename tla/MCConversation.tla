---------------------------- MODULE MCConversation ----------------------------
\* The instance of Conversation that TLC checks.
EXTENDS Conversation

CONSTANTS s1, s2, w1, w2
===============================================================================
