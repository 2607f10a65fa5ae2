-------------------------- MODULE MCConversations --------------------------
EXTENDS Conversations, TLC

CONSTANTS k1, k2,   \* clients
          c1, c2    \* conversations

MCClients == {k1, k2}
MCConvs == {c1, c2}

=============================================================================
