------------------------ MODULE MCConversationReplay ------------------------
\* The instance of replay_reseed_finding.cfg.
EXTENDS ConversationReplay
=============================================================================
