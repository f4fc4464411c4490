--------------------------- MODULE MCLeadRecovery ---------------------------
EXTENDS LeadRecovery

CONSTANTS a1, a2, c1
=============================================================================
