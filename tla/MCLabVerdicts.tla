--------------------------- MODULE MCLabVerdicts ----------------------------
EXTENDS LabVerdicts

\* Every phase with a verifier, and one without.
MCWorks == DOMAIN verifyReg \cup {<<1, "attack">>}

=============================================================================
