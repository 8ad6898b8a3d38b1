----------------------------- MODULE MCExecution -----------------------------
EXTENDS Execution

\* A command that is not marked as one that writes NV, and the report itself.
MCAuditable == {GetRandom, GetCommandAuditDigest}
=============================================================================
