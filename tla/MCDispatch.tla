---------------------------- MODULE MCDispatch ----------------------------
\* Dispatch with every worker busy and idle in turn.
EXTENDS Dispatch
============================================================================
