----------------------------- MODULE MCPCQueue -----------------------------
\* PCQueue with two threads on each side of a queue of two slots.
EXTENDS PCQueue
=============================================================================
