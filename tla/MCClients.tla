----------------------------- MODULE MCClients -----------------------------
\* Clients with a few messages.
EXTENDS Clients

ThreeLines == <<"first", "second", "third">>
=============================================================================
