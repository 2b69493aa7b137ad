---------------------------- MODULE MCForwarder ----------------------------
EXTENDS Forwarder

\* The relay's port and another one.
MCPorts == {1, 2}
=============================================================================
