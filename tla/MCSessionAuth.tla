----------------------------- MODULE MCSessionAuth -----------------------------
EXTENDS SessionAuth
\* A device paired before it had a privilege key, and one promoted to Owned.
MCRecords == {[level |-> "trusted", key |-> FALSE], [level |-> "owned", key |-> TRUE]}
\* Everything is negotiated, or what needs the Owned level alone.
MCNegotiations == {Caps, OwnedCaps}
\* Every stream carries an operation of the one capability that uses them.
MCPurpose == [s \in Streams |-> CHOOSE c \in StreamCaps : TRUE]
================================================================================
