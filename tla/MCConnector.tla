----------------------------- MODULE MCConnector -----------------------------
(* Small instances of Connector for TLC.                                      *)
EXTENDS Connector

CONSTANTS e1, e2

\* The contents outbound_endpoints has: rows in any place, each endpoint once.
MCTables == {<<e1, Blank, e2>>, <<e2, BadPort, e1>>}
=============================================================================
