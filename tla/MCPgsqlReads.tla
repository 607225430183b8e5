----------------------------- MODULE MCPgsqlReads -----------------------------
(* Instances of PgsqlReads for TLC.                                          *)
EXTENDS MCPgsqlStorage, PgsqlReads
=============================================================================
