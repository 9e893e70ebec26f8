-------------------------- MODULE MCSqliteConnection --------------------------
(* Model checking of SqliteConnection on one connection, and its refinement *)
(* of TxStore.                                                              *)
EXTENDS SqliteConnection
=============================================================================
