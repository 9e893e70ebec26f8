--------------------------- MODULE MCSqliteDatabase ---------------------------
(* Model checking of SqliteDatabase.  Its liveness leaves no room for       *)
(* symmetry.                                                                *)
EXTENDS SqliteDatabase
=============================================================================
