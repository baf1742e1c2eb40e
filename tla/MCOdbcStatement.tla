-------------------------- MODULE MCOdbcStatement --------------------------
(***************************************************************************)
(* Small instances of OdbcStatement.                                       *)
(***************************************************************************)
EXTENDS OdbcStatement, TLC

\* Handles, JDBC objects and texts are interchangeable: sound for the safety
\* properties, none of which names one.
Symmetric == Permutations(Handle) \cup Permutations(PStmt)
                \cup Permutations(RSet) \cup Permutations(Sql)
=============================================================================
