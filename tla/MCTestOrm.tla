----------------------------- MODULE MCTestOrm -----------------------------
(***************************************************************************)
(* TestOrm on the connection tables the repository ships.  The runs differ *)
(* in the build's two switches, the tests invoked and the bound.           *)
(***************************************************************************)
EXTENDS TestOrmProperties, Configuration

\* Tests of the main thread only, with one that loops over the connections;
\* and the test that uses most connections per thread.
MainThreadTests == { "TestAllOtherTests", "TestConnection",
                     "TestQueryBuilderDbSpecific", "TestTinyOrm" }
LoopTests       == { "TestTinyOrm" }

=============================================================================
