------------------------------- MODULE Services -------------------------------
(***************************************************************************)
(* Services that come in pairs: a test cell (its worker thread and the     *)
(* matrix whose routes its clients lease), the stores in SQLite (results   *)
(* and recipes, in tables of their own), and what the engine finds by a    *)
(* name (plugins, and the instruments of a configuration).  The two of a   *)
(* pair share no state.                                                    *)
(***************************************************************************)
EXTENDS CellWorker, MatrixManager, ResultStore, RecipeStore, PluginHost, InstrumentManager

TestCellSpec == CellSpec /\ MatrixSpec

\* A test cell on both sides: its worker thread (CellWorker.cpp:49-139) and the routes
\* and leases of the matrix that serves it (MatrixManager.cpp:12-120).
CellsSound == CellSound /\ MatrixSound

StoresSpec == ResSpec /\ RecipeSpec

\* The two stores keep what they were given: results whole or not at all
\* (SqliteTestRepository.cpp:171-191), recipes with every version that was saved
\* (SqliteRecipeRepository.cpp:144-163).
StoresSound == ResultsSound /\ RecipesSound

TablesSpec == HostSpec /\ InstrumentsSpec

\* The tables of plugins (PluginManager.cpp:28-104, CapabilityRegistry.cpp:7-30) and of
\* instruments (InstrumentManager.cpp:52-114) lead to what is there, whatever failed.
TablesSound == HostSound /\ InstrumentsSound
===============================================================================
