---------------------------- MODULE MCTaskStore ----------------------------
(***************************************************************************)
(* TLC instances of TaskStore; the .cfg files Store*.cfg give the constants *)
(* their values.  TaskStoreRefinement brings in the refinement property.    *)
(***************************************************************************)
EXTENDS TaskStoreRefinement
=============================================================================
