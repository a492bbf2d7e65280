--------------------------- MODULE MCActivityList ---------------------------
(* Model-checking instance of ActivityList.                                *)
EXTENDS ActivityList
=============================================================================
