--------------------------- MODULE MCPanelWorkspace ---------------------------
(***************************************************************************)
(* One load, there from the start or added later, the plan for the reports,*)
(* two calls in flight, documents that change once.                        *)
(***************************************************************************)
EXTENDS PanelWorkspace

CONSTANT a

OneLoad   == {a}
OneReport == {"plan"}
=============================================================================
