--------------------------- MODULE MCPanelSession ---------------------------
(***************************************************************************)
(* Two sites, of which the server lists none, one or both; the state of    *)
(* each changes once.                                                      *)
(***************************************************************************)
EXTENDS PanelSession

CONSTANTS a, b

TwoSites == {a, b}
Lists    == {<<>>, <<a>>, <<b>>, <<a, b>>}
=============================================================================
