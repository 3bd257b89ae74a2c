--------------------------- MODULE MCWireContract ---------------------------
(***************************************************************************)
(* WireContract with every method of the client.                           *)
(***************************************************************************)
EXTENDS WireContract

AllMethods == DOMAIN Client!Methods
EditMethods == {"apply_edits", "rename", "rename_related", "set_comment", "rename_parameter"}
=============================================================================
