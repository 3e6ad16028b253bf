---------------------------- MODULE MCBoxServices ----------------------------
(* The values for BoxServices are those of BoxServices.cfg. *)
EXTENDS BoxServices
=============================================================================
