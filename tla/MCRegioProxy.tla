---------------------------- MODULE MCRegioProxy ----------------------------
(* One form worker beside the local server, two rows, four operations. *)
EXTENDS RegioProxy
=============================================================================
