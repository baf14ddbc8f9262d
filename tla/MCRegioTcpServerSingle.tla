----------------------- MODULE MCRegioTcpServerSingle -----------------------
(* Two connections with up to two requests each. *)
EXTENDS RegioTcpServerSingle
=============================================================================
