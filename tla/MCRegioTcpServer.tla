-------------------------- MODULE MCRegioTcpServer --------------------------
(* Two connections: one with up to two requests of any kind, one with a     *)
(* single well-formed one.                                                  *)
EXTENDS RegioTcpServer

CONSTANTS c1, c2

MCSends == [c \in {c1, c2} |-> IF c = c1 THEN {"rd", "wr", "bad", "cut"} ELSE {"rd", "wr"}]
MCMaxReq == [c \in {c1, c2} |-> IF c = c1 THEN 2 ELSE 1]
=============================================================================
