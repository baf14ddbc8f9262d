-------------------------- MODULE MCRegioTcpClient --------------------------
(* Two tasks, three operations, two connections, reads of two sizes. *)
EXTENDS RegioTcpClient

CONSTANTS t1, t2

Read(n) == [kind |-> "rd", size |-> n]
Write(n) == [kind |-> "wr", size |-> n]

MCRequest == [t \in {t1, t2} |-> IF t = t1 THEN {Read(1), Write(1)} ELSE {Read(1), Read(2)}]
=============================================================================
