---------------------------- MODULE RegioService ----------------------------
(***************************************************************************)
(* What a Regio TCP server promises, whichever way it multiplexes: the     *)
(* requests of one connection are carried out in the order they were sent, *)
(* one operation at a time on the device, and every read carried out is    *)
(* answered before the next operation begins, or its connection is given   *)
(* up.  Given-up connections are never served again.                       *)
(***************************************************************************)
EXTENDS Integers, Sequences

CONSTANTS
  Conn,    \* connections
  Nobody   \* the device is free

VARIABLES
  sent,     \* per connection, the requests its client has sent
  did,      \* how many of them the device has carried out
  replied,  \* the numbers of the requests answered
  serving,  \* the connection whose request is at the device or being answered
  stage,    \* "free", "run" or "answer"
  lost      \* the connections given up

vars == <<sent, did, replied, serving, stage, lost>>

Init ==
  /\ sent = [c \in Conn |-> <<>>]
  /\ did = [c \in Conn |-> 0]
  /\ replied = [c \in Conn |-> <<>>]
  /\ serving = Nobody
  /\ stage = "free"
  /\ lost = {}

Send(c, k) ==
  /\ sent' = [sent EXCEPT ![c] = Append(@, k)]
  /\ UNCHANGED <<did, replied, serving, stage, lost>>

Begin(c) ==
  /\ stage = "free"
  /\ c \notin lost
  /\ did[c] < Len(sent[c])
  /\ sent[c][did[c] + 1] \in {"rd", "wr"}
  /\ serving' = c
  /\ stage' = "run"
  /\ UNCHANGED <<sent, did, replied, lost>>

Finish(c) ==
  /\ stage = "run" /\ serving = c
  /\ did' = [did EXCEPT ![c] = @ + 1]
  /\ IF sent[c][did[c] + 1] = "rd"
     THEN stage' = "answer" /\ UNCHANGED serving
     ELSE stage' = "free" /\ serving' = Nobody
  /\ UNCHANGED <<sent, replied, lost>>

Answer(c) ==
  /\ stage = "answer" /\ serving = c
  /\ replied' = [replied EXCEPT ![c] = Append(@, did[c])]
  /\ stage' = "free"
  /\ serving' = Nobody
  /\ UNCHANGED <<sent, did, lost>>

\* Connections D are given up, with the operation in flight if it is theirs.
GiveUp(D) ==
  /\ lost' = lost \cup D
  /\ IF serving \in D THEN stage' = "free" /\ serving' = Nobody
                      ELSE UNCHANGED <<stage, serving>>
  /\ UNCHANGED <<sent, did, replied>>

Next ==
  \/ \E c \in Conn : \/ \E k \in {"rd", "wr", "bad", "cut"} : Send(c, k)
                     \/ Begin(c) \/ Finish(c) \/ Answer(c)
  \/ \E D \in SUBSET Conn : GiveUp(D)

Spec == Init /\ [][Next]_vars

-----------------------------------------------------------------------------
\* The reads of c that have been carried out, but for one whose reply is due.
Answered(c) ==
  {i \in 1 .. did[c] : sent[c][i] = "rd"} \ (IF stage = "answer" /\ serving = c THEN {did[c]} ELSE {})

\* The replies of a client are those of its reads, in order, each once, none
\* missing but the one of the read whose reply is due.
AnswersInOrder ==
  \A c \in Conn \ lost :
    /\ {replied[c][j] : j \in 1 .. Len(replied[c])} = Answered(c)
    /\ \A i, j \in 1 .. Len(replied[c]) : i < j => replied[c][i] < replied[c][j]
=============================================================================
