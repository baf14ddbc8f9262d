---------------------------- MODULE MCSkmapEdit ------------------------------
(* The top module has a converted vector of two lanes, whose check takes     *)
(* one value (in the hex run any), and a memory of two lanes; its kid a      *)
(* register that asserts and is cleared by a write, and a register of two    *)
(* flags that assert.                                                        *)
EXTENDS SkmapEdit, TLC

CONSTANTS top, kid, flags, mem, vec, one

MCRegs == (top :> <<vec>>) @@ (kid :> <<one, flags>>)
MCMems == (top :> <<mem>>) @@ (kid :> <<>>)
MCKind == (flags :> "flag") @@ (vec :> "uint") @@ (one :> "bits")
MCVecLen == (flags :> 2) @@ (mem :> 2) @@ (vec :> 2) @@ (one :> 0)
MCAcc == (flags :> "rw") @@ (mem :> "rw") @@ (vec :> "rw") @@ (one :> "rc")
MCToRaw == vec :> [u \in 0 .. 1 |-> 1 - u]
MCLegal == (vec :> {0}) @@ (one :> {0, 1})
MCHexLegal == (vec :> {0, 1}) @@ (one :> {0, 1})
MCWatch == <<[obj |-> flags, lane |-> 1], [obj |-> one, lane |-> 0]>>
MCTexts == {[hex |-> TRUE, n |-> 1], [hex |-> FALSE, n |-> 2]}
=============================================================================
