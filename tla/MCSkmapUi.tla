----------------------------- MODULE MCSkmapUi -------------------------------
(* Two modules: the shown one with a register of two flags and an rc        *)
(* register, its kid with an rc register that asserts and a memory lane.    *)
EXTENDS SkmapUi, TLC

CONSTANTS top, kid, f, g, e, m, a, b

MCTree == <<top, kid>>
MCRegs == (top :> <<f, g>>) @@ (kid :> <<e>>)
MCLanes == (top :> {}) @@ (kid :> {m})
MCAcc == (f :> "rw") @@ (g :> "rc") @@ (e :> "rc")
MCBits == (f :> {a, b}) @@ (g :> {a}) @@ (e :> {a}) @@ (m :> {a})
MCAsserts == (f :> {}) @@ (g :> {}) @@ (e :> {a})
MCLegal == (f :> {{}, {a}, {b}}) @@ (g :> {{}, {a}}) @@ (e :> {{}, {a}})
MCRowJob == {<<ReadOf({f})>>, <<PutOf(f, {a, b})>>, <<FlagOf(f, b, TRUE)>>, <<ZeroOf(e)>>,
             <<LaneOf(m, {a})>>}
MCStepFlag == <<f, a>>
=============================================================================
