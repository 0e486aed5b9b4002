---------------------------- MODULE MCWorkflow ----------------------------
(* Small instances of Workflow. *)
EXTENDS Workflow, TLC

CONSTANTS t1, t2, t3, none, scan, deep, sample, inner, other, h1, h2

MCPlan == (scan :> <<1, 1, 0>>) @@ (deep :> <<0, 0, 1>>)

(* Two files come out of the sample, one of them with the sample's content. *)
MCExtracts == {<<inner, sample>>, <<other, sample>>}
MCSha256   == sample :> h1 @@ inner :> h1 @@ other :> h2
=============================================================================
