------------------------------ MODULE MCLimits ------------------------------
(***************************************************************************)
(* Instances of LlmCalls and Gateways for TLC: the tokens and slots that a *)
(* user's requests share, and the limiters and caches that all requests    *)
(* share.  The two share no state, so a behaviour is one of one of them;   *)
(* the other keeps a fixed initial state.                                  *)
(***************************************************************************)
EXTENDS LlmCalls, Gateways

CONSTANTS a, b, c, r1, r2, r3, ann, ben, p, q, x, y, z

PromptOrCompletion == {<<1, 0>>, <<0, 1>>, <<3, 1>>}

(* Two requests of a user for the same page; the third is another user's or  *)
(* nobody's, and shares with them the limiters only.                         *)
PairAndThird ==
  [r \in Requests |->
     CASE r = r1 -> [owner : {ann}, kind : {"fetch", "report", "send"}, page : {p}]
       [] r = r2 -> [owner : {ben, NoUser}, kind : {"search", "report", "read", "send"}, page : {p}]
       [] r = r3 -> [owner : {ann}, kind : {"fetch", "report", "reply"}, page : {p}]]

Rule(effect, on, what) == [effect |-> effect, on |-> on, what |-> what]

(* An address is blocked; later only a page is allowed. *)
BlockThenAllow ==
  <<{Rule("block", "ip", z)}, {Rule("block", "ip", z), Rule("allow", "url", p)}>>

SmallMaps == [web |-> 2, vt |-> 1, email |-> 1]

VARIABLE part

limitsVars == <<part, vars, gatewayVars>>

LimitsInit ==
  /\ part \in {"llm", "gateways"}
  /\ Init /\ GatewaysInit
  /\ part = "llm" => service = "web"

LlmStep(A)   == part = "llm" /\ A /\ UNCHANGED <<part, gatewayVars>>
GatewaysStep == part = "gateways" /\ GatewaysNext /\ UNCHANGED <<part, vars>>

LimitsSpec ==
  /\ LimitsInit /\ [][LlmStep(Next) \/ GatewaysStep]_limitsVars
  /\ \A s \in Sessions :
       WF_limitsVars(LlmStep(AcquireAdd(s))) /\ WF_limitsVars(LlmStep(TimesOut(s)))
=============================================================================
