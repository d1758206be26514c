---------------------------- MODULE MCGeminiCalls ----------------------------
(* The two parallel branches of one session and the agents of two others.  *)
EXTENDS GeminiCalls

CONSTANTS performance, security, modeling, diagram, text

MCSibling ==
  [c \in Callers |-> CASE c = performance -> security
                       [] c = security    -> performance
                       [] OTHER           -> c]
=============================================================================
