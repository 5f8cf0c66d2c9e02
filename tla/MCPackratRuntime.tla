-------------------------- MODULE MCPackratRuntime --------------------------
(* Two rules and inputs of at most MaxInput characters.                     *)
EXTENDS PackratRuntime

CONSTANTS rs, ra

MCRules == {rs, ra}
=============================================================================
