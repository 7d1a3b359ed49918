------------------------------ MODULE MCParser ------------------------------
(* Every source of up to eleven tokens, of every kind (Tokens is Token). *)
EXTENDS Parser
=============================================================================
