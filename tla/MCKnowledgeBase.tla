--------------------------- MODULE MCKnowledgeBase ---------------------------
(* The tables of two tenants.                                               *)
EXTENDS KnowledgeBase

Tenants == {<<"acme", "help">>, <<"bolt", "help">>}
=============================================================================
