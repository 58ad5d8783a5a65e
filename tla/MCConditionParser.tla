------------------------- MODULE MCConditionParser -------------------------
(* Texts for TLC: up to three expressions, single characters among them.    *)
EXTENDS ConditionParser

MCAtoms == <<"a", "b", "c">>
Formulas == {"&&", "||", ";", "!", "(", ")", "&<", "1"}
=============================================================================
