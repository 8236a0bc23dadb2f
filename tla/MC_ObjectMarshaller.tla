------------------------- MODULE MC_ObjectMarshaller -------------------------
(* Two strings, one of them the name of a registered class, one         *)
(* attribute: arguments nest dicts and one-element lists two deep.      *)
EXTENDS ObjectMarshaller

MCAtoms == {"Host", "Bogus"}
MCRegistry == {"Host"}
MCFields == {"id"}
=============================================================================
