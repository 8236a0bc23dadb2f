------------------------------ MODULE MC_Types ------------------------------
(* A class decorated with @args("path", mode=forceOct, _items=forceUniqueList): *)
(* path is taken as passed, mode is converted in place, _items is set   *)
(* from the keyword items.                                                *)
EXTENDS Types

CONSTANTS path, mode, _items, items

MCPositional == <<path>>
MCTypeVars == (mode :> "forceOct") @@ (_items :> "forceUniqueList")
MCTypeOrder == <<mode, _items>>
MCStripped == (path :> path) @@ (mode :> mode) @@ (_items :> items)
MCKwNames == {path, mode, items}
MCConverted == {mode, items}
(* Octal text, a digit above 7, the empty string, an int, None, and a    *)
(* list with a repeated element.                                         *)
MCInputs == {Str(<<"1", "7">>), Str(<<"8">>), Str(<<>>), IntV(9), None,
             Lst(<<IntV(1), IntV(7), IntV(1)>>)}
=============================================================================
