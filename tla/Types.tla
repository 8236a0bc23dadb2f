-------------------------------- MODULE Types --------------------------------
(***************************************************************************)
(* The args class decorator of src/OPSI/Types.py and the converters it is *)
(* given. @args(vars..., typeVars...) replaces the class's __new__: every    *)
(* instantiation copies the keyword arguments, and for each name var of   *)
(* the closure list `vars` sets ka[var] from ka[var.lstrip("_")], passed  *)
(* through typeVars[var] when there is one, or None when it is missing;   *)
(* then every entry of ka becomes an attribute of the new object.         *)
(* `vars` is one list per decorated class, extended by typeVars.keys() at *)
(* the start of every instantiation.                                      *)
(*                                                                         *)
(* The converters modelled are forceOct and forceUniqueList. A Python      *)
(* value is a string (a sequence of characters), an int, a list, None,    *)
(* or the ValueError/TypeError a conversion raises (Err).                 *)
(***************************************************************************)
EXTENDS Integers, Sequences, SequencesExt

CONSTANTS
    Positional,  \* the positional names given to args(), in order
    TypeVars,    \* typeVars: name -> "forceOct" | "forceUniqueList"
    TypeOrder,   \* typeVars.keys() in dict order
    Stripped,    \* Stripped[var] = var.lstrip("_")
    KwNames,     \* the keyword names a caller may pass
    Inputs,      \* the values a caller may pass
    Required,    \* the keyword names every caller passes
    MaxNew       \* bound: instantiations of the class

Str(s) == [k |-> "str", s |-> s]
IntV(n) == [k |-> "int", n |-> n]
Lst(s) == [k |-> "list", s |-> s]
None == [k |-> "none"]
Err == [k |-> "error"]

Declared == ToSet(Positional) \cup DOMAIN TypeVars

ASSUME /\ ToSet(TypeOrder) = DOMAIN TypeVars
       /\ Stripped \in [Declared -> KwNames]
       /\ Required \subseteq KwNames /\ MaxNew \in Nat

(* int() of one character: the decimal digits. *)
Digits == <<"0", "1", "2", "3", "4", "5", "6", "7", "8", "9">>
DigitValue == [c \in ToSet(Digits) |-> CHOOSE d \in 0..9 : Digits[d + 1] = c]

RECURSIVE Decimal(_)
(* str(n) of a natural number: its decimal digits. *)
Decimal(n) ==
    LET c == Digits[(n % 10) + 1]
    IN IF n < 10 THEN <<c>> ELSE Decimal(n \div 10) \o <<c>>

(* forceUnicode(var) as forceOct iterates it: a string is itself, None   *)
(* is u"", an int its decimal text; a list's repr starts with "[".        *)
ForceUnicodeText(v) ==
    CASE v.k = "str"  -> v.s
      [] v.k = "none" -> <<>>
      [] v.k = "int"  -> Decimal(v.n)
      [] OTHER        -> <<"[">>

(* Variant: the isinstance(var, int) shortcut is missing, so an int is   *)
(* read through its decimal text.                                         *)
ForceOctNoIntCheck(v) ==
    LET text == ForceUnicodeText(v)
    IN IF \E i \in DOMAIN text : text[i] \notin DOMAIN DigitValue \/ DigitValue[text[i]] > 7
       THEN Err
       ELSE IF text = <<>> THEN Err
       ELSE IntV(FoldLeft(LAMBDA acc, d : acc * 8 + d, 0,
                         <<0>> \o [i \in DOMAIN text |-> DigitValue[text[i]]]))

(* forceOct: an int is returned as it is. Otherwise each character of    *)
(* forceUnicode(var) goes through forceInt, which raises for a           *)
(* non-digit, and a digit above 7 raises; the digits, after a leading    *)
(* '0', are evaluated as '0o' + octValue, which raises when there are    *)
(* none. Every failure is re-raised as ValueError.                       *)
ForceOct(v) ==
    IF v.k = "int" THEN v
    ELSE LET text == ForceUnicodeText(v)
         IN IF \E i \in DOMAIN text : text[i] \notin DOMAIN DigitValue \/ DigitValue[text[i]] > 7
            THEN Err
            ELSE IF text = <<>> THEN Err
            ELSE IntV(FoldLeft(LAMBDA acc, d : acc * 8 + d, 0,
                              <<0>> \o [i \in DOMAIN text |-> DigitValue[text[i]]]))

(* What `for entry in _list` iterates: the characters of a string, the   *)
(* elements of a list; an int or None is not iterable (TypeError).       *)
Elements(v) ==
    IF v.k = "str" THEN [i \in DOMAIN v.s |-> Str(<<v.s[i]>>)] ELSE v.s

RECURSIVE Dedup(_, _)
(* `if entry not in cleanedList: cleanedList.append(entry)` over s. *)
Dedup(cleaned, s) ==
    IF s = <<>> THEN cleaned
    ELSE Dedup(IF Head(s) \in ToSet(cleaned) THEN cleaned ELSE Append(cleaned, Head(s)),
               Tail(s))

(* Variant: a string is returned as it is instead of as a list. *)
ForceUniqueListPassThrough(v) ==
    CASE v.k = "str"  -> v
      [] v.k = "list" -> Lst(Dedup(<<>>, Elements(v)))
      [] OTHER        -> Err

(* forceUniqueList(_list) *)
ForceUniqueList(v) ==
    IF v.k \in {"str", "list"} THEN Lst(Dedup(<<>>, Elements(v))) ELSE Err

Convert(c, v) == IF c = "forceOct" THEN ForceOct(v) ELSE ForceUniqueList(v)

RECURSIVE Populate(_, _)
(* for var in vars: ka[var] = typeVars[var](ka[varName]), or             *)
(* ka[varName], or None when varName was not passed. A converter that    *)
(* raises ends the loop: the exception leaves __new__.                   *)
Populate(ka, vs) ==
    IF vs = <<>> THEN ka
    ELSE LET var == Head(vs)
             val == CASE Stripped[var] \notin DOMAIN ka -> None
                      [] var \in DOMAIN TypeVars -> Convert(TypeVars[var], ka[Stripped[var]])
                      [] OTHER -> ka[Stripped[var]]
         IN IF val = Err THEN (var :> Err) @@ ka
            ELSE Populate((var :> val) @@ ka, Tail(vs))
-----------------------------------------------------------------------------
VARIABLES
    vars,    \* the decorator's closure list `vars`
    made,    \* instantiations so far (bounded)
    kw,      \* the keyword arguments of the last instantiation
    obj,     \* the attributes of the object it returned
    status   \* "none", "ok", or "raised" (the conversion raised)

allVars == <<vars, made, kw, obj, status>>

(* The attributes a converter sets are of its result type: forceOct      *)
(* gives an int, forceUniqueList a list.                                  *)
TypeOK ==
    /\ vars \in Seq(Declared)
    /\ made \in 0..MaxNew
    /\ status \in {"none", "ok", "raised"}
    /\ status = "ok" =>
         \A v \in DOMAIN TypeVars :
            Stripped[v] \in DOMAIN kw =>
               obj[v].k = IF TypeVars[v] = "forceOct" THEN "int" ELSE "list"

(* The class is decorated: vars = list(vars). *)
Init ==
    /\ vars = Positional
    /\ made = 0
    /\ kw = <<>>
    /\ obj = <<>>
    /\ status = "none"

(* cls(k...): the decorator's new(). `vars` is extended by                *)
(* typeVars.keys() before the loop, on every call.                         *)
New(k) ==
    /\ made < MaxNew
    /\ LET vs == vars \o TypeOrder
           ka == Populate(k, vs)
       IN /\ vars' = vs
          /\ kw' = k
          /\ IF \E x \in DOMAIN ka : ka[x] = Err
             THEN status' = "raised" /\ obj' = <<>>
             ELSE status' = "ok" /\ obj' = ka
    /\ made' = made + 1

(* The callers' keyword arguments: any of KwNames, Required among them. *)
Kwargs == UNION {[D -> Inputs] : D \in {E \in SUBSET KwNames : Required \subseteq E}}

Done ==
    /\ made = MaxNew
    /\ UNCHANGED allVars

Next == (\E k \in Kwargs : New(k)) \/ Done

Spec == Init /\ [][Next]_allVars
-----------------------------------------------------------------------------
(* Reference conversions. A string of octal digits denotes the number    *)
(* whose base-8 digits they are; anything else but an int is rejected.    *)
RefOct(v) ==
    CASE v.k = "int" -> v
      [] v.k = "str" /\ v.s # <<>>
         /\ \A i \in DOMAIN v.s : v.s[i] \in DOMAIN DigitValue /\ DigitValue[v.s[i]] <= 7 ->
            LET n == Len(v.s)
            IN IntV(CHOOSE x \in 0..(8^n - 1) :
                     \A i \in 1..n : (x \div 8^(n - i)) % 8 = DigitValue[v.s[i]])
      [] OTHER -> Err

(* A unique list keeps the first occurrence of each element, in order. *)
RefUnique(v) ==
    IF v.k \notin {"str", "list"} THEN Err
    ELSE LET e == Elements(v)
             firsts == {i \in DOMAIN e : \A j \in 1..(i - 1) : e[j] # e[i]}
             idx == SetToSortSeq(firsts, <)
         IN Lst([i \in DOMAIN idx |-> e[idx[i]]])

RefConvert(c, v) == IF c = "forceOct" THEN RefOct(v) ELSE RefUnique(v)

Expected(v) ==
    IF Stripped[v] \notin DOMAIN kw THEN None
    ELSE IF v \in DOMAIN TypeVars THEN RefConvert(TypeVars[v], kw[Stripped[v]])
    ELSE kw[Stripped[v]]

(* Every instantiation, the first or a later one, gives each declared    *)
(* attribute the passed value converted once by its converter (None when *)
(* it was not passed), and raises exactly when a passed value is not     *)
(* convertible: the growth of `vars`, which converts a value again on    *)
(* each later instantiation, changes no attribute.                       *)
AttributesAsDeclared ==
    /\ status = "raised" <=> (status # "none" /\ \E v \in Declared : Expected(v) = Err)
    /\ status = "ok" => \A v \in Declared : obj[v] = Expected(v)
=============================================================================
