-------------------------- MODULE ObjectMarshaller --------------------------
(***************************************************************************)
(* The nested toHash and fromHash of JSONRPCBackend._jsonRPC              *)
(* (src/OPSI/Backend/JSONRPC.py) and the data path of one call: each      *)
(* keyword argument is converted by toHash into the params of the         *)
(* envelope, and the result of the response is converted back by          *)
(* fromHash. The server is an echo: it returns the params it received,    *)
(* so the result is the marshalled argument.                              *)
(*                                                                         *)
(* A value is an atom (string, number, boolean, null), a list, a dict     *)
(* from keys to values, or a domain object of a class of the Object       *)
(* module with its attributes. Class names are atoms too: they are the    *)
(* strings a "type" key holds.                                             *)
(***************************************************************************)
EXTENDS Integers, Sequences, FiniteSets

CONSTANTS
    Atoms,      \* plain values, class names among them
    Registry,   \* names `eval('Object.%s' % type)` resolves to a class
    Fields,     \* the attribute names of a domain object
    MaxDepth,   \* bound: nesting depth of the arguments
    MaxLen      \* bound: length of the lists in the arguments

ASSUME Registry \subseteq Atoms /\ "type" \notin Fields

Keys == Fields \cup {"type"}

Atom(a) == [k |-> "atom", v |-> a]
List(s) == [k |-> "list", s |-> s]
Dict(f) == [k |-> "dict", f |-> f]
Obj(c, f) == [k |-> "obj", c |-> c, f |-> f]

IsTypedDict(v) == v.k = "dict" /\ "type" \in DOMAIN v.f

(* Domain objects as the application builds them: attributes are atoms. *)
Objects == {Obj(c, f) : c \in Registry, f \in [Fields -> {Atom(a) : a \in Atoms}]}

RECURSIVE Values(_)
(* The arguments of nesting depth at most d. *)
Values(d) ==
    IF d = 0 THEN {Atom(a) : a \in Atoms} \cup Objects
    ELSE LET inner == Values(d - 1)
         IN inner
            \cup {List(s) : s \in UNION {[1..n -> inner] : n \in 0..MaxLen}}
            \cup {Dict(f) : f \in UNION {[D -> inner] : D \in SUBSET Keys}}

RECURSIVE Nodes(_)
(* The value v and every value nested in it. *)
Nodes(v) ==
    {v} \cup CASE v.k = "list" -> UNION {Nodes(v.s[i]) : i \in DOMAIN v.s}
               [] v.k = "dict" -> UNION {Nodes(v.f[x]) : x \in DOMAIN v.f}
               [] OTHER -> {}

(* obj.toHash() of an Object: its attributes and its class as "type". *)
ObjectToHash(v) ==
    Dict([x \in Keys |-> IF x = "type" THEN Atom(v.c) ELSE v.f[x]])

(* Variant: lists are passed through instead of converted element-wise. *)
RECURSIVE ToHashFlatList(_)
ToHashFlatList(v) ==
    CASE v.k = "obj"  -> ObjectToHash(v)
      [] v.k = "dict" -> Dict([x \in DOMAIN v.f |-> ToHashFlatList(v.f[x])])
      [] OTHER        -> v

RECURSIVE ToHash(_)
(* toHash: a domain object by its toHash(), a list element-wise, a dict *)
(* value-wise, anything else unchanged.                                 *)
ToHash(v) ==
    CASE v.k = "obj"  -> ObjectToHash(v)
      [] v.k = "list" -> List([i \in DOMAIN v.s |-> ToHash(v.s[i])])
      [] v.k = "dict" -> Dict([x \in DOMAIN v.f |-> ToHash(v.f[x])])
      [] OTHER        -> v

(* c.fromHash(obj) succeeds: "type" names a class of the registry and   *)
(* the other keys are exactly its constructor's arguments; otherwise    *)
(* eval or the constructor raises.                                      *)
Hydrates(v) ==
    /\ v.f["type"].k = "atom"
    /\ v.f["type"].v \in Registry
    /\ DOMAIN v.f = Keys

Hydrate(v) == Obj(v.f["type"].v, [x \in Fields |-> v.f[x]])

(* Variant: a dict without "type" is returned as it is. *)
RECURSIVE FromHashFlatDict(_)
FromHashFlatDict(v) ==
    CASE IsTypedDict(v) -> IF Hydrates(v) THEN Hydrate(v) ELSE v
      [] v.k = "list"   -> List([i \in DOMAIN v.s |-> FromHashFlatDict(v.s[i])])
      [] OTHER          -> v

RECURSIVE FromHash(_)
(* fromHash: a dict with a "type" key is hydrated, or on any exception  *)
(* returned as it is; other lists and dicts are converted element- and  *)
(* value-wise; anything else is returned unchanged.                     *)
FromHash(v) ==
    CASE IsTypedDict(v) -> IF Hydrates(v) THEN Hydrate(v) ELSE v
      [] v.k = "list"   -> List([i \in DOMAIN v.s |-> FromHash(v.s[i])])
      [] v.k = "dict"   -> Dict([x \in DOMAIN v.f |-> FromHash(v.f[x])])
      [] OTHER          -> v

-----------------------------------------------------------------------------
NoValue == Atom("none")

VARIABLES pc, arg, wire, result

vars == <<pc, arg, wire, result>>

TypeOK ==
    /\ pc \in {"marshal", "unmarshal", "done"}
    /\ arg \in Values(MaxDepth)
    /\ wire.k \in {"atom", "list", "dict"}
    /\ result.k \in {"atom", "list", "dict", "obj"}

Init ==
    /\ pc = "marshal"
    /\ arg \in Values(MaxDepth)
    /\ wire = NoValue
    /\ result = NoValue

(* Variant: the argument goes into params without toHash. *)
MarshalRaw ==
    /\ pc = "marshal"
    /\ wire' = arg
    /\ pc' = "unmarshal"
    /\ UNCHANGED <<arg, result>>

(* params.append(toHash(value)); the envelope is sent and echoed back. *)
Marshal ==
    /\ pc = "marshal"
    /\ wire' = ToHash(arg)
    /\ pc' = "unmarshal"
    /\ UNCHANGED <<arg, result>>

(* result = fromHash(response.get('result')) *)
Unmarshal ==
    /\ pc = "unmarshal"
    /\ result' = FromHash(wire)
    /\ pc' = "done"
    /\ UNCHANGED <<arg, wire>>

Done ==
    /\ pc = "done"
    /\ UNCHANGED vars

Next == Marshal \/ Unmarshal \/ Done

Spec == Init /\ [][Next]_vars
-----------------------------------------------------------------------------
(* The params toHash builds are JSON-safe: no domain object is left      *)
(* anywhere inside them, however deeply it was nested in the argument.  *)
WireSafe ==
    pc # "marshal" => \A n \in Nodes(wire) : n.k # "obj"

(* Round trip: an argument of domain objects, lists, dicts and atoms    *)
(* comes back from fromHash(toHash(.)) as it was, unless it holds a     *)
(* plain dict with a "type" key, which fromHash takes for an object.    *)
RoundTrip ==
    (pc = "done" /\ \A n \in Nodes(arg) : ~IsTypedDict(n))
        => result = arg
=============================================================================
