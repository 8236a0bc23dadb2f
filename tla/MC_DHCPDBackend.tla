-------------------------- MODULE MC_DHCPDBackend --------------------------
(* Instantiates DHCPDBackend for TLC: each request thread is asked about  *)
(* a host of its own, so every host has one well-defined last call.       *)
EXTENDS DHCPDBackend

CONSTANTS w1, w2, h1, h2, h3, h4, h5, own, other, bad

MCThreads == {w1, w2}
MCHosts == {h1, h2}
MCHostsOf == [t \in MCThreads |-> IF t = w1 THEN {h1} ELSE {h2}]
MCOneThread == {w1}
MCOneHost == [t \in MCOneThread |-> {h1}]
(* The option left out (the default False), and given as the text "On". *)
MCOptionUnset == [k |-> "bool", b |-> FALSE]
MCOptionOn == Text(<<"O", "n">>)

(* Depots: this one, another one, and a depot id that is no fqdn (a bare *)
(* host name).                                                            *)
MCDepotNames == {own, other, bad}
MCFqdnNames == {own, other}
Id(d) == [name |-> d, upper |-> FALSE, dot |-> FALSE]
MCOwnFqdn == Id(own)
(* Every client in this depot. *)
MCAllOwn == [h \in MCHosts |-> Id(own)]
(* h1 in another depot. *)
MCFirstOther == (h1 :> Id(other)) @@ (h2 :> Id(own))
(* h1 in this depot, h2 in another one, h3 in this depot with its id in *)
(* capitals, h4 with a depot id that is no fqdn, h5 with none (and no   *)
(* default).                                                              *)
MCAllHosts == {h1, h2, h3, h4, h5}
MCOneAllHostsOf == [t \in MCOneThread |-> MCAllHosts]
MCMixed == (h1 :> Id(own)) @@ (h2 :> Id(other))
           @@ (h3 :> [name |-> own, upper |-> TRUE, dot |-> FALSE])
           @@ (h4 :> Id(bad)) @@ (h5 :> Id(own))
=============================================================================
