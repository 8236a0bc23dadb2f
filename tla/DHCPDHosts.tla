----------------------------- MODULE DHCPDHosts -----------------------------
(***************************************************************************)
(* What the dhcpd backend promises its callers: each call on a host is    *)
(* one atomic edit of dhcpd.conf (an update adds the host entry, a delete *)
(* removes it) or no edit at all, and a restart of dhcpd serves the file  *)
(* as it is then. A call may leave the file alone (an update of a host    *)
(* without hardware address, a call forwarded to another depot, a call    *)
(* that raises); a delete does so only when the host has no entry.        *)
(***************************************************************************)
CONSTANTS Threads, Hosts

VARIABLES
    conf,     \* hosts with an entry in dhcpd.conf
    served,   \* hosts the running dhcpd serves
    st,       \* st[t]: "idle", "pending" (called) or "applied" (edited)
    op        \* op[t]: the edit t's call asks for and its host

Edit == [edit : {"add", "remove"}, host : Hosts]

TypeOK ==
    /\ conf \subseteq Hosts /\ served \subseteq Hosts
    /\ st \in [Threads -> {"idle", "pending", "applied"}]
    /\ op \in [Threads -> Edit]

Init ==
    /\ conf = {} /\ served = {}
    /\ st = [t \in Threads |-> "idle"]
    /\ op \in [Threads -> Edit]

Begin(t, e) ==
    /\ st[t] = "idle"
    /\ st' = [st EXCEPT ![t] = "pending"]
    /\ op' = [op EXCEPT ![t] = e]
    /\ UNCHANGED <<conf, served>>

(* The one step in which the call's edit reaches dhcpd.conf. *)
Apply(t) ==
    /\ st[t] = "pending"
    /\ conf' = IF op[t].edit = "add" THEN conf \cup {op[t].host}
                                     ELSE conf \ {op[t].host}
    /\ st' = [st EXCEPT ![t] = "applied"]
    /\ UNCHANGED <<served, op>>

(* The call returns without editing the file. *)
Skip(t) ==
    /\ st[t] = "pending"
    /\ op[t].edit = "remove" => op[t].host \notin conf
    /\ st' = [st EXCEPT ![t] = "idle"]
    /\ UNCHANGED <<conf, served, op>>

Finish(t) ==
    /\ st[t] = "applied"
    /\ st' = [st EXCEPT ![t] = "idle"]
    /\ UNCHANGED <<conf, served, op>>

Restart ==
    /\ served' = conf
    /\ UNCHANGED <<conf, st, op>>

Next ==
    \/ \E t \in Threads : \/ \E e \in Edit : Begin(t, e)
                          \/ Apply(t) \/ Skip(t) \/ Finish(t)
    \/ Restart

Spec == Init /\ [][Next]_<<conf, served, st, op>>
=============================================================================
