---------------------------- MODULE DHCPDBackend ----------------------------
(***************************************************************************)
(* The dhcpd backend of src/OPSI/Backend/DHCPD.py: backend calls from     *)
(* several request threads edit dhcpd.conf through one shared             *)
(* DHCPDConfFile object, and each edit asks for a dhcpd restart through   *)
(* _triggerReload, which starts a ReloadThread while _reloadEvent is set. *)
(*                                                                         *)
(* dhcpd.conf is the set of hosts with a host entry (disk); the shared    *)
(* DHCPDConfFile holds the parsed set (mem): parse() reads disk into mem, *)
(* addHost/deleteHost edit mem, generate() writes mem to disk. The        *)
(* running dhcpd serves what it read at its last restart (loaded).        *)
(* With dhcpdOnDepot, a call on a host of another depot is forwarded to   *)
(* that depot through a JSONRPCBackend kept in _depotConnections.          *)
(***************************************************************************)
EXTENDS Integers, Sequences, FiniteSets, TLC

CONSTANTS
    Threads,     \* request threads calling the backend
    Hosts,       \* client hosts
    HostsOf,     \* HostsOf[t]: the hosts thread t is asked about
    Calls,       \* the backend calls the threads make
    DhcpdOnDepotOption, \* the dhcpdOnDepot value given to __init__
    DepotNames,  \* depot names, as forceHostId leaves them
    FqdnNames,   \* the names that pass forceHostId's object id and fqdn regexes
    OwnFqdn,     \* socket.getfqdn() of this depot
    DepotIdOf,   \* DepotIdOf[h]: the clientconfig.depot.id value for host h
    Unconfigured, \* hosts with no clientconfig.depot.id value and no default
    HostKeyMissing, \* the depot's host object may have no opsi host key
    NoHardwareAddress, \* hosts without a hardware address
    Unresolvable, \* hosts without an ip address whose name does not resolve
    DepotDown,   \* connecting to the other depot may fail
    RestartTextNonAscii, \* a failed restart's message may hold non-ASCII text
    NoHolder,    \* _reloadLock is free
    MaxOps,      \* bound: backend calls per thread
    MaxReloads   \* bound: ReloadThreads started

(* update: host_insertObject or dhcpd_updateHost; updateObject:          *)
(* host_updateObject, which logs and swallows any exception of           *)
(* dhcpd_updateHost.                                                      *)
Kinds == {"update", "updateObject", "delete", "deleteObjects"}
Updates == {"update", "updateObject"}

(* A depot id text: the name it spells, whether it has capital letters, *)
(* and whether it ends with '.'.                                          *)
IdText == [name : DepotNames, upper : BOOLEAN, dot : BOOLEAN]

ASSUME /\ HostsOf \in [Threads -> SUBSET Hosts]
       /\ Calls \subseteq Kinds
       /\ DhcpdOnDepotOption.k \in {"bool", "str"} /\ DepotDown \in BOOLEAN
       /\ RestartTextNonAscii \in BOOLEAN
       /\ FqdnNames \subseteq DepotNames
       /\ OwnFqdn \in IdText /\ OwnFqdn.name \in FqdnNames
       /\ DepotIdOf \in [Hosts -> IdText]
       /\ Unconfigured \subseteq Hosts /\ HostKeyMissing \in BOOLEAN
       /\ NoHardwareAddress \subseteq Hosts /\ Unresolvable \subseteq Hosts
       /\ MaxOps \in Nat
       \* every call can start a ReloadThread of its own
       /\ MaxReloads >= Cardinality(Threads) * MaxOps

Reloaders == 1..MaxReloads
MaxConns == Cardinality(Threads) * MaxOps

(* A config value: a bool, or a text as its sequence of characters. *)
Text(s) == [k |-> "str", s |-> s]
Lowered == ("T" :> "t") @@ ("R" :> "r") @@ ("U" :> "u") @@ ("E" :> "e")
           @@ ("Y" :> "y") @@ ("S" :> "s") @@ ("O" :> "o") @@ ("N" :> "n")
           @@ ("F" :> "f") @@ ("A" :> "a") @@ ("L" :> "l")
Lower(s) == [i \in DOMAIN s |-> IF s[i] \in DOMAIN Lowered THEN Lowered[s[i]] ELSE s[i]]

(* forceBool: a bool as it is; a text of at most 5 characters that is   *)
(* 'true', 'yes', 'on' or '1' (or 'false', 'no', 'off', '0') in any     *)
(* case; otherwise bool(var), true for any non-empty text.               *)
ForceBool(v) ==
    CASE v.k = "bool" -> v.b
      [] Len(v.s) <= 5 /\ Lower(v.s) \in {<<"t", "r", "u", "e">>, <<"y", "e", "s">>,
                                          <<"o", "n">>, <<"1">>} -> TRUE
      [] Len(v.s) <= 5 /\ Lower(v.s) \in {<<"f", "a", "l", "s", "e">>, <<"n", "o">>,
                                          <<"o", "f", "f">>, <<"0">>} -> FALSE
      [] OTHER -> v.s # <<>>

(* self._dhcpdOnDepot = forceBool(value) *)
DhcpdOnDepot == ForceBool(DhcpdOnDepotOption)

(* forceHostId (forceFqdn): forceObjectId, then the fqdn regex, which a *)
(* text that is no fqdn fails with ValueError, and a trailing '.' is      *)
(* dropped.                                                               *)
BadId == [name |-> "ValueError", upper |-> FALSE, dot |-> FALSE]

(* forceObjectId: forceUnicodeLower(var).strip(); every name modelled    *)
(* passes the object id regex.                                            *)
ForceObjectId(x) == [x EXCEPT !.upper = FALSE]

ForceHostId(x) ==
    LET o == ForceObjectId(x)
    IN IF o.name \in FqdnNames THEN [o EXCEPT !.dot = FALSE] ELSE BadId

(* self._depotId = forceHostId(socket.getfqdn()) *)
DepotId == ForceHostId(OwnFqdn)

(* _getResponsibleDepotId(host.id) raises: the host has no              *)
(* clientconfig.depot.id config state and the config has no default.     *)
NoResponsibleDepot(h) == DhcpdOnDepot /\ h \in Unconfigured

(* `depotId != self._depotId`: the clientconfig.depot.id value that       *)
(* _getResponsibleDepotId(host.id) returns is compared as it is stored.  *)
Forwarded(h) == DhcpdOnDepot /\ h \notin Unconfigured /\ DepotIdOf[h] # DepotId

(* The call goes on to edit this backend's dhcpd.conf. *)
Local(h) == ~NoResponsibleDepot(h) /\ ~Forwarded(h)

(* What the forwarded call passes to the depot: host.id, not the Host. *)
ForwardArg == "hostId"

(* The depot's dhcpd_updateHost/dhcpd_deleteHost start with              *)
(* forceObjectClass(host, Host): a Host is returned as it is; a text     *)
(* starting with '{' is parsed as JSON into a hash; a hash with a "type" *)
(* naming a subclass of Host is turned into one by fromHash. Anything    *)
(* else (a host id among them) raises ValueError "Not a Host".           *)
RemoteAccepts(arg) == arg \in {"Host", "hash", "json"}

VARIABLES
    pc,       \* pc[t]: where request thread t is
    op,       \* op[t]: the call t is executing and its host
    ops,      \* ops[t]: calls t has made (bounded)
    last,     \* last[h]: the last call on h that returned
    disk,     \* hosts in dhcpd.conf
    mem,      \* hosts in the shared DHCPDConfFile object
    loaded,   \* hosts the running dhcpd read at its last restart
    lock,     \* self._reloadLock
    event,    \* self._reloadEvent is set
    rpc,      \* rpc[i]: where ReloadThread i is
    conn,     \* conn[d]: _depotConnections[d], 0 (none) or the backend's number
    built,    \* JSONRPCBackends constructed for the depot
    remote,   \* hosts in the other depots' dhcpd.conf
    hostKey   \* self._opsiHostKey is set

fwd == <<conn, built, remote, hostKey>>
vars == <<pc, op, ops, last, disk, mem, loaded, lock, event, rpc, fwd>>
ThreadPCs == {"idle", "u_lock", "u_parse", "u_add", "u_gen", "o_parse",
              "d_get", "d_del", "d_gen", "trigger", "f_get", "f_new", "f_call"}
ReloadPCs == {"unstarted", "started", "waiting", "locking", "executing",
              "executed", "done", "dead"}

TypeOK ==
    /\ pc \in [Threads -> ThreadPCs]
    /\ op \in [Threads -> [kind : Kinds, host : Hosts]]
    /\ ops \in [Threads -> 0..MaxOps]
    /\ last \in [Hosts -> {"none", "update", "delete"}]
    /\ disk \subseteq Hosts /\ mem \subseteq Hosts /\ loaded \subseteq Hosts
    /\ lock \in Threads \cup Reloaders \cup {NoHolder}
    /\ event \in BOOLEAN
    /\ rpc \in [Reloaders -> ReloadPCs]
    /\ conn \in [DepotNames -> 0..MaxConns] /\ built \in 0..MaxConns
    /\ remote \subseteq Hosts
    /\ hostKey \in BOOLEAN

(* After __init__: the options are read (dhcpdOnDepot, a reload command), *)
(* dhcpd.conf has no host entries and dhcpd has read it, _reloadEvent is  *)
(* set, _depotConnections is empty.                                       *)
Init ==
    /\ pc = [t \in Threads |-> "idle"]
    /\ op = [t \in Threads |-> [kind |-> "update", host |-> CHOOSE h \in Hosts : TRUE]]
    /\ ops = [t \in Threads |-> 0]
    /\ last = [h \in Hosts |-> "none"]
    /\ disk = {} /\ mem = {} /\ loaded = {}
    /\ lock = NoHolder
    /\ event = TRUE
    /\ rpc = [i \in Reloaders |-> "unstarted"]
    /\ conn = [d \in DepotNames |-> 0] /\ built = 0 /\ remote = {} /\ hostKey = FALSE

SetPc(t, l) == pc' = [pc EXCEPT ![t] = l]

(* host_insertObject / host_updateObject -> dhcpd_updateHost,            *)
(* host_deleteObjects([host]) or dhcpd_deleteHost called on host h.      *)
Begin(t, k, h) ==
    /\ pc[t] = "idle"
    /\ ops[t] < MaxOps
    /\ h \in HostsOf[t]
    /\ op' = [op EXCEPT ![t] = [kind |-> k, host |-> h]]
    /\ ops' = [ops EXCEPT ![t] = @ + 1]
    /\ SetPc(t, CASE k \in Updates -> "u_lock"
                  [] k = "delete" -> "d_get"
                  [] k = "deleteObjects" -> "o_parse")
    /\ UNCHANGED <<last, disk, mem, loaded, lock, event, rpc, fwd>>

(* The call raises. host_updateObject logs the exception and returns;    *)
(* host_insertObject, dhcpd_*Host and host_deleteObjects (which joins    *)
(* the errors of its hosts) raise it to the caller.                      *)
Raise(t) ==
    /\ SetPc(t, "idle")
    /\ last' = IF op[t].kind = "updateObject"
               THEN [last EXCEPT ![op[t].host] = "update"] ELSE last

(* dhcpd_updateHost finds the host's addresses: it has a hardware       *)
(* address, and an ip address or a name gethostbyname resolves.           *)
Addressed(t) ==
    op[t].host \notin NoHardwareAddress /\ op[t].host \notin Unresolvable

(* dhcpd_updateHost returns before touching the file: no hardware        *)
(* address.                                                               *)
UpdateSkip(t) ==
    /\ pc[t] = "u_lock"
    /\ op[t].host \in NoHardwareAddress
    /\ SetPc(t, "idle")
    /\ UNCHANGED <<op, ops, last, disk, mem, loaded, lock, event, rpc, fwd>>

(* No ip address and gethostbyname(host.id) fails: BackendIOError. *)
UpdateUnresolved(t) ==
    /\ pc[t] = "u_lock"
    /\ op[t].host \in Unresolvable \ NoHardwareAddress
    /\ Raise(t)
    /\ UNCHANGED <<op, ops, disk, mem, loaded, lock, event, rpc, fwd>>

(* Variant: the update edits the shared file without _reloadLock. *)
UpdateLockUnlocked(t) ==
    /\ pc[t] = "u_lock"
    /\ Addressed(t)
    /\ Local(op[t].host)
    /\ SetPc(t, "u_parse")
    /\ UNCHANGED <<op, ops, last, disk, mem, loaded, lock, event, rpc, fwd>>

(* self._reloadLock.acquire() in dhcpd_updateHost, for a host of this    *)
(* depot.                                                                  *)
UpdateLock(t) ==
    /\ pc[t] = "u_lock"
    /\ Addressed(t)
    /\ Local(op[t].host)
    /\ lock = NoHolder
    /\ lock' = t
    /\ SetPc(t, "u_parse")
    /\ UNCHANGED <<op, ops, last, disk, mem, loaded, event, rpc, fwd>>

(* self._dhcpdConfFile.parse() in dhcpd_updateHost. *)
UpdateParse(t) ==
    /\ pc[t] = "u_parse"
    /\ mem' = disk
    /\ SetPc(t, "u_add")
    /\ UNCHANGED <<op, ops, last, disk, loaded, lock, event, rpc, fwd>>

(* self._dhcpdConfFile.addHost(...) *)
UpdateAdd(t) ==
    /\ pc[t] = "u_add"
    /\ mem' = mem \cup {op[t].host}
    /\ SetPc(t, "u_gen")
    /\ UNCHANGED <<op, ops, last, disk, loaded, lock, event, rpc, fwd>>

(* Variant: no finally, the lock stays held after generate(). *)
UpdateGenerateKeepLock(t) ==
    /\ pc[t] = "u_gen"
    /\ disk' = mem
    /\ SetPc(t, "trigger")
    /\ UNCHANGED <<op, ops, last, mem, loaded, lock, event, rpc, fwd>>

(* generate(), then the finally releases _reloadLock. *)
UpdateGenerate(t) ==
    /\ pc[t] = "u_gen"
    /\ disk' = mem
    /\ lock' = NoHolder
    /\ SetPc(t, "trigger")
    /\ UNCHANGED <<op, ops, last, mem, loaded, event, rpc, fwd>>

(* host_deleteObjects parses once, without _reloadLock, before deleting. *)
DeleteObjectsParse(t) ==
    /\ pc[t] = "o_parse"
    /\ mem' = disk
    /\ SetPc(t, "d_get")
    /\ UNCHANGED <<op, ops, last, disk, loaded, lock, event, rpc, fwd>>

(* dhcpd_deleteHost, for a host of this depot: `if not getHost(...)`: nothing to delete, return.   *)
(* Otherwise go on to deleteHost; no _reloadLock is taken.               *)
DeleteGet(t) ==
    /\ pc[t] = "d_get"
    /\ Local(op[t].host)
    /\ IF op[t].host \in mem
       THEN /\ SetPc(t, "d_del")
            /\ UNCHANGED last
       ELSE /\ SetPc(t, "idle")
            /\ last' = [last EXCEPT ![op[t].host] = "delete"]
    /\ UNCHANGED <<op, ops, disk, mem, loaded, lock, event, rpc, fwd>>

(* self._dhcpdConfFile.deleteHost(...) *)
DeleteDel(t) ==
    /\ pc[t] = "d_del"
    /\ mem' = mem \ {op[t].host}
    /\ SetPc(t, "d_gen")
    /\ UNCHANGED <<op, ops, last, disk, loaded, lock, event, rpc, fwd>>

(* Variant: deleteHost without the generate() that writes the file. *)
DeleteGenerateSkipped(t) ==
    /\ pc[t] = "d_gen"
    /\ SetPc(t, "trigger")
    /\ UNCHANGED <<op, ops, last, disk, mem, loaded, lock, event, rpc, fwd>>

(* self._dhcpdConfFile.generate() in dhcpd_deleteHost. *)
DeleteGenerate(t) ==
    /\ pc[t] = "d_gen"
    /\ disk' = mem
    /\ SetPc(t, "trigger")
    /\ UNCHANGED <<op, ops, last, mem, loaded, lock, event, rpc, fwd>>

(* Variant: the call's name, not its effect, is recorded. *)
TriggerReloadRecordsKind(t) ==
    /\ pc[t] = "trigger"
    /\ IF event
       THEN \E i \in Reloaders :
               /\ rpc[i] = "unstarted"
               /\ \A j \in Reloaders : j < i => rpc[j] # "unstarted"
               /\ rpc' = [rpc EXCEPT ![i] = "started"]
       ELSE UNCHANGED rpc
    /\ last' = [last EXCEPT ![op[t].host] = op[t].kind]
    /\ SetPc(t, "idle")
    /\ UNCHANGED <<op, ops, disk, mem, loaded, lock, event, fwd>>

(* _triggerReload: while _reloadEvent is set, start a new ReloadThread;  *)
(* otherwise return. Then the backend call returns.                      *)
TriggerReload(t) ==
    /\ pc[t] = "trigger"
    /\ IF event
       THEN \E i \in Reloaders :
               /\ rpc[i] = "unstarted"
               /\ \A j \in Reloaders : j < i => rpc[j] # "unstarted"
               /\ rpc' = [rpc EXCEPT ![i] = "started"]
       ELSE UNCHANGED rpc
    /\ last' = [last EXCEPT ![op[t].host] =
                   IF op[t].kind \in Updates THEN "update" ELSE "delete"]
    /\ SetPc(t, "idle")
    /\ UNCHANGED <<op, ops, disk, mem, loaded, lock, event, fwd>>

(* dhcpd_updateHost / dhcpd_deleteHost with dhcpdOnDepot: the host's     *)
(* depot is another one, so the call is forwarded to it.                 *)
Forward(t) ==
    /\ \/ pc[t] = "u_lock" /\ Addressed(t)
       \/ pc[t] = "d_get"
    /\ Forwarded(op[t].host)
    /\ SetPc(t, "f_get")
    /\ UNCHANGED <<op, ops, last, disk, mem, loaded, lock, event, rpc, fwd>>

(* dhcpd_updateHost / dhcpd_deleteHost with dhcpdOnDepot:                *)
(* _getResponsibleDepotId raises "Failed to get depotserver for client". *)
NoDepot(t) ==
    /\ \/ pc[t] = "u_lock" /\ Addressed(t)
       \/ pc[t] = "d_get"
    /\ NoResponsibleDepot(op[t].host)
    /\ Raise(t)
    /\ UNCHANGED <<op, ops, disk, mem, loaded, lock, event, rpc, fwd>>

(* The depot id a forwarded call on t's host is sent to. *)
Target(t) == ForceHostId(DepotIdOf[op[t].host])

(* Variant: _getDepotConnection without `if (depotId == self._depotId):  *)
(* return self`.                                                          *)
GetConnectionNoSelfCheck(t) ==
    /\ pc[t] = "f_get"
    /\ CASE Target(t) = BadId -> Raise(t)
         [] conn[Target(t).name] = 0 -> SetPc(t, "f_new") /\ UNCHANGED last
         [] OTHER -> SetPc(t, "f_call") /\ UNCHANGED last
    /\ UNCHANGED <<op, ops, disk, mem, loaded, lock, event, rpc, fwd>>

(* _getDepotConnection(depotId): forceHostId(depotId) may raise. The     *)
(* normalised id of this depot returns self, and the call continues as   *)
(* self.dhcpd_updateHost(host.id) (or dhcpd_deleteHost), whose           *)
(* forceObjectClass raises for the host id. Otherwise a cached           *)
(* connection (`if not self._depotConnections.get(depotId)`) is used as  *)
(* it is.                                                                 *)
GetConnection(t) ==
    /\ pc[t] = "f_get"
    /\ CASE Target(t) = BadId -> Raise(t)
         [] Target(t) = DepotId -> Raise(t)
         [] conn[Target(t).name] = 0 -> SetPc(t, "f_new") /\ UNCHANGED last
         [] OTHER -> SetPc(t, "f_call") /\ UNCHANGED last
    /\ UNCHANGED <<op, ops, disk, mem, loaded, lock, event, rpc, fwd>>

(* Without a cached _opsiHostKey, it is read from this depot's host      *)
(* object and cached; when it is missing, the BackendMissingDataError    *)
(* meant there raises a NameError (its message formats the unbound e).   *)
(* Then self._depotConnections[depotId] = JSONRPCBackend(...): connecting *)
(* may fail ("Failed to connect to depot"). The entry is written without *)
(* a lock, over whatever another thread stored.                          *)
NewConnection(t) ==
    /\ pc[t] = "f_new"
    /\ \/ /\ built' = built + 1
          /\ conn' = [conn EXCEPT ![Target(t).name] = built + 1]
          /\ hostKey' = TRUE
          /\ SetPc(t, "f_call")
          /\ UNCHANGED last
       \/ DepotDown /\ hostKey' = TRUE /\ Raise(t) /\ UNCHANGED <<conn, built>>
       \/ HostKeyMissing /\ ~hostKey /\ Raise(t) /\ UNCHANGED <<conn, built, hostKey>>
    /\ UNCHANGED <<op, ops, disk, mem, loaded, lock, event, rpc, remote>>

(* return self._getDepotConnection(depotId).dhcpd_updateHost(host.id),   *)
(* or .dhcpd_deleteHost(host.id): the depot executes the call if its     *)
(* forceObjectClass accepts the argument, and the call returns;          *)
(* otherwise the depot's error is raised here.                           *)
ForwardCall(t) ==
    /\ pc[t] = "f_call"
    /\ IF RemoteAccepts(ForwardArg)
       THEN /\ remote' = IF op[t].kind \in Updates THEN remote \cup {op[t].host}
                                                  ELSE remote \ {op[t].host}
            /\ SetPc(t, "idle")
            /\ last' = [last EXCEPT ![op[t].host] =
                           IF op[t].kind \in Updates THEN "update" ELSE "delete"]
       ELSE Raise(t) /\ UNCHANGED remote
    /\ UNCHANGED <<op, ops, disk, mem, loaded, lock, event, rpc, conn, built, hostKey>>

(* ReloadThread.run: _reloadEvent.clear() *)
ReloadClear(i) ==
    /\ rpc[i] = "started"
    /\ event' = FALSE
    /\ rpc' = [rpc EXCEPT ![i] = "waiting"]
    /\ UNCHANGED <<pc, op, ops, last, disk, mem, loaded, lock, fwd>>

(* _reloadEvent.wait(2) returns: nothing sets the event meanwhile but    *)
(* another ReloadThread, so this is the 2 s timeout or that set().       *)
ReloadWait(i) ==
    /\ rpc[i] = "waiting"
    /\ rpc' = [rpc EXCEPT ![i] = "locking"]
    /\ UNCHANGED <<pc, op, ops, last, disk, mem, loaded, lock, event, fwd>>

(* self._reloadLock.acquire() *)
ReloadLock(i) ==
    /\ rpc[i] = "locking"
    /\ lock = NoHolder
    /\ lock' = i
    /\ rpc' = [rpc EXCEPT ![i] = "executing"]
    /\ UNCHANGED <<pc, op, ops, last, disk, mem, loaded, event, fwd>>

(* System.execute restarts dhcpd, which reads dhcpd.conf; a failure is  *)
(* logged, then _reloadLock.release(). The release is not in a finally:  *)
(* when the failure's text is not ASCII, the byte-string formatting in  *)
(* the except clause raises UnicodeEncodeError, run() ends with it and   *)
(* the thread is gone, holding _reloadLock, with _reloadEvent cleared.  *)
ReloadExecute(i) ==
    /\ rpc[i] = "executing"
    /\ \/ /\ loaded' = disk
          /\ lock' = NoHolder
          /\ rpc' = [rpc EXCEPT ![i] = "executed"]
       \/ /\ RestartTextNonAscii
          /\ rpc' = [rpc EXCEPT ![i] = "dead"]
          /\ UNCHANGED <<loaded, lock>>
    /\ UNCHANGED <<pc, op, ops, last, disk, mem, event, fwd>>

(* _reloadEvent.set(): later edits may start a reload again. *)
ReloadSet(i) ==
    /\ rpc[i] = "executed"
    /\ event' = TRUE
    /\ rpc' = [rpc EXCEPT ![i] = "done"]
    /\ UNCHANGED <<pc, op, ops, last, disk, mem, loaded, lock, fwd>>

(* All calls made and every ReloadThread finished. *)
Terminated ==
    /\ \A t \in Threads : pc[t] = "idle" /\ ops[t] = MaxOps
    /\ \A i \in Reloaders : rpc[i] \in {"unstarted", "done"}
    /\ UNCHANGED vars

Worker(t) ==
    \/ UpdateSkip(t) \/ UpdateUnresolved(t) \/ UpdateLock(t)
    \/ UpdateParse(t) \/ UpdateAdd(t)
    \/ UpdateGenerate(t) \/ DeleteObjectsParse(t) \/ DeleteGet(t)
    \/ DeleteDel(t) \/ DeleteGenerate(t) \/ TriggerReload(t)
    \/ Forward(t) \/ NoDepot(t) \/ GetConnection(t) \/ NewConnection(t) \/ ForwardCall(t)

Reloader(i) ==
    ReloadClear(i) \/ ReloadWait(i) \/ ReloadLock(i) \/ ReloadExecute(i)
    \/ ReloadSet(i)

Next ==
    \/ \E t \in Threads : \/ \E k \in Calls, h \in Hosts : Begin(t, k, h)
                          \/ Worker(t)
    \/ \E i \in Reloaders : Reloader(i)
    \/ Terminated

Spec == Init /\ [][Next]_vars

(* Started threads run: every runnable thread eventually takes a step. *)
FairSpec == Spec /\ \A t \in Threads : WF_vars(Worker(t))
                 /\ \A i \in Reloaders : WF_vars(Reloader(i))

-----------------------------------------------------------------------------
(* Once the thread asked about a host has returned, dhcpd.conf has a     *)
(* host entry for it exactly when the last call on it was an update: no  *)
(* call's edit of the file is undone by another thread's edit.           *)
NoLostUpdate ==
    \A t \in Threads : \A h \in HostsOf[t] :
        pc[t] = "idle" /\ Local(h) => (h \in disk <=> last[h] = "update")

(* The same of a host of another depot: once its call has returned, the *)
(* depot's dhcpd.conf has an entry for it exactly when the last call on *)
(* it was an update, so a forwarded edit is carried out by the depot.   *)
ForwardedEditApplied ==
    \A t \in Threads : \A h \in HostsOf[t] :
        pc[t] = "idle" /\ Forwarded(h) => (h \in remote <=> last[h] = "update")

(* No JSONRPCBackend is ever opened to this depot itself: a host whose   *)
(* clientconfig.depot.id names this depot in another spelling (capitals, *)
(* a trailing '.') passes the raw comparison in dhcpd_updateHost and     *)
(* dhcpd_deleteHost as another depot, and only the normalised comparison *)
(* in _getDepotConnection keeps the call from going out over the         *)
(* network to this depot's own rpc interface.                            *)
NoSelfConnection ==
    conn[DepotId.name] = 0

(* Some ReloadThread ended in its except clause, holding _reloadLock. *)
ReloadDied == \E i \in Reloaders : rpc[i] = "dead"

(* Every ReloadThread that was started finishes, unless one died holding *)
(* _reloadLock: the request paths (their finally) and every restart that *)
(* returns release the lock, so a reloader started while other threads   *)
(* and ReloadThreads hold it in turn is blocked for good only by a dead  *)
(* one.                                                                   *)
ReloadsFinish ==
    \A i \in Reloaders : rpc[i] = "started" ~> (rpc[i] = "done" \/ ReloadDied)

(* Every backend call returns, unless a ReloadThread died holding        *)
(* _reloadLock: a call waiting for the lock, which request threads and   *)
(* ReloadThreads take in turn, gets it.                                  *)
CallsReturn ==
    \A t \in Threads : pc[t] # "idle" ~> (pc[t] = "idle" \/ ReloadDied)

(* The backend implements DHCPDHosts: a call is pending from its start  *)
(* until it has written dhcpd.conf (then, in _triggerReload, it has      *)
(* applied its edit), an update asks to add its host and a delete to     *)
(* remove it, and a ReloadThread's restart serves the file.              *)
Edits == INSTANCE DHCPDHosts
            WITH conf <- disk,
                 served <- loaded,
                 st <- [t \in Threads |-> CASE pc[t] = "idle" -> "idle"
                                            [] pc[t] = "trigger" -> "applied"
                                            [] OTHER -> "pending"],
                 op <- [t \in Threads |->
                          [edit |-> IF op[t].kind \in Updates THEN "add" ELSE "remove",
                           host |-> op[t].host]]

(* Every write of dhcpd.conf by a backend call is exactly that call's    *)
(* own edit applied to the file as it is (no other call's host appears   *)
(* or disappears with it), each call writes at most once, and a delete   *)
(* that finds nothing to delete finds a file without the host.           *)
EditsAtomic == Edits!Spec

(* Every edit of dhcpd.conf is followed by a restart of dhcpd that reads *)
(* it: once all calls are done, the running dhcpd serves the file.       *)
EventuallyReloaded ==
    <>[](loaded = disk)
=============================================================================
