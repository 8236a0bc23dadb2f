---------------------------- MODULE OpsiPXEConfd ----------------------------
(***************************************************************************)
(* OpsiPXEConfdBackend.setPXEBootConfiguration and                         *)
(* unsetPXEBootConfiguration (src/src/OPSI/Backend/OpsiPXEConfd.py): a    *)
(* host of another depot is handled by forwarding the call to that depot  *)
(* through a new JSONRPCBackend, which is exit()ed afterwards; a host of  *)
(* this depot by sending a command to the local opsipxeconfd over a unix  *)
(* socket (ServerConnection.sendCommand). Both methods have this control  *)
(* flow; they differ in the command only.                                  *)
(*                                                                         *)
(* Each call to the JSONRPCBackend (its constructor, the forwarded method, *)
(* exit) and each socket operation either succeeds or raises; which one    *)
(* raises is the environment's choice.                                     *)
(***************************************************************************)
EXTENDS Naturals

CONSTANT MaxCalls   \* bound: backend calls made

Methods == {"set", "unset"}
(* The exceptions a call can end with: the one raised by the JSONRPC     *)
(* constructor, the forwarded method or exit(), or the BackendIOError    *)
(* that wraps any failure of the local command.                          *)
Errors == {"ctor", "call", "exit", "BackendIOError"}
Outcomes == Errors \cup {"none", "returned"}

VARIABLES
    pc,        \* where the call is
    method,    \* the method being called
    remote,    \* the host's depot is not this one (depotId != getfqdn())
    be,        \* the forwarding JSONRPCBackend: none, open or closed
    exits,     \* be.exit() calls made in this call
    first,     \* the first exception raised in this call
    outcome,   \* how the last call ended
    fwd,       \* the forwarded method was executed by the depot
    sent,      \* a command was sent to the local opsipxeconfd
    calls      \* calls made (bounded)

vars == <<pc, method, remote, be, exits, first, outcome, fwd, sent, calls>>

TypeOK ==
    /\ pc \in {"idle", "depot", "ctor", "call", "exit", "except", "except_exit",
               "connect", "send", "recv"}
    /\ method \in Methods
    /\ remote \in BOOLEAN
    /\ be \in {"none", "open", "closed"}
    /\ exits \in 0..2
    /\ first \in Errors \cup {"none"}
    /\ outcome \in Outcomes
    /\ fwd \in BOOLEAN /\ sent \in BOOLEAN
    /\ calls \in 0..MaxCalls

Init ==
    /\ pc = "idle"
    /\ method = "set"
    /\ remote = FALSE
    /\ be = "none"
    /\ exits = 0
    /\ first = "none"
    /\ outcome = "none"
    /\ fwd = FALSE /\ sent = FALSE
    /\ calls = 0

(* The call ends: it returns, or raises the exception e. *)
Finish(e) ==
    /\ outcome' = e
    /\ pc' = "idle"

(* Variant: the state of the previous call is carried over. *)
BeginNoReset(m) ==
    /\ pc = "idle"
    /\ calls < MaxCalls
    /\ method' = m
    /\ pc' = "depot"
    /\ outcome' = "none" /\ fwd' = FALSE /\ sent' = FALSE
    /\ calls' = calls + 1
    /\ UNCHANGED <<remote, be, exits, first>>

(* setPXEBootConfiguration(hostId) or unsetPXEBootConfiguration(hostId). *)
Begin(m) ==
    /\ pc = "idle"
    /\ calls < MaxCalls
    /\ method' = m
    /\ pc' = "depot"
    /\ be' = "none" /\ exits' = 0 /\ first' = "none"
    /\ outcome' = "none" /\ fwd' = FALSE /\ sent' = FALSE
    /\ calls' = calls + 1
    /\ UNCHANGED remote

(* depotId = getDepotId(hostId); forward unless it is this host's fqdn. *)
GetDepot ==
    /\ pc = "depot"
    /\ \E r \in BOOLEAN : remote' = r /\ pc' = IF r THEN "ctor" ELSE "connect"
    /\ UNCHANGED <<method, be, exits, first, outcome, fwd, sent, calls>>

(* be = JSONRPCBackend(...): connecting to the depot may raise, and be   *)
(* stays None.                                                           *)
Construct ==
    /\ pc = "ctor"
    /\ \/ be' = "open" /\ pc' = "call" /\ UNCHANGED first
       \/ first' = "ctor" /\ pc' = "except" /\ UNCHANGED be
    /\ UNCHANGED <<method, remote, exits, outcome, fwd, sent, calls>>

(* res = be.setPXEBootConfiguration(...): it may raise, before or after  *)
(* the depot executed it (a lost response).                              *)
Forward ==
    /\ pc = "call"
    /\ \/ fwd' = TRUE /\ pc' = "exit" /\ UNCHANGED first
       \/ first' = "call" /\ pc' = "except" /\ fwd' \in BOOLEAN
    /\ UNCHANGED <<method, remote, be, exits, outcome, sent, calls>>

(* Variant: no return after the forwarded call. *)
ExitNoReturn ==
    /\ pc = "exit"
    /\ exits' = exits + 1
    /\ \/ be' = "closed" /\ pc' = "connect" /\ UNCHANGED <<first, outcome>>
       \/ first' = "exit" /\ pc' = "except" /\ UNCHANGED <<be, outcome>>
    /\ UNCHANGED <<method, remote, fwd, sent, calls>>

(* be.exit(); return res. exit() sends the 'exit' RPC, which may raise  *)
(* before _disconnect runs.                                              *)
Exit ==
    /\ pc = "exit"
    /\ exits' = exits + 1
    /\ \/ be' = "closed" /\ Finish("returned") /\ UNCHANGED first
       \/ first' = "exit" /\ pc' = "except" /\ UNCHANGED <<be, outcome>>
    /\ UNCHANGED <<method, remote, fwd, sent, calls>>

(* Variant: the except clause re-raises without exit(). *)
ExceptNoExit ==
    /\ pc = "except"
    /\ Finish(first)
    /\ UNCHANGED <<method, remote, be, exits, first, fwd, sent, calls>>

(* except: `if be: be.exit()`, then `raise`. *)
Except ==
    /\ pc = "except"
    /\ IF be # "none" THEN pc' = "except_exit" /\ UNCHANGED outcome
                      ELSE Finish(first)
    /\ UNCHANGED <<method, remote, be, exits, first, fwd, sent, calls>>

(* be.exit() inside the except clause: if it raises, its exception      *)
(* leaves the clause and the bare `raise` is never reached.              *)
ExceptExit ==
    /\ pc = "except_exit"
    /\ exits' = exits + 1
    /\ \/ be' = "closed" /\ Finish(first)
       \/ Finish("exit") /\ UNCHANGED be
    /\ UNCHANGED <<method, remote, first, fwd, sent, calls>>

(* ServerConnection(port).sendCommand(cmd): createUnixSocket connects    *)
(* the socket with a 5 s timeout; a failure raises, wrapped into a      *)
(* BackendIOError by the caller.                                        *)
Connect ==
    /\ pc = "connect"
    /\ \/ pc' = "send" /\ UNCHANGED outcome
       \/ Finish("BackendIOError")
    /\ UNCHANGED <<method, remote, be, exits, first, fwd, sent, calls>>

(* self._socket.send(cmd) *)
Send ==
    /\ pc = "send"
    /\ \/ sent' = TRUE /\ pc' = "recv" /\ UNCHANGED outcome
       \/ Finish("BackendIOError") /\ UNCHANGED sent
    /\ UNCHANGED <<method, remote, be, exits, first, fwd, calls>>

(* result = recv(4096); close(); a result starting with '(ERROR)', a    *)
(* failed recv or a timeout raise, wrapped into a BackendIOError.       *)
Recv ==
    /\ pc = "recv"
    /\ \E e \in {"returned", "BackendIOError"} : Finish(e)
    /\ UNCHANGED <<method, remote, be, exits, first, fwd, sent, calls>>

Done ==
    /\ pc = "idle" /\ calls = MaxCalls
    /\ UNCHANGED vars

Next ==
    \/ \E m \in Methods : Begin(m)
    \/ GetDepot \/ Construct \/ Forward \/ Exit \/ Except \/ ExceptExit
    \/ Connect \/ Send \/ Recv \/ Done

Spec == Init /\ [][Next]_vars
-----------------------------------------------------------------------------
(* A call is carried out by the host's own depot and no other: a host   *)
(* of another depot never reaches the local opsipxeconfd, even after the *)
(* forwarding, and a call that returns normally was executed where the   *)
(* host belongs, by the depot it was forwarded to or by the local        *)
(* opsipxeconfd, whatever step of the forwarding or of the socket        *)
(* command failed on the way.                                             *)
AppliedByResponsibleDepot ==
    /\ sent => ~remote
    /\ outcome = "returned" => IF remote THEN fwd ELSE sent

(* Whatever way a forwarded call ends, the JSONRPCBackend it built has  *)
(* had exit() called on it.                                              *)
NoBackendLeft ==
    pc = "idle" /\ be # "none" => exits >= 1
=============================================================================
