---------------------------- MODULE JSONRPCCalls ----------------------------
(***************************************************************************)
(* What the RequestExecutor of a remote backend client promises the       *)
(* threads that share one instance (spec.md 4.3 and 5): one logical call *)
(* is executed at a time, the remote peer may execute a call's request    *)
(* several times (a retry after a transport failure resends it), and a    *)
(* call returns the peer's answer (a result or a remote error) only when  *)
(* the last request the peer executed is that call's own. A failed call   *)
(* raises BackendIOError at any point. Of the peer's history only its     *)
(* last executed request matters to that promise.                         *)
(*                                                                         *)
(* A call is identified by its thread and a number; discovery             *)
(* (getInterface) has number 0 and records no result.                     *)
(***************************************************************************)
EXTENDS Naturals

CONSTANTS Threads, NoThread, NoRequest, MaxCalls

VARIABLES
    holder,   \* the thread whose call is being executed, or NoThread
    cur,      \* cur[t]: the number of the call t makes
    last,     \* the request the peer executed last, or NoRequest
    result    \* result[t]: how t's last regular call ended

Request == [t : Threads, id : 0..MaxCalls]
Outcome == {"none", "ok", "remote_error", "io_error"}

TypeOK ==
    /\ holder \in Threads \cup {NoThread}
    /\ cur \in [Threads -> 0..MaxCalls]
    /\ last \in Request \cup {NoRequest}
    /\ result \in [Threads -> Outcome]

Init ==
    /\ holder = NoThread
    /\ cur = [t \in Threads |-> 0]
    /\ last = NoRequest
    /\ result = [t \in Threads |-> "none"]

(* The last request the peer executed is t's current call. *)
Answered(t) == last = [t |-> t, id |-> cur[t]]

(* t starts call number i, or discovery (i = 0). *)
Start(t, i) ==
    /\ holder # t
    /\ cur' = [cur EXCEPT ![t] = i]
    /\ result' = [result EXCEPT ![t] = "none"]
    /\ UNCHANGED <<holder, last>>

(* t's call is taken up while no other call is being executed. *)
Enter(t) ==
    /\ holder = NoThread
    /\ holder' = t
    /\ UNCHANGED <<cur, last, result>>

(* The peer executes (again) the request of the call being executed. *)
Execute(t) ==
    /\ holder = t
    /\ last' = [t |-> t, id |-> cur[t]]
    /\ UNCHANGED <<holder, cur, result>>

(* The call ends. A regular call returns the peer's answer only when it *)
(* answers its own request, or raises BackendIOError; discovery records *)
(* nothing, or the BackendIOError of the call it was started from.      *)
Leave(t) ==
    /\ holder = t
    /\ holder' = NoThread
    /\ \E r \in IF cur[t] = 0 THEN {"none", "io_error"}
                ELSE {"io_error"} \cup IF Answered(t) THEN {"ok", "remote_error"} ELSE {} :
          result' = [result EXCEPT ![t] = r]
    /\ UNCHANGED <<cur, last>>

Next ==
    \E t \in Threads :
        \/ \E i \in 0..MaxCalls : Start(t, i)
        \/ Enter(t) \/ Execute(t) \/ Leave(t)

Spec == Init /\ [][Next]_<<holder, cur, last, result>>
=============================================================================
