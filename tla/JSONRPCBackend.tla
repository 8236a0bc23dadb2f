--------------------------- MODULE JSONRPCBackend ---------------------------
(***************************************************************************)
(* The remote backend client of src/OPSI/Backend/JSONRPC.py: one          *)
(* JSONRPCBackend instance shared by several Python threads.              *)
(*                                                                         *)
(*  - _jsonRPC holds the instance-wide __rpcLock around __request;         *)
(*  - __request sends one request on the single HTTP connection, captures *)
(*    Set-Cookie into __sessionId and, on a transport exception, retries  *)
(*    through _connect while __retry holds and the attempt started within *)
(*    maxRetrySeconds of the first attempt;                                *)
(*  - _connect polls a non-blocking connect bounded by connectTimeout and *)
(*    fetches getInterface (with __retry off) while __interface is falsy; *)
(*  - exit() sends "exit" and then closes the connection, outside the     *)
(*    lock.                                                                *)
(*                                                                         *)
(* The remote server is folded into the request step: it executes what    *)
(* reaches it and queues the response on the connection; it sets a  *)
(* cookie on a response to a request that carries none. The network may   *)
(* break the connection at any time (Break), losing queued responses.     *)
(* Time is a global clock of ticks.                                        *)
(***************************************************************************)
EXTENDS Integers, Sequences, FiniteSets

CONSTANTS
    Threads,          \* Python threads using the instance
    Main,             \* the thread that runs the constructor
    Methods,          \* remote methods other than getInterface and exit
    NoThread,         \* __rpcLock is free
    NoCookie,         \* __sessionId is None
    NoRequest,        \* the server has executed no request yet
    Cookie,           \* the session cookie the server hands out
    NoInterface,      \* __interface is None
    ServerInterface,  \* what getInterface returns: "empty" ([]) or "methods"
    MaxRetrySeconds,  \* maxRetrySeconds of __request, in ticks
    ConnectTimeout,   \* __connectTimeout of _connect, in ticks
    MaxClock,         \* bound: last tick explored
    MaxFailures,      \* bound: connection breaks the network may cause
    MaxCalls          \* bound: calls each thread makes

ASSUME /\ Main \in Threads
       /\ ServerInterface \in {"empty", "methods"}
       /\ {MaxRetrySeconds, ConnectTimeout, MaxClock,
           MaxFailures, MaxCalls} \subseteq Nat

VARIABLES
    pc,         \* pc[t]: where thread t is in _jsonRPC / __request / _connect
    call,       \* call[t]: the _jsonRPC call t is executing
    ctx,        \* ctx[t]: who called _connect: the constructor or a retry
    now,        \* now[t]: the `now` of t's current __request attempt
    pollStart,  \* pollStart[t]: `started` of non_blocking_connect_http
    got,        \* got[t]: the response t read with getresponse()
    outcome,    \* outcome[t]: how t's last call ended
    calls,      \* calls[t]: calls t has issued (bounded)
    lock,       \* self.__rpcLock
    retry,      \* self.__retry
    interface,  \* self.__interface
    sessionId,  \* self.__sessionId
    client,     \* constructor running, returned, or raised
    conn,       \* state of self.__connection
    responses,  \* responses queued on the connection
    failures,   \* connection breaks so far
    clock,
    executed    \* the request the server executed last (history)

vars == <<pc, call, ctx, now, pollStart, got, outcome, calls, lock, retry,
          interface, sessionId, client, conn, responses, failures,
          clock, executed>>

NoTime == -1
RPCMethods == Methods \cup {"getInterface", "exit"}
PCs == {"idle", "acquire", "request", "response", "read", "except",
        "connect", "reopen", "disconnect"}
CallRec == [m : RPCMethods, id : 0..MaxCalls, started : {NoTime} \cup 0..MaxClock]
Response == [to : Threads, id : 0..MaxCalls, error : BOOLEAN,
             setCookie : {Cookie, NoCookie}]
NoResponse == [to |-> Main, id |-> 0, error |-> TRUE, setCookie |-> NoCookie]

TypeOK ==
    /\ pc \in [Threads -> PCs]
    /\ call \in [Threads -> CallRec]
    /\ ctx \in [Threads -> {"ctor", "retry"}]
    /\ now \in [Threads -> 0..MaxClock]
    /\ pollStart \in [Threads -> 0..MaxClock]
    /\ got \in [Threads -> Response]
    /\ outcome \in [Threads -> {"none", "ok", "remote_error", "io_error"}]
    /\ calls \in [Threads -> 0..MaxCalls]
    /\ lock \in Threads \cup {NoThread}
    /\ retry \in BOOLEAN
    /\ interface \in {NoInterface, "empty", "methods"}
    /\ sessionId \in {Cookie, NoCookie}
    /\ client \in {"constructing", "ready", "failed"}
    /\ conn \in {"none", "open", "broken", "closed"}
    /\ responses \in Seq(Response)
    /\ failures \in 0..MaxFailures
    /\ clock \in 0..MaxClock
    /\ executed \in [t : Threads, id : 0..MaxCalls] \cup {NoRequest}

(* __init__ with connectOnInit: the constructing thread is inside _connect. *)
Init ==
    /\ pc = [t \in Threads |-> IF t = Main THEN "connect" ELSE "idle"]
    /\ call = [t \in Threads |-> [m |-> "getInterface", id |-> 0, started |-> NoTime]]
    /\ ctx = [t \in Threads |-> "ctor"]
    /\ now = [t \in Threads |-> 0]
    /\ pollStart = [t \in Threads |-> 0]
    /\ got = [t \in Threads |-> NoResponse]
    /\ outcome = [t \in Threads |-> "none"]
    /\ calls = [t \in Threads |-> 0]
    /\ lock = NoThread
    /\ retry = TRUE
    /\ interface = NoInterface
    /\ sessionId = NoCookie
    /\ client = "constructing"
    /\ conn = "none"
    /\ responses = <<>>
    /\ failures = 0
    /\ clock = 0
    /\ executed = NoRequest

SetPc(t, l) == pc' = [pc EXCEPT ![t] = l]
SetOutcome(t, o) == outcome' = [outcome EXCEPT ![t] = o]

(* _connect returned: to the constructor (instance ready) or to the       *)
(* except branch of __request, which calls __request again.              *)
ConnectDone(t) ==
    /\ client' = IF ctx[t] = "ctor" THEN "ready" ELSE client
    /\ SetPc(t, IF ctx[t] = "ctor" THEN "idle" ELSE "request")

(* _connect raised BackendIOError: construction fails, or the retrying    *)
(* call raises it and the finally of _jsonRPC releases __rpcLock.         *)
ConnectFailed(t) ==
    /\ client' = IF ctx[t] = "ctor" THEN "failed" ELSE client
    /\ SetPc(t, "idle")
    /\ SetOutcome(t, IF ctx[t] = "ctor" THEN outcome[t] ELSE "io_error")
    /\ lock' = NoThread

(* Variant of EndCall without the finally: the lock is released only    *)
(* when the call returns normally.                                        *)
EndCallKeepLock(t, res) ==
    LET ok == res = "ok" IN
    /\ lock' = IF ok THEN NoThread ELSE lock
    /\ IF call[t].m = "getInterface"
       THEN /\ retry' = TRUE
            /\ interface' = IF ok THEN ServerInterface ELSE interface
            /\ IF ok THEN ConnectDone(t) /\ UNCHANGED outcome
                     ELSE /\ client' = IF ctx[t] = "ctor" THEN "failed" ELSE client
                          /\ SetPc(t, "idle")
                          /\ SetOutcome(t, IF ctx[t] = "ctor" THEN outcome[t] ELSE "io_error")
       ELSE /\ SetPc(t, IF ok /\ call[t].m = "exit" THEN "disconnect" ELSE "idle")
            /\ SetOutcome(t, res)
            /\ UNCHANGED <<retry, interface, client>>

(* _jsonRPC returns ("ok") or raises BackendIOError ("io_error") or the   *)
(* server's error ("remote_error"); its finally releases __rpcLock. The  *)
(* getInterface call of _connect resets __retry in its own finally and    *)
(* stores the interface; exit() goes on to _disconnect only on success.   *)
EndCall(t, res) ==
    LET ok == res = "ok" IN
    /\ lock' = NoThread
    /\ IF call[t].m = "getInterface"
       THEN /\ retry' = TRUE
            /\ interface' = IF ok THEN ServerInterface ELSE interface
            /\ IF ok THEN ConnectDone(t) /\ UNCHANGED outcome
                     ELSE ConnectFailed(t)
       ELSE /\ SetPc(t, IF ok /\ call[t].m = "exit" THEN "disconnect" ELSE "idle")
            /\ SetOutcome(t, res)
            /\ UNCHANGED <<retry, interface, client>>

(* A generated instance method (only once getInterface listed methods)   *)
(* or exit() calls _jsonRPC.                                              *)
Call(t, m) ==
    /\ pc[t] = "idle"
    /\ client = "ready"
    /\ calls[t] < MaxCalls
    /\ m \in Methods => interface = "methods"
    /\ calls' = [calls EXCEPT ![t] = @ + 1]
    /\ call' = [call EXCEPT ![t] = [m |-> m, id |-> calls[t] + 1, started |-> NoTime]]
    /\ SetPc(t, "acquire")
    /\ SetOutcome(t, "none")
    /\ now' = [now EXCEPT ![t] = 0]
    /\ pollStart' = [pollStart EXCEPT ![t] = 0]
    /\ got' = [got EXCEPT ![t] = NoResponse]
    /\ UNCHANGED <<executed, ctx, lock, retry, interface, sessionId,
                   client, conn, responses, failures, clock>>

(* Variant of Acquire that does not wait for the lock. *)
AcquireUnlocked(t) ==
    /\ pc[t] = "acquire"
    /\ lock' = t
    /\ SetPc(t, "request")
    /\ UNCHANGED <<executed, call, ctx, now, pollStart, got, outcome, calls, retry,
                   interface, sessionId, client, conn, responses,
                   failures, clock>>

(* self.__rpcLock.acquire(): a non-reentrant threading.Lock. *)
Acquire(t) ==
    /\ pc[t] = "acquire"
    /\ lock = NoThread
    /\ lock' = t
    /\ SetPc(t, "request")
    /\ UNCHANGED <<executed, call, ctx, now, pollStart, got, outcome, calls, retry,
                   interface, sessionId, client, conn, responses,
                   failures, clock>>

(* __request up to the send: sample `now`, fix `started` on the first     *)
(* attempt, send the request with the cached cookie. httplib opens a      *)
(* socket itself for a closed connection; a broken one, or a reopen that  *)
(* fails, raises into the except branch.                                  *)
SendRequest(t) ==
    /\ pc[t] = "request"
    /\ now' = [now EXCEPT ![t] = clock]
    /\ call' = [call EXCEPT ![t].started = IF @ = NoTime THEN clock ELSE @]
    /\ \/ /\ conn \in {"open", "closed"}
          /\ \E err \in BOOLEAN :
               /\ responses' = Append(IF conn = "closed" THEN <<>> ELSE responses,
                                      [to |-> t, id |-> call[t].id, error |-> err,
                                       setCookie |-> IF sessionId = NoCookie
                                                     THEN Cookie ELSE NoCookie])
          /\ conn' = "open"
          /\ executed' = [t |-> t, id |-> call[t].id]
          /\ SetPc(t, "response")
       \/ /\ conn \in {"broken", "closed"}
          /\ SetPc(t, "except")
          /\ UNCHANGED <<responses, conn, executed>>
    /\ UNCHANGED <<ctx, pollStart, got, outcome, calls, lock, retry, interface,
                   sessionId, client, failures, clock>>

(* Variant of GetResponse that keeps the whole Set-Cookie header instead *)
(* of cookie.split(';')[0].                                               *)
GetResponseWholeHeader(t) ==
    /\ pc[t] = "response"
    /\ \/ /\ conn = "open"
          /\ responses # <<>>
          /\ got' = [got EXCEPT ![t] = Head(responses)]
          /\ responses' = Tail(responses)
          /\ sessionId' = IF Head(responses).setCookie = NoCookie
                          THEN sessionId
                          ELSE [value |-> Head(responses).setCookie, path |-> "/"]
          /\ SetPc(t, "read")
       \/ /\ conn \in {"broken", "closed"}
          /\ SetPc(t, "except")
          /\ UNCHANGED <<got, responses, sessionId>>
    /\ UNCHANGED <<executed, call, ctx, now, pollStart, outcome, calls, lock, retry,
                   interface, client, conn, failures, clock>>

(* getresponse(): take the next response off the connection and store    *)
(* its Set-Cookie into __sessionId; a dead connection raises.             *)
GetResponse(t) ==
    /\ pc[t] = "response"
    /\ \/ /\ conn = "open"
          /\ responses # <<>>
          /\ got' = [got EXCEPT ![t] = Head(responses)]
          /\ responses' = Tail(responses)
          /\ sessionId' = IF Head(responses).setCookie = NoCookie
                          THEN sessionId ELSE Head(responses).setCookie
          /\ SetPc(t, "read")
       \/ /\ conn \in {"broken", "closed"}
          /\ SetPc(t, "except")
          /\ UNCHANGED <<got, responses, sessionId>>
    /\ UNCHANGED <<executed, call, ctx, now, pollStart, outcome, calls, lock, retry,
                   interface, client, conn, failures, clock>>

(* response.read() (its failure raises BackendIOError, never retried),    *)
(* json.loads, a non-null error raises, else fromHash(result) returned.   *)
ReadBody(t) ==
    /\ pc[t] = "read"
    /\ \/ conn = "open" /\ EndCall(t, IF got[t].error THEN "remote_error" ELSE "ok")
       \/ conn \in {"broken", "closed"} /\ EndCall(t, "io_error")
    /\ UNCHANGED <<executed, call, ctx, now, pollStart, got, calls, sessionId, conn,
                   responses, failures, clock>>

(* The except branch of __request: reconnect and retry while __retry and *)
(* now - started < maxRetrySeconds, else raise BackendIOError.            *)
Except(t) ==
    /\ pc[t] = "except"
    /\ IF retry /\ now[t] - call[t].started < MaxRetrySeconds
       THEN /\ SetPc(t, "connect")
            /\ ctx' = [ctx EXCEPT ![t] = "retry"]
            /\ pollStart' = [pollStart EXCEPT ![t] = clock]
            /\ UNCHANGED <<lock, retry, interface, client, outcome>>
       ELSE /\ EndCall(t, "io_error")
            /\ UNCHANGED <<ctx, pollStart>>
    /\ UNCHANGED <<executed, call, now, got, calls, sessionId, conn, responses,
                   failures, clock>>

(* non_blocking_connect_*: the polling loop completes the TCP (and TLS)  *)
(* connect before connectTimeout has elapsed.                             *)
PollConnect(t) ==
    /\ pc[t] = "connect"
    /\ clock - pollStart[t] < ConnectTimeout
    /\ SetPc(t, "reopen")
    /\ UNCHANGED <<executed, call, ctx, now, pollStart, got, outcome, calls, lock, retry,
                   interface, sessionId, client, conn, responses,
                   failures, clock>>

(* Variant of ConnectOK that fetches getInterface on every connect. *)
ConnectOKAlwaysDiscover(t) ==
    /\ pc[t] = "reopen"
    /\ conn' = "open"
    /\ responses' = <<>>
    /\ retry' = FALSE
    /\ call' = [call EXCEPT ![t] = [m |-> "getInterface", id |-> 0, started |-> NoTime]]
    /\ SetPc(t, "acquire")
    /\ UNCHANGED <<executed, client, ctx, now, pollStart, got, outcome, calls, lock,
                   interface, sessionId, failures, clock>>

(* self.__connection.connect() succeeded: the new connection is open.    *)
(* While __interface is None or [] _connect fetches getInterface through *)
(* _jsonRPC with __retry off; then _createInstanceMethods and return.     *)
ConnectOK(t) ==
    /\ pc[t] = "reopen"
    /\ conn' = "open"
    /\ responses' = <<>>
    /\ IF interface \in {NoInterface, "empty"}
       THEN /\ retry' = FALSE
            /\ call' = [call EXCEPT ![t] = [m |-> "getInterface", id |-> 0,
                                             started |-> NoTime]]
            /\ SetPc(t, "acquire")
            /\ UNCHANGED client
       ELSE /\ ConnectDone(t)
            /\ UNCHANGED <<retry, call>>
    /\ UNCHANGED <<executed, ctx, now, pollStart, got, outcome, calls, lock, interface,
                   sessionId, failures, clock>>

(* A connect error other than EINPROGRESS/EALREADY, the poll timeout, or *)
(* a failing connect(): _connect raises BackendIOError. The new, never   *)
(* opened HTTPConnection is left in self.__connection.                   *)
ConnectFail(t) ==
    /\ pc[t] \in {"connect", "reopen"}
    /\ conn' = "closed"
    /\ responses' = <<>>
    /\ ConnectFailed(t)
    /\ UNCHANGED <<executed, call, ctx, now, pollStart, got, calls, retry, interface,
                   sessionId, failures, clock>>

(* exit(): after _jsonRPC('exit') returned, _disconnect closes the       *)
(* connection without holding __rpcLock.                                  *)
Disconnect(t) ==
    /\ pc[t] = "disconnect"
    /\ conn' = "closed"
    /\ responses' = <<>>
    /\ SetPc(t, "idle")
    /\ UNCHANGED <<executed, call, ctx, now, pollStart, got, outcome, calls, lock, retry,
                   interface, sessionId, client, failures, clock>>

(* The network breaks the connection; queued responses are lost. *)
Break ==
    /\ conn = "open"
    /\ failures < MaxFailures
    /\ conn' = "broken"
    /\ responses' = <<>>
    /\ failures' = failures + 1
    /\ UNCHANGED <<executed, pc, call, ctx, now, pollStart, got, outcome, calls, lock,
                   retry, interface, sessionId, client, clock>>

(* Wall-clock time passes while some thread is inside a call. *)
Tick ==
    /\ clock < MaxClock
    /\ \E t \in Threads : pc[t] # "idle"
    /\ clock' = clock + 1
    /\ UNCHANGED <<executed, pc, call, ctx, now, pollStart, got, outcome, calls, lock,
                   retry, interface, sessionId, client, conn, responses,
                   failures>>

(* Every thread has finished its calls, or the constructor raised. *)
Terminated ==
    /\ \A t \in Threads : pc[t] = "idle"
    /\ client = "failed" \/ \A t \in Threads : calls[t] = MaxCalls
    /\ UNCHANGED vars

Step(t) ==
    \/ Acquire(t) \/ SendRequest(t) \/ GetResponse(t) \/ ReadBody(t)
    \/ Except(t) \/ PollConnect(t) \/ ConnectOK(t) \/ ConnectFail(t)
    \/ Disconnect(t)

Next ==
    \/ \E t \in Threads :
          \/ \E m \in Methods \cup {"exit"} : Call(t, m)
          \/ Step(t)
    \/ Break
    \/ Tick
    \/ Terminated

Spec == Init /\ [][Next]_vars

(* Threads are scheduled by the OS: a runnable thread eventually runs.   *)
(* Nothing is assumed of the network, the clock or of threading.Lock's   *)
(* choice among waiters.                                                  *)
FairSpec == Spec /\ \A t \in Threads : WF_vars(Step(t))

-----------------------------------------------------------------------------
(* A thread that reads a response body reads the answer to its own       *)
(* request: __rpcLock keeps requests and responses of different calls    *)
(* from interleaving on the single connection, and a reconnect during a  *)
(* retry drops answers meant for an earlier attempt.                     *)
CallerGetsOwnResult ==
    \A t \in Threads :
        pc[t] = "read" => got[t].to = t /\ got[t].id = call[t].id

(* No thread ever waits for __rpcLock while it holds it itself (the lock *)
(* is not reentrant, so it would wait forever): _connect must not start  *)
(* getInterface from inside a retry.                                     *)
NoSelfWait ==
    \A t \in Threads : ~(pc[t] = "acquire" /\ lock = t)

(* Every call the instance starts (and the constructor) eventually       *)
(* returns or raises.                                                     *)
CallsComplete ==
    \A t \in Threads : pc[t] # "idle" ~> pc[t] = "idle"

(* spec.md 5: the connection is mutated only under __rpcLock or by a     *)
(* reconnect inside a retry. So a request in flight is never cut off by  *)
(* the client closing its own connection (exit() calls _disconnect after *)
(* releasing the lock).                                                   *)
NoCloseUnderInflightRequest ==
    \A t \in Threads : pc[t] \in {"response", "read"} => conn # "closed"
-----------------------------------------------------------------------------
(* The client implements the RequestExecutor's promise (JSONRPCCalls):   *)
(* __rpcLock is the executor's holder, the number of the call in         *)
(* _jsonRPC is its call, the request the server executed last is its    *)
(* last and the outcome of the last call is its result.               *)
Calls == INSTANCE JSONRPCCalls
            WITH holder <- lock,
                 cur <- [t \in Threads |-> call[t].id],
                 last <- executed,
                 result <- outcome

(* Every behaviour of the threads sharing the client is one of the      *)
(* executor's: calls are taken up one at a time under __rpcLock, and a  *)
(* call that returns the server's result or error was the last one the  *)
(* server executed, even across lost connections and retries.           *)
ImplementsCalls == Calls!Spec
=============================================================================
