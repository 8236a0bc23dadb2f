# TLA+ models of python-opsi's backends

This directory holds TLA+ models of the concurrent and failure-prone parts of
python-opsi (`src/`), the TLC configurations that check them, and
`PROJECT.json`. `PROJECT.json` lists the following:

- the components and their status;
- the runs and the mutants;
- the map from every modelled definition to the source lines it translates;
- the findings and the hazards.

Run a check from this directory:

    tlc -workers 2 -config JSONRPCBackend.cfg MC_JSONRPCBackend

## 1. The system

Per `spec.md`, python-opsi is a management backend. Its core is
`JSONRPCBackend` (`src/OPSI/Backend/JSONRPC.py`), a client for a remote opsi
server.

**JSONRPCBackend**
- It opens one HTTP(S) connection.
  - The connect is bounded by `non_blocking_connect_http`, a poll loop that
    gives up after `connectTimeout` (30 s).
  - After the poll succeeds, a plain blocking `connect()` runs as well.
- On first connect it discovers the server's interface (`getInterface`, with
  retries off). It then installs one method per remote method
  (`_createInstanceMethods`).
- Each call goes through `_jsonRPC`:
  1. it takes the non-reentrant `threading.Lock` `__rpcLock`;
  2. it marshals the arguments with `toHash`;
  3. it sends the request through `__request`;
  4. it unmarshals the result with `fromHash`.
- Inside `__request`:
  - it replays the session cookie from the last `Set-Cookie`;
  - on a failure before the response arrives, it reconnects (`_connect`) and
    retries while `now - started < 5` s.
- `exit()` sends `exit` and then closes the connection with `_disconnect`,
  after the lock has been released.

**Other backends that use the connection or share files between threads**
- `DHCPD` (`src/OPSI/Backend/DHCPD.py`) edits `dhcpd.conf`.
  - Request threads share one parsed `DHCPDConfFile` object.
  - `dhcpd_updateHost` edits it under `_reloadLock`.
  - `dhcpd_deleteHost` and `host_deleteObjects` edit it without the lock.
  - Every edit calls `_triggerReload`. While `_reloadEvent` is set, that starts
    a `ReloadThread`, which runs clear → wait(2) → lock → restart dhcpd →
    unlock → set. The unlock is not in a `finally`.
  - With the `dhcpdOnDepot` option (read through `forceBool`), a call on a
    client of another depot is forwarded to that depot. It goes through a
    `JSONRPCBackend` that `_getDepotConnection` caches in `_depotConnections`
    without a lock. The depot's method starts with
    `forceObjectClass(host, Host)` (`Types.py`).
- `OpsiPXEConfd` (`src/src/OPSI/Backend/OpsiPXEConfd.py`) handles a call in one
  of two ways:
  - it forwards the call to another depot through a new `JSONRPCBackend`, which
    it `exit()`s on success and again in an `except` clause on failure;
  - for its own depot, it sends a command to the local opsipxeconfd over a unix
    socket.

**Type coercion (`src/OPSI/Types.py`)**
- The `args` class decorator replaces a class's `__new__`. Each
  instantiation extends the decorator's closure list `vars` by the converted
  names (`typeVars.keys()`), so the list grows by that many names every time.
  It then sets each listed attribute from the keyword arguments, passed
  through its converter (`forceOct`, `forceUniqueList`, ...).

**The rest is outside these models**
- `Tools.py`: librsync, md5 and text rendering.
- `Rights.py`: file rights.
- `ssl/linux.py`: CA installation.
- The Authentication module.
- The package `__init__` files.

## 2. Modules

| module | models | state | actions |
|---|---|---|---|
| `JSONRPCBackend` | `JSONRPC.py`: `__init__`, `_connect`, the non-blocking connect, `_jsonRPC`'s lock, `__request` with retry, `exit`, `_disconnect` | per thread: `pc`, the call (method, id, `started`), `now`, `pollStart`, the response read (`got`), `outcome`. Shared: `lock` (`__rpcLock`), `retry`, `interface`, `sessionId`, the connection (`none`/`open`/`broken`/`closed`), the responses on the wire, `clock` | `Call`, `Acquire`, `SendRequest`, `GetResponse`, `ReadBody`, `Except`, `PollConnect`, `ConnectOK`, `ConnectFail`, `Disconnect`; `EndCall` (the `finally` and the return path of `_connect`); the environment's `Break` (the connection fails) and `Tick` |
| `ObjectMarshaller` | `toHash`, `fromHash` nested in `_jsonRPC`, and the data path of one call | `arg`, the params `wire`, `result` | `Marshal` (`params.append(toHash(v))`), `Unmarshal` (`fromHash(response['result'])`) |
| `DHCPDBackend` | `DHCPD.py`: `dhcpd_updateHost`, `dhcpd_deleteHost`, `host_*Object(s)`, `_triggerReload`, `ReloadThread.run` | per thread: `pc`, the call (`op`). Shared: `disk` (hosts in `dhcpd.conf`), `mem` (hosts in the shared `DHCPDConfFile`), `loaded` (what dhcpd read at its last restart), `lock`, `event`, per ReloadThread: `rpc`. Also `last[h]`, the last call on `h` that returned | `Begin`, `UpdateSkip`/`Unresolved`/`Lock`/`Parse`/`Add`/`Generate`, `DeleteObjectsParse`, `DeleteGet`/`Del`/`Generate`, `TriggerReload`, `ReloadClear`/`Wait`/`Lock`/`Execute`/`Set`; a ReloadThread whose `Execute` raises out of its except clause is `dead` and keeps `lock` |
| `DHCPDBackend` (forwarding) | `_getDepotConnection`, the forwarding branches of `dhcpd_updateHost`/`dhcpd_deleteHost`, the depot's `forceObjectClass`, `forceBool` of the option, and `forceHostId` of depot ids | `conn` (`_depotConnections`, per depot), `built` (backends constructed), `remote` (the depots' `dhcpd.conf`), `hostKey` (`_opsiHostKey`) | `Forward`, `NoDepot`, `GetConnection`, `NewConnection`, `ForwardCall`; `Raise` (how each entry point reports an exception) |
| `Types` | `args` (`new()`), `forceOct`, `forceUniqueList`, and the parts of `forceUnicode` and `forceInt` they use | `vars` (the closure list), the last keyword arguments `kw`, the attributes `obj` of the object built, `status` | `New(k)`: one instantiation, with the whole loop over `vars` as the RECURSIVE operator `Populate` |
| `OpsiPXEConfd` | `set`/`unsetPXEBootConfiguration`, `ServerConnection.sendCommand` | `pc`, `remote`, the forwarding backend `be`, the `exit()` count, the first exception, how the call ended, whether the depot executed the call (`fwd`) and whether the local command was sent (`sent`) | `Begin`, `GetDepot`, `Construct`, `Forward`, `Exit`, `Except`, `ExceptExit`, `Connect`, `Send`, `Recv` |

| `JSONRPCCalls` | spec.md 4.3 and 5: what the request executor promises the threads sharing a client | `holder` (the call being executed), `cur` (each thread's call number), `last` (the request the server executed last), `result` | `Start`, `Enter`, `Execute` (may repeat: a retry resends), `Leave` (returns the server's answer only when `last` is the call's own request) |
| `DHCPDHosts` | what the dhcpd backend promises its callers | `conf` (`dhcpd.conf`), `served`, per thread `st` and the edit asked for (`op`) | `Begin`, `Apply` (the call's one atomic edit), `Skip` (no edit; a delete only when the host has no entry), `Finish`, `Restart` |

Two modules are abstract specifications, and each is checked as a property of
the detailed one:
- `JSONRPCBackend` implements `JSONRPCCalls` (`ImplementsCalls`). The mapping:
  - `holder` is `lock`;
  - `cur` is the call's number;
  - `last` is `executed`, a history variable the folded-in server sets on
    every request it executes;
  - `result` is `outcome`.
- `DHCPDBackend` implements `DHCPDHosts` (`EditsAtomic`). The mapping:
  - `conf` is `disk`, and `served` is `loaded`;
  - a call is `applied` once its `generate()` has run (pc `trigger`);
  - an update asks for `add`, and a delete asks for `remove`.

Each `MC_*` module gives the constants TLC needs. The `.cfg` files pick bounds
and properties.

### Modelling choices

**JSONRPCBackend**
- The server is folded into `SendRequest`. It answers a request on an open
  connection with a response addressed to the sender, carrying a `Set-Cookie`
  when the request had none.
- httplib reopens a closed connection on the next request, so `SendRequest`
  also fires on a `closed` connection.
- A `_connect` that fails leaves an unopened connection object, modelled as
  `closed`.
- `Break` makes the open connection fail: the request raises, or the read
  hangs until the peer's close. This is bounded by `MaxFailures`.
- Time is `clock`, a tick counter bounded by `MaxClock`.
  - `now` is sampled when an attempt starts (`__request` line 286).
  - `started` is set once per call.
  - The connect poll fails after `ConnectTimeout` ticks.
- Methods are model values. The interface is `"methods"` (non-empty) or
  `"empty"` (the server answers `[]`).

**DHCPDBackend**
- Hosts are model values. Each request thread is asked about hosts of its own
  (`HostsOf`), so "the last call on h" is well defined.
- `addHost`, `deleteHost` and `generate` act on sets of hosts.
- A reload command is configured.
- `dhcpdOnDepot` is derived from the configured value through `ForceBool`.
  Whether connecting to another depot can fail is a constant (`DepotDown`).
- A depot id text (`IdText`) is abstracted to what `forceHostId` tells apart:
  the depot name it spells, whether it has capitals, and whether it ends with
  `.`. `DepotIdOf[h]` is a host's `clientconfig.depot.id` value, and
  `OwnFqdn` is `socket.getfqdn()`.
  - `ForceObjectId` lowercases. `ForceHostId` then rejects a name that is no
    fqdn (`FqdnNames`) with `BadId` (ValueError) and drops the trailing dot.
  - `Forwarded(h)` compares the raw text with `DepotId`, as lines 174 and 202
    do.
  - `GetConnection` compares the normalised id, as line 126 does. For this
    depot it raises: the call goes on as `self.dhcpd_updateHost(host.id)`,
    and `forceObjectClass` rejects the id.
  - `conn` is `_depotConnections`, a function of depot names. `hostKey` is
    the cached `_opsiHostKey`. When the key is missing, `NewConnection`
    raises.
  - A host in `Unconfigured` has no depot id and no default, so
    `_getResponsibleDepotId` raises (`NoDepot`).
- Host data is constant. A host in `NoHardwareAddress` makes
  `dhcpd_updateHost` return at once (`UpdateSkip`). A host in `Unresolvable`
  makes it raise BackendIOError (`UpdateUnresolved`). Since the skip is decided
  by the host and not by chance, a call waiting for `_reloadLock` cannot
  escape it, and `CallsReturn` is about the lock.
- `ForwardArg` is what the forwarded call passes: `host.id`.
  - `RemoteAccepts` is `forceObjectClass`'s test, over the forms an argument
    can take: a Host, a hash, JSON text, or a host id.
- `host_updateObject` swallows the exception of a failed forward and returns
  (`Raise`), so `last` records an update.
  - The other entry points raise it, and `last` is unchanged.

**Types**
- A value is a tagged record: a string as its sequence of characters, an int,
  a list, None, or `Err` for a raised ValueError/TypeError.
- Names are model values. `var.lstrip("_")` is the constant map `Stripped`.
- The class is assumed to define no non-None attribute of these names, so
  `getattr(obj, key, None) is None` holds and every key of `ka` is set.
- Properties compare against independent reference conversions. `RefOct`
  gives the number whose base-8 digits the text is. `RefUnique` gives the
  first occurrences in order, through `SetToSortSeq`.

**ObjectMarshaller**
- Values are tagged records: atom, list, dict, or a domain object `obj` whose
  attributes are atoms.
- The class registry is a constant set of names.
  - `c.fromHash` succeeds iff the `type` is a registered name and the other
    keys are exactly the class's attributes.
  - Otherwise `eval` or the constructor raises, and `fromHash` returns the
    dict unchanged.

**OpsiPXEConfd**
- Every JSONRPC or socket step succeeds or raises, nondeterministically.

## 3. Runs

| run | expect | what it shows |
|---|---|---|
| `jsonrpc_concurrency` | pass | Two threads share a client through construction, discovery, calls, retries after a lost connection, and `exit`. Four things hold: every caller reads its own response; with a server that has methods, no thread waits on the lock it holds; every call returns (`CallsComplete`, under weak fairness); and the client implements `JSONRPCCalls` (`ImplementsCalls`): calls are executed one at a time, and a call returns an answer only when the request the server executed last is its own, even across a lost connection and a retry. |
| `jsonrpc_exit` | violation | `exit()` closes the connection under another thread's request. |
| `jsonrpc_empty_interface` | violation | With an empty interface, a retry's reconnect runs `getInterface` while holding `__rpcLock`: a self-deadlock. |
| `dhcpd_updates` | pass | Concurrent updates under `_reloadLock` lose no edit (`NoLostUpdate`). Every write of `dhcpd.conf` is exactly one call's edit (`EditsAtomic`, the refinement of `DHCPDHosts`). A failed restart whose message is not ASCII may kill its ReloadThread with `_reloadLock` held (`RestartTextNonAscii`); the run has `CHECK_DEADLOCK FALSE` because the backend then really stops. Unless that happened, every ReloadThread ends (`ReloadsFinish`), also when both request threads start one before the first has cleared `_reloadEvent`, and every call returns (`CallsReturn`), although request threads and ReloadThreads take `_reloadLock` in turn: no other path keeps the lock. |
| `dhcpd_sequential` | pass | One thread makes all four kinds of call on five hosts (`dhcpdOnDepot` "On"): one of this depot, one of another depot that may be unreachable, one whose depot id names this depot in capitals, one whose depot id is no fqdn and whose name does not resolve, and one with no depot id and no hardware address. The depot's host key may be missing. `dhcpd.conf` keeps exactly the local hosts last updated. No call opens a `JSONRPCBackend` to this depot itself (`NoSelfConnection`): the capitalised own id passes the raw comparison of line 174, and only `_getDepotConnection`'s normalised check stops it. Each call edits the file at most once, atomically, and a delete that finds nothing finds a file without the host (`EditsAtomic`). Both forwarding branches and both outcomes of `_getDepotConnection`'s cache check are covered. |
| `dhcpd_delete_race` | violation | `host_deleteObjects` parses the shared object without the lock in the middle of an update, and the update is lost. |
| `dhcpd_lost_reload` | violation | An edit that falls between a ReloadThread's release and its `set()` is never loaded by dhcpd. |
| `marshal_roundtrip` | pass | `toHash` leaves no object in the params (`WireSafe`). `fromHash(toHash(v)) = v` for every argument up to depth 2 that holds no plain dict with a `type` key (`RoundTrip`). |
| `pxe_forwarding` | pass | A host of another depot never reaches the local opsipxeconfd. A call that returns normally was executed by the host's own depot: the depot it was forwarded to, or the local opsipxeconfd (`AppliedByResponsibleDepot`). Every forwarding backend is `exit()`ed. |
| `dhcpd_forward` | violation | `host_updateObject` on a client of another depot returns normally, but the depot's `dhcpd.conf` never gets the host. The forwarded call passes `host.id`, which the depot's `forceObjectClass` rejects. |
| `types_args` | pass | Two instantiations, by callers that pass both converted arguments, over every combination of inputs. Each attribute is the input converted once, as the reference conversions give it, even though `vars` has grown and converts it a second time. |
| `types_args_omitted` | violation | The second instantiation without a converted argument raises. By then `vars` lists the name twice: the first pass sets `None` and the second feeds that `None` to `forceOct`. This was confirmed by running the decorator from `Types.py`. |

The findings in `PROJECT.json` say what each violation means for the code. Each
property of a passing run has a mutant in `PROJECT.json`: a plausible bug in the
code that the run catches.

### Bounds

**JSONRPCBackend**
- Two threads, two calls per thread, one remote method.
- One connection failure and two clock ticks: enough for one failed attempt, a
  reconnect and a retry. The poll never times out (`ConnectTimeout` 3 is past
  the last tick, as 30 s is past the 5 s retry budget); a failing connect is
  `ConnectFail`, which needs no timing.
- About 450,000 states, taking about 70 s. The history variable `executed`
  holds only the last request, since that is all `JSONRPCCalls` needs. A full
  log made the run five times larger.

**DHCPDBackend**
- Only `dhcpd_updates` lets a failed restart kill its ReloadThread
  (`RestartTextNonAscii`); the other runs take restart messages to be ASCII,
  so their findings do not rest on it.
- Two threads on one host each, with two calls each.
- Four ReloadThreads, one per call. This is enough for a delete to overlap an
  update, and for an update to fall into a reload's window.

**ObjectMarshaller**
- Depth 2, lists of one element, one attribute, one registered and one
  unregistered class name.
- That gives 1,262 arguments. They include every nesting of an object in a list,
  a dict, or under a `type` key.

**OpsiPXEConfd**
- Three calls in a row, covering every combination of failing steps.

**DHCPD forwarding**
- One thread with three calls on five hosts is enough for a second forward to
  find the cached backend. Each depot id case gets its own host: this depot,
  another depot, this depot in capitals, no fqdn, and no depot id at all.
  Two of them also lack an address: one has an unresolvable name, the other
  no hardware address. The host key may be missing. This gives 13,820
  states.
- One call is enough for the forwarding finding.

**Types**
- Two instantiations: the growth of `vars` shows from the second on.
- Inputs:
  - `forceOct`: octal text, a digit above 7, the empty text, an int, None.
  - `forceUniqueList`: a list with a repeated element.
- That gives 343 keyword combinations per instantiation.

### Fairness

- `JSONRPCBackend` and `DHCPDBackend` assume weak fairness per thread: the OS
  eventually runs a runnable thread.
- Nothing is assumed of the network, the clock or the lock's choice among
  waiters. `CallsComplete` and `CallsReturn` hold only because each thread
  makes a bounded number of calls.
- The dhcpd restart command is taken to return: `ReloadExecute` completes,
  or raises out of the except clause and the thread dies. A command that hangs while holding `_reloadLock` (`DHCPD.py:113`) is listed
  as a hazard.
- A ReloadThread's `wait(2)` always returns (a timeout), so `ReloadWait` is
  weakly fair too.

## 4. Not modelled

`PROJECT.json` allows twelve runs. These deviations are recorded as hazards
without a run of their own:
- **The retry window** (`JSONRPC.py:338`). It is checked with the start time
  of the failed attempt, so a slow attempt (the 30 s connect poll) outlives
  the 5 s budget.
- **`fromHash` and unresolvable typed mappings** (`JSONRPC.py:215`). They are
  returned unconverted, where spec.md 4.4 converts them structurally.
- **A failing `exit()` in the `except` clause of `OpsiPXEConfd`**
  (`OpsiPXEConfd.py:59`). It replaces the original exception. `ExceptExit`
  models it.
- **`_depotConnections` is filled without a lock** (`DHCPD.py:128`). Two
  threads can build two backends, and one is never `exit()`ed. `built`
  counts them.
- **The depot id is compared raw** (`DHCPD.py:174`). `dhcpd_updateHost`
  compares the configured `clientconfig.depot.id` text with the normalised
  own id. `_getDepotConnection` normalises it again and returns `self`. A
  differently spelled own id therefore makes the backend call itself with
  `host.id`, which `forceObjectClass` rejects. `DHCPDBackend` models this
  with depot id texts. `NoSelfConnection` checks that no connection to this
  depot is opened. The lost edit itself has no violation run.
- **`OpsiPXEConfd` compares the depot id with `socket.getfqdn()` raw**
  (`OpsiPXEConfd.py:50`, `:78`). There is no normalising check after it, so a
  depot whose fqdn is spelled differently forwards its own hosts to itself
  again and again. The model's forwarding decision is a free choice, so this
  is outside it.
- **The session cookie is kept across a reconnect** (`JSONRPC.py:314`). Basic
  auth goes with every request, so this costs a rejected session, not a wrong
  result.
- **`__rpcLock` is not FIFO.** `threading.Lock` makes no fairness promise, and
  the model leaves the lock's choice among waiters free.

- **A ReloadThread can die holding `_reloadLock`** (`DHCPD.py:119-120`). The
  release is not in a `finally`. A failed restart whose message is not ASCII
  makes `"..." % e` in the except clause raise UnicodeEncodeError under
  Python 2. The thread ends with the lock held and `_reloadEvent` cleared, so
  every later `dhcpd_updateHost` blocks at line 183. `ReloadExecute` has this
  branch, and TLC finds `CallsReturn` without its exception for a dead
  ReloadThread violated: a request thread waits on the lock forever.
  `dhcpd_updates` checks `CallsReturn` and `ReloadsFinish` up to this case.
- **Params in `kwargs` order** (`JSONRPC.py:250`). `_jsonRPC` appends the
  values of `kwargs.items()`, a dict in CPython 2's hash order; spec.md 4.3
  sends them in the signature's declared order. A generated method with two
  or more parameters may send them swapped, depending only on the hashes of
  the parameter names. `ObjectMarshaller` follows one argument per call, so
  the order of several is outside it.
Not modelled, and why:
- the GET/POST framing, the Basic auth header and address parsing of
  `JSONRPCBackend`: they build the bytes of a request and decide no step;
- `_createInstanceMethods` beyond "methods exist once the interface has
  them". A `*name` parameter is also passed on positionally to
  `_executeMethod(methodName, **kwargs)`, which takes none, so such a method
  raises TypeError when called with an argument (spec.md 4.2 passes the value
  through). Any single call shows this; a model checker adds nothing;
- the per-host data of `DHCPD.py` (addresses, `fixedAddressFormat`, client
  parameters) and the text format of `DHCPDConfFile`, which is not part of
  this repository. The model keeps which hosts have an entry;
- the other `force*` functions of `Types.py`. They are regular-expression
  checks of single values. `forceBool`'s length test (a `dhcpdOnDepot` text
  with a space, such as `"no "`, reads as True) is one of them;
- `Tools.py`, `ssl/linux.py` and the Authentication module: stateless data
  plumbing or pure I/O (see `PROJECT.json`);
- `Rights.py`: `setRights` reads the undefined name `CLIENT_USER` at line 89,
  so every call raises NameError before it changes anything. Likewise the
  missing-host-key message of `_getDepotConnection` (`DHCPD.py:132`) formats
  an unbound `e`. `NewConnection` models that branch as a raise; which
  exception it is, is a unit-test matter.

The lines of `JSONRPC.py`, `DHCPD.py` and `OpsiPXEConfd.py` that no
definition maps are file headers, imports, logging, blank lines and the
commented-out `configState_*` methods. Every state-changing operation of the
three files is an action of a model. What the models could still show
needs runs beyond the twelve: the dead ReloadThread, the retry window, the `_depotConnections`
leak, the params order and the raw fqdn comparison of `OpsiPXEConfd`. Each
of these would be a violation run.
