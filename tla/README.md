# A TLA+ model of the Cloud SQL Auth Proxy

These modules model the Cloud SQL Auth Proxy: how it reads its configuration,
starts listening, admits and refuses connections, relays bytes, answers health
checks, and shuts down, alone or under the subcommands and the Windows service
that operate it. TLC checks the modules on small instances. TLAPS proves the
safety properties of every component, and both refinements, for instances of any
size.
`PROJECT.json` maps every definition to the source lines it stands for.

    tlc -workers 2 -config ClientHealth.cfg MCHealthCheck   # one run
    tlapm ClientProofs.tla                                  # the proofs of a module

## 1. The system

| Part | State | Operations | What makes it correct |
|---|---|---|---|
| `proxy.Client` (`internal/proxy/proxy.go`) | `connCount`, `mnts`, the open connections | `Serve`, one `serveSocketMount` loop per mount, one goroutine per connection, `Close`, `ConnCount` | the limit holds; the counter neither leaks nor wraps; nothing stays open; `Close` drains, returns, and nothing is accepted after it |
| `proxyConn` | two buffers, a `sync.Once` | two copy loops, cleanup | byte streams are FIFO; an EOF loses nothing; both ends are closed before the handler returns; the cause is what is logged |
| `CheckConnections` | `errCh`, a wait group | one dial per mount, collect | returns, and reports every failure |
| `NewClient`, `newSocketMount`, `portConfig`, `dialOptions` | the port counters, mounts, directories | mount each instance, skip or undo on failure | no listener left behind; one mount per instance; no self-made address conflict |
| `healthcheck.Check` | channels `started`, `stopped` | `NotifyStarted`, `NotifyStopped`, `HandleReadiness`, `HandleStartup` | what a 200 means while `Serve` and `Close` run |
| `runSignalWrapper` (`cmd/root.go`) | `shutdownCh`, `startCh`, `signals`, the result | startup, two HTTP servers, `/quitquitquit`, signals, the deferred calls | always ends when asked; closes its client; the exit status is earned |
| configuration (`cmd/root.go`, `cmd/options.go`) | flags, environment, file, options of `NewCommand` | `loadConfig`, `parseConfig` | precedence; contradictions are refused, never resolved in silence |
| credentials, `DialerOptions` (`proxy.go`, `internal/gcloud`) | - | choice of a token source | the credentials asked for are the ones used; IAM login where it was asked for |
| FUSE (`internal/proxy/proxy_other.go`) | `fuseSockets`, `fuseServer`, `fuseWg` | `Lookup`, `serveFuse`, `unmountFUSE` | one socket per instance, also under concurrent lookups; `Close` misses none; nobody waits for ever for the mutex |
| `wait`, `shutdown` subcommands | - | HTTP clients of the servers above | end in time, with a status that is true |
| Windows service (`main_windows.go`) | - | runs the command under a context | a stop at any moment ends the service, after the command |

`main` creates the `Client` in a goroutine and takes it from `startCh`; it then
starts the servers and `Serve`, which calls `NotifyStarted` once its accept
loops run. The handlers of a `Client` share nothing but `connCount`, which
`Close` and `/readiness` read. Every goroutine that `main` starts reports on the
one unbuffered channel `shutdownCh`, from which `main` receives once. The
deferred calls then run: `NotifyStopped`, `Close`, the exporter's flush, the
cancellation of the context.

What is hard here: the increment, comparison and decrement of a counter by any
number of goroutines; non-blocking sends on unbuffered channels; a `Close` that
waits on a counter while connections are still accepted; a cleanup that both
copy loops race to; signals at any moment of startup and shutdown. The hazards
are listed one by one, with the property that covers each, in `PROJECT.json`.

## 2. The modules

| Module | Models | Remarks |
|---|---|---|
| `Admission` | what `--max-connections` promises | abstract specification, no counter |
| `Client` | `Serve`, `serveSocketMount`, the handler, `Close` | one action per step between two accesses to shared state |
| `HealthCheck` | `healthcheck.Check` composed with `Client` | extends `Client`; every step of the Client is a step here |
| `Relay` | what a session promises its two peers | abstract specification: two FIFO streams that may be cut |
| `ProxyConn` | `proxyConn` | implements `Relay` |
| `CheckConnections` | `CheckConnections` | as `Serve` calls it: without FUSE |
| `Fuse` | `Lookup`, its accept loops, `serveFuse`, and `Close` with FUSE | the mutex `fuseMu` is a variable that names its holder |
| `SignalWrapper` | `runSignalWrapper` after `loadConfig`, `startHTTPServer`, `quitquitquit`, `Execute`'s exit status | the `Client` is created, closed, and may fail |
| `Subcommands` | `wait` and `shutdown` | extends `SignalWrapper`: other processes that make requests to it |
| `WindowsService` | `windowsService.Execute` | extends `Subcommands`; its next-state relation is the whole command under any of its operators |
| `Configuration` | `loadConfig`, `parseConfig`, `DialerOptions` | operators, no state |
| `Startup` | the command from its inputs to a `Client`: `Configuration`, then `NewClient` and what it calls | sequential; extends `Configuration` |
| `ClientProofs`, `HealthCheckProofs`, `ProxyConnProofs`, `CheckConnectionsProofs`, `FuseProofs`, `SignalWrapperProofs`, `StartupProofs` | - | theorems about the module they are named after |
| `OperatorsProofs` | - | theorems about `Subcommands` and `WindowsService` |
| `MC...` | - | constants for TLC |

How state and actions correspond to the code:

* **Client.** `pc[c]` is where the goroutine of connection `c` is. `Enter` is the
  atomic add together with the comparison of its result; the comparison reads
  only a local variable, so nothing can happen in between that matters. `Refuse`,
  `DialFails`, `ProxyEnds` and `Exit` are the ways out, `Exit` being the deferred
  decrement: an addition of `Word - 1`, where `Word` stands for 2^64. `ReportExit`
  is the `select` with a `default`: the send succeeds only if `Serve` is at
  `<-exitCh`. `Close` is six steps; `CloseTick` and `CloseTimeout` are the two
  cases of its `select`. `draining` is a history variable: what `Close` found.
  Whether a connection has a `connRefuseNotify` hook is left open. A name of
  `Conns` is free again once its goroutine has returned, so the model serves
  without end.
* **HealthCheck.** A readiness request takes three steps (started, stopped, the
  counter); any steps of the Client may come between. `StoppedFirst` is the order
  of the two `defer`s in `runSignalWrapper`.
* **ProxyConn.** The i-th byte a peer sends is named i, so lost, repeated or stale
  bytes show. `Read` returns any number of bytes up to the buffer, possibly
  together with `io.EOF`; `Write` may fail after part of the chunk. `once` holds
  the second caller of `sync.Once` back until the first is done.
* **CheckConnections.** `Capacity` is `len(c.mnts)`.
* **Fuse.** A `Lookup` is taking the mutex, making the socket and registering it;
  the accept loop of a socket may fail at any moment from its start on, also
  before its socket is registered. `server` tells the mounted directory (requests
  arrive) from the assignment of `fuseServer` (which `unmountFUSE` looks at).
  `UnmountDone` is go-fuse's wait for the requests in progress, an assumption
  about that library: its loop on Linux waits so, on macOS it may not, and
  `CloseMissesNoSocket` and `CloseReturns` rest on it. A listener that
  nobody closed keeps its path, so that no second socket can be made for its
  instance. Connections are left to module `Client`.
* **SignalWrapper.** `sends[g]` is the error goroutine `g` is blocked on sending.
  `Receive` is the one receive of `main`, in the startup `select` or at the end.
  `Watch` reads the buffered signal or the cancelled context once and never
  again. Leaving `main` ends the process and with it every goroutine.
* **Subcommands.** `started` is the closing of `Check.started`. The loop of `wait`
  is its `select`, its request and its sleep; `timer` is `time.After`. A request
  is one step, the moment the handler looks at the proxy; it may also fail, and
  the answer to `shutdown` may be lost after the handler has run. `op` names the
  operator of a behaviour, so that one specification holds them all.
* **WindowsService.** `svc` is the place in `Execute`. `OfCommand` lets the command
  run once its goroutine is started and stops it with the process.
  `ServiceStop` is `cancel()` at any moment while the status is Running, which is
  also when the command is still at `loadConfig`; `ParentCancel` of
  `SignalWrapper` is its effect.
* **Configuration.** A source maps the options it sets to `<<v>>`, or to
  `<<v, "refused">>` for a value that the flag's `Set` refuses, an error that
  `loadConfig` ignores: the flag does not count as changed, but pflag has stored
  `v`, which is false for a Boolean, 0 for what is no number and the nearest
  integer for a number out of range. The command line itself has no such values,
  since cobra refuses them.
  `FirstSetter` is the first source that sets an option; viper looks at the environment before
  the file. `numbered` reads instances up to the first gap, and `viperInsts` is
  what the loop over the file really sees, since viper asks the environment
  there, too. `ValidGlobal` and `ValidQuery` are `parseConfig`; a query parameter
  maps to the sequence of its values. A string that is only compared with "" is
  a Boolean.
* **Startup.** A path is a sequence of elements; `ports` is the `portConfig`. Each
  instance can fail in `EngineVersion`, at its directory, or in `Listen`, which a
  number that is no port always does. `configureFUSE` has the outcomes of the
  function of that name: an error, or the initial state of module `Fuse`.
  `DialsWithIAM` is the one thing taken from cloudsqlconn: the option of a dial
  goes before the dialer's.

## 3. The runs

All the systems modelled here stop by design (a connection limit, a `Close`, an
exit), so no run checks for deadlock; that something must go on is said by the
liveness properties.

| Run | Instance | Shows |
|---|---|---|
| `ClientHealth` | 2 connections, 2 mounts, limit 1, one readiness probe at a time, symmetry on connections | types, the counter, the limit, no leaks, one error, draining, shutdown, that `Client` implements `Admission`, and that a 200 of `/readiness` is neither premature nor given to a request that came after `Close` began |
| `ClientLive` | 2 connections, 2 mounts, limit 1, connection test, fairness | `Close` returns; accept loops end |
| `ProxyConn` | 3 bytes each way, buffer of 2, fairness | FIFO streams, no loss before EOF, cleanup, termination |
| `CheckSockets` | 3 mounts, fairness | the connection test returns, with every error |
| `Fuse` | 2 concurrent lookups, 2 instances, 2 sockets, fairness | the register of sockets is right whenever the mutex is free; `Close` misses no socket; every `Lookup` is answered; `Close` returns after a successful unmount |
| `Operators` | 2 signals; signals alone, `wait`, `shutdown` with and without `/quitquitquit`, the Windows service; fairness | one outcome of startup, client closed, exit status; a `wait` that exits with zero has seen a proxy that has started; every request to stop ends the process, and so does every `shutdown` that exits with zero and was not dropped; every `wait` ends, every stop of the service ends it after its command |
| `StartupMounts` | up to 3 instances of 17 kinds under 10 sets of flags for addresses; every pair of settings of credentials from three sources, with IAM, impersonation and login token; the refusals; FUSE, a caller's dialer, ports that `Set` refuses and numbered instances | failures undo or skip; mounts match the configuration; no self-made conflict; no credential is ignored; IAM login where it was asked for |

**Bounds.** Two connections against a limit of one let one be admitted while the
other is being refused, and names are used again, so that any number come and
go; two mounts let one loop report
while the other finds `exitCh` deserted, and let one listener be closed while
the other still accepts. `Word = 8` is large enough for the goroutines and
small enough for a counter that is decremented below zero to be seen. Three
bytes through a buffer of two give a full read followed by a short one, which
is when stale bytes could be written. Two signals make the second one meet a
full buffer or a watcher that has gone. Nothing obliges a server that is asked
for to come up or an exporter to fail, so the flags that bring everything in
contain the behaviours of the others, and each scenario of `Operators` leaves out
only servers that its operator does not talk to; `--exit-zero-on-sigterm` is on
in the scenario of `wait`. `shutdown` asks once and `wait` until it is done. Two sockets are either of
two instances or, after a failed unmount, two of the same one, of which the
first loop may still have to delete its entry. Three instances give a failure before,
between and after two mounts, and an explicit port that meets an automatic one. The inputs of `StartupMounts`
are families, each of which varies the options that decide its own question;
two settings are enough for a conflict between two credentials, or between two
sources of one.
What the bounds leave open is closed by the proofs, but for liveness.

**Fairness.** A goroutine that can run does (the Go scheduler). Beyond that:
`Dial` ends within its 30 second context; the timer of `Close` fires; `Accept`
returns once its listener is closed; a `Read` or `Write` returns once its
connection is closed. No peer has to send, read or hang up, no session has to
end, `Accept` need not fail, `NewClient` may wait for the network for ever, and
nobody has to call `Close`. In `Fuse`, whoever waits for `fuseMu` gets it in the
end: a `sync.Mutex` hands itself to a waiter that has starved, which is strong
fairness. In `SignalWrapper` that `Close` returns is assumed;
it is `CloseReturns` of module `Client`. `Execute` of the Windows service runs
when it can, the timer of `wait` fires, and each request of `wait` is answered or
fails: nothing in the code bounds that last one, since `http.Get` has no timeout,
so `WaitEnds` is as good as the network is.

### Where the code and what is said of it differ

These runs are expected to violate their property; the counterexample is the
point.

| Run | Said | Done |
|---|---|---|
| `ClientLostError` | a failed send on `exitCh` means the reader has taken a value (`proxy.go:702`) | an accept loop that fails before `Serve` receives loses its error; if all do, `Serve` waits for ever |
| `HealthOverLimit` | readiness ensures the maximum has not been reached (`healthcheck.go:78`) | the test is `open == maxCount`; while a connection is being refused the count is above it, and the answer is 200 |
| `SignalQuitDropped` | a failed write means the proxy is already exiting (`root.go:1280`) | a request that arrives before `main` receives is dropped, and `quitOnce` drops all later ones |
| `StartupDialOptions` | instance configuration takes precedence (`proxy.go:213`) | a global `--sql-data` or `--private-ip` overrides an instance that says otherwise |
| `WaitPrometheus` | wait needs the health check or Prometheus (`root.go:334`) | `/startup` is served only with the health check; with Prometheus alone `wait` gets 404 until it fails |

Seen while modelling, and readable off the modules without a run of their own:

* `CheckConnections` makes `errCh` for `len(c.mnts)` errors before it replaces
  the list by the FUSE mounts (`proxy.go:628`). With FUSE the capacity is 0, and
  one failing dial would block the call for ever, although `proxy.go:623` says
  that errors are reported. `Serve` runs the test only without FUSE; the
  mutant `CapacityOne` shows what too small a channel does.
* With FUSE, `Close` waits for the accept loops. When the unmount failed, or
  `fuseServer` was not set yet, a `Lookup` may make a socket after `Close` has
  taken its list, and `Close` then waits for a loop that nobody ends
  (`proxy.go:776`). `CloseReturns` of `Fuse` is about the successful unmount.
* A FUSE socket whose `Accept` fails on its own is taken out of `fuseSockets` but
  not closed (`proxy_other.go:138`), so later lookups of its instance fail.
* A FUSE accept loop that fails before `serveFuse` is in its `select` loses its
  error (`proxy_other.go:145`), as `ClientLostError` shows for `Serve`.
* Refused handlers count until their goroutine ends, so a burst can get
  connections refused while fewer than `MaxConnections` are established
  (`proxy.go:816`; `Counted` against `Admitted` in `Client`).
* `Close` can return nil with an accepted connection still open, because its
  goroutine has not counted itself yet (`proxy.go:779`). `CleanCloseNoSession`
  says what does hold: no session to an instance.
* "still open after waiting" can be reported when a tick has cut the wait short
  and a connection came in before its listener closed (`proxy.go:782`).
* The error of `Close` replaces the zero status of `/quitquitquit`, which
  `errors.go:39` calls a guarantee (`root.go:1168`; `ExitStatusEarned`).
* The process can exit before the goroutine that sends STOPPING to systemd has
  run (`root.go:1148`).
* `skip-failed-instance-config` also skips TCP instances (`proxy.go:602`),
  although `proxy.go:283` and the help of the flag (`root.go:607`) restrict it to
  Unix sockets.
* An instance whose engine is unknown draws its port from the counter that starts
  at `--port`, that is at 0 (`proxy.go:535`). After 1434 of them the first SQL Server
  finds its port 1433 taken; `NoConflict` proves that up to 1434 instances in all
  no two counters meet.
* A global `--unix-socket` overrides an instance's `unix-socket`
  (`proxy.go:971`).
* `--token` with `auto-iam-authn` on an instance alone passes the rule that "All
  three are required together" (`root.go:866`), which looks at the global flag
  only: the dialer then logs in with IAM but has no token source for logins.
  `IAMLoginWhereAsked` says where one is there.
* One instance with `auto-iam-authn` turns the dialer's default on
  (`proxy.go:473`), and with it IAM login for every instance that says nothing.
* The flag's help says of an impersonation chain that the "Last value is the
  target account" (`root.go:583`); the code, its comment and the long help take
  the first (`proxy.go:324`).
* The path of the config file is needed before the environment is read, so
  `CSQL_PROXY_CONFIG_FILE` does nothing (`root.go:692`).
* A value from the environment that a flag refuses is accepted in silence and
  hides the file's (`root.go:644`): a port that is out of range is stored as the
  largest integer, and every automatic TCP address then fails in `Listen`.
* A signal during startup makes `main` return while `NewClient` goes on; the client
  it makes is sent to nobody and never closed (`root.go:1139`), so that its Unix
  sockets stay in the file system. `ClientClosedAtExit` is about the client that
  `main` received.
* `WithAutoIP` gets around the exclusion of `--private-ip` and `--auto-ip`, which
  looks at whether the flags were set (`root.go:827`).
* `--quiet` replaces the structured logger that `--structured-logs` has just made
  (`root.go:671`). The check at `root.go:814` cannot be reached: `root.go:798` has
  returned.
* The Windows service reports an error only when it wraps `context.Canceled`
  (`main_windows.go:101`), which none does; a command that failed ends the
  service with 0.
* `wait` may see a 200 of a proxy that is already shutting down, and `shutdown`
  exits with 0 also when its request was dropped (`SignalQuitDropped`), which
  `ShutdownHonoured` excepts.
* `root.go:182` says readiness includes that the proxy can connect to all
  instances; `HandleReadiness` dials nothing.

## 4. The proofs

Every invariant and every action property of the passing runs, and both
refinements, are theorems. The theorems hold for every value of the constants
that the assumptions allow, and TLC evaluates the assumptions on every run:

| Module | Assumptions |
|---|---|
| `Client` | `Conns` is finite, `NumMounts` and `MaxConnections` are natural numbers, the flags are Boolean, a uint64 is larger than the number of goroutines (`Cardinality(Conns) + 1 < Word`) |
| `ProxyConn` | any number of bytes, any buffer of at least one |
| `CheckConnections` | the mounts are finitely many |
| `Fuse` | there is an instance; callers are not called "free" or "loop" |
| `SignalWrapper`, `Subcommands` | any number of signals, any flags, any scenarios |
| `Startup` | `StartupAssumption` and `InputAssumption`: the arguments and the numbered instances are sequences, a port is an integer, a directory is a path, the command line has no refused values, options of `NewCommand` are those modelled |

| Theorem | Property |
|---|---|
| `Inductive` of `ClientProofs` | `IInv` always holds |
| `TypeCorrect`, `Count`, `Limit`, `Leak`, `OneReport`, `Drains` | the invariants `TypeOK`, `CountMatches`, `LimitRespected`, `NoLeak`, `FirstErrorOnly`, `DrainsFirst` |
| `Closed`, `CleanClose` | the action properties `NoAcceptAfterClose`, `CleanCloseNoSession` |
| `Implements` | `Client` implements `Admission` |
| `HealthKeepsClient`, `HealthyClientSafe` of `HealthCheckProofs` | the Client beside its health check is still a Client, and has all the above |
| `NotReady`, `ReadyServing` | `NotReadyOnceClosing`, `ReadyMeansServing` |
| `SessionInvariance` of `ProxyConnProofs` | `SessionInv` always holds |
| `SessionTypeCorrect`, `ReturnsClosed`, `EOFIsLossless`, `CauseReported` | `TypeOK`, `ReturnsAfterClose`, `LosslessEOF`, `ReportsTheCause` |
| `CopyImplementsRelay` | `ProxyConn` implements `Relay` |
| `ErrorsReported`, `SendersRun` of `CheckConnectionsProofs` | `AllErrorsReported`; no goroutine waits for room in `errCh` |
| `FuseInvariance` of `FuseProofs` | `FuseInv` always holds |
| `FuseTypeCorrect`, `RegistryExact`, `CloseComplete` | `TypeOK`, `Registered`, `CloseMissesNoSocket` |
| `SWInvariance` of `SignalWrapperProofs` | `SWInv` always holds |
| `SWTypeCorrect`, `StartupOutcome`, `ExitClosesClient`, `ExitStatus` | `TypeOK`, `OneStartupOutcome`, `ClientClosedAtExit`, `ExitStatusEarned` |
| `OperatedCommand`, `OperatedSafely` of `OperatorsProofs` | the command under its operators is still the command, and has all of these |
| `Truthful`, `StopIsOrderly` | `WaitTruthful`; the safety part of `ServiceStops` |
| `StartupInvariance` of `StartupProofs` | `StartupInv` always holds |
| `FailureClosesAll`, `EveryInstance`, `CredentialUsed`, `IAMWhereAsked` | `NothingLeftListening`, `EveryInstanceMounted`, `CredentialsAsAsked`, `IAMLoginWhereAsked` |
| `NoConflict` | `NoSelfConflict`, for up to 1434 instances with different names |

None of the properties is inductive alone. What each argument rests on:

* **Client.** `LimitRespected` needs `CountMatches`: a handler that passes the
  comparison knows a number, and only if that number is the size of the set of
  counted handlers, a superset of the admitted ones, does it bound them.
  `CountMatches` needs the type of the counter (the wrapping decrement takes one
  away only from a positive counter) and `QueuedOnce` (what the kernel hands to
  `Accept`, or resets when a listener is closed, is not a running handler).
  `NoLeak` needs `ServerWhileProxying`; `FirstErrorOnly` needs `ReportedReturned`;
  `DrainsFirst` needs `DrainingCounted`, so that a zero counter means that nothing
  is left to wait for; the action properties need `ListenersClosed`. `IInv` is the
  conjunction. `EnterStep` and `ExitStep` carry the argument about cardinalities.
* **HealthCheck.** Each step of the composition is a step of the Client or leaves
  it alone, so `HCSpec` implies the Client's `Spec`. The handler of `/readiness`
  looks at three things one after the other; it is right because `started` and
  `stopped` only ever close, and `stopped` closes before `Close` is called.
* **ProxyConn.** `LosslessEOF` says nothing of a loop that is still running, so
  `InStream` adds where it is: what is delivered is the first `taken - n` bytes
  while a chunk of `n` is being written, the first `taken` between two chunks,
  and the front of `buf` is the chunk; that stale bytes follow it does not matter.
  `InCleanup` ties the place of each goroutine to the state of the `Once`, from
  which follow what is closed and whose error is logged. The refinement maps the
  relay's streams to `sent` and `delivered`, and needs `Progress` to see that each
  `Write` extends a first part of the stream by the bytes that come next.
* **CheckConnections.** The errors in the channel and those collected are together
  the failures, and `Len(errCh) + rounds <= Capacity`: the rounds that are left
  are enough to empty the buffer, and there is always room for one more failure.
* **Fuse.** Registry and sockets agree but for the socket that the holder of
  `fuseMu` has made and not stored yet (`LiveEntered`, `HolderMakes`), and only the
  holder can be in between (the mutex part of `TypeOK`). A successful unmount
  leaves no request behind (`ServerOrder`), so the list that `Close` takes is
  final.
* **SignalWrapper.** Everything follows from the place of `main`: before the
  startup `select` there is no client, from there to the deferred `Close` there is
  one (`ClientHeld`), and the startup goroutine gets past its send only when
  `main` has received (`StartupOrder`). `ResultBacked` traces an error that exits
  with zero back through the pending sends to the signal or request behind it.
  The operators' modules add variables and strengthen guards, so `ServiceSpec`
  implies `Spec`.
* **Startup.** `Listening` says that the process listens on the addresses of its
  mounts and no others, which is why closing the mounts closes everything;
  `MountedSoFar` is `EveryInstanceMounted` for the instances before `pos`.
  `Accepts` keeps what `parseConfig` accepted for as long as the dialer uses it:
  of the credentials at most one is set (`AtMostOneSame`), so the `switch` picks
  that one (`SourceIsCredential`). That `pos` reaches the end needs the instances
  to be a sequence, which for numbered ones is `NumberedInstances`: up to the
  first gap there are as many as are counted. `NoConflict` has an invariant of
  its own, `ChosenInv`: every address in use was drawn from one of the four
  counters or is that of an earlier name, and the four have together moved on by
  at most one port per instance. Without `--port` they start 1433, 1873 and 2126 apart, so
  that with more than 1434 instances `NoSelfConflict` can fail; and two instances
  of the same name in one directory have the same socket. Both are hypotheses of
  the theorem, and not assumptions, since `parseConfig` refuses neither.

The invariants above were checked with TLC before they were proved.

Only model-checked: liveness (`CloseReturns`, `AcceptLoopsEnd`, `BothEnd`, `Returns`,
`LookupAnswered`, `ShutdownCompletes`, `ShutdownHonoured`, `WaitEnds`, and that `ServiceStops` ends),
since it rests on fairness and `ENABLED`, which these provers do not handle.

## 5. Not modelled

* `Readdir`, `Readlink` and the README file of the FUSE directory, and the check
  whether the platform supports FUSE: they change no state.
* Options that the command only hands on: user agent, quota project, lazy refresh,
  endpoints, log levels; the syntax of URLs, addresses and query strings, of which
  only acceptance matters.
* The goroutines by which `NewClient` warms the dialer's cache
  (`proxy.go:589`): they fill a cache of the library and change no state here.
* `WithFuseTempDir`, `WithMaxConnections`, `WithUserAgent` and the other options of
  `NewCommand` that set one field; the limit is a constant of `Client`.
* What a token source does once it is made, `gcloud` included: it is called by the
  dialer, not by the proxy.
* `HandleLiveness`, pprof, and `Interrogate` of the Windows service: they change
  no state.
* The generator of the command's reference pages (`cmd/gendocs`).
* Logging and the exporters' own work: output.
* The `cloudsqlconn` dialer and the kernel are environment: their calls succeed
  or fail in every way that the code distinguishes.

## 6. Plan

Done, in this order: `Client` with `Admission` and its proofs; `ProxyConn` with
`Relay`; `CheckConnections`; `HealthCheck`; `SignalWrapper`; `Startup`; `Fuse`;
`Subcommands` and `WindowsService`; `Configuration`.

The safety properties are proved. What may follow:

1. theorems about the operators of `Configuration` on their own: that `loadConfig`
   is stable under what a later source sets, and which contradictions
   `parseConfig` lets through;
2. inductive steps that bring liveness closer: that no reachable state of
   `SignalWrapper` or `Fuse` lets everyone wait for someone else;
3. that the `Client` which `Startup` makes and `SignalWrapper` holds is the one of
   module `Client`, as a composition.
