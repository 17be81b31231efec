# ZeusDNS: a TLA+ development

ZeusDNS is a DNS forwarder for Windows. It listens on 127.0.0.1:53, points every
network interface's DNS setting at itself, forwards queries to DoH and DoT
upstreams, and gives the settings back when it stops. This directory holds TLA+
modules for the parts of the program whose correctness depends on the order of
things, the TLC configurations that check them, and proofs of the most important
results. Paths like `dns/server.go:307` are relative to the repository.

## 1. Inventory

| Part (source) | State it keeps | Operations | What is hard |
|---|---|---|---|
| Takeover and restore (`cmd/runner.go`, `windows/dns.go`) | the interfaces' DNS settings, `prev_dns.json`, port 53 | `Run`, `SaveSystemDNS`, `GetBootstrapDNS`, `SetSystemDNS`, `RestoreSystemDNS` | a crash between any two calls, PowerShell failing on some interfaces, a backup that is believed or not at the next start, a second process |
| DoT client (`dns/dot.go`) | channel of idle connections, semaphore, `closed` | `Exchange`, `getConn`, `putConn`, `WarmPool`, `Close` | goroutines that share connections, a retry, a peer that closes, `Close` against `putConn` |
| Query path (`dns/server.go`) | cache, singleflight table, channels and contexts of races | `ServeDNS`, `resolveRace`, `Stop` | coalesced queries, losers of a race, a stop with queries in flight |
| Rate limiter (`dns/server.go:25-70`) | a counter per address | `Allow` | the collection of idle counters, the ends of windows |
| Answer cache (`dns/cache.go`) | a map and an LRU list | `Get`, `Put` | expiry, eviction at the limit |
| Service handler and SCM wrappers (`service/windows.go`) | the service's state, its registration | `Execute`, `Install`, `Uninstall`, `Start`, `Stop`, `Restart`, `stopAndWait` | `Run` returning by itself, stops that take too long, restarts by the SCM |
| Commands (`cmd/lifecycle.go`, `install.go`, `wizard.go`, `util.go`) | the installed binary, the PATH entry | install, uninstall, start, stop, restart, the wizard | one step of several failing, files in use |
| Self-update (`updater/update.go`) | the binary and its `.old` | `Update` | the two renames, stop and start around them |
| Configure menu (`tui/configure.go`, `cmd/configure.go`) | the list, results, the mark of the delete key | the keys, messages of tests, validations and timers | messages that arrive after the list has changed |
| Host name cache (`dns/resolver_cache.go`) | addresses with an expiry | `lookup` | one lookup for many callers, some of them cancelled |
| DoH client (`dns/doh.go`) | none of its own (`net/http`) | `Exchange` | deadlines of the context, the client, the dial, the lookup |
| Server start and stop (`dns/server.go:128-260`) | the listeners | `Listen`, `Serve`, `PreWarm`, `Stop` | a cancel before the listeners are active, one listener that ends |
| Configuration file (`config/config.go`, `cmd/configure.go`) | the file, a temporary file beside it | `Load`, `Save`, `Validate`, the restart after a save | a crash during `Save`, readers, other writers, a service that starts meanwhile |
| Upstream parsing, signatures, WFP filters, ACLs, PATH, logging, the form | none that lasts, or the operating system's | | pure functions or single API calls |

How they interact: the SCM (or `zeusdns run`) starts `Run`, which captures the
settings, binds the server, flips the settings and serves until its context is
cancelled, then restores. The handler of the service runs `Run` in a goroutine
and translates the SCM's requests into a cancel. The commands talk to the SCM
and to the file system; `uninstall` also calls `RestoreSystemDNS` itself. A
handler goroutine of the server asks the cache, joins or leads a race, and each
race runs an exchange per upstream, a DoT one over the pool.

What makes each part correct, in a sentence: the takeover loses nothing of what the user
had, but where the code itself gives a backup up; a connection has one user and a slot
is held exactly as long as an exchange; an exchange ends soon after its context and does
not fail by another caller's; a client gets a reply to its own question, up to the
letter case of its name; the limiter's collection is invisible; the cache is a map and a
list of the same entries; a service reported as stopped has cleaned up, or tried to; an
install, update or uninstall that succeeds is whole; the configuration file always holds
a list somebody vetted, and what was saved is what the restarted service serves.

## 2. Modules

| Module | Models | Run by |
|---|---|---|
| `Takeover` | `Run` and the four DNS functions, one step for each call the operating system sees | `MCTakeover` |
| `DnsCustody` | the abstract promise: settings go into escrow, are captured only then, come back from it, and the escrow is given up only when all are back or were forfeited | implemented by `Takeover` |
| `DotPool` | the DoT client, one step for each channel operation, flag access, dial, write or read | `MCDotPool` |
| `QueryPath` | `ServeDNS`, singleflight, `resolveRace`, `Stop`, one step for each operation on shared state | `MCQueryPath` |
| `RateLimiter` | `Allow`, under its lock | `MCRateLimiter` |
| `LruCache` | `Get` and `Put`, under their lock | `MCLruCache` |
| `UpstreamExchange` | the deadlines of an exchange over DoT or DoH, and `hostnameCache.lookup` | `MCUpstreamExchange` |
| `ServiceLifecycle` | the handler, the SCM, the commands as sequences of operations, `Update` | `MCServiceLifecycle` |
| `ConfigureMenu` | the menu's `Update`, one step for each message | `Configure` |
| `Configure` | what `cmd/configure.go` and the setup do with its list: `Validate`, `Save`, the restart; composes `ConfigureMenu` with the service that loads the file | `MCConfigure` |
| `TakeoverProofs`, `DotPoolProofs`, `QueryPathProofs`, `UpstreamExchangeProofs`, `RateLimiterProofs`, `LruCacheProofs`, `ServiceLifecycleProofs`, `ConfigureProofs` | the proofs about the module of the same name, those of `Configure` with its menu | TLAPS |

State and actions. `Takeover.file` and `saved` are `prev_dns.json`; "torn" is the file
between its creation and its contents. `pc[p]` names the call process `p` is about to
make: `boot` is `GetBootstrapDNS`, `stat` to `fill` the crash-resume guard and
`SaveSystemDNS`, `listen`, `flip` and `setting` are `Listen` and `SetSystemDNS`,
`cleanup`, `restoring` and `remove` are `RestoreSystemDNS`. `failed` is the list
`$errors` of a script, and `ok` says that `SetSystemDNS` returned nil, which it also
does with a list that does not parse. Two ghosts: `user` is what the user wants, and
`gap` the interfaces of a backup the code gives up with their settings not back, since a
restore could not parse its list of errors (`windows/dns.go:375`, then 383) or since
`os.Stat` of a file that exists failed (`cmd/runner.go:57`). `DnsCustody` calls them
forfeited. In `DotPool`, `pc[w]` walks through `Exchange`; the pool is a set since no
property depends on which idle connection is taken. In `QueryPath`, `flight` is the
table of `singleflight`, `ch[q]` the buffered channel of a race, `racing[q]` its running
exchanges; the cache may forget at any time, which stands for `LruCache`. `Canonical`
makes one name of its spellings, as `cacheKey` does; a message carries the spelling of
the query it was made for. In `ServiceLifecycle`, `Program` gives the operations of each
command and `todo` what is left of the running one; `Fatal` and `Undone` say which
failures end a command and which roll it back; `run` is the goroutine of `Run`, whose
effect on the settings is the single variable `dns` (module `Takeover` has the detail),
which is "left" after a `RestoreSystemDNS` that failed. `watched` says that the entry
has its recovery actions, `Torn` is a binary that was copied in part, `stuck` the
temporary files that could not be closed or removed. In `ConfigureMenu`, `configured` is
the list `Load` has returned, any of `Loadable`: none, or longer than the limit, if the
file or the environment says so; `tests` and `timers` are the messages still to come.
`Configure` adds `at`, the call the command is about to make, and `file`, `temp`,
`status`, `served`; while the menu is open it leaves file and service alone, and where
they have got to by its end is chosen when it closes. `QueryPath.listener` is what
became of each listener, `stop` how far `Stop` has come.

In `UpstreamExchange` every time is a countdown: `ctx`, `outer`, `deadline`,
`dialing`, the lookup's `left` and the entry's `left`. `Tick` lets one unit pass for
all of them, and only when nobody has something to do that takes no time or has come
to its deadline. `ctx[w]` goes on below zero and so says how long an exchange has
outlived its context. A connection comes from the pool or from a dial by choice; who
has which is `DotPool`'s business, which in turn has no clock.

Operators with names such as `StatIgnored` or `GetKeeping`, each before the
definition it resembles, are deliberately wrong variants of that definition. No
specification uses them; they are there to test that a property notices the bug.

## 3. Runs

| Run | Instance | What it shows |
|---|---|---|
| `takeover_faults` | 2 interfaces (DHCP with a lease, static), one process at a time or an uninstall, two crashes, failing PowerShell, file calls, `os.Stat` and `Listen`, lists of errors that do not parse, interfaces that come and go | `NoLoss`: an interface has its user's setting or the backup restores exactly that one, but for those in `gap`; `IInv`, its inductive strengthening; `BootstrapIsUsers`: bootstrap resolvers are servers of the user's, whatever a crash or a half restore left; `CapturedWhileServing`: after a `SetSystemDNS` that reported success all that is in the backup is captured, but what failed in a list that did not parse; `ImplementsCustody`; the types |
| `takeover_restores` | 3 interfaces (the third has DHCP and no lease), two crashes, `Get-NetIPInterface` may be unavailable | `NoResolverLoss`: also without the DHCP mark the servers survive; `StopRestores`: after the last crash a stop or uninstall restores and removes the backup |
| `takeover_second_process` | two processes at once, no other fault | **refuted**: `ServingCaptures` |
| `dotpool_safety` | 3 exchanges, 3 connections, pool and semaphore of 2 | `OneOwner`: a connection has one user; `NoOrphan`: none is forgotten; `OwnAnswer`: nobody gets another query's reply; `OpenBound`: the pool's size bounds what is open; `SlotsFreed`: a slot is held exactly while an exchange is under way |
| `exchange` | 2 callers, 1 or 2 slots, DoT or DoH, to a name or an address, a resolver that answers or does not | `NotPoisoned`: a lookup does not fail by the cancel of the caller that leads it; `PicksUpMove`: a lookup and a TTL after the upstream has moved nobody dials its old address; `ExchangeBounded`: an exchange ends at most one lookup or one dial after its context, over DoH with it |
| `query` | 3 queries (one over UDP, one over TCP that spells the same name with other letter case, one with the DO bit), 2 upstreams of which one is healthy, listeners that start late, break or are stopped | `OwnReply`: a client is answered what it asked, up to the case of the name's letters, and to the letter by a race of its own; `NoFalseServfail`; `RacesAreFlights`: equal questions are raced once at a time; `QueryEnds`, `ServeReturns`: a broken listener or a stop ends the server |
| `query_tcp` | both upstreams healthy | **refuted**: `TcpIsWhole` |
| `ratelimiter` | 2 addresses, limit 2, window 2, time to 6 | `GcTransparent`, `TwiceTheLimit` |
| `lrucache` | 3 keys, room for 2, TTLs below, inside and above the clamp | `MapMatchesList`, `NeverServedLate`, `EvictsLeastRecent` |
| `service` | 4 commands, one crash, every fault: a `RestoreSystemDNS`, a copy, a removal, recovery actions that fail among them | `StoppedMeansRestored`: Stopped is reported with the settings given back, unless `RestoreSystemDNS` failed; `InstallIsComplete`: registered, with a whole binary, the one that was run; `UninstallIsComplete`; `UpdateCleansUp`: no temporary file stays that could be closed and removed; `NeverDeletesRunning`, `UpdateKeepsBinary`, `StopIsCarriedOut`; `CrashIsRepaired`: where the entry has its recovery actions |
| `service_update` | install, then update, no fault | **refuted**: `UpdateRestarts` |
| `menu` | an empty list, one in which somebody has misspelt a resolver, one above the limit (room for 3, 4 loaded), one resolver that validates but is refused later, three rounds of tests or timers; saves that fail or are killed, temporary files that cannot be removed, another process that saves, a service that starts and stops | `FileIsVetted`: the file holds a whole list of resolvers that were configured or have responded; `NoTempLeft`: unless its removal failed; `SavedIsServed`: after a restart that succeeded nothing but the saved list is served; `TestingHasTests`: "testing..." waits for results that will come; the types, among them that only an empty list has no cursor, that none is emptied or filled beyond the limit, and that a second `d` deletes what is selected |

Why the bounds are enough. Three interfaces are the three kinds the restore script
distinguishes; a script that has done one of two is stopped half way, so the run with
all faults takes two, which are restored differently. A crash and the start after it are
what the guard of `cmd/runner.go:57` is about, and the second crash hits that start
itself or its restore. Three exchanges over a pool of two have one that holds, one that
contends and one that returns; two attempts are the code's own bound. In `exchange` the
times 2, 1, 2, 3 and 3 of query, attempt, dial, lookup and TTL stand for the code's 5 s
(6 s over DoH), 3 s, 5 s, 10 s and 5 min: an attempt is shorter than a query, a dial as
long as one, a lookup longer than either. The TTL is that short so that entries expire
within a history; no property rests on its ratio to the rest. Contexts of 2 and 3 end
with the query or after it. Two callers give a leader and one that joins, at any
distance. In `query` two equal keys of different spelling give coalescing and one
differs; its specification `BoundedSpec` takes either all three queries with listeners
that come up in time and do not break, or two with any listeners, and leaves out no step
that fairness asks for. In `ratelimiter` time covers three windows and the collection of
one that is over. Four commands include every pair with an install before it. A resolver
may be added, deleted and moved while one round of tests is followed by others. With
room for three, a list of four is the shortest above the limit, and an empty one can
still be filled.

`CHECK_DEADLOCK FALSE` stands where the system may stop: a client that is closed,
a server that has shut down, commands and time that are used up, a menu that was
left. The takeover runs check for deadlock, since a process can always be started,
and so does `exchange`: time can always pass, or somebody can go on.

Fairness. `Takeover`: the operating system runs every process that was started; nobody
has to start, stop or kill one. `QueryPath`: some goroutine of those that can go on does
(handlers and exchanges, each of which has the deadline of `resolveRace`); `Serve` sees
a loop that ended, and `Stop` goes on once begun; no listener has to start or to break
and no query to come. `ServiceLifecycle`: the running command, the handler, the
goroutine of `Run` and the SCM go on; `Run` is not obliged to fail, nor the service to
be asked to stop. No fairness is assumed of users, upstreams or faults.
`UpstreamExchange` needs none: that an exchange ends is a bound on its time.

Type invariants are among the properties of `takeover_faults` and `menu`; those of the
other modules are parts of the inductive invariants proved below.

## 4. Proofs

Every safety property of the passing runs is also a theorem: for every value of the
constants that satisfies the module's `ASSUME`s, so for any number of interfaces,
processes, callers, connections, clients, upstreams, keys or commands, any timeouts and
bounds as high as one likes. The proofs have one shape: an invariant `IInv` that every
step keeps, with one lemma for each part that a step may disturb, from which the
property follows at once. What is in each `IInv` besides the property, and why:

- `TakeoverProofs`: `Inductive` (`IInv`), `NothingLost` (`NoLoss`), `ServersKept`
  (`NoResolverLoss`), `ServesCaptured` (`CapturedWhileServing`), `BootstrapTrue`
  (`BootstrapIsUsers`), `Typing` (`TypeOK`) and `Implementation` (`ImplementsCustody`);
  `NothingLostAtAll` is `NoLoss` without its exception. `NoLoss` is not inductive: it
  does not say that a process about to write the backup holds faithful entries, nor that
  one about to remove it has restored all but what is forfeited. `IInv` adds that only
  one process is active (`Solo`), that without an entry nothing has been touched and
  with one the entry restores what the user wants (`BackupCovers`), and what each
  process relies on at the step it is at (`StepFacts`). Of an interface that was given
  up one thing is still known, and `BootstrapTrue` rests on it: it resolves with its
  user's servers or with ZeusDNS, and so does whatever a backup names for it.
  `ServesCaptured` has an invariant of its own, `Serving`, since it needs less.
  Implementation maps the escrow to what `prev_dns.json` would restore: `Fill` deposits,
  `SetOne` captures, `RestoreOne` releases, `Remove` discards, `Create` over a backup
  that could not be seen discards too, `EndRestore` and `Stat` forfeit where their
  errors hide, all others stutter; `CustodyKeepsPromise` proves the promise of
  `DnsCustody` from its own steps, and `RunnerKeepsPromise` combines the two.

  The hypotheses are on the set of faults. `Typing` has none. `Single` (no `overlap`: one
  process at a time) is assumed by all others, and run `takeover_second_process` shows
  why; `ServesCaptured` needs no more. `Undisturbed` adds that nobody edits settings while
  a backup dangles (`edit_stale`): such an edit is not in the backup and is lost.
  `Inductive`, `ServersKept` and `BootstrapTrue` need no more. `Annotated` adds for
  `NothingLost`, `Implementation` and `RunnerKeepsPromise` that queries have the DHCP
  annotation (no `dhcpq`): without it a restore makes a static setting of what DHCP gave,
  and only the servers survive. `Attentive` (no `mute` and no `stat`: lists of errors
  parse, and `os.Stat` of a file that exists succeeds) is a hypothesis of
  `NothingLostAtAll` alone: under it `gap` stays empty. The others hold with these two
  faults and say what is lost to them.
- `DotPoolProofs`: `Exclusive` (`OneOwner`), `NothingLeaks` (`NoOrphan`),
  `AnswersMatch` (`OwnAnswer`), `SlotsComeBack` (`SlotsFreed`) and `PoolBoundsOpen`
  (`OpenBound`). `IInv` says what a worker at each step holds and which replies may be
  unread on its connection; `SlotsFreed` is inductive next to it. `OpenBound` rests on
  `Room`, which counts open connections and dials together: a dial finds the pool empty
  at one moment and adds to what is open at a later one. With an empty pool every open
  connection is held by a different holder of a slot.
- `QueryPathProofs`: `OneRace` (`RacesAreFlights`), `RepliesMatch` (`OwnReply`),
  `OneHealthyIsEnough` (`NoFalseServfail`). `IInv` adds
  that a flight is kept under its leader's key (`FlightKeys`), that whoever waits has a
  leader that asks the same and has a result when it is waited for no more (`Leaders`),
  that the channel of a race carries answers to its question, to the letter (`Results`),
  that what is cached, returned by a flight or on its way to a client answers the key it
  was found under (`Stored`, `Pending`), and that
  until `Stop` no healthy upstream fails in a race that goes on (`Losses`).
- `UpstreamExchangeProofs`: `SharedLookupIsSafe` (`NotPoisoned`), `MoveIsPickedUp`
  (`PicksUpMove`), `ExchangeEnds` (`ExchangeBounded`). `IInv` adds that a failed lookup
  is the resolver's fault also in the hands of those it is passed on to (`Blame`,
  `Informed`), for how long an old address can still be passed on by the entry, by a
  lookup under way and by who waits for it (`Fresh`), and how far over its context a
  caller may be at each step (`OnTime`). The module assumes that an attempt is not
  longer than a dial or not longer than a lookup: 3 s against 5 s and 10 s in the code.
- `RateLimiterProofs`: `CollectionIsInvisible` (`GcTransparent`), `LimitHolds`
  (`TwiceTheLimit`). `IInv` says of each counter that it is the one of the limiter that
  never collects, or was collected when that one had expired (`Shadow`), and where the
  requests it let through lie: as many as counted in its window, up to `Limit` in the
  one before, all others more than a window before that (`Layout`).
- `LruCacheProofs`: `MapMatches` (`MapMatchesList`), `ServedInTime` (`NeverServedLate`),
  `EvictionOrder` (`EvictsLeastRecent`). `IInv` says that the list has the map's keys
  without duplicates (`Linked`), in the order of their last use (`Ordered`), and that an
  entry expires when its clamped TTL has passed (`Dated`). The lemmas before it say what
  removing, pushing and popping do to a list place by place.
- `ServiceLifecycleProofs`: `StoppedIsRestored` (`StoppedMeansRestored`),
  `InstallCompletes` (`InstallIsComplete`), `UninstallCompletes` (`UninstallIsComplete`),
  `UpdateLeavesNothing` (`UpdateCleansUp`), `DeletedWhenStopped` (`NeverDeletesRunning`),
  `UpdateIsSafe` (`UpdateKeepsBinary`). `IInv` says where in its program a command is
  (`Place`), what it may rely on there because no other step undoes it (`Reached`: after
  `fill` that the binary is the whole one that was run, after the end of `update` that what is left of its
  temporary files is stuck), and what the reported state means for the goroutine of `Run`
  and the settings (`RunFacts`). `StoppedIsRestored` and `UninstallCompletes` allow for
  a `RestoreSystemDNS` that failed: both its callers go on.
- `ConfigureProofs`: `MenuTyping` (`TypeOK`), `TestsWillEnd` (`TestingHasTests`),
  `VettedFile` (`FileIsVetted`), `SaveCleansUp` (`NoTempLeft`), `RestartServesSaved`
  (`SavedIsServed`). `IInv` has the menu's facts (`MenuFacts`: also what is validated
  has room in the list, and what is in the list was vetted), the temporary file by the
  call that comes next (`TempFacts`), and what the file and the service hold
  (`FileFacts`). `Load` may return any list, none and longer ones than the limit
  included. The setup makes lists of up to two, so the module assumes
  `Limit > 1`; it is 16 in the code.

Only model-checked: `StopRestores`, `QueryEnds`, `ServeReturns`, `StopIsCarriedOut` and
`CrashIsRepaired`, since liveness under fairness is out of the prover's reach; and the
three refuted properties, for which the counterexample of one instance is enough.

## 5. Where the code and what is said of it differ

Each of the first three is shown by a run.

1. `takeover_second_process`: `zeusdns run` beside the service fails to bind port 53,
   and its cleanup (`cmd/runner.go:83`) restores the settings, one interface after the
   other, while the service serves and has reported the takeover; then it removes
   `prev_dns.json`. README.md:5-6: "sets `127.0.0.1` as your system DNS while running".
   The counterexample ends at the first interface that is restored.
2. `query_tcp`: `applyEDNSTruncation` (`dns/server.go:336`) does not look at the
   transport, so the retry over TCP is truncated like the query over UDP.
   `dns/server.go:420-421`: "This signals the client to retry over TCP for the full
   response."
3. `service_update`: `sc stop` does not wait; the `sc start` of
   `updater/update.go:203` may come while the service still stops and is refused,
   its error discarded. `updater/update.go:114-115`: "It stops and restarts the
   service around the swap if it was running."

Others were met while modelling. They follow from the same modules, or are outside
of them, and have no run of their own:

4. A crash between the creation of `prev_dns.json` and its contents
   (`windows/dns.go:177`) leaves a file that every later start keeps and none can
   load: the server serves and never takes the system over.
5. With two processes, the second may save 127.0.0.1 over the first one's backup
   (`cmd/runner.go:57-60`), since the test and the query are two steps.
6. An interface that is gone at stop keeps `prev_dns.json` after a clean stop;
   `cmd/runner.go:55-56` says a clean shutdown deletes it. A crash before the flip
   leaves it with the settings untouched; `cmd/runner.go:51-53` says that its
   existence means the system DNS is 127.0.0.1.
7. `putConn` tests `closed` and then pushes (`dns/dot.go:105-111`): `Close` may drain
   the pool in between, and the connection stays open.
8. The retry of `Exchange` may take a second pooled connection, as stale as the
   first; `dns/dot.go:166-167` says it is made with a fresh one. `dns/dot.go:168-169`
   says the combined budget never exceeds the deadline; the dial and the lookup ignore
   the context, and `ExchangeBounded` is what holds. An attempt's deadline is fixed
   before the dial (line 199), so after a slow one its write fails at once.
9. The limiter's window is fixed, not sliding (`dns/server.go:25`); `TwiceTheLimit` is
   what holds.
10. `Stop` cancels the contexts of races in flight (`dns/server.go:249`), whose
    clients get SERVFAIL; line 235 says it does not cancel in-flight replies. All
    upstreams race (`dns/server.go:360`); README.md:21-22 says the primary is first
    and fallbacks follow.
11. `rollbackInstall` (`cmd/lifecycle.go:60`) removes the binary of a service it
    leaves registered. `stop` (`cmd/lifecycle.go:148`) reports that the settings are
    restored also for a service that was killed. `uninstall` from the installed
    binary cannot delete it (`cmd/lifecycle.go:121`) and reports success. A service
    that has just crashed may be restarted between `stopAndWait` and `Delete`.
12. Update. `EmbeddedMinisignPubkey` is empty (`updater/minisign.go:30`), so that as
    committed no update passes `CheckSignature`. `verifyCandidate`
    (`updater/update.go:378`) wants a checksums asset that
    `.github/workflows/release.yml:81-90` does not publish, and compares the digest
    listed for the zip with that of the program in it (lines 434-453). The version
    compared with the release is that of the program that runs, not of the installed
    one (line 123). After an interruption between the two renames there is only the
    `.old` file, and the next update refuses (line 173). A temporary file whose
    `Close` fails stays (lines 256 and 338, `config/config.go:143`).
13. Configure menu: the result of a test begun before a delete or reorder is shown at
    the resolver that has its index afterwards (`tui/configure.go:81`), although line
    189 clears stale results; and the timer of an earlier first `d` takes back a later
    one (line 100).
14. A listener that has not come to `ActivateAndServe` when `Stop` runs
    (`dns/server.go:181`) is not shut down: it stays bound and serves afterwards.
15. `Validate` "checks the config is usable" (`config/config.go:156`) and accepts
    addresses that `NewServer` refuses (`dns/upstream.go:155`): configure may print
    "service restarted with new upstreams" (`cmd/configure.go:49`) for a service
    whose `Run` ends at once. A service that is about to start is not restarted
    (line 45), though it may have loaded the old list. Two processes that configure
    lose the changes of the one that saves first, and a list given by
    `ZEUSDNS_UPSTREAMS` is written to the file (lines 19-40).
16. The loop over the bootstrap servers (`dns/upstream.go:138`) stops at the first
    one, since dialling UDP does not fail.
17. With `set_system_dns` switched off after a crash, neither the start nor the stop
    restores the settings (`cmd/runner.go:121`).
18. `SetSystemDNS` and `RestoreSystemDNS` look at a script's list of errors only if it
    parses (`windows/dns.go:317`, 375). If it does not, a takeover that missed an
    interface reports success, and a restore that missed one removes `prev_dns.json`
    (line 383): the interface stays at a server that is gone, with nothing to restore it
    from. `RestoreSystemDNS` "returns each interface to its saved DNS servers" (line 327).
    This is fault "mute" and what `gap` and `CapturedWhileServing` except.
19. The crash-resume guard takes every error of `os.Stat` for a missing file
    (`cmd/runner.go:57`): a backup that exists but cannot be seen is overwritten with
    settings that may already be 127.0.0.1. Lines 53-54: "Don't overwrite the backup".
    This is fault "stat".
20. `uninstall` discards the error of `RestoreSystemDNS` (`cmd/lifecycle.go:113`) and
    prints "service uninstalled; system DNS restored" (line 128); `Run` only warns of it
    (`cmd/runner.go:122-123`) and returns nil, so that the service is Stopped as after a
    clean stop. In `ServiceLifecycle` the settings are then "left".
21. A service whose `SetRecoveryActions` fails is registered all the same
    (`service/windows.go:68-70`); `rollbackInstall` does not take it back, and the SCM
    does not restart it after a crash.
22. `copyFile` truncates the installed binary and then copies (`cmd/util.go:122-130`): a
    failure or an interruption in between leaves a part of a program at the path of a
    service that may be registered.
23. Coalesced and cached replies are copies with the Id replaced
    (`dns/server.go:334-337`) and keep the question of the query they were made for; the
    key ignores the case of letters (`dns/cache.go:39`), so a client that mixes it may
    get its name back in another spelling.
24. Menu. A missing file, or a list from it or the environment with more than 16
    resolvers, opens the menu as it is (`cmd/configure.go:19-25`, `config/config.go:72`):
    the list may be above the limit that `tui/configure.go` keeps when it adds. Errors of
    the removals of temporary files are ignored (`config/config.go:135`,
    `updater/update.go:143`, 165): the files stay.

## 6. Not modelled, and why

Parsing (`dns/upstream.go`), the arithmetic of signatures, WFP filters, ACLs, the PATH
value, elevation, logging, the fields of the setup form and the banner: no state of
their own that another step could find in between, or a single call of the operating
system. A manual DNS setting on a DHCP interface is left out of `Takeover`'s initial
states and edits: `windows/dns.go:345-349` documents that it comes back as automatic.
`set_system_dns` is on throughout. Of the configuration only the list of upstreams is
followed. TTLs of served messages are not modelled (a cached message keeps the TTLs it
was stored with). `PreWarm` is `DotPool.WarmOne`; over DoH it is an exchange like any
other.

## 7. Plan

Done: `Takeover` with `DnsCustody`, `DotPool`, `RateLimiter`, `LruCache`, `QueryPath`
with its listeners, `UpstreamExchange`, `ServiceLifecycle` with the whole of `Update`,
`ConfigureMenu` and `Configure`; proofs of all their safety properties.

Next, in this order:

1. The safety half of the liveness properties, as theorems: that a query is never left
   waiting for a race that nobody runs and a stop never for a goroutine that is gone, so
   that only fairness is left to TLC.
2. More abstract specifications implemented by the detailed ones: for `LruCache` an
   unbounded cache that may forget, which `QueryPath` already assumes; for `QueryPath` a
   server that answers each query once.
