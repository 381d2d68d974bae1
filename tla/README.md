# TLA+ verification of ftitos-claude-code

The repository is a harness for Claude Code: hooks that run around every tool
call and every stop, skills and agents (prose), an installer, and one large
program, the *browse daemon* (`skills/browse/src`, TypeScript), which keeps a
Chromium alive, runs commands in it for the operator and for paired agents,
and hosts terminals (PTYs) that run `claude`. Concurrency, failure and ordering
matter in the daemon, in the command line around it, in the stateful hooks and
in the installer; they are what this project models.

Everything is in one directory. A module `X.tla` models a component;
`XProofs.tla` proves theorems about the components of one part; `MCX.tla` and `MCX.cfg` check it, or
several components side by side, with TLC. `PROJECT.json` maps every definition
to the lines it models and lists the runs, the theorems, the hazards and the
plausible mistakes (mutants) that each property catches. Paths below are
relative to `skills/browse/src` unless they begin with `hooks/`, `skills/`,
`lib/` or `scripts/`.

    tlc -workers 2 -config MCCdp.cfg MCCdp.tla      # one run
    tlapm CdpProofs.tla                             # one set of proofs

## 1. Inventory

### Parts, their state and how they interact

| part | state | operations | talks to |
|---|---|---|---|
| command line (`cli.ts`) | lock file, state file | find, start, restart, replace, connect to or stop the daemon; supervise it | daemon over HTTP, file system, processes |
| HTTP server (`server.ts`) | tunnel variables, shutdown flag, timers | routes for commands, pairing, PTYs, tunnel, activity | all others |
| daemon's end (`server.ts`, `browser-manager.ts`) | timers, mode, shutdown in progress | idle and parent timers, signals, crash handlers, shutdown | Chromium, agent, files |
| command pipeline (`handleCommandInternalImpl`) | none of its own; pins the active tab | check, pin, run, restore | tab table, token registry |
| tab table (`browser-manager.ts`) | `pages`, `tabSessions`, `activeTabId`, `nextTabId`, `tabOwnership` | newTab, closeTab, switchTab, close events, releaseClientTabs | Chromium |
| context replacement (`browser-manager.ts`) | context, browser, scale, user agent, mode | saveState, restoreState, recreateContext, setDeviceScaleFactor, handoff | tab table, Chromium |
| per-tab session and page commands (`tab-session.ts`, `write-`, `read-`, `meta-commands.ts`, `snapshot.ts`) | refs, frame, loaded HTML, tracked width, marks on the page | every command that works in a page | Chromium |
| CDP lock (`browser-manager.ts`) | promise chains per tab and one global | acquireTabLock, acquireGlobalCdpLock, release | CDP bridge |
| CDP bridge (`cdp-bridge.ts`) | cache of CDP sessions per page | dispatchCdpCall | CDP lock, Chromium |
| CSS inspector (`cdp-inspector.ts`) | history of style changes | modifyStyle, undoModification, resetModifications | CDP |
| token registry (`token-registry.ts`) | tokens, rate buckets | create, exchange, validate, revoke, checkRate | routes /pair, /connect, /token |
| leases and cookies (`pty-session-lease.ts`, `session-cookie-store.ts`) | maps with expiry and a cap | mint, validate, refresh, revoke, prune | PTY routes, SSE |
| PTY routes (`server.ts`) | calls in flight | /pty-session, reattach, restart, dispose | leases, terminal agent (another process, over HTTP) |
| terminal agent (`terminal-agent.ts`) | attach tokens, session index, session objects, timers | grant, restart, WebSocket open/message/close, spawn, dispose | `claude` processes, extension |
| agent lifecycle (`terminal-agent-control.ts`) | record, port and token files | spawn, watchdog, cleanup | server, command line, agent |
| tunnel (`server.ts`) | four variables, ngrok sessions, listeners | start, probe, close | ngrok, egress ledger |
| egress ledger (`lib/egress-receipt.ts`) | chained lines, lock directory | append, verify | other processes, through files |
| session snapshot, log flush (`session-persist.ts`, `buffers.ts`, `server.ts`) | snapshot file; rings, cursors and log files | persist and restore; push, clear, flush | file system |
| SOCKS bridge, Xvfb (`socks-bridge.ts`, `xvfb.ts`) | connections; display, process record | handshakes and pipes; pick, spawn, clean up | proxy; X server |
| security sidecar (`security-sidecar-client.ts`) | child, pending scans, breaker | scan, events of the child | a child process |
| activity feed (`activity.ts`, `sse-helpers.ts`) | ring, subscribers | emit, replay, follow, clean up | readers |
| cookie picker (`cookie-picker-routes.ts`, `cookie-import-browser.ts`) | imported sites, key cache | import, remove, list | another browser's files and a headless run of it; the context |
| skills (`domain-skills.ts`, `browser-skill*.ts`) | rows of two files; skill directories, tombstones, run tokens | save, use, promote, roll back, remove; stage, commit, run | file system, child processes |
| loops (`hooks/scripts/loop-runner.js`, `ralph-loop.js`) | ledger files, `pending_for_human.md` | one run per Stop event | other sessions, through the files |
| tool gates (`hooks/scripts/`: gateguard, write-shrink-guard, ship-gate, stop-verify) | tracking files, sentinels, git state | decide on one tool call or stop | parallel tool calls, other sessions |
| session notes (`hooks/scripts/`: session-start, session-end, pre-compact) | notes of the day, checkpoints | write at an end, pick at a start | other sessions, through the files |
| installer (`scripts/install-apply.js`, `uninstall.js`) | manifest, installed files, settings | apply, reap, uninstall | user edits, later versions |

### What is hard here

* **Callbacks that interleave at every await.** Bun is single-threaded, but a
  command awaits Chromium in the middle of changing the tab table, page events
  arrive at any time, and several commands are in flight (tab table, page
  commands, CDP bridge, context replacement, tunnel, SOCKS).
* **Several processes and unreliable calls between them.** The server and the
  terminal agent each keep a part of a PTY session; invocations of the command
  line race for one daemon; a sidecar child dies and answers late.
* **Sockets, timers and processes.** A session object of the agent is driven
  by overlapping WebSockets, two kinds of timers and a child process; process
  numbers and displays are used again.
* **Promise chains as a lock**, whose waiters can time out.
* **Long protocols.** Pairing, re-pairing, exchange, revocation and expiry;
  installs of several versions between user edits; style changes and undos.
* **Files shared by processes that may be killed** (ledgers, lock files,
  snapshots, records, session notes, skill directories).

`PROJECT.json` lists the hazards at their lines, with the properties that
cover them.

### What makes each part correct

* CDP lock: conflicting holders never overlap; first come, first served across
  the tiers; no waiter starves.
* CDP bridge: one cached session per page; commands overlap in Chromium only
  behind a caller that gave up; every call ends.
* Terminal agent and PTY routes: a running `claude` always belongs to somebody
  or will be disposed; the index does not leak; a token given to a client
  works; a restart touches one session.
* Token registry, limits and stores: no session or key beyond the operator's
  last grant; one session per client and per key; no needless logout; a bounded
  rate; nothing dead comes back and nothing live goes without a reason.
* Tab table, pipeline and context: table and Chromium agree; ownership follows
  the page; there is a live active tab; a replacement ends, keeps the owners
  and leaves the recorded scale in force.
* Page commands: refs, frame and replayed HTML are those of the page as it is;
  what a command changes for a while is put back.
* Daemon and agent lifecycle: nobody's daemon is killed unasked; a lock is
  returned; idle and orphaned daemons end, handed-off ones do not; owned agents
  die with their daemon and come back while it lives.
* Tunnel, ledger, snapshot, logs, SOCKS, Xvfb: nothing stays open without a
  record; nothing is exposed without a receipt; files can always be read and
  lose nothing that was not lost already; nobody else's process is killed.
* Loops, gates, notes, installer: no task skipped in silence, loops end; no
  edit or push gets past its gate; what a session leaves is what the right one
  finds; no user edit is lost.

## 2. Modules

| module | models | checked in run | proved in |
|---|---|---|---|
| `CdpLockSpec` | what the lock promises: an abstract first-come-first-served lock | `cdp` | `CdpProofs` (implemented) |
| `CdpMutex` | the promise chains of `browser-manager.ts` (1182-1246); implements `CdpLockSpec` | `cdp` | `CdpProofs` |
| `CdpBridge` | `dispatchCdpCall` over the lock; extends `CdpMutex` | `cdp` | `CdpProofs` (safety) |
| `TerminalAgent` | tokens, index, sockets, timers and processes of the agent | `agent` | `AgentProofs` |
| `PtyRoutes` | the server's PTY routes and leases over an unreliable agent; extends `TerminalAgent` | `routes` | `AgentProofs` |
| `TokenRegistry` | the registry and the routes that change it | `tokens` | `AccessProofs` |
| `AccessLimits` | what a grant admits, the rate limiter, cookies and leases | `tokens` | `AccessProofs` |
| `BrowserTabs` | the tab table in headless mode | `tabs` | `ServerProofs` |
| `CommandPipeline` | commands in flight over the tab table; extends `BrowserTabs` | `tabs` | `ServerProofs` |
| `BrowserContext` | the replacement of the context or the browser | `context` | `PageProofs` (safety) |
| `PageCommands`, `PageShots` | what commands do in the pages, and to them for a while | `pages` | `PageProofs` |
| `LoopRunner`, `RalphLoop` | the two loop hooks | `hooks` | `HookProofs` (safety) |
| `ToolGates` | edit guards, ship gate, stop verifier | `hooks` | `HookProofs` |
| `Installer` | install and uninstall | `hooks` | `HookProofs` |
| `SessionNotes` | session notes and checkpoints | `hooks` | `HookProofs` |
| `DaemonStart` | the command line and the start lock | `daemon`, `iron_rule` | `DaemonProofs` |
| `DaemonFiles` | session snapshot and log flush | `daemon` | `DaemonProofs` |
| `Tunnel`, `SocksBridge`, `Xvfb` | resources outside the daemon | `daemon` | `DaemonProofs` |
| `EgressLedger`, `EgressLog` | the ledger of receipts, and the append-only log that it implements | `daemon` | `DaemonProofs` |
| `CookiePicker` | imports of cookies from another browser | `daemon` | `DaemonProofs` |
| `Skills` | notes per site, and browser skills | `daemon` | `AccessProofs` |
| `CssInspector` | style changes and their history | `daemon` | `CdpProofs` |
| `AgentLifecycle`, `DaemonLifecycle` | what keeps agents and daemons alive and ends them | `lifecycle` | `ServerProofs` (safety) |
| `SidecarClient`, `ActivityFeed` | the classifier's client; the event streams | `lifecycle` | `ServerProofs` (safety) |

Components that interact are composed: `CdpBridge` runs over `CdpMutex`,
`PtyRoutes` over `TerminalAgent`, `CommandPipeline` over `BrowserTabs`.
`MCTokenRegistry`, `MCHooks`, `MCPages`, `MCDaemon` and `MCLifecycle` check parts that share no
state side by side: a variable `focus` picks one of them at the start and the
others stay as they begin, so that the state spaces add up and do not multiply.
A part's properties then say nothing in the other parts' behaviours. Each part
has a specification of its own as well (`TunnelSpec`, `PageSpec`, ...), which is
what the theorems are about.

Each part states its properties one by one and then joins those that a run
checks together (`TunnelSafe`, `NotesCorrect`, ...): the joined property is what
the configuration names.

Definitions named `...Without...`, `...Of...`, `...Late`, `...Early`, `Always...`
or the like, where a comment says so, are plausible mistakes in the definition
they stand before; no specification uses them. They document what each property
would catch.

### Correspondence with the code

**CdpMutex.** A call reserves a *slot*. `waitsOn[r]` is what its `tail`
promise collects (`Promise.all` of the last slot of its tab and the last
global slot; for a global call, of all tabs), `released` the slots whose
release function has run, `settled` the slots whose promise
`tail.then(() => next)` has resolved. `Grant` and `Timeout` are the two sides
of `Promise.race`; `Timeout` first runs the release function, as the code does.
A timer cannot fire while a microtask is pending, which is the guard `Quiet`.
`ahead` is a history variable shared with the abstract lock: the conflicting
requests that came first.

**CdpBridge.** `pc` is the await at which a call is; `Enter` is the code from
the grant to the next await (page lookup, session cache, send), `Finally` the
`finally` block reached by every result and throw. `executing` is Chromium's
side: a command goes on after `CDPBridgeTimeout`. A page closes at any moment
and its close hook drops the cached session.

**TerminalAgent.** A *session object* is named by the socket that created it;
`sessionsById` may point to a newer object than the one an old socket is bound
to, which is what makes the close handler delicate. `timer` is the detach
timer whose handle the object keeps, `strays` timers whose handle was
overwritten, `kills` SIGKILL timers under way. `OnClose` is the whole close
handler: token removal, and either disposal (4001, 1000, 4404) or detaching
with a new timer. `Restart` is `/internal/restart`: dispose and unindex.
Closing handlers run as soon as the socket closes.

**PtyRoutes.** A request is named by the attach token it mints. `granting` and
`ending` are calls the agent may still process; the server may give up on one
(`GrantFails`, `EndReturns`) while it is still under way. A lease may expire at
any moment: nothing in the source refreshes one while its terminal is used.
Arithmetic on expiry times is abstracted to that here and modelled in
`AccessLimits`.

**TokenRegistry.** A grant (scopes, domains, rate limit, tab policy) is a set
of capabilities, and `grantReducesAccess` asks whether the new set omits one.
Each route changes the registry in one synchronous stretch, so each is one
action. `allowed` (the operator's last word on a client) and `answers` (what
`/connect` returned per key) are histories.

**BrowserTabs and CommandPipeline.** `page[t]` is Chromium's view of a tab:
`closing` means that `page.close()` was called, or the page closed itself, and
the event is still to come; `CloseResumes` (after the await in `closeTab`) and
`CloseEvent` (the handler) come in either order, which a comment of the code
points out. `call[c]` is where an awaiting call stands; everything a command
does before its first await is one action (`Refused`, `ScopedNewTab`,
`PageCommand`, `CloseTab`, `SwitchTab`, `RootNewTab`, `NoActivePage`), and
`Finish` is the restore of the pinned tab in the `finally` part. The early
returns that do not restore the pin are modelled as they are. Clients other
than root have the own-only policy, the default of `createToken`.

**LoopRunner.** Each run of the hook is a process: read the ledger, validate
for as long as the command takes, perhaps append to `pending_for_human.md`,
then `writeFileSync`, which is two steps (truncate, write). A run may be killed
between any two steps; two writers that both truncated may leave a text that
does not parse (`Torn`), and `readLedger` returns null for it.

**BrowserContext.** `op` is the replacement in progress: which one, where it
stands, which tabs it has saved and which it has still to restore. Every await
of `saveState`, of the swap, of `restoreState` (one per tab) and of the
fallback (`AfterError`, `FallbackOpens`) is a step of its own, and each can
fail. `NewTabAsks` and `NewTabOpens` are the two sides of the await in
`newTab`, so that a tab can arrive in a context that has been replaced. A
context is a number, a page dies with its context, and the old browser of a
handoff closes late (`OldBrowserCloses`). `built` is the scale in force, which after a
handoff is that of the screen (`ScreenScale`). `opener` is a history that a restore
carries from the old id to the new one.

**PageCommands.** A handler is a straight line of awaited page operations, so
`Lines(c)` gives each command as the lines it may follow, a line being a
sequence of steps (look up a ref, use it, go, record, capture, store, enter a
frame, ...), and `Next` interprets the first step of some request. What
decides the properties is *where* a step looks: the tab it took at the start
or the tab that is active by now, the frame or the page, the session it holds
or the one that a recreated context has made since. `over` marks what a
navigation or a frame switch has overtaken.

**PageShots.** `todo[s]` holds the steps that request `s` has still to take;
`PutsOn`/`TakesOff` and `Widens`/`Restores` are the pairs of the code, in its
`finally` blocks or not as the code has them, and `FailsMarking`, `FailsAsListed` and
`FailsResizing` its error paths.

**RalphLoop.** A run reads the ledger (a file that cannot be read is replaced
by a default one), decides through the gates in their order, and writes in two
steps. `reports` counts, per note, the runs that reported it.

**Installer.** `install` is an install in progress, file by file; `Interrupted`
cuts it short between any two steps. `owned` and `settingsOwned` are what the
manifest holds. A registration is a file in a place (event and matcher) and one of
two forms, `$HOME` or a full path, since users rewrite them; a version may move a
hook to another place. A reap skips what it cannot remove (`Reaps(kept)`), an
uninstall stops there (`UninstallStops`). `strays` are the files that no manifest lists.

**ToolGates.** The edit guards run once per tool call, with a step between each
read of a file and the write or unlink that follows it; an unlink of a sentinel
may fail, `standing`. The ship gate looks at the range that it finds (`OutgoingBase`:
upstream, origin branch, local branch, last commit), the push publishes what the
remote lacks; `excuses` names what kept the hook from seeing all of it. The stop
verifier intersects what git reports, uncommitted changes of files that it tracks,
with the transcript of the session.

**SessionNotes.** Session files are kept in the order in which they were written
last, which is all that `findFiles` and the choice at a start look at; a body is
a summary, the placeholder, something else or empty. `lastCompaction` is a
history: the checkpoint that each project wrote last.

**DaemonStart.** `cli[c].at` is the place of an invocation in `ensureServer`,
`startServer`, `sendCommand` and the commands `connect`, `disconnect`, `stop`
and `pair-agent`; `seen` is the state that it read last, which may be stale
by the time it kills or reaps. The lock file is opened and then gets its pid in
a second step; an invocation may die between any two. A restart after a lost
connection keeps the mode of the daemon that was lost (`headed`), one by
`ensureServer` does not.

**DaemonFiles.** Snapshot: `saveState` walks the live tabs one await at a time
(`Sees`), and `Persists` renames the temporary file; `PersistFails` is an error
anywhere on the way, which the callers log and forget. Log flush: an entry is
its number, `flushed` the cursor, and the first append that fails ends the turn.

**Tunnel.** `rq` is where a request for the tunnel stands; the four module
variables are `listener`, `recorded` (two of them) and `active`. Sessions and
listeners that are open outside are sets, so that one that nobody remembers
shows. `crossed` is a history: two requests were changing the tunnel at once.
`unclosed` holds the sessions whose close ngrok rejected.

**SocksBridge.** `Data` is the handler of a piece of the stream: it may end
inside a frame or hold the beginning of the next. Bytes that arrive before the
upstream is open are kept and replayed before the pipes are set up.

**Xvfb.** A process number may be reused by another process, a display by
another X server; `IsOurXvfb` compares pid and start time with the record. The record is
written when the browser is up (`RecordsXvfb`) and goes with the state file
(`Unlinks`); `stray` holds what was lost that way.

**EgressLedger.** The lock is a directory: `mkdir`, read the last line, append,
`rmdir`; a waiter whose budget is spent looks at the age of the directory and
removes it. `Verified` is the prefix that `verifyLedger` accepts; it is what
implements `EgressLog`.

**Skills.** Notes per site: an operation reads the rows, computes the row that
it will append, and appends it later (`AppendRow`); `raced` records that another
row came between. Browser skills: a skill directory is who wrote it and which
files it has; every call of the file system is a step, and a staging may fail
half way (`StageFails`) or resist its removal (`DiscardStaged`).

**CssInspector.** A request inspects, sets and pushes with awaits in between.
`Look(e)` is what an element shows. `evicted`, `spread` and `muddled` record
the ways in which the history is no longer that of the page; what they excuse
is listed in section 6.

**AccessLimits.** A host is the sequence of its labels from the top level down;
a pattern is an apex with or without `*.`. `GivesToken`, `GivesKey` and
`Exchanges` are the routes of `TokenRegistry` seen from one client; `ran` is
a history of the ticks in which a command was let through. A map of the stores
is the set of its entries; ids are counted in the order of minting, which is the
order of the code's `Map`, so that the cap evicts what the code evicts.

**AgentLifecycle.** Agents share three files by name. `RemovesFiles` is the
cleanup of an agent that was told to stop, whenever it gets to it;
`WatchdogTicks` looks at the record only. Time is counted in ticks of the
watchdog.

**DaemonLifecycle.** Two timers, signals and crash handlers lead to `ShutsDown`; its two awaits
(final snapshot, close of Chromium) each race a deadline.

**SidecarClient.** A line read belongs to the child that wrote it, but the
handlers of exits, errors and data act on the *current* child and on one
shared buffer; `torn` says that the buffer ends in a part of a line.

**CookiePicker.** `job[j]` is a request at one of its awaits: the lookup of the
key, the list of processes, the poll of the headless Chrome, the extraction,
the call on the context. `jar` is Chromium's side and `imported` the list the
picker shows; calls take effect there in any order and are answered in the
order in which they did (`answered`). The library clears the cookies of a site
by clearing all and putting back the others, so a change in between may be lost:
such sites are `blurred`, as are those that change between the save and the
restore of a replacement, and the list is claimed to be true of the others.

**ActivityFeed.** Subscribers are told in microtasks, after the event was put
into the ring; a stream that opens replays and then follows.

## 3. Runs

| run | module | bounds | checks | time |
|---|---|---|---|---|
| `cdp` | `MCCdp` | the lock: 4 calls, 2 tabs; the bridge: 3 calls, 2 sessions per page | BridgeSafe, ImplementsLock, EveryCallEnds | 70 s |
| `agent` | `TerminalAgent` | 2 tokens, 1 session id, 3 sockets, 2 processes | AgentSafe, AbandonedPtyDisposed | 110 s |
| `routes` | `MCPtyRoutes` | 3 requests, 2 session ids, 2 sockets, 2 processes | RoutesSafe, RestartIsScoped | 40 s |
| `tokens` | `MCTokenRegistry` | 4 keys, 2 clients, 2 capabilities; see below for the rest | RegistrySafe, NoNeedlessLogout, LimitsHold, StoresCorrect | 80 s |
| `tabs` | `MCCommandPipeline` | 2 commands, 3 tabs, 1 client and root | TabTableSafe, CommandsSafe | 130 s |
| `context` | `BrowserContext` | 1 agent and root, 4 tab ids, 3 contexts | ContextSafe, ReplacementSettles | 120 s |
| `hooks` | `MCHooks` | see below | QueueIsHonest, LoopsEnd, RalphSafe, InstallerCorrect, EditGuardsSafe, ShipGateSafe, StopsBlameRight, NotesCorrect | 180 s |
| `pages` | `MCPages` | 2 tabs, 2 requests, 2 documents per tab, 2 load-htmls; 2 shots, 2 widths | PageStateSafe, ShotsCleanUp | 110 s |
| `daemon` | `MCDaemon` | see below | StartCorrect, FilesSafe, TunnelSafe, SocksSafe, XvfbCorrect, LedgerCorrect, NotesPerSiteSafe, StylesCorrect, SkillFilesCorrect, PickerCorrect | 135 s |
| `lifecycle` | `MCLifecycle` | 3 agents, 2 runs of the daemon; 2 scans, 2 children; 2 streams, 4 events, a ring of 2 | WatchdogSafe, ScansSafe, FeedSafe, DaemonLivesOn, AllIsSettled | 110 s |
| `agent_stale_close` | `TerminalAgent` | 3 tokens, 3 sockets | AttachedIsNotDetached: violated | 1 s |
| `iron_rule` | `MCDaemon` | as `daemon` | IronRule: violated | 25 s |

What the passing runs show, in a line each: the lock excludes, is fair and its
calls end; no terminal is orphaned and no handed token stops working; pairing
never widens a grant nor logs out without need; table, owners and contexts
stay right under overlapping commands and replacements; what the manager
remembers of a page is true of it; the loops, gates, notes and installs hold
under overlap and kills; the parts around the daemon keep their files, locks,
resources and histories; daemons, agents, scans and streams end when they
should. The last two runs show a disagreement each (section 6).

Why the bounds are enough.

* A conflict in the lock needs two calls and a third through which they are
  ordered; the fourth lets two of either tier queue.
* A stale socket needs an old socket, a new one, and a third to see a session
  object replaced in the index. A late answer of the agent needs a request that
  minted, one that replaces it and one that overlaps it.
* A narrowing re-pair needs two setup keys and their two sessions of one
  client; the second client shows that nothing crosses over. Two grants over a
  host and one below it, rates of at most two in windows of two ticks, and maps
  of two out of four entries, so that each map overflows.
* Three tabs give the active tab, the one being closed and the one moved to;
  two commands give every overlap of two, and `ServerProofs` covers any
  number.
* Three contexts are the first, its replacement and the fallback or the second
  replacement; four ids are a tab, one opened late and the ids that two restores
  give.
* `hooks`: two overlapping runs, sessions, editors, worktrees or tool calls
  each. Two tasks of three retries meet a budget of five iterations, so that
  the budget, the end of the queue and the error gate all occur; the ralph
  loop has a budget of three, which the breaker also needs; two versions of
  the repository, of which the second drops a hook and moves another; three
  commits; two days and two compactions with one checkpoint kept; one kill at
  any step.
* `pages`: one tab with two overlapping requests and two load-htmls, so that
  the second may time out after the first was recorded, or two tabs with one
  request while the active tab changes; a page may navigate once by itself,
  and in the second case lose its iframe.
* `daemon`: two invocations (`--force-restart` only with the commands that
  start or stop the daemon), two daemons in a row, one fault and one takeover
  of the lock; two requests over three tunnels, any close of which may be
  rejected; two connections of five bytes,
  so that two frames of the handshake can arrive in one piece or in several; two buffers of
  capacity two and four entries; two daemons on two displays with two process
  numbers; three writers of four lines, one of which may crash; two skill
  operations over four rows and two saved bodies; a history of two of three style
  changes, and two requests for them, which overlap while no more than one change
  has been made (`FewOverlap`); two
  stagings, two tiers and one run; two requests to the picker over two sites.
  Each ring and history overflows.
* `lifecycle`: the guard allows one respawn in two ticks, so that three agents trip
  it; a sidecar that died has a successor; a ring of two loses events that a
  reader still wants.

Bounds that are not in the code are constants, named in the modules as bounds,
with the guard they appear in (`FewOverlap` is one of `MCDaemon`'s own); `Token`, `Ws`, `Pty` and
`Key` are names that are used once each.

`CHECK_DEADLOCK FALSE` appears in every configuration because the systems
rest: all calls may be over, all names used, every timer fired.

Symmetry is used in runs without liveness properties, on sets whose elements no
formula distinguishes.

### Fairness

* `cdp`: promise callbacks (Grant, Settle) run. By the lock itself, a holder
  reaches its `finally`, and nothing is assumed of the timers, so that progress
  comes from the queue and not from giving up. In the bridge, `newCDPSession` settles
  one way or the other (the code sets no bound on it; it is the one assumption
  on Chromium), and the two timers fire. Chromium need never answer a command.
* `agent`: armed timers fire and a process that got SIGKILL dies. Sockets need
  not close, clients need not come back, a process may ignore SIGINT.
* `hooks`: Stop events keep running the loop hooks, validation commands
  terminate and a run that is not killed finishes. Nothing is assumed of the
  other scripts.
* `context`: each await of a replacement settles, one way or the other, and a
  browser that was told to close closes.
* `lifecycle`: the watchdog, the two timers of the daemon, the deadlines, the
  timeouts of scans and the heartbeats fire; a booting agent goes on or dies;
  microtasks run. Chromium, readers, sidecars and users need do nothing.
* `pages` and `daemon` have no liveness properties and assume no fairness.

## 4. Proofs

A theorem holds for every value of the constants under the named assumptions of
the modules. Most of these only say that special values (`NoSlot`, `Browser`,
`None`, `Root`, `NoTab`, `Torn`, `Nobody`, ...) are not ordinary ones and that
bounds are natural numbers. Those that say more:

| assumption | module | why the code has it |
|---|---|---|
| `SessionsBounded` | `CdpBridge` | the model's bound on the CDP sessions opened per page, any number |
| `BytesBounded` | `SocksBridge` | a stream has finitely many bytes |
| `LimitsAssumption` | `LoopRunner` | `MAX_RETRIES` is 3, `MAX_CONSECUTIVE_COMPLETE` is 5: at least 1 and 2 |
| `WidthsExist` | `PageShots` | a page has a width |
| `LedgerBounded` | `EgressLedger` | so has a ledger of lines |
| `FinitelyMany` | `TerminalAgent` | sockets and processes are finite in number |
| hosts are in `Seq(Label)` | `AccessLimits` | a host name is a sequence of labels |
| `RingsHoldSomething` | `DaemonFiles` | the rings hold 50,000 entries (`buffers.ts`) |
| `PidsBounded` | `Xvfb` | process numbers come from a finite range |
| `VersionsShip`, `HooksHavePlaces` | `Installer` | a version of the repository ships files that exist and registers a hook in one place |
| `NobodyIsNoInvocation` | `DaemonStart` | no invocation has the name that stands for nobody |
| `PageAssumption` | `PageCommands` | among others, tabs that move by themselves are tabs |
| `InspectorAssumption` | `CssInspector` | the rule matches elements; `MOD_HISTORY_CAP` is 200: at least 1 |
| `SessionStoresAssumption` | `AccessLimits` | the cap of a map is 10,000: at least 1 |
| `FeedAssumption` | `ActivityFeed` | the ring holds at least one event |
| `GuardFits` | `AgentLifecycle` | the guard's window is not shorter than its number of respawns |
| `WorktreeAssumption` | `SessionNotes` | every worktree belongs to a project |

For an invariant `I` each proof has an `Init` lemma, one lemma per action (or
per group of actions that change the same things), a `Next` lemma that joins
them and one that derives `I`. What each adds to `I`, and why:

**`CdpProofs`.** *The lock* (`TypeCorrect`, `MutualExclusionHolds`,
`ChainsImplementLock`). A slot names only the *last* slot of each chain it joins,
so mutual exclusion is not inductive. The invariant says that every earlier
conflicting request is either named by the slot or is ahead of one that is
(`Chained`), that a resolved slot vouches for everything ahead of it
(`SettledDeep`), that the tails are the last arrivals of their scope
(`TailsInv`), that conflicting requests are ordered (`Ordered`), and that
releases correspond to requests that are over (`ReleasedInv`, `ResolvedInv`).
From it a grant implies that all conflicting predecessors have left, which is
the abstract `Take`; every other action maps to `Arrive`, `Leave` or a stutter.
*The bridge* (`BridgeSafeHolds`, `BridgeImplementsLock`). Every step of the bridge
is a step of the lock or leaves it alone; the place of a call then says whether
it holds the lock, whether it executes and whether it may open a session.
*The CSS inspector* (`StylesCorrectHolds`). The history leads back by way of the
first entry of each element, or of what it shows if it has none (`RewindsTo`); a
request at work agrees with it on the value that it has read, the entry that it
undoes or the entries that a reset has gone through (`Agrees`).

**`AgentProofs`** (`AgentSafeHolds`, `RoutesSafeHolds`). A claude or an index entry
is lost when the last thing that would clean it up goes away. The invariant
says who refers to a session object (`Referenced`), that an object without a
claude has no process (`SpawnedHasProc`), and counts the timers that may be
armed (`Bounded`). Behind the routes, a token that was handed out is one the
agent was told of, with no call under way that ends it. From the same invariant
a restart disposes the named session only (`RestartIsScopedHolds`).

**`AccessProofs`** (`RegistrySafeHolds` and its parts, `NoNeedlessLogoutHolds`,
`LimitsHoldAlways`). The invariant adds `Recorded`, which ties what `/connect`
has answered for a key to the key's spent flag and its issued session.
WithinGrant needs OneSessionPerClient: `createToken` deletes only the first
session it finds, and `/pair` compares with one live session. For the rate, a
bucket's start and count account for every command of the present window, and
those before it are few enough that twice the limit holds in any stretch.
*Stores* (`StoresCorrectHolds`): cookies expire in the order in which they were
minted (`CookiesAge`), so when the cap takes one before its time, it is the
oldest and all others have time as well. *Notes per site*
(`NotesPerSiteSafeHolds`): what an operation has read and will
write back was scanned and, for the global file, active (`GoodRead`); while nothing
raced, its version tops the file's. *Skill directories* (`SkillFilesCorrectHolds`):
an approved staging is whole (`ApprovedIsWhole`) before it is renamed.

**`ServerProofs`** (`TabTableSafeHolds` and its parts, `CommandsSafeHolds`).
Ownership entries outlive their tabs, so OwnerIsOpener rests on ids never
being reused (`FreshIds`); TableMatchesPages rests on `Told`: a tab that a call
is closing has been told to close. The live active tab is stated of quiet
states only; `Calm` says what holds in the middle of a command that nothing
overlaps: which tab is about to be left and what is active meanwhile.
*Sidecar* (`ScansSafeHolds`): ids are never used again, and a line of any child
with the id of a pending scan answers its text (`IdsAreOwn`). *Lifecycles*
(`WatchdogSafeHolds`, `DaemonLivesOnHolds`): the respawns that the guard counts include
all of the recent ones. *Feed* (`FeedSafeHolds`): what a stream was sent and
what is queued for it are consecutive ids from its first one on (`ExactFrom`).

**`HookProofs`.** *Loop runner* (`QueueIsHonestHolds` and its parts). Runs
overwrite each other's ledgers, so the invariant is about every copy that may
still be written: each is `Sound`, accounting for every task before its current
one and claiming no more retries than there were failures. It also shows that
`consecutive_complete` is always 0. *Installer* (`InstallerCorrectHolds`): an
install in progress has backed up what it overwrites and will list what it has
copied or remember it among the strays. *Gates* (`EditGuardsSafeHolds`,
`ShipGateSafeHolds`, `StopsBlameRightHolds`): a tool call that was judged still has the
file's read recorded, and shrinking writes that share no sentinel are counted
against sentinels; an upstream or origin branch is not ahead of the remote, so a base
that the ship gate takes from one leaves out only what the remote has.
*Ralph loop* (`RalphSafeHolds`): every list of hashes,
in the file or in a run, names only notes that as many runs have reported
(`Reported`), and every ledger that ended has its cause (`HasCause`). *Notes*
(`NotesCorrectHolds`): a day, a tree and a project name one file (`SoundNotes`), and the
checkpoints that pruning leaves end with the newest (`KeepsLast`).

**`PageProofs`.** *Pages* (`PageStateSafeHolds`). Refs and replayed HTML are written by a
request after several awaits; `InStep` says what the request agrees with its
tab on until then (`Captured`, `Taken`), as long as nothing has overtaken it.
*Shots* (`ShotsCleanUpHolds`). What is left of a request's line ends with the
step that puts the page back (`Working`); `OneResizes` says whose width the page
has, `HasRemover` who will take each mark off. *Contexts* (`ContextSafeHolds`). Owners
are saved long before tabs are restored under new ids, so the saved ones must have
opened their tabs (`SavedOwners`) and new ids must have no owner (`FreshIds`); the
stage of a replacement tells when the context is open and of which scale
(`StageAgrees`).

**`DaemonProofs`.** *Tunnel* (`TunnelSafeHolds`): the place of the one request that
may change the tunnel says which sessions and listeners it still has to record
or close (`ClosesOne`: a rejected close is remembered among the unclosed).
*SOCKS* (`SocksSafeHolds`): the bytes received, passed on and kept are
consecutive pieces of the stream. *Ledger* (`LedgerCorrectHolds`): the verified
prefix ends where the first line does not follow, and an append after it leaves
it alone; every step is a step of `EgressLog` or a stutter. *Picker*
(`PickerCorrectHolds`): what each answered call did to the jar and has still to do to
the list adds up, site by site. *Files* (`FilesSafeHolds`): once the last snapshot is
written no older one is still to be renamed, and one that fails excuses itself; a
cursor separates what a log has from what its ring may still have.
*Xvfb* (`XvfbCorrectHolds`): a pid with its start
time belongs to one process, ever, so that names of the record and of the strays
stay names of an Xvfb. *Start lock* (`StartCorrectHolds`): what an
invocation has seen of a daemon may be stale, but daemons only age (`Ages`), so
that an outdated one stays outdated and a dead one dead.

Proving changed the model in places where no run had shown anything: two
definitions did not mean what they seemed to, by precedence (in `ToolGates`
and `DaemonStart`, now in parentheses); with one load-html in
the bounds of `pages`, `ReplayIsCurrent` was never asked about a second one
that times out, and did not hold of it (the HTML that stays is now marked as
overtaken, and section 6 reports it); `BeginsCommand` had to say which of a
tab's frames it starts in; and RecoversTheNewest compared the checkpoint with the
greatest number ever written, which is wrong with two projects that compact in
turn, a case beyond the bounds of `hooks` (it now compares with the project's own
last compaction).

### Only model-checked

* Liveness: EveryCallEnds, AbandonedPtyDisposed, ReplacementSettles, LoopsEnd
  and AllIsSettled. The prover handles neither fairness nor ENABLED.
* That the runs' specifications, which check parts side by side, behave as the
  parts' own specifications do: the theorems are about the latter.
* What a theorem says for any bound still has the bound: a behaviour with
  finitely many tokens, children or versions, of any number.

Every safety property of a passing run, invariant or action property, is the
statement of a theorem.

## 5. What the model assumes and leaves out

* Chromium, Playwright, `claude`, git, ngrok, the extension and the clock are
  external: their actions are nondeterministic.
* Close handlers of sockets and pages run once, after the fact they report.
* `newCDPSession` settles; appends to `pending_for_human.md` succeed (the code
  ignores a failure, and a task would then be skipped in silence);
  `SHARED_TASK_NOTES.md` is never read and is left out.
* The tab table is in headless mode; the headed mode appears in
  `BrowserContext`, `DaemonStart`, `DaemonFiles` and `DaemonLifecycle`, where it
  changes what is allowed.
* What a page holds, what a script returns and how output is worded are data;
  `page.setContent` is taken not to be a navigation, and a document holds at
  most one iframe.
* Grants without a session id and `/internal/revoke` (nothing in the
  repository sends either), the replay buffer and keepalives of the agent.
* Hashes of the egress ledger do not collide; a ledger line is written whole.
* The pid of an Xvfb that ends at once is not taken over within the three seconds
  between its spawn and the read of its start time (`xvfb.ts:207`).
* The root commit of a repository holds no flaw; a git command that fails, or a diff of
  more than 16 MB, counts as an empty diff in the ship gate (`ship-gate.js:280-286`) and is
  left out.
* The stop verifier runs at git's top directory in a Python project; a new file that was
  added and deleted again stays among the modified ones.

### Not modelled

`PROJECT.json` lists every part with its reason. In short: decisions on one
payload by patterns on strings (guard hooks, content filters, the plan
checker); parsers and defaults (ports, configuration); formatters and copies
(edit formatting, backups); prose (agents, rules, skills, templates); batch
programs over the repository (CI, vendoring); logs and lookups without state
that anything depends on (diagnostics). In modelled components the notes name
what is left out, such as `tab-each`, `chain`, `watch` and `inbox` among the
commands, `doctor.js` in the installer, the restart of a tunnel after a daemon
restart, the one-time codes of the cookie picker, and, outside `CookiePicker`,
Windows.

## 6. Disagreements between code and documentation

With a run that shows them:

1. `terminal-agent.ts:842`: the close event of an old socket detaches the
   session under the client that re-attached (`agent_stale_close`).
2. `cli.ts:507`: the restart paths that take no lock reap the Chromium of a
   daemon that another invocation has just started (`iron_rule`).

Observed while modelling, without a run of their own:

*Terminals and agents*

* `terminal-agent.ts:489`: a `claude` that exits while nobody is attached is
  never reported and never respawned; the next client attaches to a dead process.
* `terminal-agent.ts:368`: the SIGKILL timer finds `session.proc` already
  null, so that a `claude` that ignores SIGINT lives on; after a respawn in the
  same session object it would hit the new process.
* `pty-session-lease.ts:12-15` calls an attach token good for one attach; the
  upgrade does not consume it (`terminal-agent.ts:639`).
* `close` drops `session.cookie`, the token of the latest attach, where its
  comment (`terminal-agent.ts:812-813`) speaks of the closed socket's own.
* `/pty-restart` promises "zero race window between kill and mint"
  (`server.ts:2051-2053`), but awaits the agent in between (`:2074`): a client
  may attach to the old session id again with an older token.
* "Re-attach only works inside this window" (`server.ts:1950-1951`): the agent
  never asks for the lease, so a token works after its lease is over; and a
  lease that expires ends nothing by itself (`pty-session-lease.ts:19-20`).
* A refreshed lease keeps its place in the map (`pty-session-lease.ts:126-137`), so the cap
  can evict it, just refreshed, while expired ones remain behind it.
* Two agents that boot at once, or files removed during a boot, leave a token
  or port file that names the wrong agent, which nothing repairs; the CLI
  spawns its agent without an owner (`cli.ts:1662-1666`), so that one does
  outlive its daemon.

*Tabs, contexts and pages*

* `server.ts:1070`: a pin that fails lets an own-only command run on the
  active tab; the pinned tab is not restored after a 403, an unknown command or
  a scoped newtab (`server.ts:1085-1107` against `:1295`); overlapping pinned
  commands restore each other's tabs.
* `browser-manager.ts:999`: two overlapping closetabs leave no tab.
* `browser-manager.ts:1540`: a `newTab` that completes while `restoreState`
  runs loses its owner (the comment at 1507 says why the map is cleared).
* `browser-manager.ts:1900`: a handoff that fails after the new browser was
  installed answers that the headless one is still running (comment at 1897).
* `browser-manager.ts:1821-1836`: a handed-off browser is launched without the recorded
  scale, which `getDeviceScaleFactor()` (`:1737`) goes on to report; "live state matches
  tracked state" (comment of `setDeviceScaleFactor`) holds of headless contexts only.
* A `newtab` in flight across `DELETE /token` leaves a tab owned by the revoked
  client; `POST /token` keeps the client's tabs, setup keys and rate bucket.
* `context.on('page')` in `launchHeaded` registers the pages of `newTab` a
  second time; after a handoff there is no such listener.
* `tab-session.ts:4-17` says that per-tab state keeps commands apart; some
  handlers take the active tab again after an await (`meta-commands.ts:1005`,
  `write-commands.ts:446`, `:1158`, `:1184`, `:1329`, `:1361`), and
  `network --capture stop` acts on the active tab.
* Refs survive `load-html`; a `goto` with an invalid URL forgets the loaded HTML.
* A `load-html` that times out although the page took its content
  (`write-commands.ts:178`) leaves the HTML of the one before it to be replayed
  (`tab-session.ts:189-197`).
* The viewport is per page but `currentViewport` is one for all; overlapping
  scoped reads, and overlapping annotations, remove each other's marks;
  annotate rethrows errors that it does not list and leaves its boxes; a shot
  that fails half way leaves the page wide.
* `css`: overlapping changes and undos record and put back each other's values; a reset
  leaves a rule changed for other elements, and after the cap has evicted an
  entry it restores less than the first look; an undo of a rule
  change at the cap keeps the undone entry and evicts the oldest; an undo of an
  older change leaves a later one that is stale; the history is one for all
  tabs and documents.
* `Tracing.start` is browser-scoped "to serialize against other CDP ops"
  (`cdp-allowlist.ts:127`), but `finally` releases the lock when the caller
  times out, while Chromium may still be working (`cdp-bridge.ts:177`).
* "Subsequent imports reuse the cached key" (`cookie-import-browser.ts:117-118`), but
  on macOS and Linux every import asks the password store again, and uses the
  cached key even if the answer differs. A copy of a database that cannot be
  opened leaves its `-wal` and `-shm` copies (`:432-434`).
* Cookies imported while a context is recreated are lost although the picker
  still lists them.

*Daemon, command line and files*

* A lock file that is read before its pid is written counts as stale
  (`cli.ts`, about 617); `pair-agent` may kill a daemon of another invocation;
  the supervisor's respawn always throws (`serverEnv`, declared at
  `cli.ts:1622`, used at 1750).
* "The ONLY path that kills a live daemon is the user explicitly passing
  --force-restart" (`cli.ts:373-375`): `ensureServer` kills one of an older binary
  (`:710`), and `pair-agent` one that it takes for its own.
* "Never silently replace a headed server with a headless one" (`cli.ts:725`): the
  restart of an outdated headed daemon (`:710`), and that of one found dead by
  `ensureServer`, is headless; only the restart after a lost connection keeps the mode.
* A headless daemon whose Chromium crashes exits without flushing, though it prints
  that the logs were flushed (`browser-manager.ts`, about 244).
* `session-persist.ts` says that a final snapshot that takes too long lets the
  previous one stand; the walk goes on and may write fewer tabs. A final snapshot
  that fails is only logged (`server.ts:1694-1698`), and the browser is closed. A snapshot
  that is taken during the restore at start, or during a recreation,
  overwrites a better one.
* `server.ts:465`: a failure after `tunnelActive` was set leaves it set;
  overlapping starts and closes of the tunnel leak a session. So does a close
  that ngrok rejects: `closeTunnel` clears all state "regardless of individual close
  failures" (`:380-383`), and the catch of `startTunnel`, there so as not to "leak an
  active ngrok session" (`:475-480`), swallows the same rejection.
* `bridge.close()` while a connection is being made leaks its upstream.
* Two daemons may pick the same display.
* "So disconnect (or a future daemon launch on this state file) can
  validate-then-cleanup orphans" (`server.ts:3187-3189`): no later launch does;
  `startServer` (`cli.ts:507-511`), `stop` and `connect` unlink the state file, and the
  Xvfb that it names stays. So it does when the daemon is killed before it has written
  the file, which it does only after the launch of the browser (`server.ts:3176-3202`).
  `emergencyCleanup` says that the cleanup must come before the deletion (`:1444-1450`);
  `shutdown` deletes first and leaves the cleanup to the exit handler.
* The reclaim of an old ledger lock is called harmless (`egress-receipt.ts`,
  about 160); it may take a lock whose owner is only slow, and the chain forks.
* The rate limiter lets up to twice its limit through in a sliding second,
  where its hint says "Max N requests/second".
* A lease or cookie at exactly its expiry is valid for its own check and pruned
  by another's.
* Sidecar: the handlers of a child's exit and error act on the current child,
  a torn line is kept across children, a crash loop with time between its
  crashes never opens the breaker (header, 12-13), and a write to a dead
  child's stdin has no error handler.
* Feed: a gap is reported when the cursor is just before the oldest event;
  cursors from before a restart of the daemon are taken for current ones.

*Skills*

* "Tombstones win" (`domain-skills.ts`, `resolveLatest`), but a save after a
  removal starts again at version 1, under the tombstone; and an operation that
  had read before the removal brings the skill back.
* A promotion after a rollback of the global row is ignored; a rollback clears
  flags; concurrent uses lose one.
* A removal and a commit between the spawn of a run and the child's load run another
  skill's script under the first one's trust; `commitSkill` leaves the empty
  `skillify-` directory, and a `stageSkill` that fails half way, or a `discardStaged`
  whose `rmSync` fails (`browser-skill-write.ts:186-190`), leaves the staging as well.

*Hooks and installer*

* Loop runner: the circuit breaker cannot fire, because
  `consecutive_complete` is reset on every completion; EXIT_SIGNAL is set when
  the last task failed three times, although the schema of the loop engine
  speaks of a last validation that passes; a kill while the ledger is being
  written stops the loop for good, although pattern 7 of
  `skills/loop-engine/SKILL.md` calls a kill always safe.
* `ralph-loop.js:133` speaks of the last three notes that are not empty, the
  code counts empty ones; the goal is never compared (172), so that a ledger
  left with EXIT_SIGNAL ends every later goal at once; `error_count` is never
  incremented.
* `ship-gate.js:304` also tries the local `main` and `master`: on a first push of
  main the base is the pushed branch itself, and a feature branch of an unpushed local
  main leaves main's commits out, so that the flaw of the comment at 283-295 ("the
  push publishes ALL of it", "checking 1 commit out of 41") is back. An audit that cannot
  run finds nothing.
* "That sentinel is consumed once" (`write-shrink-guard.js:98`): two Writes that overlap
  may both use it, and one whose `unlinkSync` fails (`:85`) stands for every later Write.
* `stop-verify.js` calls itself a "deterministic verification chain" (header), but
  `git diff --name-only HEAD` (`hooks/scripts/lib/utils.js:304-328`) names neither new files
  that were not added nor committed failures; a session with no others is not verified.
* `stop-verify.js`: ruff runs over the whole tree, although the comment at about
  125 speaks of the session's own files.
* `pre-compact.js` marks whoever's session file is the latest; a mark after
  `## Current State` is dropped at the next end; a file of the day that was
  emptied is never written again.
* `pre-edit-backup.js` names two backups of one second alike.
* Installer: a stale file that cannot be removed is forgotten by the next manifest
  (`install-apply.js:332-337`), which is to hold "everything the installer OWNS"
  (`:344-347`); a hook that a version moves to another event or matcher stays
  registered in the old place as well (`:166-168`); `mergeHooks` adds the whole matcher
  entry; uninstall removes `settings.json` as a whole when it owns it, with hooks that the user added;
  `TIER.md` is not updated when it is stale.

## 7. Plan

1. *Done.* The core: lock, bridge, terminal agent, PTY routes, token registry,
   tab table and pipeline, loop runner, with proofs for four of them.
2. *Done.* Context replacement; page commands and shots; the hooks and the
   installer; the command line and the start lock; snapshots, logs, tunnel,
   SOCKS, Xvfb and ledger; notes and browser skills; styles; limits and stores;
   the lifecycles of agents and daemons; sidecar and feed.
3. *Done.* Proofs of every safety property that a run checks, of the refinement of
   the lock by its promise chains and by the bridge, and of the receipt log by
   the ledger.
4. Larger instances of `context` (two agents) and of `tabs` (two agents) where
   time allows, and the composition of `TokenRegistry` with the pipeline, so that
   a revoked client owns nothing once its commands are over.
