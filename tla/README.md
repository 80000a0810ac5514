# Omarkey in TLA+

Specifications, model-checking configurations and machine-checked proofs for
Omarkey: `omarkeyd`, the daemon that keeps a KeePass database open in memory,
and the shell picker that talks to it. Source paths are relative to `src/`;
`daemon/src/vault.rs` is written `vault.rs`, and so on.

## 1. The system

| part | source | state | operations |
|---|---|---|---|
| vault manager | `vault.rs` | active index; `Locked`, `Unlocked(entries)`, `Unlocking` | `switch_to`, `unlock`, `lock_now`, lookups |
| connections | `ipc.rs` | one task per connection: the request it serves, whether it subscribed | read a line, dispatch, write the response; forward events |
| idle lock | `security.rs` | `ActivityClock`, an interval | `touch`, tick, lock |
| logind lock | `security.rs` | two signal streams | `Lock`, `PrepareForSleep` |
| main | `main.rs` | listener, shutdown signals | spawn the tasks, accept, last lock, remove the socket |
| clipboard | `actions.rs` | a generation counter, one wipe task per copy | `copy`, wipe |
| typing | `actions.rs` | none | `wtype` per token |
| pinentry | `security.rs` | a child process per prompt | Assuan dialogue |
| start-up | `security.rs`, `main.rs` | the socket file | preflight, reclaim, bind, remove |
| event stream | `main.rs`, `ipc.rs` | broadcast channel of 64 | `emit`, `recv`, lag |
| shell client | `OmarkeyClient.qml` | `locked`, `activeVault`, pending callbacks | send, handle line, handle event, reconnect |
| picker | `Menu.qml` | rows, filter, screen | open, refresh, activate, unlock |
| search, sequences, TOTP | `vault.rs` | none | `fuzzy_score`, `resolve_type_sequence`, `totp_meta` |
| configuration | `config.rs` | none | parse, defaults, unique names |
| file watch | `vault.rs` | `dirty`, a channel of 8 | watch, debounce |
| kdbx loading | `vault.rs` | none | `open_kdbx`, flatten |
| CLI | `bin/omarkey.rs` | none | one request, one answer |

**How they interact.** All tasks share one `tokio::sync::Mutex<VaultManager>`.
Connections take it for every operation but `subscribe` and refused requests;
the idle task, the logind task and main take it to lock. `unlock` keeps it while
pinentry is on the screen. `copy` and `type` clone a secret under the mutex,
give it back, and hand the clone to `wl-copy` or `wtype`. Every change of the
lock state or of the active database emits an event, fanned out to subscribers;
the shell client folds events and responses into its own copy of the state.
Activity is an atomic that requests set and the idle task reads without the mutex.

**What is hard.** A critical section with an unbounded await in it; a decision
(idle time, generation, clipboard content) taken before an await and acted on
after it; wipe tasks that outlive the operation that made them; signals and
shutdown behind the same FIFO as requests; a state (`Unlocking`) that is wrong
if any error path forgets it; lock and switch that must be announced in order.
`PROJECT.json` lists these hazards at their lines with the properties aimed at them.

**What makes each part correct.** Vault manager: entries in memory are those of
the active database; a failed unlock ends locked; every change is announced.
Connections and tasks: the daemon behaves as one atomic vault; nobody starves;
lock signals and shutdown get through. Idle lock: neither late by an interval nor
early. Clipboard: a promised wipe happens and clears only what was written.
Start-up: at most one daemon owns the path. Client: its state agrees with the
daemon's once everything in flight is handled. Picker: no rows of a locked vault.
Algorithms: agree with a reference definition.

## 2. Modules

| module | what it is |
|---|---|
| `VaultManager` | the manager's operations as state functions on a record |
| `Daemon` | the tasks around the mutex; EXTENDS `VaultManager` |
| `VaultService` | the abstract service: no mutex, no tasks, no clock, no `Unlocking` |
| `Clipboard` | copies, generations, wipe tasks and the user |
| `Socket` | daemons on one socket path: start-up, crash, restart, exit; the client that dials |
| `EventStream` | one subscribed connection: receiver with lag, requests, lines, the rest of the world; EXTENDS `VaultManager` |
| `Picker` | the QML client and the picker at the other end of it; EXTENDS `EventStream` |
| `Search` | `list`: scores, subsequences, order |
| `Entries` | from a KeePass entry to what `copy` and `type` hand out |
| `Kdbx` | which credentials an unlock uses, how a file fails to open, the walk of its groups |
| `Config` | both shapes of the configuration, derived names, what is refused |
| `Pinentry` | the Assuan dialogue as a fold over lines |
| `Command` | the `omarkey` command and its exit status |
| `Algorithms` | one call of one of the six pure modules per behaviour; EXTENDS them all |
| `MCDaemon`, `MCClipboard`, `MCSocket`, `MCPicker`, `MCAlgorithms` | instances for TLC |
| `DaemonProofs` | inductive invariant and theorems about `Daemon`, the idle bound among them |
| `RefinementProofs` | `Daemon` implements `VaultService`; EXTENDS `DaemonProofs` |
| `ClipboardProofs`, `SocketProofs`, `PickerProofs` | theorems about those modules; the last is about `EventStream`, too |
| `SearchProofs` | lemmas about `Search`, and about minima, folds and iteration |
| `KdbxProofs` | the walk over the groups of a database; EXTENDS `SearchProofs` |
| `AlgorithmsProofs` | theorems about the pure functions; EXTENDS `KdbxProofs` |

### VaultManager

A manager is `[active, state, loaded, seen]`. `active` and `state` are the two
fields of `VaultManager`; `loaded` says whose entries the `UnlockedVault` holds.
`seen` is not in the code: it is what `_handleEvent` of `OmarkeyClient.qml` makes
of all events emitted so far, so that "every change is announced" becomes an
invariant. `LockNow`, `SwitchTo`, `StartUnlocking` and `EndUnlocking` are
`lock_now`, `switch_to` and the two halves of `VaultState::unlock`; `Lookup` is
`unlocked()` followed by `find()`. A database is a set of uuids; a name outside
`Vaults` is one that `vault_index` rejects.

### Daemon

| model | code |
|---|---|
| `queue` | the tokio mutex: owner first, then waiters in FIFO order (tokio's documented fairness; external) |
| `phase[c]` | `reading` at `next_line`; `waiting` at `lock().await`; `prompt` inside `do_unlock`; `acting` in `wl-copy`/`wtype`; `answering` before the write |
| `held[c]` | the clone that `copy`/`type` took out of the critical section |
| `age`, `due`, `tickIn` | time since `touch`, elapsed interval ticks, time to the next one |
| `AnswerAtOnce`, `AskForVault` | `handle_line` up to the first await, `touch` included |
| `Hello` ... `CopyOrType`, `Unlock*` | the arms of `dispatch`: guard, effect and release in one action, because nothing awaits in between |
| `UnlockPrompt`, `PromptReturns` | an unlock before and after pinentry, the mutex kept |
| `IdleTick`, `IdleLock` | the two awaits of `idle_lock_task`: the idle time is read in the first, used in the second |
| `SignalArrives`, `TakeSignal`, `SignalLock` | D-Bus delivery, `select!`, the lock |
| `ShutdownSignal`, `ShutdownLock`, `Exit` | the end of `main`; connections go on until `Exit` |

A response is its code, what it says of the lock state, and the vault it names.
`malformed` stands for requests `dispatch` refuses before the mutex (unknown op,
missing argument, unknown field), `garbage` for a line that is not JSON, which is
refused before `touch`. A connection that ends and a new one accepted in its place
are the same slot: `serve_connection` notices a closed socket only between
requests, and a task that waits for the mutex is not cancelled. Loading a database
is one of its outcomes: open, wrong key, other error, or a failed prompt.

Time is discrete. `Elapse` waits while the daemon itself can step (its steps take
no time next to a 10 s interval) but not for a prompt, a client, or a helper
program: those take as long as they like.

Kept out of the model: the panic of a task, and allocation or socket failures,
which end a connection.

### VaultService

`active`, `open` and one call per connection, with the database a fetched secret came from. Requests take effect in one step
between call and answer; an unlock may switch first and open or fail later; the
vault may close at any time. `Daemon!ImplementsService` is
`Daemon => VaultService` with `open <- mgr.loaded`, `from <- held` and phases renamed: the
mutex, the clock, the tasks and `Unlocking` cannot be seen through the protocol.
Answers are part of the mapped state, so the refinement also checks each code
(`not-found` against `locked` against `unsupported`, what `unlock` returns after
a switch) at the instant it is computed.

### Clipboard

A copy is `writing` (wl-copy runs), `written`, then takes its generation in
`Schedule`; its wipe task is `sleeping`, `pasting`, `clearing`, and ends
`cleared`, `ended` (superseded, or the clipboard holds something else) or
`gaveup` (a helper failed). Every await on a program is a step boundary.
`clip.writer` is a history variable: which copy put the value there, 0 for the
user. wl-copy may fail before or after it took the clipboard over. The sleep has
no length: a wake at any time covers every `clearAfterMs` but 0, which is
`wipe = FALSE`.

### Socket

`pc[p]` follows `main` of one process through `preflight_runtime_dir`,
`reclaim_stale_socket` (look, dial, remove), `UnixListener::bind` (which is
`bind()` and then `listen()`, with an instant between them in which the file
exists and nobody answers), `lock_down_socket`, the accept loop, and the removal of the
path at the end. Each system call is a step. `file` is the socket the path leads to: a process, `Stale`,
or nothing. A crash is possible anywhere and leaves the file behind; `faults` counts
crashes and failing start-ups. The systemd unit is one of the
processes and is started again after a failure (`Restart=on-failure`). `client` is the
process the shell client is connected to.

### EventStream and Picker

| model | code |
|---|---|
| `recv` | the broadcast receiver: `Cap` events, the oldest overwritten when it is full |
| `inbox`, `outbox` | the two directions of the socket; one line more than `OutCap` may be half-written, and the task waits for it |
| `Serve...`, `Forward` | the branches of `select!` in `serve_connection` |
| `prompt` | who holds the mutex across pinentry: this connection or another |
| `Others...` | what idle and logind tasks, other connections and the command do to the vault |
| `FileChanges`, `Debounce` | the file watch: a change seen, a tick of its interval |
| `DaemonEnds`, `DaemonStarts` | a crash or an exit; lines already delivered can still be read |
| `view` | `client.locked`, `client.activeVault` |
| `picker` | `root.opened`, and whose rows the model holds |
| `HandleResponse` | `_handleLine`: the callback first, then the state the response carries |
| `HandleNotice` | `_handleEvent`, then the handlers `Menu.qml` attaches |
| `Open` ... `Activate` | keys and the query timer |

Qt runs one handler at a time, so a line read or a key pressed is one action
with all that its callbacks do. In this module the mutex is abstracted to
"somebody has a prompt open or it is free": `Daemon` covers the queueing, and
`Daemon!ObserverAgrees` that the events emitted are the right ones. That `Others...` is all that the rest can do to the
vault is `Daemon!VaultSteps`: a step of it is one of these actions, or up to three in a row where a request
switches before it unlocks or brings its own password.

Two history variables are no part of the code. `told` says whether an event about the
state was overwritten before it was forwarded (`less`) and whether the whole
state has been stated again since (`again`); `since` whether, over the present
connection, rows were listed and the picker was opened. The properties need them to say exactly
when the shell may be wrong.

### The pure modules

A function of the code is an operator; an `Option` is a set of at most one
value. `Algorithms` picks a function and its arguments in `Init`, and one step
returns the result: a property compares it with a reference in the module's last section that
is defined another way (for example `Wanted`, an
existential over embeddings, against the scoring arithmetic and iterators of
`fuzzy_score`).

* `Search`: a text is a sequence of ASCII codes, so a byte offset is a position. `is_subsequence`
  is the nested iterator it is in the code. The sort is stable, and an entry stands at the place
  given by the number of those before it. Entries carry tags, which the code does not search.
* `Entries`: a KeePass entry is a function from keys to values;
  `ConvertEntry`, the aliases, `Entry::secret`, `resolve_type_sequence`, and `type_tokens` with a
  `wtype` that is missing or fails at its n-th call. The reference (`KeyFor`, `Available`, `FieldText`, `Means`)
  is about the KeePass entry, before any conversion: which of its values a name or a token stands for. That the clock cannot be
  read, which makes `generate_current` fail, is left out.
* `Kdbx`: `do_unlock` takes the password of the request or asks pinentry, the key file of the
  request or the configured one; `open_kdbx` maps errors; `WalkNode` recurses
  over the nodes as `walk_node` does, as a recursive function of a node that carries the group path
  on. `Nodes` are all groups and entries there are, `Height` says that trees are finite: a child is lower than
  its group. A group path is the sequence of the names on it, where the code joins them with slashes: a group whose own
  name has a slash in it is not told apart from two groups there. The reference goes level by level: a *way* is a
  sequence of child numbers from the root, the ways of one length are extended by one child, and an entry belongs at
  the place that the number of earlier ways (in the order of a reader) gives it.
* `Config`: a file is its shape and its tables; names are trimmed, derived from the
  file stem, or `vault`; tildes, absolute paths, duplicates, the idle limit.
* `Pinentry`: after the greeting four commands are sent, each after the answer to the one
  before; the dialogue is a fold over the lines pinentry writes.
* `Command`: which arguments send a request, and the exit status for what comes back: a sequence of *pieces*
  (an object up to its last brace, that brace, another JSON value, a blank, the end of a line) that stops anywhere, with the end
  of the connection or with a read that fails, after 300 s or a reset. `ReadLine` takes the first line of it, `Parses` says whether that is one
  value. The reference, `ToldOk`, is about what the daemon wrote: an object that says ok, whole, alone on the first line.

## 3. Runs

| run | question | result |
|---|---|---|
| `daemon` | every operation, all signals, shutdown, in every order: are mutex, `Unlocking`, events and memory coherent, is `busy` never said, and is it the abstract service? | holds, 691 288 states |
| `daemon_idle` | clock on, limit 2, interval 2, inline unlock allowed: is an open vault locked in time, and does everything keep its type? | holds, 73 428 states |
| `daemon_live` | fair tasks, prompts, signals, shutdown: do signals lock, are requests served, does shutdown end? | holds, 24 304 states |
| `clipboard` | three copies one after the other, the user, failing helpers, exit: is every promised wipe alive and in the end done? | holds, 58 246 states |
| `socket` | three daemons, two faults, starts that do not overlap: is a serving daemon reachable, does nobody take the path from it, is a failed unit replaced, does the client end up with the daemon that stays? | holds, 2 330 states |
| `picker` | responses, events, lag, reconnects, keys, in every order: does the shell show what the daemon holds once all is handled? | holds, 1 158 728 states |
| `algorithms` | every argument of a bounded size: do the pure functions agree with their references? | holds, 836 358 states |
| `idle_early` | does the idle task close a vault only when it is idle? | **violated** |
| `use_answer` | does `use` say `locked: true` only when it is so? | **violated** |
| `clip_left` | is the wipe done with two connections copying at once? | **violated** |
| `clip_clobber` | does a wipe clear only what the copy wrote? | **violated** |
| `two_daemons` | does a start-up remove only a socket nobody listens on? | **violated** |

### Properties that hold

* `PromptOwnsUnlocking`: `Unlocking` is visible exactly while the owner of the
  mutex has a prompt open. `QueueIsWaiters`: no guard is leaked, doubled, or used by
  a task that left. `ObserverAgrees`: a subscriber that handled every event knows
  the lock state and the active database. `LoadedIsActive`: the entries in memory
  are those of the active database. `NeverBusy`: no answer says `busy`, although
  `vault.rs:182` has a check for it and `PROTOCOL.md:59` documents it, because the
  mutex is kept across the prompt and a second unlock waits. `VaultSteps`: while a prompt is
  open only its return changes the vault; otherwise a step locks, switches, or unlocks what is active.
  `ImplementsService`: the refinement above.
* `IdleBound`: an open vault has been touched less than limit + interval ago.
  `SignalsLock`, `RequestsServed`, `ShutdownCompletes`: liveness.
* `SecretHasWiper`: a secret on the clipboard whose wipe was promised has a live
  wipe task that the generation check cannot stop. `OneWipeLeft`: generations
  are unique and never ahead of the counter. `EventuallyWiped`: the promise itself.
* `ServerReachable`: a daemon that serves owns the path, so there is no second one
  and no exit of an older daemon takes the path from it. `RemovesOnlyDead`: a step that removes the
  path finds a dead socket there, or its own. `FailedUnitReplaced`: the unit that
  failed comes back, or another serves. `ClientFollows`: with a daemon that stays,
  the client ends up connected to it.
* `ClientAgrees`: once everything in flight is handled, the client's copy is the
  daemon's state, unless an event was lost and nothing has restated the state since.
  `RowsMatch`: rows listed over this connection are those of the open database.
  `PickerFills`: a picker opened over a live connection to an open vault has
  rows; this is what the re-check in `Menu.qml` is for, whose callback still sees
  `client.locked` from before its own response.
* `ListIsSearch`: `list` returns the entries with the query in one of the four fields it searches, none twice, and leaves one out only
  at the limit; it may list an entry with the query in a tag, but need not. `PrefixOnTop`: a title that begins with
  the query is never outranked or cut off. `CopyFindsField`: a name reaches the field it stands
  for and no other. `TypedIsPrefix`: what has been typed is a beginning of
  the sequence, in the values the KeePass entry has, or nothing where a token does not resolve; a name with capitals may be
  read as it is or in lower case. `EntriesPlaced`: loading keeps every
  entry once, in the order of the file, under the names of the groups it is in. `OpensWithItsKey`: the right credentials from the right place open a
  database and nothing else does, and `auth-failed` is said exactly when everything could be read and the credentials do not fit; which
  code another failure has is left open. `ConfigUnambiguous`: an accepted file has
  no two databases of one name. `PinIsLastData`: the password is the data of the answer to
  `GETPIN`. `ZeroMeansDone`: exit status 0 is help, or a whole response that says ok on the first line the daemon wrote,
  and neither one that is cut nor one that comes later.

### Properties that fail

Each is stated by a line of the repository:

* `IdleLockOnlyWhenIdle`. A prompt is open; the limit passes; the idle task reads
  the idle time and queues for the mutex; the prompt succeeds and touches the
  clock; the mutex goes to the idle task, which locks the vault just opened.
  (`security.rs:129`, against `config.rs:25`.)
* `UseAnswersTruthful`. Open `work`, then `use work`: `switch_to` returns early,
  the response says `locked: true`. (`ipc.rs:240`, against `PROTOCOL.md:123-124`.)
* `EventuallyWiped` with two connections. Copy 1 writes, copy 2 writes, copy 2
  takes generation 1, copy 1 takes generation 2: copy 2's wipe is superseded,
  copy 1's finds a foreign value. (`actions.rs:47`, against `README.md:3-5`.)
* `WipesOnlyOwnValue`. The user copies between `wl-paste` and `wl-copy --clear`.
  (`actions.rs:65-67`, against the comment above it.)
* `RemovesOnlyDead` when starts overlap. Two daemons find the same dead socket; the first removes it,
  binds and listens; the second removes the new one. (`security.rs:59`, against
  `main.rs:59-60`.) This needs two starts within microseconds.

Five more differences between text and code were met while translating and have no run of their own. The properties
that hold do not take the side of the code in them: each names the two readings in its comment and allows both.

* `list` does not look at tags (`vault.rs:613-618`), where `PROTOCOL.md:166` has the query match them. Exception in
  `ListIsSearch`; databases of the run have entries with tags.
* `type` looks custom fields up by the lower-case form of their name (`vault.rs:308,320`), so that
  one with a capital letter is not found, or another is, although `PROTOCOL.md:226-227` lets field names expand to
  their value. Exception in `TypedIsPrefix`; the run has an entry with fields `API` and `api` and the token `API`.
* A database or a key file that cannot be opened is answered `vault-error` (`vault.rs:531-540`), where
  `PROTOCOL.md:56-57` gives filesystem failures to `io-error`. Left open in `OpensWithItsKey`; the run has both cases.
* `busy` is never said (`vault.rs:182`, `PROTOCOL.md:59`): `NeverBusy`, above, says so.
* A missing `wtype` is answered `io-error` (`ipc.rs:332`) where `PROTOCOL.md:232` says `unsupported`. No property is about
  that code.

### Bounds

`MCDaemon` has two connections, two databases and one unknown name. Two
connections are what it takes for one to hold the prompt while another waits; the
idle task, the logind task and main are three more contenders for the mutex. Two
databases distinguish a switch from a no-op. Clients are symmetric in the runs
without liveness properties.
`AgeCap`: ages beyond limit + interval behave alike. `MaxDue = 1`:
ticks that pile up while the idle task waits are served at once when it is free
(tokio's burst behaviour), and each re-reads the clock, so a second one finds what the
first found. One undelivered signal of each kind: a second one is taken in the
same state. `IdleLimit = TickPeriod = 2` is the smallest pair in which a tick
falls strictly inside and at the end of the limit.

`MaxCopies = 3` with one connection gives a newest, a superseded and an expired
wipe together; two secrets and a user text that coincides with one of them make
value comparison differ from ownership.

`Socket`: the unit and two others, `MaxFaults = 2`: a crash of one daemon and of the one that
replaces it. `StartsOverlap = FALSE` in `socket` is an assumption about the
environment, not the code: two starts do not fall into the same few system calls.
`two_daemons` drops it.

`Picker`: `Cap = 2` stands for 64: events are lost when two are waiting. Two events are what
one switch of an open vault emits, so one operation can fill the receiver and the next
overwrites half of a pair. `OutCap = 0` leaves one line half-written: back-pressure begins at
once. `InCap` and `MaxPending` bound requests in flight; with two of them a
response and an older event, or two responses, cross. Two databases tell the rows of
one from the rows of the other; what they contain plays no part.

`Algorithms`: texts of up to three letters over `A`, `a`, `b`, databases of up to two
entries (`MaxEntries`), limits 0, 1 and 2 (`Limits`), one user name of 45 letters whose match is so late that its score is below
zero, and tags that hold the query where no other field does; databases of up to two roots out of entries, groups of entries and groups of groups
(`Nodes`, with `MaxHeight` = 2, so that the walk goes through three levels), with empty and unnamed groups;
configurations of up to three tables; dialogues of up to six lines (`MaxLines`), two
more than the commands; sequences of up to three tokens (`MaxTokens`); responses of up to four pieces (`MaxPieces`), enough for a whole object with something before
or after it, or a line before it. The theorems of
`AlgorithmsProofs` do without these bounds.

### Fairness

Each task of the daemon is polled when it is ready, so its own
steps are weakly fair; `select!` picks among ready streams at random, so a
signal that stays pending is strongly fair. Nothing is assumed of clients, users,
pinentry, helper programs or signals. `RequestsServed` and `ShutdownCompletes`
have the premise `PromptsEnd` (infinitely often no prompt is open) because the
code has no timeout on pinentry. `SignalsLock` needs no such premise: while a
prompt is open nothing is unlocked. In `Clipboard`, wipe tasks are weakly fair:
timers fire, and the programs they start end, well or badly. In `Socket`, a process that runs goes on,
systemd restarts the unit (strongly fair, because a start of
another daemon may be in the way each time), and the timer of the client fires. `Picker`
states no liveness: its properties are about states in which nothing is in flight.

`CHECK_DEADLOCK` is off in `Algorithms` only, where a call returns and that is the
end of the behaviour. `Daemon` has an explicit step for the process that has exited.

### Mutants

Each property of a passing run is broken by a seeded fault written
next to the definition it replaces and marked "Seeded fault": a forgotten reset, a guard
kept across an await, an unannounced switch, a barging mutex, a swapped
`PrepareForSleep`, an old value taken from `fetch_add`, a dial whose answer is
ignored, rows that survive a lock, a cut line taken for a response, data kept from one pinentry command to the next.

## 4. Proofs

Every theorem holds for all values of the constants that the named assumptions of the
modules allow; the assumptions are about constants only (the default database is
configured, task names are not connection names, the interval is positive, and the like).

**`DaemonProofs`.** `TypeCorrect`, `QueueCorrect`, `PromptCorrect`,
`ObserverCorrect`, `LoadedCorrect`: `Spec` implies always `TypeOK`,
`QueueIsWaiters`, `PromptOwnsUnlocking`, `ObserverAgrees`, `LoadedIsActive`. The invariant is

    IInv == TypeOK /\ Coherent(mgr) /\ QueueIsWaiters /\ PromptOwnsUnlocking

None of its parts is inductive alone. That `Unlocking` has an owner needs the
queue to hold each task once, or else releasing the mutex would leave the owner in
it; that the queue holds exactly the waiters needs the phases; and that a lookup,
switch or lock finds the manager in a state other than `Unlocking` needs the
prompt to be the mutex's owner. `Coherent`, a predicate on the manager record alone,
says that `loaded` and `seen` follow from `state` and `active`; each operation of
`VaultManager` has a lemma that it preserves it. Two lemmas on sequences say what
appending to and taking the head off an injective queue do to its range; the steps
of `Daemon` reduce to "joins", "leaves" or "does not touch the queue". Then
there is one step per action. `BusyUnreachable` (`NeverBusy`) is inductive next to
`IInv`: the owner of the mutex that is not in a prompt never finds `Unlocking`.
`VaultChangesCorrect` (`VaultSteps`) goes through the actions that change the vault: whoever owns the mutex finds
no prompt open, unless the prompt is its own.

`IdleCorrect` (`IdleBound`) comes from

    SinceTick

which says of an open vault that its age is below limit + interval, and, when no tick is
left to serve, below the limit plus the time since the last tick: that tick found the limit not yet
reached. Time does not get past a tick that is due or an idle task that waits: it passes over a queue only
if the owner of the mutex is in a prompt, and then the state is `Unlocking`, not open (`IInv`).

**`ClipboardProofs`.** `ClipboardTypeCorrect` and `WipesUnique` (`OneWipeLeft`), for any number of connections
and copies, from `TypeOK`, the progress of each copy, and the fact
that the counter is the number of copies that took a generation. `WiperCorrect`
(`SecretHasWiper`) says that no promised wipe is called off in a behaviour in which copies do not overlap
(`[]OneAtATime`), whatever the number of connections; `WiperOfOne` is the case of the run, one connection.
The premise is needed: `clip_left` shows what two overlapping copies do. The invariant adds `Owned`, that
between the write of a copy and its schedule nobody but the user has written. What remains without the premise
is `NewestCorrect`: the copy that took its generation last keeps its wipe as long as its secret is on the
clipboard; so a secret is left behind only by a copy that was overtaken between its write and its schedule.

**`SocketProofs`.** `SocketTypeCorrect`, and, under `StartsOverlap = FALSE`, `ServerCorrect`
(`ServerReachable`) and `RemovalCorrect` (`RemovesOnlyDead`), for any number of daemons and faults. The invariant
`SInv` adds that at most one daemon is starting, that a daemon from `bound` to `stopping`
owns the file, that while one is about to remove or bind no other holds the path, and that a daemon that has removed
the path does not get it back (`LeaversGone`). `RemovalCorrect` is a statement about
steps: its proof goes through the actions that change `file` and shows from `SInv` whose socket it was.

**`RefinementProofs`.** `Refinement`: `Spec` implies `ImplementsService`, that is, the initial
state is one of `VaultService` and every step of `Daemon` is a step of `VaultService` or leaves its
variables alone. The steps that stutter are those of the clock, the signals and the queue. Besides `IInv` the
steps need that a secret is held only while `wl-copy` or `wtype` runs, and that the prompt on the screen
is for the database that is active when it returns; the second holds because the
mutex is kept: nobody can switch under an open prompt.

**`PickerProofs`.** `PickerTypeCorrect`, `CopyCorrect` (`ClientAgrees`), `RowsCorrect` (`RowsMatch`) and
`FillCorrect` (`PickerFills`), for any set of databases and any size of the receiver, the socket and
the backlog, so for the 64 events of the code as well as for the 2 of the run. All four follow from
one inductive invariant, `PInv` (`LinesFollow`). Lines reach the client through `recv` and then `outbox`, and
a fold of both into `view` would be the obvious invariant; it would need induction over sequences. `PInv`
says instead

    a line that states what is no longer true is followed by one that states what is

with one instance for the lock state and one for the active database (`EventsAgree`, `LinesAgree`,
`ViewAgrees`), one for listings of a database that is no longer open, which an event that clears the rows
follows (`RowsAgree`), and one for whatever says "locked" of an open database (`UnlockFollows`). When nothing
is underway there is nothing left that could follow, and the properties remain. The statements about
`outbox` have premises on `told`: an event that was overwritten may have been the one that follows, until an answer
or an event names state and database again. `HelloFirst` says that the answer to `hello` comes before the one
to `status`; without it `PickerFills` is not inductive, because the callback of `status` looks at the copy
from before its own response. `Filling` lists what may still be underway when a picker has no rows yet.

**`SearchProofs`.** Lemmas about `list` for texts of any length and databases of any size. Three
facts are proved here once and used throughout: a set of numbers that contains 0 and with each number the next
contains all (from the pigeonhole theorem of the library); a function that is defined by iterating another exists,
so that what `FoldLeft` or a recursive function chooses satisfies its equation; and a set of numbers has a minimum. On
these rest: what stands at the place given by the number of those before it is in order (`Ranked`); the greedy search of
`is_subsequence` finds an embedding whenever there is one (`SubsequenceIs`); `TextLess` is a strict total order; and
a field scores 125 exactly if it is the title and begins with the query, and never more (`FieldScoreIs`).

**`KdbxProofs`.** The walk of a database of any size and depth, up to `LoadsEnumerates` and `LoadedInPlace`. There are four
stages. `WalkExists` and `WalkIs`: the recursive function `WalkNode` satisfies its equation. TLA+ defines a recursive function
by a choice, so that a function with the equation has to be exhibited first; it is the one that the values for lower
nodes determine, by an induction over `Height`. `Flattening`: what `FlattenSeq` of a sequence of sequences has at a
place is the element of one of them, and the order of places is that of pairs. `LoadsEnumerates`: by the same induction, what the
walk returns for a node is an *enumeration* (`Enumerates`) of the ways to the entries below it, each once and in the order of
ways. `LevelUp`, `WaysByLevel`, `WaysAreChains`: the reference goes breadth first, the walk depth first, and both reach
the same ways, those of which each part leads from a group to one of its children. An enumeration in order then has each way at the place
that the number of earlier ones gives it (`EnumeratedByRank`, by the pigeonhole theorem of the library).

**`AlgorithmsProofs`.** `Returns` says that a result is what the function gives for the call. Every other theorem
states a property of `Algorithms` for arguments of any size:
`ListCorrect` (`ListIsSearch`) and `TopCorrect` (`PrefixOnTop`) from `SearchProofs`;
`CopyFieldCorrect` (`CopyFindsField`) and `TypeSequenceCorrect` (`TypedIsPrefix`), which share `CopyIs`: what is taken from the
converted entry under a name is the text the KeePass entry has for it. The latter goes by an invariant of the fold
over tokens, that each token resolved so far is what it means;
`PinCorrect` (`PinIsLastData`), by an invariant of the fold over pinentry's lines, which says of the lines heard so far
how many of them are an `OK` and which data came last since the last `OK`;
`LoadCorrect` (`EntriesPlaced`) from `KdbxProofs`;
`UnlockCorrect` (`OpensWithItsKey`); `CommandCorrect` (`ZeroMeansDone`), by `ReadLineIs`, that the line read is what
was written up to the first end of a line, and `FirstLineDecides`, that it parses and says ok exactly if the pieces written are those of `ToldOk`; and
`AcceptedUnambiguous`, on the operator `FromToml`, with `ConfigCorrect` (`ConfigUnambiguous`).
The assumptions used are the types of what is given from outside: texts of ASCII codes, tables of the shape
the `toml` crate returns, a lower-case function that is idempotent and makes no delay out of another name, trees of a finite height.

**Only model-checked**: the liveness properties (`SignalsLock`, `RequestsServed`, `ShutdownCompletes`,
`EventuallyWiped`, `FailedUnitReplaced`, `ClientFollows`). Fairness is stated with ENABLED, which the prover does not
handle. Every invariant and every action property of a passing run, and the refinement, has its theorem.

## 5. Not modelled

* TOTP arithmetic (`totp_meta`): what periods can occur is decided in the totp crate.
* Decryption, XML, TOML and JSON syntax, and process spawning: other people's crates.
* Wording, icons, entry counts, selection, filter text, layout.
* Which changes inotify reports, and that a watch on a file is lost when an editor replaces
  the file: the kernel's and the notify crate's. What follows a seen change is in `EventStream`.
* The look-up of the logind session path, D-Bus itself.
* Configuration options that are only passed through (sizes, titles, time-outs);
  that the command does not read the daemon's `socket_path` but dials `$OMARKEY_SOCKET` or the default.
* A failing `accept()` that is tried again at once: no state depends on it.
* The panic of a task, allocation failures; the sample vault program and the manifest.

## 6. Plan

1. `Socket` and `Daemon` composed: what a client that reconnects during a shutdown sees of an unlock.
2. A refinement between `Daemon` and `EventStream`, beyond the vault (`VaultSteps`): the events in the receiver of
   a connection and the answers of that connection, too.
3. A TOTP module if the crate's checks on the period become part of the repository.
