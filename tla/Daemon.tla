------------------------------- MODULE Daemon -------------------------------
(***************************************************************************)
(* omarkeyd as a set of tasks around one tokio Mutex (daemon/src/main.rs,  *)
(* ipc.rs, security.rs): one task per connection, the idle-lock task, the  *)
(* logind task and main, which locks the vault on shutdown.                *)
(*                                                                         *)
(* Every critical section runs to its end without an await, with one       *)
(* exception: an unlock keeps the mutex while pinentry is on the screen.   *)
(* A critical section is therefore one action, and the prompt is a phase   *)
(* of its own.  A clone of a secret that `copy' or `type' takes out of the *)
(* critical section is tracked in `held'.                                  *)
(***************************************************************************)
EXTENDS VaultManager, Naturals, Sequences, Functions

CONSTANTS
    Clients,        \* the accepted connections
    Workload,       \* the requests the connections send
    AllowInline,    \* config.allow_inline_unlock
    IdleLimit,      \* config.idle_lock in time units; 0 disables it
    BusSignals,     \* the logind signals that may arrive; none without logind
    TickPeriod,     \* the interval of idle_lock_task in time units
    MaxDue          \* bound: interval ticks that may pile up unserved

Requests ==
         [op : {"garbage", "malformed", "subscribe", "hello", "status",
                "vaults", "lock", "list"}]
    \cup [op : {"use"}, vault : Names]
    \cup [op : {"unlock"}, vault : Names \cup {None}, inline : BOOLEAN]
    \cup [op : {"get"}, uuid : Uuids, secret : BOOLEAN]
    \cup [op : {"copy", "type", "totp"}, uuid : Uuids]

Tasks == {"idle", "logind", "main"}

Signals == {"session-lock", "sleep", "resume"}

ASSUME DaemonAssumption ==
    /\ Clients \cap Tasks = {}
    /\ Workload \subseteq Requests
    /\ AllowInline \in BOOLEAN
    /\ BusSignals \subseteq Signals
    /\ IdleLimit \in Nat
    /\ TickPeriod \in Nat \ {0}
    /\ MaxDue \in Nat \ {0}

VARIABLES
    mgr,        \* the VaultManager behind the mutex
    queue,      \* the mutex: its owner, then the waiters in FIFO order
    phase,      \* phase[c]: where the task of connection c is
    req,        \* req[c]: the request it is serving
    answer,     \* answer[c]: the response it is about to write
    held,       \* held[c]: the database a secret clone of c was taken from
    age,        \* time since the last ActivityClock::touch
    due,        \* interval ticks that have elapsed and were not consumed
    tickIn,     \* time until the next interval tick
    idle,       \* the idle task: in tick().await or in lock().await
    logind,     \* the logind task: in select! or in lock().await
    signals,    \* D-Bus signals delivered and not yet taken
    main        \* the main task

vars == <<mgr, queue, phase, req, answer, held, age, due, tickIn, idle, logind,
          signals, main>>

connVars  == <<phase, req, answer, held>>
clockVars == <<age, due, tickIn>>
taskVars  == <<idle, logind, signals, main>>

-----------------------------------------------------------------------------
(* Values.                                                                 *)

Phases  == {"reading", "waiting", "prompt", "acting", "answering"}
Codes   == {"ok", "locked", "auth-failed", "not-found", "bad-request",
            "vault-error", "io-error", "unsupported", "busy"}

NoRequest == [op |-> "none"]

(* A response: its code, what it says of the lock state, the vault it names. *)
Answers == [code : Codes, says : {"locked", "unlocked", "unsaid"},
            vault : Vaults \cup {None}]

Plain(code)    == [code |-> code, says |-> "unsaid", vault |-> None]
Says(locked)   == IF locked THEN "locked" ELSE "unlocked"
StateAnswer(m) == [code |-> "ok", says |-> Says(IsLocked(m)), vault |-> m.active]
NoAnswer       == Plain("ok")

AgeCap == IdleLimit + TickPeriod    \* bound: larger ages behave the same

Procs == Clients \cup Tasks

TypeOK ==
    /\ mgr \in Managers
    /\ queue \in Seq(Procs)
    /\ phase \in [Clients -> Phases]
    /\ req \in [Clients -> Requests \cup {NoRequest}]
    /\ answer \in [Clients -> Answers]
    /\ held \in [Clients -> Vaults \cup {None}]
    /\ age \in 0..AgeCap
    /\ due \in 0..MaxDue
    /\ tickIn \in 1..TickPeriod
    /\ idle \in {"ticking", "waiting"}
    /\ logind \in {"selecting", "waiting"}
    /\ signals \subseteq BusSignals
    /\ main \in {"serving", "waiting", "leaving", "exited"}

(* tokio::time::interval fires at once the first time. *)
Init ==
    /\ mgr = NewManager
    /\ queue = << >>
    /\ phase = [c \in Clients |-> "reading"]
    /\ req = [c \in Clients |-> NoRequest]
    /\ answer = [c \in Clients |-> NoAnswer]
    /\ held = [c \in Clients |-> None]
    /\ age = 0
    /\ due = 1
    /\ tickIn = TickPeriod
    /\ idle = "ticking"
    /\ logind = "selecting"
    /\ signals = {}
    /\ main = "serving"

Running == main # "exited"

-----------------------------------------------------------------------------
(* The mutex: tokio hands a released lock to the first waiter.             *)

(* Seeded fault: a mutex that serves the last to come first. *)
Enqueue_Barging(p) ==
    queue' = IF queue = << >> THEN <<p>> ELSE <<Head(queue), p>> \o Tail(queue)

Enqueue(p) == queue' = Append(queue, p)
Owns(p)    == queue # << >> /\ Head(queue) = p
Release    == queue' = Tail(queue)

-----------------------------------------------------------------------------
(* Connections: reading a request, up to the first await.                  *)

(* The requests dispatch answers without asking for the mutex. *)
Immediate(r) ==
    \/ r.op \in {"garbage", "malformed", "subscribe"}
    \/ r.op = "unlock" /\ r.inline /\ ~AllowInline

ImmediateAnswer(r) ==
    CASE r.op = "subscribe" -> Plain("ok")
      [] r.op = "unlock"    -> Plain("unsupported")
      [] OTHER              -> Plain("bad-request")

(* A line that is not JSON is refused before it counts as activity. *)
Touches(r) == r.op # "garbage"

AnswerAtOnce(c, r) ==
    /\ Running /\ phase[c] = "reading" /\ Immediate(r)
    /\ phase' = [phase EXCEPT ![c] = "answering"]
    /\ req' = [req EXCEPT ![c] = r]
    /\ answer' = [answer EXCEPT ![c] = ImmediateAnswer(r)]
    /\ age' = IF Touches(r) THEN 0 ELSE age
    /\ UNCHANGED <<mgr, queue, held, due, tickIn, taskVars>>

AskForVault(c, r) ==
    /\ Running /\ phase[c] = "reading" /\ ~Immediate(r)
    /\ phase' = [phase EXCEPT ![c] = "waiting"]
    /\ req' = [req EXCEPT ![c] = r]
    /\ Enqueue(c)
    /\ age' = 0
    /\ UNCHANGED <<mgr, answer, held, due, tickIn, taskVars>>

(* The response is on the socket; the task reads the next line. *)
Respond(c) ==
    /\ Running /\ phase[c] = "answering"
    /\ phase' = [phase EXCEPT ![c] = "reading"]
    /\ req' = [req EXCEPT ![c] = NoRequest]
    /\ answer' = [answer EXCEPT ![c] = NoAnswer]
    /\ UNCHANGED <<mgr, queue, held, clockVars, taskVars>>

-----------------------------------------------------------------------------
(* Connections: the operations, run by the owner of the mutex.             *)

Serving(c, op) == Running /\ phase[c] = "waiting" /\ Owns(c) /\ req[c].op = op

(* Leave the critical section with m in the manager and a as response. *)
Finish(c, m, a) ==
    /\ mgr' = m
    /\ Release
    /\ phase' = [phase EXCEPT ![c] = "answering"]
    /\ answer' = [answer EXCEPT ![c] = a]
    /\ UNCHANGED <<req, held, due, tickIn, taskVars>>

Hello(c)  == Serving(c, "hello")  /\ Finish(c, mgr, StateAnswer(mgr)) /\ UNCHANGED age
Status(c) == Serving(c, "status") /\ Finish(c, mgr, StateAnswer(mgr)) /\ UNCHANGED age
Overview(c) == Serving(c, "vaults") /\ Finish(c, mgr, Plain("ok")) /\ UNCHANGED age

Use(c) ==
    /\ Serving(c, "use")
    /\ IF req[c].vault \in Vaults
       THEN Finish(c, SwitchTo(mgr, req[c].vault),
                   [code |-> "ok", says |-> "locked", vault |-> req[c].vault])
       ELSE Finish(c, mgr, Plain("not-found"))
    /\ UNCHANGED age

Lock(c) ==
    /\ Serving(c, "lock")
    /\ Finish(c, LockNow(mgr), [code |-> "ok", says |-> "locked", vault |-> None])
    /\ UNCHANGED age

List(c) ==
    /\ Serving(c, "list")
    /\ Finish(c, mgr, Plain(IF IsLocked(mgr) THEN "locked" ELSE "ok"))
    /\ UNCHANGED age

(* get refuses the secret fields of an entry it has found. *)
Get(c) ==
    /\ Serving(c, "get")
    /\ LET code == Lookup(mgr, req[c].uuid)
       IN  Finish(c, mgr,
                  Plain(IF code = "ok" /\ req[c].secret THEN "unsupported" ELSE code))
    /\ UNCHANGED age

Totp(c) ==
    /\ Serving(c, "totp")
    /\ Finish(c, mgr, Plain(Lookup(mgr, req[c].uuid)))
    /\ UNCHANGED age

(* Seeded fault: the guard lives on while wl-copy or wtype runs. *)
TakeSecret_KeepsGuard(c) ==
    /\ mgr' = mgr
    /\ UNCHANGED queue
    /\ phase' = [phase EXCEPT ![c] = "acting"]
    /\ held' = [held EXCEPT ![c] = mgr.loaded]
    /\ UNCHANGED <<req, answer, due, tickIn, taskVars>>

(* copy and type clone the secret and give the mutex back before they act. *)
TakeSecret(c) ==
    /\ mgr' = mgr
    /\ Release
    /\ phase' = [phase EXCEPT ![c] = "acting"]
    /\ held' = [held EXCEPT ![c] = mgr.loaded]
    /\ UNCHANGED <<req, answer, due, tickIn, taskVars>>

(* The entry is there: its field may be missing or fail to come out, and a *)
(* type sequence may be malformed, which is seen only now.                 *)
Refusals(op) ==
    {"not-found", "vault-error"} \cup (IF op = "type" THEN {"bad-request"} ELSE {})

CopyOrType(c) ==
    /\ Serving(c, "copy") \/ Serving(c, "type")
    /\ LET code == Lookup(mgr, req[c].uuid)
       IN  IF code = "ok"
           THEN \/ TakeSecret(c)
                \/ \E refusal \in Refusals(req[c].op) : Finish(c, mgr, Plain(refusal))
           ELSE Finish(c, mgr, Plain(code))
    /\ UNCHANGED age

(* wl-copy or wtype has ended, well or badly; the clone is dropped. *)
Act(c) ==
    /\ Running /\ phase[c] = "acting"
    /\ \E code \in {"ok", "io-error"} :
          answer' = [answer EXCEPT ![c] = Plain(code)]
    /\ phase' = [phase EXCEPT ![c] = "answering"]
    /\ held' = [held EXCEPT ![c] = None]
    /\ UNCHANGED <<mgr, queue, req, clockVars, taskVars>>

-----------------------------------------------------------------------------
(* Connections: unlock.                                                    *)

UnlockAnswer(m) == [code |-> "ok", says |-> "unlocked", vault |-> m.active]

(* Seeded fault: an open vault answers before the requested one is looked at. *)
Requested_OpenWins(m, r) ==
    IF r.vault = None \/ m.state = "Unlocked" THEN m ELSE SwitchTo(m, r.vault)

(* The manager once the requested database, if any, has been made active. *)
Requested(m, r) == IF r.vault = None THEN m ELSE SwitchTo(m, r.vault)

UnlockUnknown(c) ==
    /\ Serving(c, "unlock") /\ req[c].vault \notin Vaults \cup {None}
    /\ Finish(c, mgr, Plain("not-found"))
    /\ UNCHANGED age

Unlocking(c) == Serving(c, "unlock") /\ req[c].vault \in Vaults \cup {None}

UnlockRefused(c) ==
    /\ Unlocking(c)
    /\ LET m == Requested(mgr, req[c])
       IN  /\ m.state # "Locked"
           /\ Finish(c, m, IF m.state = "Unlocked" THEN UnlockAnswer(m) ELSE Plain("busy"))
    /\ UNCHANGED age

(* The end of VaultState::unlock, with the code do_unlock returned. *)
EndUnlock(c, m, code) ==
    LET n == EndUnlocking(m, code = "ok")
    IN  /\ Finish(c, n, IF code = "ok" THEN UnlockAnswer(n) ELSE Plain(code))
        /\ age' = IF code = "ok" THEN 0 ELSE age

(* A password in the request: open_kdbx runs without an await. *)
UnlockInline(c) ==
    /\ Unlocking(c) /\ req[c].inline
    /\ LET m == Requested(mgr, req[c])
       IN  /\ m.state = "Locked"
           /\ \E code \in {"ok", "auth-failed", "vault-error"} :
                 EndUnlock(c, StartUnlocking(m), code)

UnlockPrompt(c) ==
    /\ Unlocking(c) /\ ~req[c].inline
    /\ LET m == Requested(mgr, req[c])
       IN  /\ m.state = "Locked"
           /\ mgr' = StartUnlocking(m)
    /\ phase' = [phase EXCEPT ![c] = "prompt"]
    /\ UNCHANGED <<queue, req, answer, held, clockVars, taskVars>>

(* pinentry returned: a password, or an error (io-error). *)
PromptReturns(c) ==
    /\ Running /\ phase[c] = "prompt"
    /\ \E code \in {"ok", "auth-failed", "vault-error", "io-error"} :
          EndUnlock(c, mgr, code)

-----------------------------------------------------------------------------
(* The idle-lock task.                                                     *)

(* Seeded fault: the limit is exclusive. *)
IdleExpired_Strict(a) == a > IdleLimit

IdleExpired(a) == a >= IdleLimit

(* Seeded fault: the task does not wait for the interval. *)
IdleTick_Spins ==
    /\ Running /\ IdleLimit > 0 /\ idle = "ticking"
    /\ due' = due - 1
    /\ IF IdleExpired(age)
       THEN idle' = "waiting" /\ Enqueue("idle")
       ELSE UNCHANGED <<idle, queue>>
    /\ UNCHANGED <<mgr, connVars, age, tickIn, logind, signals, main>>

IdleTick ==
    /\ Running /\ IdleLimit > 0 /\ idle = "ticking" /\ due > 0
    /\ due' = due - 1
    /\ IF IdleExpired(age)
       THEN idle' = "waiting" /\ Enqueue("idle")
       ELSE UNCHANGED <<idle, queue>>
    /\ UNCHANGED <<mgr, connVars, age, tickIn, logind, signals, main>>

IdleLock ==
    /\ Running /\ idle = "waiting" /\ Owns("idle")
    /\ mgr' = IF IsLocked(mgr) THEN mgr ELSE LockNow(mgr)
    /\ Release
    /\ idle' = "ticking"
    /\ UNCHANGED <<connVars, clockVars, logind, signals, main>>

(* The daemon's own steps take no time next to an interval tick: time only *)
(* passes when neither the idle task nor the owner of the mutex can step.  *)
Urgent ==
    \/ idle = "ticking" /\ due > 0
    \/ queue # << >> /\ ~\E c \in Clients : Owns(c) /\ phase[c] = "prompt"

AtMost(n, cap) == IF n > cap THEN cap ELSE n

Elapse ==
    /\ Running /\ IdleLimit > 0 /\ ~Urgent
    /\ age' = AtMost(age + 1, AgeCap)
    /\ IF tickIn = 1
       THEN tickIn' = TickPeriod /\ due' = AtMost(due + 1, MaxDue)
       ELSE tickIn' = tickIn - 1 /\ UNCHANGED due
    /\ UNCHANGED <<mgr, queue, connVars, taskVars>>

-----------------------------------------------------------------------------
(* The logind task.  Bound: one undelivered signal of each kind.           *)

SignalArrives(s) ==
    /\ Running /\ s \notin signals
    /\ signals' = signals \cup {s}
    /\ UNCHANGED <<mgr, queue, connVars, clockVars, idle, logind, main>>

(* Seeded fault: the two values of PrepareForSleep are confused. *)
Locks_Swapped(s) == s # "sleep"

Locks(s) == s # "resume"       \* PrepareForSleep(false) is ignored

TakeSignal(s) ==
    /\ Running /\ logind = "selecting" /\ s \in signals
    /\ signals' = signals \ {s}
    /\ IF Locks(s)
       THEN logind' = "waiting" /\ Enqueue("logind")
       ELSE UNCHANGED <<logind, queue>>
    /\ UNCHANGED <<mgr, connVars, clockVars, idle, main>>

(* Seeded fault: the guard outlives the loop iteration that took it. *)
SignalLock_KeepsGuard ==
    /\ Running /\ logind = "waiting" /\ Owns("logind")
    /\ mgr' = IF IsLocked(mgr) THEN mgr ELSE LockNow(mgr)
    /\ logind' = "selecting"
    /\ UNCHANGED <<queue, connVars, clockVars, idle, signals, main>>

SignalLock ==
    /\ Running /\ logind = "waiting" /\ Owns("logind")
    /\ mgr' = IF IsLocked(mgr) THEN mgr ELSE LockNow(mgr)
    /\ Release
    /\ logind' = "selecting"
    /\ UNCHANGED <<connVars, clockVars, idle, signals, main>>

-----------------------------------------------------------------------------
(* main: SIGTERM or SIGINT, the last lock, the end of the process.         *)

ShutdownSignal ==
    /\ main = "serving"
    /\ main' = "waiting"
    /\ Enqueue("main")
    /\ UNCHANGED <<mgr, connVars, clockVars, idle, logind, signals>>

ShutdownLock ==
    /\ main = "waiting" /\ Owns("main")
    /\ mgr' = LockNow(mgr)
    /\ Release
    /\ main' = "leaving"
    /\ UNCHANGED <<connVars, clockVars, idle, logind, signals>>

Exit ==
    /\ main = "leaving"
    /\ main' = "exited"
    /\ UNCHANGED <<mgr, queue, connVars, clockVars, idle, logind, signals>>

Terminated == main = "exited" /\ UNCHANGED vars

-----------------------------------------------------------------------------
(* The whole daemon.                                                       *)

(* A step of connection c inside its critical section. *)
Operate(c) ==
    \/ Hello(c) \/ Status(c) \/ Overview(c) \/ Use(c) \/ Lock(c) \/ List(c)
    \/ Get(c) \/ Totp(c) \/ CopyOrType(c)
    \/ UnlockUnknown(c) \/ UnlockRefused(c) \/ UnlockInline(c) \/ UnlockPrompt(c)

ClientStep(c) ==
    \/ \E r \in Workload : AnswerAtOnce(c, r) \/ AskForVault(c, r)
    \/ Operate(c)
    \/ PromptReturns(c)
    \/ Act(c)
    \/ Respond(c)

LogindStep == \E s \in BusSignals : SignalArrives(s) \/ TakeSignal(s)

Next ==
    \/ \E c \in Clients : ClientStep(c)
    \/ IdleTick \/ IdleLock \/ Elapse
    \/ LogindStep \/ SignalLock
    \/ ShutdownSignal \/ ShutdownLock \/ Exit \/ Terminated

Spec == Init /\ [][Next]_vars

(* tokio polls every ready task, so each task steps when it can.  select!  *)
(* picks a ready stream at random, so no stream is passed over for ever.   *)
(* Requests, prompts, wl-copy, signals and clients that read their answers *)
(* belong to the environment: nothing is assumed of them.                  *)
Fairness ==
    /\ \A c \in Clients : WF_vars(Operate(c))
    /\ WF_vars(IdleTick) /\ WF_vars(IdleLock)
    /\ \A s \in BusSignals : SF_vars(TakeSignal(s))
    /\ WF_vars(SignalLock)
    /\ WF_vars(ShutdownLock) /\ WF_vars(Exit)

FairSpec == Spec /\ Fairness

-----------------------------------------------------------------------------
(* What the daemon keeps.                                                  *)

(* Unlocking, the intermediate state of VaultState, is seen only while the *)
(* owner of the mutex has its prompt open: every error path puts Locked    *)
(* back, and no second prompt is ever open.                                *)
PromptOwnsUnlocking ==
    /\ mgr.state = "Unlocking" <=> \E c \in Clients : phase[c] = "prompt"
    /\ \A c \in Clients : phase[c] = "prompt" => Owns(c)

(* The mutex is asked for once by each task that waits for it and by no    *)
(* other: nothing is granted to a task that has gone on without it.        *)
InQueue(p) ==
    \/ p \in Clients /\ phase[p] \in {"waiting", "prompt"}
    \/ p = "idle" /\ idle = "waiting"
    \/ p = "logind" /\ logind = "waiting"
    \/ p = "main" /\ main = "waiting"

QueueIsWaiters ==
    /\ IsInjective(queue)
    /\ Range(queue) = {p \in Procs : InQueue(p)}

(* A subscriber that has handled every event knows the lock state and the  *)
(* active database: no operation, error path or automatic lock changes     *)
(* either without the events that say so, in the order that says so.       *)
ObserverAgrees ==
    /\ mgr.seen.locked = IsLocked(mgr)
    /\ mgr.seen.activeVault = mgr.active

(* An open vault is locked within one interval of the configured idle time *)
(* (omarkeyd.example.toml: "Lock the active vault after this many seconds  *)
(* with no requests"), whoever holds or waits for the mutex meanwhile.     *)
IdleBound ==
    (IdleLimit > 0 /\ Running /\ mgr.state = "Unlocked") => age < IdleLimit + TickPeriod

(* "Only one database is unlocked at a time - switching locks the previous *)
(* one" (vault.rs): the entries in memory are those of the database named  *)
(* active, and there are none outside Unlocked - after every switch, failed *)
(* unlock and automatic lock.                                              *)
LoadedIsActive == mgr.loaded = IF mgr.state = "Unlocked" THEN mgr.active ELSE None

(* The daemon is the vault its protocol describes: mutex, tasks, clock and *)
(* the Unlocking state show nowhere but in how long an answer takes.       *)
Stage == [reading |-> "idle", waiting |-> "called", prompt |-> "opening",
          acting |-> "fetched", answering |-> "done"]

Served == [c \in Clients |->
              [stage |-> Stage[phase[c]], req |-> req[c],
               answer |-> answer[c], from |-> held[c]]]

Service == INSTANCE VaultService WITH
    active <- mgr.active, open <- mgr.loaded, call <- Served

ImplementsService == Service!Spec

(* "The new one starts locked" (PROTOCOL.md, use): the response says       *)
(* locked, and it is so when the response is computed.                     *)
UseAnswersTruthful ==
    [][\A c \in Clients :
          phase[c] = "waiting" /\ phase'[c] = "answering" /\ req[c].op = "use"
              => (answer'[c].says = "locked" => IsLocked(mgr'))]_vars

(* "Lock the vault after this long with no requests" (config.rs): the idle *)
(* task closes an open vault only when no request came for that long.      *)
IdleLockOnlyWhenIdle ==
    [][idle = "waiting" /\ idle' = "ticking" /\ mgr.state = "Unlocked"
          => age >= IdleLimit]_vars

(* The code busy is documented ("another unlock/pinentry prompt is already *)
(* in flight", PROTOCOL.md) and has a check of its own (vault.rs), but the *)
(* mutex is kept while a prompt is open, and every other way out of        *)
(* Unlocking puts Locked or Unlocked back: an unlock that comes second     *)
(* waits, and no answer ever says busy.                                    *)
NeverBusy == \A c \in Clients : answer[c].code # "busy"

(* What may become of the manager m under the mutex in one step, when no   *)
(* prompt is open: it is locked, or begins to unlock, or is unlocked.      *)
Touched(m) ==
    {m, LockNow(m)} \cup
    (IF m.state # "Locked" THEN {}
     ELSE {StartUnlocking(m)} \cup
          {EndUnlocking(StartUnlocking(m), opened) : opened \in BOOLEAN})

VaultStep ==
    \/ /\ mgr.state = "Unlocking"
       /\ \E c \in Clients : phase[c] = "prompt" /\ phase'[c] # "prompt"
       /\ \E opened \in BOOLEAN : mgr' = EndUnlocking(mgr, opened)
    \/ /\ mgr.state # "Unlocking"
       /\ \E m \in {mgr} \cup {SwitchTo(mgr, v) : v \in Vaults} : mgr' \in Touched(m)

(* While a prompt is on the screen nobody but the unlock that opened it    *)
(* changes the vault: the mutex is kept (ipc.rs, vault.rs), so that a lock *)
(* or a switch comes before the prompt or after it.  Without one, a step   *)
(* locks, switches or begins an unlock, after a switch or alone, and what  *)
(* opens is the active database.  Module EventStream relies on this where  *)
(* it says what the others do to the vault.                                *)
VaultSteps == [][VaultStep]_mgr

(* A Lock or PrepareForSleep(true) signal closes the vault, whatever the   *)
(* connections do and however long a prompt stays open.                    *)
SignalsLock ==
    \A s \in {"session-lock", "sleep"} :
        (s \in signals) ~> (mgr.state # "Unlocked" \/ ~Running)

(* As long as prompts do not stay open for ever, every request gets out of *)
(* the mutex queue: the fair mutex starves no connection.                  *)
PromptsEnd == []<>(\A c \in Clients : phase[c] # "prompt")

RequestsServed ==
    PromptsEnd => \A c \in Clients :
                     (phase[c] = "waiting") ~> (phase[c] # "waiting" \/ ~Running)

(* As long as prompts do not stay open for ever, a shutdown signal ends    *)
(* the process however many requests are queued.                           *)
ShutdownCompletes == PromptsEnd => (main = "waiting" ~> main = "exited")
=============================================================================
