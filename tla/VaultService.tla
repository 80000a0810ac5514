---------------------------- MODULE VaultService ----------------------------
(***************************************************************************)
(* What omarkeyd promises its clients (PROTOCOL.md, "Operations"), with no *)
(* mutex, no tasks, no clock and no intermediate state: one database is    *)
(* active, and it is open or it is not.  Every request takes effect at one *)
(* instant between its arrival and its answer, except that an unlock may   *)
(* switch first and open, or fail to, later.  The vault may be closed at   *)
(* any time.  Module Daemon implements this (Daemon!ImplementsService).    *)
(***************************************************************************)
CONSTANTS Clients, Vaults, DefaultVault, Contents, None, Requests, Answers

VARIABLES
    active,     \* the active database
    open,       \* the database whose entries can be read, or None
    call        \* call[c]: the stage, request and answer of connection c, and
                \* the database a secret it has yet to deliver was taken from

vars == <<active, open, call>>

Calls == [stage : {"idle", "called", "opening", "fetched", "done"},
          req : Requests \cup {[op |-> "none"]}, answer : Answers,
          from : Vaults \cup {None}]

Init ==
    /\ active = DefaultVault
    /\ open = None
    /\ call \in [Clients -> Calls]
    /\ \A c \in Clients : call[c].stage = "idle" /\ call[c].from = None

(* Connection c goes from stage s to stage t.  What becomes of its request *)
(* and answer is for the caller to say; other connections do not move.     *)
Move(c, s, t) ==
    /\ call[c].stage = s
    /\ call'[c].stage = t
    /\ call'[c].from = IF t = "fetched" THEN open ELSE None
    /\ call' = [call EXCEPT ![c] = call'[c]]

(* The same, serving the request it has. *)
Progress(c, s, t) == Move(c, s, t) /\ call'[c].req = call[c].req

Code(a, code) == a.code = code /\ a.says = "unsaid" /\ a.vault = None

Tells(a, state, v) == a.code = "ok" /\ a.says = state /\ a.vault = v

LockState == IF open = None THEN "locked" ELSE "unlocked"

(* What reading entry r.uuid comes to. *)
Access(r) ==
    CASE open = None                  -> "locked"
      [] r.uuid \notin Contents[open] -> "not-found"
      [] OTHER                        -> "ok"

-----------------------------------------------------------------------------
(* Requests that change nothing, and their answers.                        *)

Reads(r, a) ==
    \/ r.op \in {"hello", "status"} /\ Tells(a, LockState, active)
    \/ r.op = "vaults" /\ Code(a, "ok")
    \/ r.op = "list" /\ Code(a, IF open = None THEN "locked" ELSE "ok")
    \/ r.op = "totp" /\ Code(a, Access(r))
    \/ r.op \in {"copy", "type"} /\ Access(r) # "ok" /\ Code(a, Access(r))
    \/ r.op \in {"copy", "type"} /\ Access(r) = "ok"
        /\ \E code \in {"not-found", "vault-error", "bad-request"} : Code(a, code)
    \/ r.op = "get" /\ Code(a, IF Access(r) = "ok" /\ r.secret THEN "unsupported" ELSE Access(r))
    \/ r.op \in {"use", "unlock"} /\ r.vault \notin Vaults \cup {None} /\ Code(a, "not-found")

Call(c) ==
    /\ Move(c, "idle", "called") /\ call'[c] \in Calls
    /\ UNCHANGED <<active, open>>

(* Refused before the vault is looked at, or subscribe. *)
Refuse(c) ==
    /\ Move(c, "idle", "done") /\ call'[c] \in Calls
    /\ call'[c].req.op \in {"garbage", "malformed", "subscribe", "unlock"}
    /\ call'[c].answer.says = "unsaid"
    /\ UNCHANGED <<active, open>>

Read(c) ==
    /\ Progress(c, "called", "done")
    /\ Reads(call[c].req, call'[c].answer)
    /\ UNCHANGED <<active, open>>

Close(c) ==
    /\ Progress(c, "called", "done")
    /\ call[c].req.op = "lock" /\ Tells(call'[c].answer, "locked", None)
    /\ open' = None /\ UNCHANGED active

(* Make v the active database: another one starts closed. *)
SwitchTo(v) == active' = v /\ open' = IF v = active THEN open ELSE None

Use(c) ==
    /\ Progress(c, "called", "done")
    /\ call[c].req.op = "use" /\ call[c].req.vault \in Vaults
    /\ SwitchTo(call[c].req.vault) /\ Tells(call'[c].answer, "locked", call[c].req.vault)

(* A secret is taken out of the open database; what becomes of it is told  *)
(* later, when that database may have been closed.                         *)
Fetch(c) ==
    /\ Progress(c, "called", "fetched")
    /\ call[c].req.op \in {"copy", "type"} /\ Access(call[c].req) = "ok"
    /\ UNCHANGED <<active, open>>

Delivered(c) ==
    /\ Progress(c, "fetched", "done")
    /\ Code(call'[c].answer, "ok") \/ Code(call'[c].answer, "io-error")
    /\ UNCHANGED <<active, open>>

-----------------------------------------------------------------------------
(* Unlock: at once, or with a pause between the switch and its outcome.    *)

Wanted(r) == IF r.vault = None THEN active ELSE r.vault

Failures == {"auth-failed", "vault-error", "io-error"}

(* The wanted database is open when the answer is computed. *)
Opens(c, s) ==
    /\ Progress(c, s, "done")
    /\ call[c].req.op = "unlock" /\ Wanted(call[c].req) \in Vaults
    /\ active' = Wanted(call[c].req) /\ open' = active'
    /\ Tells(call'[c].answer, "unlocked", active')

(* A failed unlock leaves the wanted database active and closed. *)
Fails(c, s) ==
    /\ Progress(c, s, "done")
    /\ call[c].req.op = "unlock" /\ Wanted(call[c].req) \in Vaults
    /\ active' = Wanted(call[c].req) /\ open' = None
    /\ \E code \in Failures : Code(call'[c].answer, code)

StartOpening(c) ==
    /\ Progress(c, "called", "opening")
    /\ call[c].req.op = "unlock" /\ Wanted(call[c].req) \in Vaults
    /\ SwitchTo(Wanted(call[c].req)) /\ open' = None

Return(c) ==
    /\ Move(c, "done", "idle") /\ call'[c] \in Calls
    /\ UNCHANGED <<active, open>>

(* The idle limit, a logind signal, or the end of the process. *)
AutoLock == open' = None /\ UNCHANGED <<active, call>>

Next ==
    \/ \E c \in Clients :
          \/ Call(c) \/ Refuse(c) \/ Read(c) \/ Close(c) \/ Use(c)
          \/ Fetch(c) \/ Delivered(c) \/ StartOpening(c) \/ Return(c)
          \/ \E s \in {"called", "opening"} : Opens(c, s) \/ Fails(c, s)
    \/ AutoLock

Spec == Init /\ [][Next]_vars
=============================================================================
