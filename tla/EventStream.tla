----------------------------- MODULE EventStream -----------------------------
(***************************************************************************)
(* One subscribed connection of omarkeyd as its client sees it             *)
(* (daemon/src/ipc.rs, main.rs, vault.rs): the broadcast receiver, which   *)
(* forgets its oldest events when it is full; the requests and the lines   *)
(* in the socket; the task that serves either a request or an event; and   *)
(* the rest of the world, which locks, switches, unlocks and edits.        *)
(*                                                                         *)
(* The mutex is free unless an unlock keeps it (module Daemon), so that a  *)
(* critical section is one step and `prompt' says who holds it.            *)
(***************************************************************************)
EXTENDS VaultManager, Naturals, Sequences

CONSTANTS
    Cap,        \* events a receiver keeps; 64 in main.rs
    OutCap,     \* lines that fit in the socket towards the client
    InCap       \* bound: from so many waiting requests on, select! takes one

ASSUME StreamAssumption ==
    /\ Cap \in Nat \ {0}
    /\ OutCap \in Nat
    /\ InCap \in Nat \ {0}

VARIABLES
    mgr,        \* the VaultManager
    up,         \* the daemon runs
    prompt,     \* whose unlock holds the mutex: "mine", "theirs" or "none"
    served,     \* a task serves the connection
    subscribed, \* the task forwards events
    recv,       \* the receiver: events not forwarded yet
    inbox,      \* requests sent and not served
    outbox,     \* lines written and not read; one may be half-written
    told,       \* what the client has been told of the state, see Publish
    dirty       \* the file watch has seen a change it has not announced

streamVars == <<mgr, up, prompt, served, subscribed, recv, inbox, outbox, told, dirty>>

Ops == {"subscribe", "hello", "status", "list", "lock", "unlock", "copy"}

ChangedEvent == [event |-> "vault-changed"]

Events == {LockedEvent, ChangedEvent}
              \cup {UnlockedEvent(v) : v \in Vaults} \cup {SwitchedEvent(v) : v \in Vaults}

(* A response: the request it belongs to, whether it is ok, what it says   *)
(* of lock state and active database, whose entries it lists or touches.   *)
Reply(op, ok, says, v, from) ==
    [re |-> op, ok |-> ok, says |-> says, vault |-> v, from |-> from]

Replies == [re : Ops, ok : BOOLEAN, says : {"locked", "unlocked", "unsaid"},
            vault : Vaults \cup {None}, from : Vaults \cup {None}]

StreamTypeOK ==
    /\ mgr \in Managers
    /\ up \in BOOLEAN /\ served \in BOOLEAN /\ subscribed \in BOOLEAN
    /\ prompt \in {"none", "mine", "theirs"}
    /\ recv \in Seq(Events) /\ Len(recv) <= Cap
    /\ inbox \in Seq(Ops)
    /\ outbox \in Seq(Events \cup Replies) /\ Len(outbox) <= OutCap + 1
    /\ told \in {"all", "less", "again"}
    /\ dirty \in BOOLEAN
    /\ mgr.state = "Unlocking" <=> prompt # "none"

StreamInit ==
    /\ mgr = NewManager
    /\ up = TRUE /\ prompt = "none"
    /\ served = FALSE /\ subscribed = FALSE
    /\ recv = << >> /\ inbox = << >> /\ outbox = << >>
    /\ told = "all"
    /\ dirty = FALSE

-----------------------------------------------------------------------------
(* Publishing.                                                             *)

Newest(s, n) == IF Len(s) <= n THEN s ELSE SubSeq(s, Len(s) - n + 1, Len(s))

Any(events, kinds) == \E i \in DOMAIN events : events[i].event \in kinds

StateEvents  == {"locked", "unlocked", "vault-switched"}
NamingEvents == {"unlocked", "vault-switched"}

(* Daemon::emit, for the receiver of this connection.  `told' is no part   *)
(* of the code: "less" when an event that says something of the state was  *)
(* overwritten before it was forwarded, "again" when the whole state has   *)
(* been stated since, by an event that names a database or by a response.  *)
Publish(events) ==
    IF ~served THEN UNCHANGED <<recv, told>>
    ELSE LET all   == recv \o events
             kept  == Newest(all, Cap)
             lost  == Any(SubSeq(all, 1, Len(all) - Len(kept)), StateEvents)
             named == Any(kept, NamingEvents)
         IN  /\ recv' = kept
             /\ told' = CASE named /\ (lost \/ told = "less") -> "again"
                          [] lost /\ ~named                   -> "less"
                          [] OTHER                            -> told

LockEvents(m) == IF m.state = "Locked" THEN << >> ELSE <<LockedEvent>>

SwitchEvents(m, v) ==
    IF v = m.active THEN << >> ELSE Append(LockEvents(m), SwitchedEvent(v))

-----------------------------------------------------------------------------
(* The rest of the world: idle and logind tasks, the omarkey command,      *)
(* other connections, editors of the file.                                 *)

MutexFree == up /\ prompt = "none"

OthersLock ==
    /\ MutexFree /\ ~IsLocked(mgr)
    /\ mgr' = LockNow(mgr)
    /\ Publish(LockEvents(mgr))
    /\ UNCHANGED <<up, prompt, served, subscribed, inbox, outbox, dirty>>

OthersUse(v) ==
    /\ MutexFree /\ v # mgr.active
    /\ mgr' = SwitchTo(mgr, v)
    /\ Publish(SwitchEvents(mgr, v))
    /\ UNCHANGED <<up, prompt, served, subscribed, inbox, outbox, dirty>>

OthersUnlock ==
    /\ MutexFree /\ mgr.state = "Locked"
    /\ mgr' = StartUnlocking(mgr)
    /\ prompt' = "theirs"
    /\ UNCHANGED <<up, served, subscribed, recv, inbox, outbox, told, dirty>>

TheirPromptReturns(opened) ==
    /\ up /\ prompt = "theirs"
    /\ mgr' = EndUnlocking(mgr, opened)
    /\ prompt' = "none"
    /\ Publish(IF opened THEN <<UnlockedEvent(mgr.active)>> ELSE << >>)
    /\ UNCHANGED <<up, served, subscribed, inbox, outbox, dirty>>

(* A change of the file that the watch sees: notify's callback, the        *)
(* channel and the branch that receives from it.                           *)
FileChanges ==
    /\ up /\ ~dirty /\ dirty' = TRUE
    /\ UNCHANGED <<mgr, up, prompt, served, subscribed, recv, inbox, outbox, told>>

(* A tick of the 500 ms interval. *)
Debounce ==
    /\ up /\ dirty /\ dirty' = FALSE
    /\ Publish(<<ChangedEvent>>)
    /\ UNCHANGED <<mgr, up, prompt, served, subscribed, inbox, outbox>>

-----------------------------------------------------------------------------
(* serve_connection.  A line is written when it enters `outbox'; the task  *)
(* goes on when all lines but the last have left for the client's buffer.  *)

Ready == up /\ served /\ prompt # "mine" /\ Len(outbox) <= OutCap

Write(line) == outbox' = Append(outbox, line)

(* What the whole state comes to in a response. *)
StateReply(op, m) ==
    Reply(op, TRUE, IF IsLocked(m) THEN "locked" ELSE "unlocked", m.active, None)

Taking(op) == Ready /\ inbox # << >> /\ Head(inbox) = op /\ inbox' = Tail(inbox)

ServeSubscribe ==
    /\ Taking("subscribe")
    /\ subscribed' = TRUE
    /\ Write(Reply("subscribe", TRUE, "unsaid", None, None))
    /\ UNCHANGED <<mgr, up, prompt, served, recv, told, dirty>>

(* A response that states lock state and active database closes the gap    *)
(* that a lost event left.                                                 *)
Answer(line) ==
    /\ Write(line)
    /\ told' = IF told = "less" /\ line.says # "unsaid" /\ line.vault # None
               THEN "again" ELSE told

ServeState(op) ==
    /\ op \in {"hello", "status"} /\ Taking(op) /\ MutexFree
    /\ Answer(StateReply(op, mgr))
    /\ UNCHANGED <<mgr, up, prompt, served, subscribed, recv, dirty>>

(* list, and copy of a row: copy succeeds for an entry of the open         *)
(* database, unless the entry has no such field or wl-copy fails.          *)
ServeRead(op) ==
    /\ op \in {"list", "copy"} /\ Taking(op) /\ MutexFree
    /\ \E ok \in IF IsLocked(mgr) THEN {FALSE} ELSE {TRUE, op = "list"} :
          Answer(Reply(op, ok, "unsaid", None, IF ok THEN mgr.loaded ELSE None))
    /\ UNCHANGED <<mgr, up, prompt, served, subscribed, recv, dirty>>

ServeLock ==
    /\ Taking("lock") /\ MutexFree
    /\ mgr' = LockNow(mgr)
    /\ Publish(LockEvents(mgr))
    /\ Write(Reply("lock", TRUE, "locked", None, None))
    /\ UNCHANGED <<up, prompt, served, subscribed, dirty>>

ServeUnlock ==
    /\ Taking("unlock") /\ MutexFree
    /\ IF mgr.state = "Unlocked"
       THEN Answer(StateReply("unlock", mgr)) /\ UNCHANGED <<mgr, prompt>>
       ELSE mgr' = StartUnlocking(mgr) /\ prompt' = "mine" /\ UNCHANGED <<outbox, told>>
    /\ UNCHANGED <<up, served, subscribed, recv, dirty>>

MyPromptReturns(opened) ==
    /\ up /\ prompt = "mine"
    /\ mgr' = EndUnlocking(mgr, opened)
    /\ prompt' = "none"
    /\ Publish(IF opened THEN <<UnlockedEvent(mgr.active)>> ELSE << >>)
    /\ Write(IF opened THEN StateReply("unlock", mgr')
             ELSE Reply("unlock", FALSE, "unsaid", None, None))
    /\ UNCHANGED <<up, served, subscribed, inbox, dirty>>

(* Seeded fault: the task does not wait until a line is written. *)
Forward_NoWait ==
    /\ up /\ served /\ prompt # "mine" /\ subscribed /\ recv # << >> /\ Len(inbox) < InCap
    /\ Write(Head(recv))
    /\ recv' = Tail(recv)
    /\ UNCHANGED <<mgr, up, prompt, served, subscribed, inbox, told, dirty>>

(* The other branch of select!, once subscribed. *)
Forward ==
    /\ Ready /\ subscribed /\ recv # << >> /\ Len(inbox) < InCap
    /\ Write(Head(recv))
    /\ recv' = Tail(recv)
    /\ UNCHANGED <<mgr, up, prompt, served, subscribed, inbox, told, dirty>>

Serve ==
    \/ ServeSubscribe \/ ServeLock \/ ServeUnlock
    \/ \E op \in Ops : ServeState(op) \/ ServeRead(op)

-----------------------------------------------------------------------------
(* The daemon ends, with its tasks, its memory and its end of the          *)
(* connection.  Lines that reached the client can still be read.           *)

DaemonEnds ==
    /\ up /\ up' = FALSE
    /\ mgr' = NewManager
    /\ prompt' = "none" /\ served' = FALSE /\ subscribed' = FALSE /\ dirty' = FALSE
    /\ recv' = << >> /\ inbox' = << >>
    /\ \E n \in 0..Len(outbox) : outbox' = SubSeq(outbox, 1, n)
    /\ UNCHANGED told

DaemonStarts ==
    /\ ~up /\ up' = TRUE
    /\ UNCHANGED <<mgr, prompt, served, subscribed, recv, inbox, outbox, told, dirty>>
=============================================================================
