----------------------------- MODULE Clipboard -----------------------------
(***************************************************************************)
(* The clipboard of omarkeyd (daemon/src/actions.rs): copies that write a  *)
(* secret with wl-copy and schedule its wipe, the generation counter that  *)
(* lets a newer copy supersede an older wipe, and the user, who copies     *)
(* things too.  wl-copy and wl-paste are separate programs: every await on *)
(* one of them is a step of its own.                                       *)
(***************************************************************************)
EXTENDS Naturals

CONSTANTS
    Conns,      \* connections that may run `copy' at the same time
    Secrets,    \* values of vault entries
    Texts,      \* what the user copies; may coincide with a secret
    Empty,      \* the cleared clipboard
    MaxCopies   \* bound: `copy' operations in a behaviour

ASSUME ClipboardAssumption ==
    /\ Empty \notin Secrets \cup Texts
    /\ MaxCopies \in Nat

Copies == 1..MaxCopies
User   == 0                 \* the writer of everything no copy wrote

VARIABLES
    clip,       \* the clipboard: its value, and which copy wrote it
    generation, \* Clipboard::generation
    started,    \* copies begun so far
    running,    \* running[c]: the copy connection c is in, 0 for none
    copy,       \* copy[k]: the state of copy k and of its wipe task
    up          \* the daemon is running

vars == <<clip, generation, started, running, copy, up>>

(* "writing", "written" belong to the call; the others to the wipe task. *)
Stages == {"unused", "writing", "written", "failed", "kept",
           "sleeping", "pasting", "clearing", "cleared", "ended", "gaveup"}

(* wipe: clear_after is not zero; gen: the generation the copy was given. *)
CopyStates == [stage : Stages, value : Secrets \cup {Empty}, wipe : BOOLEAN,
               gen : 0..MaxCopies]

Values == Secrets \cup Texts \cup {Empty}

TypeOK ==
    /\ clip \in [value : Values, writer : Copies \cup {User}]
    /\ generation \in 0..started
    /\ started \in 0..MaxCopies
    /\ running \in [Conns -> Copies \cup {0}]
    /\ copy \in [Copies -> CopyStates]
    /\ up \in BOOLEAN

Init ==
    /\ clip = [value |-> Empty, writer |-> User]
    /\ generation = 0
    /\ started = 0
    /\ running = [c \in Conns |-> 0]
    /\ copy = [k \in Copies |->
                  [stage |-> "unused", value |-> Empty, wipe |-> FALSE, gen |-> 0]]
    /\ up = TRUE

GoTo(k, stage) == copy' = [copy EXCEPT ![k].stage = stage]

-----------------------------------------------------------------------------
(* Clipboard::copy, in the task of a connection.                           *)

(* wl-copy is spawned.  A connection runs one operation at a time. *)
StartCopy(c) ==
    /\ up /\ running[c] = 0 /\ started < MaxCopies
    /\ started' = started + 1
    /\ running' = [running EXCEPT ![c] = started + 1]
    /\ \E v \in Secrets, w \in BOOLEAN :
          copy' = [copy EXCEPT ![started + 1] =
                      [stage |-> "writing", value |-> v, wipe |-> w, gen |-> 0]]
    /\ UNCHANGED <<clip, generation, up>>

(* wl-copy has taken over the clipboard and exited. *)
Written(c) ==
    LET k == running[c] IN
    /\ up /\ k # 0 /\ copy[k].stage = "writing"
    /\ clip' = [value |-> copy[k].value, writer |-> k]
    /\ GoTo(k, "written")
    /\ UNCHANGED <<generation, started, running, up>>

(* Seeded fault: a failed copy takes a generation too. *)
WriteFails_Bumps(c) ==
    LET k == running[c] IN
    /\ up /\ k # 0 /\ copy[k].stage = "writing"
    /\ clip' \in {clip, [value |-> copy[k].value, writer |-> k]}
    /\ GoTo(k, "failed")
    /\ running' = [running EXCEPT ![c] = 0]
    /\ generation' = generation + 1
    /\ UNCHANGED <<started, up>>

(* wl-copy failed, before or after it took the clipboard over: nothing is  *)
(* scheduled, and the client gets io-error.                                *)
WriteFails(c) ==
    LET k == running[c] IN
    /\ up /\ k # 0 /\ copy[k].stage = "writing"
    /\ clip' \in {clip, [value |-> copy[k].value, writer |-> k]}
    /\ GoTo(k, "failed")
    /\ running' = [running EXCEPT ![c] = 0]
    /\ UNCHANGED <<generation, started, up>>

(* The copy enters the counter with value n and remembers generation g.   *)
Generation(c, n, g) ==
    LET k == running[c] IN
    /\ up /\ k # 0 /\ copy[k].stage = "written"
    /\ generation' = n
    /\ copy' = [copy EXCEPT ![k].gen = g,
                            ![k].stage = IF copy[k].wipe THEN "sleeping" ELSE "kept"]
    /\ running' = [running EXCEPT ![c] = 0]
    /\ UNCHANGED <<clip, started, up>>

(* Seeded fault: fetch_add returns the old value, and that one is kept. *)
Schedule_Stale(c) == Generation(c, generation + 1, generation)

(* Seeded fault: the counter is read and not written back. *)
Schedule_NoBump(c) == Generation(c, generation, generation + 1)

(* Seeded fault: the counter is bumped around the copy, before and after. *)
Schedule_Twice(c) == Generation(c, generation + 2, generation + 2)

(* The copy takes its generation, leaves the wipe task behind unless the   *)
(* wipe is disabled, and answers the client.                               *)
Schedule(c) == Generation(c, generation + 1, generation + 1)

-----------------------------------------------------------------------------
(* The wipe task.                                                          *)

(* sleep(clear_after) is over, however long it was. *)
Wake(k) ==
    /\ up /\ copy[k].stage = "sleeping"
    /\ GoTo(k, IF copy[k].gen = generation THEN "pasting" ELSE "ended")
    /\ UNCHANGED <<clip, generation, started, running, up>>

(* wl-paste returned what the clipboard holds. *)
Paste(k) ==
    /\ up /\ copy[k].stage = "pasting"
    /\ GoTo(k, IF clip.value = copy[k].value THEN "clearing" ELSE "ended")
    /\ UNCHANGED <<clip, generation, started, running, up>>

(* wl-copy --clear ended well; ClipboardCleared is emitted. *)
Clear(k) ==
    /\ up /\ copy[k].stage = "clearing"
    /\ clip' = [value |-> Empty, writer |-> User]
    /\ GoTo(k, "cleared")
    /\ UNCHANGED <<generation, started, running, up>>

(* wl-paste or wl-copy --clear failed: no other attempt.  The exit status  *)
(* of wl-paste is not looked at, so that its failure reads as a clipboard  *)
(* that no longer holds the secret; wl-copy's is logged.                   *)
GiveUp(k) ==
    /\ up /\ copy[k].stage \in {"pasting", "clearing"}
    /\ GoTo(k, "gaveup")
    /\ UNCHANGED <<clip, generation, started, running, up>>

-----------------------------------------------------------------------------
(* The user, and the end of the daemon, which takes its tasks with it.     *)

UserCopies(v) ==
    /\ clip' = [value |-> v, writer |-> User]
    /\ UNCHANGED <<generation, started, running, copy, up>>

Exit ==
    /\ up /\ up' = FALSE
    /\ UNCHANGED <<clip, generation, started, running, copy>>

Call(c) == StartCopy(c) \/ Written(c) \/ WriteFails(c) \/ Schedule(c)
Wipe(k) == Wake(k) \/ Paste(k) \/ Clear(k) \/ GiveUp(k)

Next ==
    \/ \E c \in Conns : Call(c)
    \/ \E k \in Copies : Wipe(k)
    \/ \E v \in Texts : UserCopies(v)
    \/ Exit

Spec == Init /\ [][Next]_vars

(* Timers fire and the programs they start end. *)
Fairness == \A k \in Copies : WF_vars(Wipe(k))

FairSpec == Spec /\ Fairness

-----------------------------------------------------------------------------
(* What the clipboard keeps.                                               *)

(* Copy k put its secret on the clipboard, was asked to wipe it, and said  *)
(* so to its client.                                                       *)
Scheduled(k) == copy[k].gen # 0 /\ copy[k].wipe

(* While the clipboard holds a secret whose wipe was promised, the promise *)
(* is alive: its own task is on its way to clear it and no generation      *)
(* check, failed copy or older wipe can call it off.  The exceptions are a *)
(* helper program that failed and the end of the daemon.                   *)
SecretHasWiper ==
    \A k \in Copies :
        (up /\ clip.writer = k /\ Scheduled(k) /\ copy[k].stage # "gaveup") =>
            \/ copy[k].stage = "sleeping" /\ copy[k].gen = generation
            \/ copy[k].stage \in {"pasting", "clearing"}

HelperFailed == \E k \in Copies : copy[k].stage = "gaveup"

(* A copied secret "wipes itself a few seconds later" (README.md),         *)
(* as long as wl-paste and wl-copy --clear do not fail.                    *)
EventuallyWiped ==
    \A k \in Copies :
        (clip.writer = k /\ Scheduled(k)) ~>
            (clip.writer # k \/ HelperFailed \/ ~up)

(* "Only wipe if the clipboard still holds exactly what we wrote"          *)
(* (actions.rs): what a wipe clears is the value it wrote.                 *)
WipesOnlyOwnValue ==
    [][\A k \in Copies :
          copy[k].stage = "clearing" /\ copy'[k].stage = "cleared"
              => clip.value = copy[k].value]_vars

(* "A newer copy silently supersedes an older wipe" (actions.rs): of the   *)
(* wipes still asleep at most one can go on, and it is the newest.         *)
OneWipeLeft ==
    \A j, k \in Copies :
        /\ copy[j].gen # 0 /\ copy[j].gen = copy[k].gen => j = k
        /\ copy[j].gen <= generation
=============================================================================
