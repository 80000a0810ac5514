---------------------------- MODULE VaultManager ----------------------------
(***************************************************************************)
(* The vault manager of omarkeyd (daemon/src/vault.rs): which configured   *)
(* database is active and whether it is locked.  The operations are state  *)
(* functions on a manager record; module Daemon runs them under the        *)
(* daemon's mutex.                                                         *)
(*                                                                         *)
(* Events are folded as they are emitted: `seen' is what a subscriber that *)
(* has handled every event so far believes (OmarkeyClient.qml).  Lock      *)
(* reasons and entry counts only reach the display and are left out.       *)
(***************************************************************************)

CONSTANTS
    Vaults,         \* the configured databases
    DefaultVault,   \* vaults[0]: the active one at startup
    Names,          \* the vault names a client may send
    Uuids,          \* entry identifiers a client may send
    Contents,       \* Contents[v]: the entries stored in database v
    None            \* the absent value

ASSUME VaultAssumption ==
    /\ DefaultVault \in Vaults
    /\ Vaults \subseteq Names
    /\ None \notin Names
    /\ Contents \in [Vaults -> SUBSET Uuids]

States == {"Locked", "Unlocked", "Unlocking"}

(* `loaded' is the UnlockedVault inside the state: whose entries are in RAM. *)
Managers ==
    [active : Vaults, state : States, loaded : Vaults \cup {None},
     seen : [locked : BOOLEAN, activeVault : Vaults]]

NewManager ==
    [active |-> DefaultVault, state |-> "Locked", loaded |-> None,
     seen |-> [locked |-> TRUE, activeVault |-> DefaultVault]]

IsLocked(m) == m.state # "Unlocked"

-----------------------------------------------------------------------------
(* Events, and the subscriber's handler.                                   *)

LockedEvent      == [event |-> "locked"]
UnlockedEvent(v) == [event |-> "unlocked", vault |-> v]
SwitchedEvent(v) == [event |-> "vault-switched", vault |-> v]

HandleEvent(seen, e) ==
    [locked      |-> e.event # "unlocked",
     activeVault |-> IF e.event = "locked" THEN seen.activeVault ELSE e.vault]

Emit(m, e) == [m EXCEPT !.seen = HandleEvent(m.seen, e)]

-----------------------------------------------------------------------------
(* Operations.                                                             *)

LockNow(m) ==
    IF m.state = "Locked" THEN m
    ELSE Emit([m EXCEPT !.state = "Locked", !.loaded = None], LockedEvent)

(* Seeded fault: the switch forgets to lock what was open. *)
SwitchTo_KeepsOpen(m, v) ==
    IF v = m.active THEN m
    ELSE Emit([m EXCEPT !.active = v], SwitchedEvent(v))

(* Seeded fault: the switch is not announced. *)
SwitchTo_Silent(m, v) ==
    IF v = m.active THEN m ELSE [LockNow(m) EXCEPT !.active = v]

SwitchTo(m, v) ==
    IF v = m.active THEN m
    ELSE Emit([LockNow(m) EXCEPT !.active = v], SwitchedEvent(v))

StartUnlocking(m) == [m EXCEPT !.state = "Unlocking"]

Load(m) == Emit([m EXCEPT !.state = "Unlocked", !.loaded = m.active],
                UnlockedEvent(m.active))

(* Seeded fault: a failed unlock leaves the intermediate state behind. *)
EndUnlocking_NoReset(m, opened) ==
    IF opened THEN Load(m) ELSE m

EndUnlocking(m, opened) ==
    IF opened THEN Load(m) ELSE [m EXCEPT !.state = "Locked"]

(* The code an access to entry u gets: list, get, copy, type and totp all  *)
(* start with unlocked() and, but for list, find().                        *)
Lookup(m, u) ==
    CASE IsLocked(m)                 -> "locked"
      [] u \notin Contents[m.loaded] -> "not-found"
      [] OTHER                       -> "ok"
=============================================================================
