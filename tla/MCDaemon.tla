------------------------------ MODULE MCDaemon ------------------------------
(***************************************************************************)
(* Instances of Daemon for TLC.                                            *)
(***************************************************************************)
EXTENDS Daemon, TLC

CONSTANTS c1, c2, personal, work, unknown, e1, e2

MCClients == {c1, c2}
MCVaults  == {personal, work}
MCNames   == {personal, work, unknown}
MCUuids   == {e1, e2}
MCContents == (personal :> {e1}) @@ (work :> {e2})

Symmetric == Permutations(MCClients)

Op(o)          == [op |-> o]
UseOf(v)       == [op |-> "use", vault |-> v]
UnlockOf(v, i) == [op |-> "unlock", vault |-> v, inline |-> i]
Entry(o, u)    == [op |-> o, uuid |-> u]

(* One of each operation, and every case of the ones that switch. *)
EveryOp ==
    {Op(o) : o \in {"garbage", "subscribe", "hello", "status", "vaults", "lock", "list"}}
    \cup {UseOf(v) : v \in MCNames}
    \cup {UnlockOf(None, FALSE), UnlockOf(work, FALSE), UnlockOf(unknown, FALSE),
          UnlockOf(None, TRUE)}
    \cup {Entry("copy", e1), Entry("totp", e1),
          [op |-> "get", uuid |-> e1, secret |-> TRUE]}

(* The operations that differ in what they do to the mutex and the vault. *)
FewOps == {Op("lock"), UseOf(work), UnlockOf(None, FALSE), UnlockOf(personal, TRUE),
           Entry("type", e1)}

(* Enough to put an unlock and a switch to the open database in sequence. *)
SwitchOps == {Op("status"), UseOf(work), UnlockOf(work, FALSE)}

(* Enough to keep the mutex and the prompt in demand. *)
LiveOps == {Op("status"), UnlockOf(work, FALSE)}
=============================================================================
