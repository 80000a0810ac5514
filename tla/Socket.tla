------------------------------- MODULE Socket -------------------------------
(***************************************************************************)
(* The socket file of omarkeyd (daemon/src/main.rs, security.rs): processes *)
(* that look at the path, dial what they find there, remove it when nobody *)
(* answers, bind, serve, and remove the path when they are told to stop.   *)
(* A crash leaves the file behind.  Every system call is a step of its     *)
(* own, so another process may come in between any two of them.            *)
(*                                                                         *)
(* One of the processes is the systemd unit, which is started again after  *)
(* a failure; the others are started by hand or by the compositor.  The    *)
(* shell client dials the path whenever it is not connected.               *)
(***************************************************************************)
EXTENDS Naturals

CONSTANTS
    Processes,      \* the daemons that may run
    Unit,           \* the one started by omarkeyd.service
    StartsOverlap,  \* two daemons may be starting at the same time
    MaxFaults,      \* bound: crashes and failing start-ups in a behaviour
    None,           \* no file, no connection
    Stale           \* a socket file whose process is gone

ASSUME SocketAssumption ==
    /\ Unit \in Processes
    /\ StartsOverlap \in BOOLEAN
    /\ MaxFaults \in Nat
    /\ {None, Stale} \cap Processes = {}
    /\ None # Stale

VARIABLES
    pc,         \* pc[p]: where the main task of p is
    file,       \* the socket behind the path: a process, Stale or None
    client,     \* the process the shell client is connected to, or None
    faults      \* faults so far

vars == <<pc, file, client, faults>>

Down      == {"stopped", "failed"}
Starting  == {"looking", "dialling", "removing", "binding", "bound", "listening"}
Running   == Starting \cup {"serving", "stopping", "leaving"}

(* The kernel accepts connections from listen() until the process is gone, *)
(* whether or not the accept loop still runs.                              *)
Listens(p) == pc[p] \in {"listening", "serving", "stopping", "leaving"}

TypeOK ==
    /\ pc \in [Processes -> Down \cup Running]
    /\ file \in Processes \cup {None, Stale}
    /\ client \in Processes \cup {None}
    /\ client # None => Listens(client)     \* no connection to a dead process
    /\ faults \in 0..MaxFaults

Init ==
    /\ pc = [p \in Processes |-> "stopped"]
    /\ file \in {None, Stale}           \* an earlier session may have crashed
    /\ client = None
    /\ faults = 0

GoTo(p, place) == pc' = [pc EXCEPT ![p] = place]

(* Seeded fault: the client is not told that its daemon is gone. *)
End_HalfOpen(p, place) ==
    /\ GoTo(p, place)
    /\ file' = IF file = p THEN Stale ELSE file
    /\ UNCHANGED client

(* The process is gone: its socket is dead, its connections are closed.    *)
End(p, place) ==
    /\ GoTo(p, place)
    /\ file' = IF file = p THEN Stale ELSE file
    /\ client' = IF client = p THEN None ELSE client

-----------------------------------------------------------------------------
(* Starting, up to the first system call on the path.                      *)

MayStart(p) ==
    /\ pc[p] \in Down
    /\ StartsOverlap \/ \A q \in Processes : pc[q] \notin Starting

Start(p) ==
    /\ MayStart(p)
    /\ GoTo(p, "looking")
    /\ UNCHANGED <<file, client, faults>>

(* Restart=on-failure: a clean end is not followed by another start. *)
Restart ==
    /\ pc[Unit] = "failed"
    /\ Start(Unit)

(* The configuration cannot be read, or preflight_runtime_dir refuses the  *)
(* directory: main returns an error before it looks at the path.           *)
StartFails(p) ==
    /\ pc[p] = "looking" /\ faults < MaxFaults
    /\ faults' = faults + 1
    /\ End(p, "failed")

-----------------------------------------------------------------------------
(* reclaim_stale_socket.                                                   *)

Look(p) ==
    /\ pc[p] = "looking"
    /\ GoTo(p, IF file = None THEN "binding" ELSE "dialling")
    /\ UNCHANGED <<file, client, faults>>

Answers == file \in Processes /\ Listens(file)

(* Seeded fault: a daemon that answers is taken for a dead one. *)
Dial_Ignores(p) ==
    /\ pc[p] = "dialling"
    /\ GoTo(p, "removing")
    /\ UNCHANGED <<file, client, faults>>

(* Somebody answers: "another omarkeyd is already listening". *)
Dial(p) ==
    /\ pc[p] = "dialling"
    /\ IF Answers THEN End(p, "failed")
       ELSE GoTo(p, "removing") /\ UNCHANGED <<file, client>>
    /\ UNCHANGED faults

(* Seeded fault: the dead socket is left where it is. *)
RemoveStale_Keeps(p) ==
    /\ pc[p] = "removing"
    /\ GoTo(p, "binding")
    /\ UNCHANGED <<file, client, faults>>

(* remove_file: of whatever the path names by now.  It fails if that has   *)
(* been removed in the meantime.                                           *)
RemoveStale(p) ==
    /\ pc[p] = "removing"
    /\ IF file = None THEN End(p, "failed")
       ELSE GoTo(p, "binding") /\ file' = None /\ UNCHANGED client
    /\ UNCHANGED faults

-----------------------------------------------------------------------------
(* UnixListener::bind is bind() and then listen(); then the chmod.         *)

Bind(p) ==
    /\ pc[p] = "binding"
    /\ IF file = None
       THEN GoTo(p, "bound") /\ file' = p /\ UNCHANGED client
       ELSE End(p, "failed")
    /\ UNCHANGED faults

Listen(p) ==
    /\ pc[p] = "bound"
    /\ GoTo(p, "listening")
    /\ UNCHANGED <<file, client, faults>>

(* lock_down_socket, then the accept loop. *)
LockDown(p) ==
    /\ pc[p] = "listening"
    /\ GoTo(p, "serving")
    /\ UNCHANGED <<file, client, faults>>

-----------------------------------------------------------------------------
(* Stopping: the vault is locked, the path is removed, main returns.       *)

ShutdownSignal(p) ==
    /\ pc[p] = "serving"
    /\ GoTo(p, "stopping")
    /\ UNCHANGED <<file, client, faults>>

(* The result of remove_file is ignored. *)
RemoveSocket(p) ==
    /\ pc[p] = "stopping"
    /\ GoTo(p, "leaving")
    /\ file' = None
    /\ UNCHANGED <<client, faults>>

Exit(p) ==
    /\ pc[p] = "leaving"
    /\ End(p, "stopped")
    /\ UNCHANGED faults

(* SIGKILL, a panic, power; and for "listening" the chmod that failed. *)
Crash(p) ==
    /\ pc[p] \in Running /\ faults < MaxFaults
    /\ faults' = faults + 1
    /\ End(p, "failed")

-----------------------------------------------------------------------------
(* The shell client: a timer dials every two seconds while not connected.  *)

(* Seeded fault: the client dials when the socket appears and not again. *)
ClientDials_Once ==
    /\ client = None /\ Answers /\ pc[file] = "listening"
    /\ client' = file
    /\ UNCHANGED <<pc, file, faults>>

ClientDials ==
    /\ client = None /\ Answers
    /\ client' = file
    /\ UNCHANGED <<pc, file, faults>>

-----------------------------------------------------------------------------
StartUp(p) == Look(p) \/ Dial(p) \/ RemoveStale(p) \/ Bind(p) \/ Listen(p) \/ LockDown(p)
ShutDown(p) == RemoveSocket(p) \/ Exit(p)

Next ==
    \/ \E p \in Processes :
          \/ Start(p) \/ StartFails(p) \/ StartUp(p)
          \/ ShutdownSignal(p) \/ ShutDown(p) \/ Crash(p)
    \/ Restart
    \/ ClientDials

Spec == Init /\ [][Next]_vars

(* A process that runs goes on, systemd restarts the unit, and the timer   *)
(* of the client fires.  A start by hand, a signal or a crash may come or  *)
(* not.  Starts of others may keep a restart waiting for its turn.         *)
Fairness ==
    /\ \A p \in Processes : WF_vars(StartUp(p)) /\ WF_vars(ShutDown(p))
    /\ SF_vars(Restart)
    /\ WF_vars(ClientDials)

FairSpec == Spec /\ Fairness

-----------------------------------------------------------------------------
(* What the start-up sequence keeps.                                       *)

(* "A live daemon means we should exit, a dead socket gets removed"        *)
(* (security.rs): a daemon that serves is the one behind the path, so that *)
(* there is never a second one, no start and no other daemon's exit takes  *)
(* the path from it, and the omarkey command and the picker reach it.      *)
ServerReachable == \A p \in Processes : pc[p] = "serving" => file = p

(* "A stale socket from a crashed daemon would block bind(); remove it     *)
(* only after confirming nothing is listening" (main.rs): no step but its  *)
(* own takes the path away from a daemon that listens.                     *)
RemovesOnlyDead ==
    [][\A p \in Processes :
          file = p /\ Listens(p) /\ file' # p => pc'[p] # pc[p]]_vars

(* However daemons crash, and whatever they leave behind: the unit that    *)
(* failed comes back, or another daemon serves in its place.               *)
FailedUnitReplaced ==
    (pc[Unit] = "failed") ~> (\E p \in Processes : pc[p] = "serving" /\ file = p)

(* "omarkeyd may start after the shell, or restart under us.  Keep         *)
(* dialing" (OmarkeyClient.qml): with a daemon that goes on serving, the   *)
(* client ends up connected to it and not to an older one.                 *)
ClientFollows ==
    \A p \in Processes : <>[](pc[p] = "serving") => <>[](client = p)
=============================================================================
