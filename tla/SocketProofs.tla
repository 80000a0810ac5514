---------------------------- MODULE SocketProofs ----------------------------
(***************************************************************************)
(* Theorems about Socket, for any number of daemons and faults: the        *)
(* variables keep their types, and when starts do not overlap a daemon     *)
(* that serves is the one behind the path, and nobody takes it away.       *)
(***************************************************************************)
EXTENDS Socket, TLAPS

(* The places in which a daemon relies on the path being its own. *)
Holding == {"bound", "listening", "serving", "stopping"}

OneStarting ==
    \A p, q \in Processes : pc[p] \in Starting /\ pc[q] \in Starting => p = q

HoldersOwn == \A p \in Processes : pc[p] \in Holding => file = p

(* A start-up that is about to take the path over has no one to take it    *)
(* from: what it dialled was dead, and has stayed dead.                    *)
TakenFromNone ==
    \A p, q \in Processes : pc[p] \in {"removing", "binding"} => pc[q] \notin Holding

(* Who has removed the path does not get it back.                          *)
LeaversGone == \A p \in Processes : pc[p] = "leaving" => file # p

SInv == TypeOK /\ OneStarting /\ HoldersOwn /\ TakenFromNone /\ LeaversGone

-----------------------------------------------------------------------------
(* Types.                                                                  *)

LEMMA EndType ==
    ASSUME TypeOK, NEW p \in Processes, NEW place \in Down, End(p, place),
           faults' \in 0..MaxFaults
    PROVE  TypeOK'
<1>1. pc' \in [Processes -> Down \cup Running]
  BY DEF TypeOK, End, GoTo
<1>2. file' \in Processes \cup {None, Stale} /\ client' \in Processes \cup {None}
  BY DEF TypeOK, End
<1>3. client' # None => Listens(client)'
  BY SocketAssumption DEF TypeOK, End, GoTo, Listens
<1>. QED
  BY <1>1, <1>2, <1>3 DEF TypeOK

(* A step to a place that accepts connections if the one before did. *)
LEMMA MoveType ==
    ASSUME TypeOK, NEW p \in Processes, NEW place \in Running, GoTo(p, place),
           Listens(p) => place \in {"listening", "serving", "stopping", "leaving"},
           UNCHANGED <<client, faults>>, file' \in Processes \cup {None, Stale}
    PROVE  TypeOK'
BY SocketAssumption DEF TypeOK, GoTo, Listens

LEMMA StepType == TypeOK /\ [Next]_vars => TypeOK'
<1>. SUFFICES ASSUME TypeOK, [Next]_vars PROVE TypeOK'
  OBVIOUS
<1>. USE DEF Running, Starting, Down
<1>1. ASSUME NEW p \in Processes, Start(p) PROVE TypeOK'
  <2>1. ~Listens(p)
    BY <1>1 DEF Start, MayStart, Listens
  <2>. QED
    BY <1>1, <2>1, MoveType DEF Start, TypeOK
<1>2. ASSUME NEW p \in Processes, StartFails(p) \/ Crash(p) PROVE TypeOK'
  <2>1. faults' \in 0..MaxFaults /\ End(p, "failed")
    BY <1>2, SocketAssumption DEF StartFails, Crash, TypeOK
  <2>. QED
    BY <2>1, EndType
<1>3. ASSUME NEW p \in Processes, StartUp(p) PROVE TypeOK'
  <2>1. CASE Look(p)
    BY <2>1, MoveType DEF Look, Listens, TypeOK
  <2>2. CASE Dial(p)
    BY <2>2, MoveType, EndType DEF Dial, Listens, TypeOK
  <2>3. CASE RemoveStale(p)
    BY <2>3, MoveType, EndType DEF RemoveStale, Listens, TypeOK
  <2>4. CASE Bind(p)
    BY <2>4, MoveType, EndType DEF Bind, Listens, TypeOK
  <2>5. CASE Listen(p) \/ LockDown(p)
    BY <2>5, MoveType DEF Listen, LockDown, Listens, TypeOK
  <2>. QED
    BY <1>3, <2>1, <2>2, <2>3, <2>4, <2>5 DEF StartUp
<1>4. ASSUME NEW p \in Processes, ShutdownSignal(p) \/ ShutDown(p) PROVE TypeOK'
  <2>1. CASE ShutdownSignal(p) \/ RemoveSocket(p)
    BY <2>1, MoveType DEF ShutdownSignal, RemoveSocket, TypeOK
  <2>2. CASE Exit(p)
    BY <2>2, EndType DEF Exit, TypeOK
  <2>. QED
    BY <1>4, <2>1, <2>2 DEF ShutDown
<1>5. CASE ClientDials
  BY <1>5, SocketAssumption DEF ClientDials, Answers, TypeOK, Listens
<1>6. CASE UNCHANGED vars
  BY <1>6 DEF vars, TypeOK, Listens
<1>. QED
  BY <1>1, <1>2, <1>3, <1>4, <1>5, <1>6, SocketAssumption DEF Next, Restart

LEMMA InitType == Init => TypeOK
BY SocketAssumption DEF Init, TypeOK, Down, Listens

-----------------------------------------------------------------------------
(* The invariant.                                                          *)

(* A daemon that ends takes the path from no other and starts nothing.     *)
LEMMA EndHolds ==
    ASSUME SInv, NEW p \in Processes, NEW place \in Down, End(p, place)
    PROVE  OneStarting' /\ HoldersOwn' /\ TakenFromNone'
<1>. USE DEF SInv, Down, Starting, Holding
<1>1. \A q \in Processes : pc'[q] = IF q = p THEN place ELSE pc[q]
  BY DEF End, GoTo, TypeOK
<1>2. OneStarting' /\ TakenFromNone'
  BY <1>1 DEF OneStarting, TakenFromNone
<1>3. HoldersOwn'
  BY <1>1 DEF HoldersOwn, End
<1>. QED
  BY <1>2, <1>3

LEMMA StepHolds ==
    ASSUME StartsOverlap = FALSE, SInv, [Next]_vars
    PROVE  OneStarting' /\ HoldersOwn' /\ TakenFromNone'
<1>. USE DEF SInv, Starting, Holding
<1>1. ASSUME NEW p \in Processes, NEW place, GoTo(p, place)
      PROVE  \A q \in Processes : pc'[q] = IF q = p THEN place ELSE pc[q]
  BY <1>1 DEF GoTo, TypeOK
<1>2. ASSUME NEW p \in Processes, Start(p)
      PROVE  OneStarting' /\ HoldersOwn' /\ TakenFromNone'
  <2>1. \A q \in Processes : pc[q] \notin Starting
    BY <1>2 DEF Start, MayStart
  <2>2. GoTo(p, "looking") /\ file' = file
    BY <1>2 DEF Start
  <2>. QED
    BY <1>1, <2>1, <2>2 DEF OneStarting, HoldersOwn, TakenFromNone
<1>3. ASSUME NEW p \in Processes, StartFails(p) \/ Crash(p) \/ Exit(p)
      PROVE  OneStarting' /\ HoldersOwn' /\ TakenFromNone'
  BY <1>3, EndHolds DEF StartFails, Crash, Exit, Down
<1>4. ASSUME NEW p \in Processes, Look(p)
      PROVE  OneStarting' /\ HoldersOwn' /\ TakenFromNone'
  <2>1. file = None => \A q \in Processes : pc[q] \notin Holding
    BY SocketAssumption DEF HoldersOwn
  <2>2. pc[p] = "looking" /\ file' = file
        /\ GoTo(p, IF file = None THEN "binding" ELSE "dialling")
    BY <1>4 DEF Look
  <2>. QED
    BY <1>1, <2>1, <2>2 DEF OneStarting, HoldersOwn, TakenFromNone
<1>5. ASSUME NEW p \in Processes, Dial(p)
      PROVE  OneStarting' /\ HoldersOwn' /\ TakenFromNone'
  <2>1. CASE Answers
    BY <1>5, <2>1, EndHolds DEF Dial, Down
  <2>2. CASE ~Answers
    <3>1. pc[p] = "dialling" /\ GoTo(p, "removing") /\ file' = file
      BY <1>5, <2>2 DEF Dial
    <3>2. \A q \in Processes : pc[q] \notin Holding
      BY <2>2, <3>1 DEF Answers, Listens, HoldersOwn, OneStarting
    <3>. QED
      BY <1>1, <3>1, <3>2 DEF OneStarting, HoldersOwn, TakenFromNone
  <2>. QED
    BY <2>1, <2>2
<1>6. ASSUME NEW p \in Processes, RemoveStale(p)
      PROVE  OneStarting' /\ HoldersOwn' /\ TakenFromNone'
  <2>1. CASE file = None
    BY <1>6, <2>1, EndHolds DEF RemoveStale, Down
  <2>2. CASE file # None
    <3>1. pc[p] = "removing" /\ GoTo(p, "binding")
      BY <1>6, <2>2 DEF RemoveStale
    <3>. QED
      BY <1>1, <3>1 DEF OneStarting, HoldersOwn, TakenFromNone
  <2>. QED
    BY <2>1, <2>2
<1>7. ASSUME NEW p \in Processes, Bind(p)
      PROVE  OneStarting' /\ HoldersOwn' /\ TakenFromNone'
  <2>1. CASE file # None
    BY <1>7, <2>1, EndHolds DEF Bind, Down
  <2>2. CASE file = None
    <3>1. pc[p] = "binding" /\ GoTo(p, "bound") /\ file' = p
      BY <1>7, <2>2 DEF Bind
    <3>2. \A q \in Processes : pc[q] \in Starting => q = p
      BY <3>1 DEF OneStarting
    <3>. QED
      BY <1>1, <3>1, <3>2 DEF OneStarting, HoldersOwn, TakenFromNone
  <2>. QED
    BY <2>1, <2>2
<1>8. ASSUME NEW p \in Processes, Listen(p) \/ LockDown(p) \/ ShutdownSignal(p)
      PROVE  OneStarting' /\ HoldersOwn' /\ TakenFromNone'
  <2>1. PICK place \in {"listening", "serving", "stopping"} : GoTo(p, place)
    BY <1>8 DEF Listen, LockDown, ShutdownSignal
  <2>2. /\ pc[p] \in Holding /\ file' = file
        /\ place = "listening" => pc[p] = "bound"
    BY <1>8, <1>1, <2>1 DEF Listen, LockDown, ShutdownSignal
  <2>. QED
    BY <1>1, <2>1, <2>2 DEF OneStarting, HoldersOwn, TakenFromNone
<1>9. ASSUME NEW p \in Processes, RemoveSocket(p)
      PROVE  OneStarting' /\ HoldersOwn' /\ TakenFromNone'
  <2>1. pc[p] = "stopping" /\ GoTo(p, "leaving")
    BY <1>9 DEF RemoveSocket
  <2>. QED
    BY <1>1, <2>1 DEF OneStarting, HoldersOwn, TakenFromNone
<1>10. CASE ClientDials \/ UNCHANGED vars
  BY <1>10 DEF ClientDials, vars, OneStarting, HoldersOwn, TakenFromNone
<1>. QED
  BY <1>2, <1>3, <1>4, <1>5, <1>6, <1>7, <1>8, <1>9, <1>10, SocketAssumption
  DEF Next, Restart, StartUp, ShutDown

LEMMA StepLeaves ==
    ASSUME SInv, [Next]_vars
    PROVE  LeaversGone'
<1>. USE DEF SInv, LeaversGone
<1>1. ASSUME NEW p \in Processes, NEW place, GoTo(p, place)
      PROVE  \A q \in Processes : pc'[q] = IF q = p THEN place ELSE pc[q]
  BY <1>1 DEF GoTo, TypeOK
<1>2. ASSUME NEW p \in Processes, NEW place, GoTo(p, place),
             file' \in {file, None, Stale}, place # "leaving"
      PROVE  LeaversGone'
  BY <1>1, <1>2, SocketAssumption
<1>3. ASSUME NEW p \in Processes, NEW place \in Down, End(p, place) PROVE LeaversGone'
  BY <1>2, <1>3 DEF End, Down
<1>4. ASSUME NEW p \in Processes, Start(p) \/ Look(p) \/ Listen(p) \/ LockDown(p) \/ ShutdownSignal(p)
      PROVE  LeaversGone'
  BY <1>2, <1>4 DEF Start, Look, Listen, LockDown, ShutdownSignal
<1>5. ASSUME NEW p \in Processes, StartFails(p) \/ Crash(p) \/ Exit(p) PROVE LeaversGone'
  BY <1>3, <1>5 DEF StartFails, Crash, Exit, Down
<1>6. ASSUME NEW p \in Processes, Dial(p) \/ RemoveStale(p) PROVE LeaversGone'
  BY <1>2, <1>3, <1>6 DEF Dial, RemoveStale, Down
<1>7. ASSUME NEW p \in Processes, Bind(p) PROVE LeaversGone'
  <2>1. CASE file = None
    <3>1. GoTo(p, "bound") /\ file' = p
      BY <1>7, <2>1 DEF Bind
    <3>. QED
      BY <1>1, <3>1
  <2>2. CASE file # None
    BY <1>3, <1>7, <2>2 DEF Bind, Down
  <2>. QED
    BY <2>1, <2>2
<1>8. ASSUME NEW p \in Processes, RemoveSocket(p) PROVE LeaversGone'
  BY <1>8, SocketAssumption DEF RemoveSocket
<1>9. CASE ClientDials \/ UNCHANGED vars
  BY <1>9 DEF ClientDials, vars
<1>. QED
  BY <1>4, <1>5, <1>6, <1>7, <1>8, <1>9, SocketAssumption DEF Next, Restart, StartUp, ShutDown

-----------------------------------------------------------------------------
(* The theorems.                                                           *)

(* Every variable keeps its type; the client is never connected to a       *)
(* process that is gone.                                                   *)
THEOREM SocketTypeCorrect == Spec => []TypeOK
BY InitType, StepType, PTL DEF Spec

LEMMA Serving ==
    ASSUME StartsOverlap = FALSE
    PROVE  Spec => []SInv
<1>1. Init => SInv
  BY InitType DEF Init, SInv, OneStarting, HoldersOwn, TakenFromNone, LeaversGone, Starting, Holding, Down
<1>2. SInv /\ [Next]_vars => SInv'
  BY StepType, StepHolds, StepLeaves DEF SInv
<1>. QED
  BY <1>1, <1>2, PTL DEF Spec

(* When starts do not overlap, no start, crash or exit of another daemon   *)
(* takes the path from one that serves.                                    *)
THEOREM ServerCorrect ==
    ASSUME StartsOverlap = FALSE
    PROVE  Spec => []ServerReachable
<1>1. SInv => ServerReachable
  BY DEF SInv, HoldersOwn, Holding, ServerReachable
<1>. QED
  BY <1>1, Serving, PTL

(* A process that listens behind the path holds it, and a step of another  *)
(* leaves the path alone.                                                  *)
LEMMA StepRemoves ==
    ASSUME SInv, [Next]_vars, NEW q \in Processes, file = q, Listens(q), pc'[q] = pc[q]
    PROVE  file' = q
<1>. USE DEF SInv
<1>1. pc[q] \in Holding
  BY DEF LeaversGone, Listens, Holding
<1>2. file # None /\ file # Stale
  BY SocketAssumption
<1>3. ASSUME NEW p \in Processes, NEW place \in Down, End(p, place) PROVE file' = q
  <2>1. p # q
    BY <1>1, <1>3 DEF End, GoTo, TypeOK, Holding, Down
  <2>. QED
    BY <1>3, <2>1 DEF End
<1>4. ASSUME NEW p \in Processes,
             Start(p) \/ Look(p) \/ Listen(p) \/ LockDown(p) \/ ShutdownSignal(p)
      PROVE  file' = q
  BY <1>4 DEF Start, Look, Listen, LockDown, ShutdownSignal
<1>5. ASSUME NEW p \in Processes, StartFails(p) \/ Crash(p) \/ Exit(p) PROVE file' = q
  BY <1>3, <1>5 DEF StartFails, Crash, Exit, Down
<1>6. ASSUME NEW p \in Processes, Dial(p) PROVE file' = q
  BY <1>3, <1>6 DEF Dial, Down
<1>7. ASSUME NEW p \in Processes, RemoveStale(p) PROVE file' = q
  BY <1>1, <1>7 DEF RemoveStale, TakenFromNone
<1>8. ASSUME NEW p \in Processes, Bind(p) PROVE file' = q
  BY <1>2, <1>3, <1>8 DEF Bind, Down
<1>9. ASSUME NEW p \in Processes, RemoveSocket(p) PROVE file' = q
  <2>1. pc[p] = "stopping" /\ pc'[p] = "leaving"
    BY <1>9 DEF RemoveSocket, GoTo, TypeOK
  <2>2. p = q
    BY <2>1, SocketAssumption DEF HoldersOwn, Holding
  <2>. QED
    BY <2>1, <2>2
<1>10. CASE ClientDials \/ UNCHANGED vars
  BY <1>10 DEF ClientDials, vars
<1>. QED
  BY <1>4, <1>5, <1>6, <1>7, <1>8, <1>9, <1>10, SocketAssumption DEF Next, Restart, StartUp, ShutDown

(* When starts do not overlap, no daemon that listens loses the path to a  *)
(* step of another: what a start removes is dead, and what an exit removes *)
(* is its own.                                                             *)
THEOREM RemovalCorrect ==
    ASSUME StartsOverlap = FALSE
    PROVE  Spec => RemovesOnlyDead
<1>1. ASSUME SInv, [Next]_vars
      PROVE  [\A p \in Processes : file = p /\ Listens(p) /\ file' # p => pc'[p] # pc[p]]_vars
  BY <1>1, StepRemoves
<1>. QED
  BY <1>1, Serving, PTL DEF Spec, RemovesOnlyDead
=============================================================================
