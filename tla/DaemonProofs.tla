---------------------------- MODULE DaemonProofs ----------------------------
(***************************************************************************)
(* Proofs about module Daemon, for any number of connections, databases,   *)
(* entries and requests and any idle limit.                                *)
(***************************************************************************)
EXTENDS Daemon, SequenceTheorems, TLAPS

(* The manager is well formed, subscribers know it, its entries are those  *)
(* of the active database.                                                 *)
Coherent(m) ==
    /\ m \in Managers
    /\ m.seen.locked = IsLocked(m)
    /\ m.seen.activeVault = m.active
    /\ m.loaded = IF m.state = "Unlocked" THEN m.active ELSE None

-----------------------------------------------------------------------------
(* The manager's operations keep it coherent.                              *)

LEMMA NewManagerCoherent == Coherent(NewManager)
BY VaultAssumption DEF Coherent, NewManager, Managers, States, IsLocked

(* Locking always ends in Locked and never changes the active database.    *)
LEMMA LockNowCoherent ==
    ASSUME NEW m, Coherent(m)
    PROVE  /\ Coherent(LockNow(m))
           /\ LockNow(m).state = "Locked"
           /\ LockNow(m).active = m.active
BY DEF Coherent, Managers, States, IsLocked, LockNow, Emit, HandleEvent, LockedEvent

(* After a switch the requested database is active; if it was not before,  *)
(* it is locked.                                                           *)
LEMMA SwitchToCoherent ==
    ASSUME NEW m, Coherent(m), NEW v \in Vaults
    PROVE  /\ Coherent(SwitchTo(m, v))
           /\ SwitchTo(m, v).active = v
           /\ SwitchTo(m, v).state \in {m.state, "Locked"}
<1>1. CASE v = m.active
  BY <1>1 DEF SwitchTo, Coherent, Managers
<1>2. CASE v # m.active
  <2>. DEFINE n == LockNow(m)
              k == [n EXCEPT !.active = v]
              w == [locked |-> TRUE, activeVault |-> v]
  <2>1. Coherent(n) /\ n.state = "Locked"
    BY LockNowCoherent
  <2>2. SwitchTo(m, v) = Emit(k, SwitchedEvent(v))
    BY <1>2 DEF SwitchTo
  <2>. HIDE DEF n
  <2>3. k \in Managers /\ k.active = v /\ k.state = "Locked" /\ k.loaded = None
    BY <2>1 DEF Coherent, Managers
  <2>. HIDE DEF k
  <2>4. HandleEvent(k.seen, SwitchedEvent(v)) = w
    BY DEF HandleEvent, SwitchedEvent
  <2>5. w \in [locked : BOOLEAN, activeVault : Vaults] /\ w.locked = TRUE /\ w.activeVault = v
    OBVIOUS
  <2>. HIDE DEF w
  <2>6. SwitchTo(m, v) = [k EXCEPT !.seen = w]
    BY <2>2, <2>4 DEF Emit
  <2>. QED
    BY <2>3, <2>5, <2>6 DEF Coherent, Managers, IsLocked
<1>. QED
  BY <1>1, <1>2

LEMMA StartUnlockingCoherent ==
    ASSUME NEW m, Coherent(m), m.state = "Locked"
    PROVE  /\ Coherent(StartUnlocking(m))
           /\ StartUnlocking(m).state = "Unlocking"
BY DEF Coherent, Managers, States, IsLocked, StartUnlocking

(* However an unlock ends, the intermediate state is gone.                 *)
LEMMA EndUnlockingCoherent ==
    ASSUME NEW m, Coherent(m), m.state = "Unlocking", NEW opened \in BOOLEAN
    PROVE  /\ Coherent(EndUnlocking(m, opened))
           /\ EndUnlocking(m, opened).state \in {"Unlocked", "Locked"}
BY DEF Coherent, Managers, States, IsLocked, EndUnlocking, Load, Emit, HandleEvent,
       UnlockedEvent
-----------------------------------------------------------------------------
(* The mutex queue.                                                        *)

(* A newcomer goes to the end; the owner, if there is one, stays.          *)
LEMMA AppendQueue ==
    ASSUME NEW S, NEW q \in Seq(S), NEW p \in S, IsInjective(q), p \notin Range(q)
    PROVE  /\ Append(q, p) \in Seq(S)
           /\ IsInjective(Append(q, p))
           /\ Range(Append(q, p)) = Range(q) \cup {p}
           /\ Append(q, p) # << >>
           /\ q # << >> => Head(Append(q, p)) = Head(q)
           /\ q = << >> => Head(Append(q, p)) = p
<1>. DEFINE r == Append(q, p)
<1>1. /\ r \in Seq(S) /\ Len(r) = Len(q) + 1 /\ r[Len(q) + 1] = p
      /\ \A i \in 1..Len(q) : r[i] = q[i]
      /\ DOMAIN r = 1..(Len(q) + 1) /\ DOMAIN q = 1..Len(q) /\ Len(q) \in Nat
  BY AppendProperties
<1>2. IsInjective(r)
  <2>. SUFFICES ASSUME NEW i \in DOMAIN r, NEW j \in DOMAIN r, r[i] = r[j]
                PROVE  i = j
    BY DEF IsInjective
  <2>. HIDE DEF r
  <2>1. CASE i \in 1..Len(q) /\ j \in 1..Len(q)
    BY <1>1, <2>1 DEF IsInjective
  <2>2. CASE i = Len(q) + 1 \/ j = Len(q) + 1
    BY <1>1, <2>2 DEF Range
  <2>. QED
    BY <1>1, <2>1, <2>2
<1>3. Range(r) = Range(q) \cup {p}
  <2>. HIDE DEF r
  <2>1. ASSUME NEW x \in Range(r) PROVE x \in Range(q) \cup {p}
    BY <1>1 DEF Range
  <2>2. ASSUME NEW x \in Range(q) PROVE x \in Range(r)
    BY <1>1 DEF Range
  <2>3. p \in Range(r)
    <3>1. Len(q) + 1 \in DOMAIN r
      BY <1>1
    <3>. QED
      BY <1>1, <3>1 DEF Range
  <2>. QED
    BY <2>1, <2>2, <2>3
<1>4. r # << >> /\ Head(r) = r[1]
  BY <1>1
<1>5. q # << >> => Head(q) = q[1] /\ 1 \in 1..Len(q)
  OBVIOUS
<1>6. q = << >> => Len(q) = 0
  OBVIOUS
<1>. QED
  BY <1>1, <1>2, <1>3, <1>4, <1>5, <1>6

(* A release removes the owner and nobody else.                            *)
LEMMA TailQueue ==
    ASSUME NEW S, NEW q \in Seq(S), q # << >>, IsInjective(q)
    PROVE  /\ Tail(q) \in Seq(S)
           /\ IsInjective(Tail(q))
           /\ Range(Tail(q)) = Range(q) \ {Head(q)}
<1>. DEFINE r == Tail(q)
<1>1. /\ r \in Seq(S) /\ Len(r) = Len(q) - 1 /\ Len(q) \in Nat \ {0}
      /\ DOMAIN r = 1..(Len(q) - 1) /\ DOMAIN q = 1..Len(q)
      /\ \A i \in 1..(Len(q) - 1) : r[i] = q[i + 1]
      /\ Head(q) = q[1]
  OBVIOUS
<1>. HIDE DEF r
<1>2. IsInjective(r)
  <2>. SUFFICES ASSUME NEW i \in DOMAIN r, NEW j \in DOMAIN r, r[i] = r[j]
                PROVE  i = j
    BY DEF IsInjective
  <2>1. i + 1 \in DOMAIN q /\ j + 1 \in DOMAIN q /\ q[i + 1] = q[j + 1]
    BY <1>1
  <2>2. i + 1 = j + 1
    BY <2>1 DEF IsInjective
  <2>. QED
    BY <1>1, <2>2
<1>3. ASSUME NEW x \in Range(r) PROVE x \in Range(q) \ {Head(q)}
  <2>1. PICK i \in DOMAIN r : r[i] = x
    BY DEF Range
  <2>2. i + 1 \in DOMAIN q /\ 1 \in DOMAIN q /\ q[i + 1] = x /\ i + 1 # 1
    BY <1>1, <2>1
  <2>. QED
    BY <1>1, <2>2 DEF IsInjective, Range
<1>4. ASSUME NEW x \in Range(q) \ {Head(q)} PROVE x \in Range(r)
  <2>1. PICK i \in DOMAIN q : q[i] = x
    BY DEF Range
  <2>2. i # 1
    BY <1>1, <2>1
  <2>3. i - 1 \in DOMAIN r /\ r[i - 1] = x
    BY <1>1, <2>1, <2>2
  <2>. QED
    BY <2>3 DEF Range
<1>. QED
  BY <1>1, <1>2, <1>3, <1>4 DEF r

(* The owner of a mutex in use is one of those in its queue.               *)
LEMMA HeadInQueue ==
    ASSUME NEW S, NEW q \in Seq(S), q # << >>
    PROVE  Head(q) \in Range(q) /\ Head(q) \in S
<1>1. 1 \in DOMAIN q /\ Head(q) = q[1] /\ q[1] \in S
  OBVIOUS
<1>. QED
  BY <1>1 DEF Range
-----------------------------------------------------------------------------
(* The inductive invariant.  Coherence of the manager needs to know that   *)
(* pinentry returns into the Unlocking state, which needs to know that     *)
(* nobody else got hold of the mutex meanwhile, which needs the queue.     *)

IInv ==
    /\ TypeOK
    /\ Coherent(mgr)
    /\ QueueIsWaiters
    /\ PromptOwnsUnlocking

LEMMA InitIInv == Init => IInv
<1>. SUFFICES ASSUME Init PROVE IInv
  OBVIOUS
<1>1. TypeOK
  BY VaultAssumption, DaemonAssumption, NewManagerCoherent
  DEF Init, TypeOK, Coherent, Phases, Answers, NoAnswer, Plain, Codes, AgeCap
<1>2. Coherent(mgr)
  BY NewManagerCoherent DEF Init
<1>3. QueueIsWaiters
  <2>1. IsInjective(queue) /\ Range(queue) = {}
    BY DEF Init, IsInjective, Range
  <2>2. \A p \in Procs : ~InQueue(p)
    BY DEF Init, InQueue
  <2>. QED
    BY <2>1, <2>2 DEF QueueIsWaiters
<1>4. PromptOwnsUnlocking
  BY DEF Init, PromptOwnsUnlocking, NewManager
<1>. QED
  BY <1>1, <1>2, <1>3, <1>4 DEF IInv

(* A task that is not waiting may join the queue.                          *)
LEMMA Joins ==
    ASSUME IInv, NEW p \in Procs, ~InQueue(p), Enqueue(p),
           \A x \in Procs : InQueue(x)' <=> (InQueue(x) \/ x = p)
    PROVE  /\ queue' \in Seq(Procs)
           /\ QueueIsWaiters'
           /\ \A c \in Clients : Owns(c) => Owns(c)'
<1>1. p \notin Range(queue) /\ IsInjective(queue) /\ queue \in Seq(Procs)
  BY DEF IInv, TypeOK, QueueIsWaiters
<1>2. /\ queue' \in Seq(Procs) /\ IsInjective(queue')
      /\ Range(queue') = Range(queue) \cup {p}
      /\ queue' # << >>
      /\ queue # << >> => Head(queue') = Head(queue)
  BY <1>1, AppendQueue DEF Enqueue
<1>3. QueueIsWaiters'
  BY <1>2 DEF IInv, QueueIsWaiters
<1>. QED
  BY <1>2, <1>3 DEF Owns

(* The owner of the mutex may leave it.                                    *)
LEMMA Leaves ==
    ASSUME IInv, NEW p \in Procs, Owns(p), Release,
           \A x \in Procs : InQueue(x)' <=> (InQueue(x) /\ x # p)
    PROVE  /\ queue' \in Seq(Procs)
           /\ QueueIsWaiters'
<1>1. IsInjective(queue) /\ queue \in Seq(Procs) /\ queue # << >> /\ Head(queue) = p
  BY DEF IInv, TypeOK, QueueIsWaiters, Owns
<1>2. /\ queue' \in Seq(Procs) /\ IsInjective(queue')
      /\ Range(queue') = Range(queue) \ {p}
  BY <1>1, TailQueue DEF Release
<1>. QED
  BY <1>2 DEF IInv, QueueIsWaiters

(* No prompt is open while a task that is not in a prompt owns the mutex.  *)
LEMMA OwnerIsAlone ==
    ASSUME IInv, NEW p, Owns(p), ~(p \in Clients /\ phase[p] = "prompt")
    PROVE  /\ \A c \in Clients : phase[c] # "prompt"
           /\ mgr.state # "Unlocking"
BY DEF IInv, PromptOwnsUnlocking, Owns

(* A connection that owns the mutex may finish with any coherent manager   *)
(* that is not left in the intermediate state.                             *)
LEMMA FinishStep ==
    ASSUME IInv, NEW c \in Clients, phase[c] \in {"waiting", "prompt"}, Owns(c),
           NEW m, Coherent(m), m.state # "Unlocking",
           NEW a \in Answers, Finish(c, m, a), age' \in 0..AgeCap
    PROVE  IInv'
<1>1. /\ phase \in [Clients -> Phases] /\ phase' = [phase EXCEPT ![c] = "answering"]
      /\ UNCHANGED <<idle, logind, main>>
  BY DEF IInv, TypeOK, Finish, taskVars
<1>2. \A x \in Procs : InQueue(x)' <=> (InQueue(x) /\ x # c)
  BY <1>1, DaemonAssumption DEF InQueue, Procs, Tasks
<1>3. queue' \in Seq(Procs) /\ QueueIsWaiters'
  BY <1>2, Leaves DEF Finish, Procs
<1>4. \A d \in Clients : phase'[d] # "prompt"
  BY <1>1 DEF IInv, PromptOwnsUnlocking, Owns
<1>5. PromptOwnsUnlocking'
  BY <1>4 DEF Finish, PromptOwnsUnlocking
<1>6. TypeOK'
  BY <1>1, <1>3 DEF IInv, TypeOK, Finish, Coherent, Phases, taskVars
<1>7. Coherent(mgr)'
  BY DEF Finish, Coherent, IsLocked
<1>. QED
  BY <1>3, <1>5, <1>6, <1>7 DEF IInv
-----------------------------------------------------------------------------
(* Each step keeps the invariant: the critical sections of a connection.   *)

(* Inside its critical section a connection is alone with the vault.       *)
LEMMA ServingIsAlone ==
    ASSUME IInv, NEW c \in Clients, phase[c] = "waiting", Owns(c)
    PROVE  /\ \A d \in Clients : phase[d] # "prompt"
           /\ mgr.state \in {"Locked", "Unlocked"}
           /\ Coherent(mgr)
           /\ age \in 0..AgeCap
<1>1. mgr.state # "Unlocking" /\ \A d \in Clients : phase[d] # "prompt"
  BY OwnerIsAlone
<1>. QED
  BY <1>1 DEF IInv, TypeOK, Coherent, Managers, States

LEMMA PlainAnswer ==
    ASSUME NEW code \in Codes
    PROVE  Plain(code) \in Answers
BY DEF Plain, Answers

LEMMA StateAnswerAnswer ==
    ASSUME NEW m, Coherent(m)
    PROVE  StateAnswer(m) \in Answers /\ UnlockAnswer(m) \in Answers
BY DEF Coherent, Managers, StateAnswer, UnlockAnswer, Says, Answers, Codes

LEMMA LookupCode == \A m, u : Lookup(m, u) \in Codes
BY DEF Lookup, Codes

(* hello, status, vaults, list, get and totp leave the vault alone.        *)
LEMMA ReadStep ==
    ASSUME IInv, NEW c \in Clients, phase[c] = "waiting", Owns(c),
           NEW a \in Answers, Finish(c, mgr, a), UNCHANGED age
    PROVE  IInv'
<1>1. Coherent(mgr) /\ mgr.state # "Unlocking" /\ age' \in 0..AgeCap
  BY ServingIsAlone
<1>. QED
  BY <1>1, FinishStep

(* A request names a database or nothing only if it is well formed.        *)
LEMMA RequestedCoherent ==
    ASSUME IInv, NEW c \in Clients, Unlocking(c)
    PROVE  LET m == Requested(mgr, req[c])
           IN  Coherent(m) /\ m.state \in {"Locked", "Unlocked"}
<1>1. /\ phase[c] = "waiting" /\ Owns(c)
      /\ req[c].vault = None \/ req[c].vault \in Vaults
  BY DEF Unlocking, Serving
<1>2. Coherent(mgr) /\ mgr.state \in {"Locked", "Unlocked"}
  BY <1>1, ServingIsAlone
<1>3. CASE req[c].vault = None
  BY <1>2, <1>3 DEF Requested
<1>4. CASE req[c].vault # None
  BY <1>1, <1>2, <1>4, SwitchToCoherent DEF Requested
<1>. QED
  BY <1>3, <1>4

(* Whatever do_unlock returned, the end of an unlock keeps the invariant.  *)
LEMMA EndUnlockStep ==
    ASSUME IInv, NEW c \in Clients, phase[c] \in {"waiting", "prompt"}, Owns(c),
           NEW m, Coherent(m), m.state = "Unlocking",
           NEW code \in Codes, EndUnlock(c, m, code)
    PROVE  IInv'
<1>. DEFINE n == EndUnlocking(m, code = "ok")
            a == IF code = "ok" THEN UnlockAnswer(n) ELSE Plain(code)
<1>1. Coherent(n) /\ n.state # "Unlocking"
  BY EndUnlockingCoherent
<1>2. a \in Answers
  BY <1>1, PlainAnswer, StateAnswerAnswer
<1>3. Finish(c, n, a) /\ age' = IF code = "ok" THEN 0 ELSE age
  BY DEF EndUnlock
<1>. HIDE DEF n, a
<1>4. age' \in 0..AgeCap
  BY <1>3, DaemonAssumption DEF IInv, TypeOK, AgeCap
<1>. QED
  BY <1>1, <1>2, <1>3, <1>4, FinishStep

LEMMA OperateStep ==
    ASSUME IInv, NEW c \in Clients, Operate(c)
    PROVE  IInv'
<1>1. phase[c] = "waiting" /\ Owns(c)
  BY DEF Operate, Hello, Status, Overview, Use, Lock, List, Get, Totp, CopyOrType,
         UnlockUnknown, UnlockRefused, UnlockInline, UnlockPrompt, Unlocking, Serving
<1>2. /\ Coherent(mgr) /\ mgr.state \in {"Locked", "Unlocked"} /\ age \in 0..AgeCap
      /\ \A d \in Clients : phase[d] # "prompt"
  BY <1>1, ServingIsAlone
<1>3. CASE Hello(c) \/ Status(c)
  BY <1>1, <1>2, <1>3, ReadStep, StateAnswerAnswer DEF Hello, Status
<1>4. CASE Overview(c)
  BY <1>1, <1>4, ReadStep, PlainAnswer DEF Overview, Codes
<1>5. CASE Use(c)
  <2>. DEFINE v == req[c].vault
              a == [code |-> "ok", says |-> "locked", vault |-> v]
  <2>1. CASE v \in Vaults
    <3>1. Coherent(SwitchTo(mgr, v)) /\ SwitchTo(mgr, v).state # "Unlocking"
      BY <1>2, <2>1, SwitchToCoherent
    <3>2. a \in Answers
      BY <2>1 DEF Answers, Codes
    <3>3. Finish(c, SwitchTo(mgr, v), a) /\ age' \in 0..AgeCap
      BY <1>2, <1>5, <2>1 DEF Use
    <3>. HIDE DEF a, v
    <3>. QED
      BY <1>1, <3>1, <3>2, <3>3, FinishStep
  <2>2. CASE v \notin Vaults
    BY <1>1, <1>5, <2>2, ReadStep, PlainAnswer DEF Use, Codes
  <2>. QED
    BY <2>1, <2>2
<1>6. CASE Lock(c)
  <2>. DEFINE a == [code |-> "ok", says |-> "locked", vault |-> None]
  <2>1. Coherent(LockNow(mgr)) /\ LockNow(mgr).state # "Unlocking"
    BY <1>2, LockNowCoherent
  <2>2. a \in Answers
    BY DEF Answers, Codes
  <2>3. Finish(c, LockNow(mgr), a) /\ age' \in 0..AgeCap
    BY <1>2, <1>6 DEF Lock
  <2>. HIDE DEF a
  <2>. QED
    BY <1>1, <2>1, <2>2, <2>3, FinishStep
<1>7. CASE List(c)
  BY <1>1, <1>7, ReadStep, PlainAnswer DEF List, Codes
<1>8. CASE Get(c)
  <2>. DEFINE code == Lookup(mgr, req[c].uuid)
              answered == IF code = "ok" /\ req[c].secret THEN "unsupported" ELSE code
  <2>1. answered \in Codes
    BY LookupCode DEF Codes
  <2>2. Finish(c, mgr, Plain(answered)) /\ UNCHANGED age
    BY <1>8 DEF Get
  <2>. HIDE DEF answered
  <2>. QED
    BY <1>1, <2>1, <2>2, ReadStep, PlainAnswer
<1>9. CASE Totp(c)
  BY <1>1, <1>9, ReadStep, PlainAnswer, LookupCode DEF Totp
<1>10. CASE CopyOrType(c)
  <2>1. CASE TakeSecret(c) /\ UNCHANGED age
    <3>1. /\ phase \in [Clients -> Phases] /\ phase' = [phase EXCEPT ![c] = "acting"]
          /\ UNCHANGED <<idle, logind, main>> /\ mgr' = mgr
      BY <2>1 DEF IInv, TypeOK, TakeSecret, taskVars
    <3>2. \A x \in Procs : InQueue(x)' <=> (InQueue(x) /\ x # c)
      BY <1>1, <3>1, DaemonAssumption DEF InQueue, Procs, Tasks
    <3>3. queue' \in Seq(Procs) /\ QueueIsWaiters'
      BY <1>1, <2>1, <3>2, Leaves DEF TakeSecret, Procs
    <3>4. PromptOwnsUnlocking'
      BY <1>2, <3>1 DEF PromptOwnsUnlocking
    <3>5. mgr.loaded \in Vaults \cup {None}
      BY <1>2 DEF Coherent, Managers
    <3>6. TypeOK'
      BY <2>1, <3>1, <3>3, <3>5 DEF IInv, TypeOK, TakeSecret, Phases, taskVars
    <3>7. Coherent(mgr)'
      BY <1>2, <3>1 DEF Coherent, IsLocked
    <3>. QED
      BY <3>3, <3>4, <3>6, <3>7 DEF IInv
  <2>2. CASE Finish(c, mgr, Plain(Lookup(mgr, req[c].uuid))) /\ UNCHANGED age
    BY <1>1, <2>2, ReadStep, PlainAnswer, LookupCode
  <2>3. ASSUME NEW refusal \in Refusals(req[c].op),
               Finish(c, mgr, Plain(refusal)), UNCHANGED age
        PROVE  IInv'
    BY <1>1, <2>3, ReadStep, PlainAnswer DEF Refusals, Codes
  <2>. QED
    BY <1>10, <2>1, <2>2, <2>3 DEF CopyOrType
<1>11. CASE UnlockUnknown(c)
  BY <1>1, <1>11, ReadStep, PlainAnswer DEF UnlockUnknown, Codes
<1>12. CASE UnlockRefused(c)
  <2>. DEFINE m == Requested(mgr, req[c])
              a == IF m.state = "Unlocked" THEN UnlockAnswer(m) ELSE Plain("busy")
  <2>1. Coherent(m) /\ m.state # "Unlocking"
    BY <1>12, RequestedCoherent DEF UnlockRefused
  <2>2. a \in Answers
    BY <2>1, StateAnswerAnswer, PlainAnswer DEF Codes
  <2>3. Finish(c, m, a) /\ age' \in 0..AgeCap
    BY <1>2, <1>12 DEF UnlockRefused
  <2>. HIDE DEF m, a
  <2>. QED
    BY <1>1, <2>1, <2>2, <2>3, FinishStep
<1>13. CASE UnlockInline(c)
  <2>. DEFINE m == Requested(mgr, req[c])
  <2>1. Coherent(m) /\ m.state = "Locked"
    BY <1>13, RequestedCoherent DEF UnlockInline
  <2>2. Coherent(StartUnlocking(m)) /\ StartUnlocking(m).state = "Unlocking"
    BY <2>1, StartUnlockingCoherent
  <2>3. PICK code \in Codes : EndUnlock(c, StartUnlocking(m), code)
    BY <1>13 DEF UnlockInline, Codes
  <2>. HIDE DEF m
  <2>. QED
    BY <1>1, <2>2, <2>3, EndUnlockStep
<1>14. CASE UnlockPrompt(c)
  <2>. DEFINE m == Requested(mgr, req[c])
  <2>1. Coherent(m) /\ m.state = "Locked"
    BY <1>14, RequestedCoherent DEF UnlockPrompt
  <2>2. Coherent(StartUnlocking(m)) /\ StartUnlocking(m).state = "Unlocking"
    BY <2>1, StartUnlockingCoherent
  <2>3. mgr' = StartUnlocking(m)
    BY <1>14 DEF UnlockPrompt
  <2>. HIDE DEF m
  <2>4. /\ phase \in [Clients -> Phases] /\ phase' = [phase EXCEPT ![c] = "prompt"]
        /\ UNCHANGED <<queue, req, answer, held, clockVars, taskVars>>
    BY <1>14 DEF IInv, TypeOK, UnlockPrompt
  <2>5. \A x \in Procs : InQueue(x)' <=> InQueue(x)
    BY <1>1, <2>4 DEF InQueue, taskVars
  <2>6. QueueIsWaiters'
    BY <2>4, <2>5 DEF IInv, QueueIsWaiters
  <2>7. Coherent(mgr)' /\ mgr'.state = "Unlocking" /\ mgr' \in Managers
    BY <2>2, <2>3 DEF Coherent, IsLocked
  <2>8. PromptOwnsUnlocking'
    BY <1>1, <1>2, <2>4, <2>7 DEF PromptOwnsUnlocking, Owns
  <2>9. TypeOK'
    BY <2>4, <2>7 DEF IInv, TypeOK, Phases, clockVars, taskVars
  <2>. QED
    BY <2>6, <2>7, <2>8, <2>9 DEF IInv
<1>. QED
  BY <1>3, <1>4, <1>5, <1>6, <1>7, <1>8, <1>9, <1>10, <1>11, <1>12, <1>13, <1>14 DEF Operate
-----------------------------------------------------------------------------
(* Each step keeps the invariant: connections outside the mutex.           *)

LEMMA AnswerAtOnceStep ==
    ASSUME IInv, NEW c \in Clients, NEW r \in Workload, AnswerAtOnce(c, r)
    PROVE  IInv'
<1>1. /\ phase \in [Clients -> Phases] /\ phase[c] = "reading"
      /\ phase' = [phase EXCEPT ![c] = "answering"]
      /\ UNCHANGED <<mgr, queue, held, due, tickIn, idle, logind, signals, main>>
  BY DEF IInv, TypeOK, AnswerAtOnce, taskVars
<1>2. \A x \in Procs : InQueue(x)' <=> InQueue(x)
  BY <1>1 DEF InQueue
<1>3. QueueIsWaiters'
  BY <1>1, <1>2 DEF IInv, QueueIsWaiters
<1>4. PromptOwnsUnlocking' /\ Coherent(mgr)'
  BY <1>1 DEF IInv, PromptOwnsUnlocking, Owns, Coherent, IsLocked
<1>5. ImmediateAnswer(r) \in Answers
  BY PlainAnswer DEF ImmediateAnswer, Codes
<1>6. age' \in 0..AgeCap
  BY DaemonAssumption DEF IInv, TypeOK, AnswerAtOnce, AgeCap
<1>7. /\ req' = [req EXCEPT ![c] = r] /\ r \in Requests
      /\ answer' = [answer EXCEPT ![c] = ImmediateAnswer(r)]
  BY DaemonAssumption DEF AnswerAtOnce
<1>8. TypeOK'
  BY <1>1, <1>5, <1>6, <1>7 DEF IInv, TypeOK, Phases
<1>. QED
  BY <1>3, <1>4, <1>8 DEF IInv

LEMMA AskForVaultStep ==
    ASSUME IInv, NEW c \in Clients, NEW r \in Workload, AskForVault(c, r)
    PROVE  IInv'
<1>1. /\ phase \in [Clients -> Phases] /\ phase[c] = "reading"
      /\ phase' = [phase EXCEPT ![c] = "waiting"] /\ Enqueue(c)
      /\ req' = [req EXCEPT ![c] = r] /\ r \in Requests /\ age' = 0
      /\ UNCHANGED <<mgr, answer, held, due, tickIn, idle, logind, signals, main>>
  BY DaemonAssumption DEF IInv, TypeOK, AskForVault, taskVars
<1>2. \A x \in Procs : InQueue(x)' <=> (InQueue(x) \/ x = c)
  BY <1>1 DEF InQueue
<1>3. ~InQueue(c)
  BY <1>1, DaemonAssumption DEF InQueue, Tasks
<1>4. /\ queue' \in Seq(Procs) /\ QueueIsWaiters'
      /\ \A d \in Clients : Owns(d) => Owns(d)'
  BY <1>1, <1>2, <1>3, Joins DEF Procs
<1>5. PromptOwnsUnlocking' /\ Coherent(mgr)'
  BY <1>1, <1>4 DEF IInv, PromptOwnsUnlocking, Coherent, IsLocked
<1>6. TypeOK'
  BY <1>1, <1>4, DaemonAssumption DEF IInv, TypeOK, Phases, AgeCap
<1>. QED
  BY <1>4, <1>5, <1>6 DEF IInv

LEMMA RespondStep ==
    ASSUME IInv, NEW c \in Clients, Respond(c)
    PROVE  IInv'
<1>1. /\ phase \in [Clients -> Phases] /\ phase[c] = "answering"
      /\ phase' = [phase EXCEPT ![c] = "reading"]
      /\ req' = [req EXCEPT ![c] = NoRequest] /\ answer' = [answer EXCEPT ![c] = NoAnswer]
      /\ UNCHANGED <<mgr, queue, held, age, due, tickIn, idle, logind, signals, main>>
  BY DEF IInv, TypeOK, Respond, clockVars, taskVars
<1>2. \A x \in Procs : InQueue(x)' <=> InQueue(x)
  BY <1>1 DEF InQueue
<1>3. QueueIsWaiters'
  BY <1>1, <1>2 DEF IInv, QueueIsWaiters
<1>4. PromptOwnsUnlocking' /\ Coherent(mgr)'
  BY <1>1 DEF IInv, PromptOwnsUnlocking, Owns, Coherent, IsLocked
<1>5. NoAnswer \in Answers
  BY PlainAnswer DEF NoAnswer, Codes
<1>6. TypeOK'
  BY <1>1, <1>5 DEF IInv, TypeOK, Phases
<1>. QED
  BY <1>3, <1>4, <1>6 DEF IInv

LEMMA ActStep ==
    ASSUME IInv, NEW c \in Clients, Act(c)
    PROVE  IInv'
<1>1. /\ phase \in [Clients -> Phases] /\ phase[c] = "acting"
      /\ phase' = [phase EXCEPT ![c] = "answering"]
      /\ held' = [held EXCEPT ![c] = None]
      /\ UNCHANGED <<mgr, queue, req, age, due, tickIn, idle, logind, signals, main>>
  BY DEF IInv, TypeOK, Act, clockVars, taskVars
<1>2. \A x \in Procs : InQueue(x)' <=> InQueue(x)
  BY <1>1 DEF InQueue
<1>3. QueueIsWaiters'
  BY <1>1, <1>2 DEF IInv, QueueIsWaiters
<1>4. PromptOwnsUnlocking' /\ Coherent(mgr)'
  BY <1>1 DEF IInv, PromptOwnsUnlocking, Owns, Coherent, IsLocked
<1>5. PICK code \in Codes : answer' = [answer EXCEPT ![c] = Plain(code)]
  BY DEF Act, Codes
<1>6. TypeOK'
  BY <1>1, <1>5, PlainAnswer DEF IInv, TypeOK, Phases
<1>. QED
  BY <1>3, <1>4, <1>6 DEF IInv

(* The connection whose prompt returns still owns the mutex and finds the  *)
(* vault in the intermediate state it left it in.                          *)
LEMMA PromptReturnsStep ==
    ASSUME IInv, NEW c \in Clients, PromptReturns(c)
    PROVE  IInv'
<1>1. phase[c] = "prompt" /\ Owns(c) /\ mgr.state = "Unlocking" /\ Coherent(mgr)
  BY DEF PromptReturns, IInv, PromptOwnsUnlocking
<1>2. PICK code \in Codes : EndUnlock(c, mgr, code)
  BY DEF PromptReturns, Codes
<1>. QED
  BY <1>1, <1>2, EndUnlockStep

-----------------------------------------------------------------------------
(* Each step keeps the invariant: the automatic locks.                     *)

(* A task that owns the mutex locks the vault, gives the mutex back and    *)
(* stops waiting for it; it disturbs no connection.                        *)
LEMMA TaskLockStep ==
    ASSUME IInv, NEW p \in Tasks, Owns(p), Release,
           mgr' \in {mgr, LockNow(mgr)},
           \A x \in Tasks : InQueue(x)' <=> (InQueue(x) /\ x # p),
           UNCHANGED <<phase, req, answer, held, age, due, tickIn, signals>>,
           idle' \in {"ticking", "waiting"}, logind' \in {"selecting", "waiting"},
           main' \in {"serving", "waiting", "leaving", "exited"}
    PROVE  IInv'
<1>1. p \notin Clients /\ p \in Procs
  BY DaemonAssumption DEF Procs
<1>2. \A x \in Clients : InQueue(x)' <=> InQueue(x)
  BY DaemonAssumption DEF InQueue, Tasks
<1>3. \A x \in Procs : InQueue(x)' <=> (InQueue(x) /\ x # p)
  BY <1>1, <1>2 DEF Procs
<1>4. queue' \in Seq(Procs) /\ QueueIsWaiters'
  BY <1>1, <1>3, Leaves
<1>5. mgr.state # "Unlocking" /\ \A c \in Clients : phase[c] # "prompt"
  BY <1>1, OwnerIsAlone
<1>6. mgr'.state # "Unlocking" /\ Coherent(mgr')
  BY <1>5, LockNowCoherent DEF IInv
<1>7. PromptOwnsUnlocking'
  BY <1>5, <1>6 DEF PromptOwnsUnlocking
<1>8. TypeOK' /\ Coherent(mgr)'
  BY <1>4, <1>6 DEF IInv, TypeOK, Coherent, IsLocked
<1>. QED
  BY <1>4, <1>7, <1>8 DEF IInv

(* A task asks for the mutex; nothing else of the vault or a connection    *)
(* changes.                                                                *)
LEMMA TaskJoinStep ==
    ASSUME IInv, NEW p \in Tasks, ~InQueue(p), Enqueue(p),
           \A x \in Tasks : InQueue(x)' <=> (InQueue(x) \/ x = p),
           UNCHANGED <<mgr, phase, req, answer, held, age, tickIn>>,
           due' \in 0..MaxDue, signals' \subseteq BusSignals,
           idle' \in {"ticking", "waiting"}, logind' \in {"selecting", "waiting"},
           main' \in {"serving", "waiting", "leaving", "exited"}
    PROVE  IInv'
<1>1. p \notin Clients /\ p \in Procs
  BY DaemonAssumption DEF Procs
<1>2. \A x \in Clients : InQueue(x)' <=> InQueue(x)
  BY DaemonAssumption DEF InQueue, Tasks
<1>3. \A x \in Procs : InQueue(x)' <=> (InQueue(x) \/ x = p)
  BY <1>1, <1>2 DEF Procs
<1>4. /\ queue' \in Seq(Procs) /\ QueueIsWaiters'
      /\ \A c \in Clients : Owns(c) => Owns(c)'
  BY <1>1, <1>3, Joins
<1>5. PromptOwnsUnlocking' /\ Coherent(mgr)'
  BY <1>4 DEF IInv, PromptOwnsUnlocking, Coherent, IsLocked
<1>6. TypeOK'
  BY <1>4 DEF IInv, TypeOK
<1>. QED
  BY <1>4, <1>5, <1>6 DEF IInv

(* Clocks, signals and the end of the process touch neither vault nor queue. *)
LEMMA OutsideStep ==
    ASSUME IInv,
           UNCHANGED <<mgr, queue, phase, req, answer, held, idle, logind>>,
           main' = "waiting" <=> main = "waiting",
           age' \in 0..AgeCap, due' \in 0..MaxDue, tickIn' \in 1..TickPeriod,
           signals' \subseteq BusSignals,
           main' \in {"serving", "waiting", "leaving", "exited"}
    PROVE  IInv'
<1>1. \A x \in Procs : InQueue(x)' <=> InQueue(x)
  BY DEF InQueue
<1>2. QueueIsWaiters'
  BY <1>1 DEF IInv, QueueIsWaiters
<1>3. PromptOwnsUnlocking' /\ Coherent(mgr)' /\ TypeOK'
  BY DEF IInv, PromptOwnsUnlocking, Owns, Coherent, IsLocked, TypeOK
<1>. QED
  BY <1>2, <1>3 DEF IInv

LEMMA IdleTickStep == ASSUME IInv, IdleTick PROVE IInv'
<1>1. due' \in 0..MaxDue /\ due' = due - 1
  BY DaemonAssumption DEF IInv, TypeOK, IdleTick
<1>2. CASE IdleExpired(age)
  <2>1. ~InQueue("idle") /\ \A x \in Tasks : InQueue(x)' <=> (InQueue(x) \/ x = "idle")
    BY <1>2, DaemonAssumption DEF IdleTick, InQueue, Tasks
  <2>. QED
    BY <1>1, <1>2, <2>1, TaskJoinStep DEF IdleTick, IInv, TypeOK, Tasks, connVars
<1>3. CASE ~IdleExpired(age)
  BY <1>1, <1>3, OutsideStep DEF IdleTick, IInv, TypeOK, connVars
<1>. QED
  BY <1>2, <1>3

LEMMA IdleLockStep == ASSUME IInv, IdleLock PROVE IInv'
<1>1. \A x \in Tasks : InQueue(x)' <=> (InQueue(x) /\ x # "idle")
  BY DaemonAssumption DEF IdleLock, InQueue, Tasks
<1>. QED
  BY <1>1, TaskLockStep DEF IdleLock, IInv, TypeOK, Tasks, connVars, clockVars

LEMMA ElapseStep == ASSUME IInv, Elapse PROVE IInv'
<1>1. age' \in 0..AgeCap
  BY DaemonAssumption DEF IInv, TypeOK, Elapse, AtMost, AgeCap
<1>2. due' \in 0..MaxDue
  BY DaemonAssumption DEF IInv, TypeOK, Elapse, AtMost
<1>3. tickIn' \in 1..TickPeriod
  BY DaemonAssumption DEF IInv, TypeOK, Elapse
<1>. QED
  BY <1>1, <1>2, <1>3, OutsideStep DEF Elapse, IInv, TypeOK, connVars, taskVars

LEMMA TakeSignalStep == ASSUME IInv, NEW s \in BusSignals, TakeSignal(s) PROVE IInv'
<1>1. signals' \subseteq BusSignals
  BY DEF TakeSignal, IInv, TypeOK
<1>2. CASE Locks(s)
  <2>1. ~InQueue("logind") /\ \A x \in Tasks : InQueue(x)' <=> (InQueue(x) \/ x = "logind")
    BY <1>2, DaemonAssumption DEF TakeSignal, InQueue, Tasks
  <2>. QED
    BY <1>1, <1>2, <2>1, TaskJoinStep
    DEF TakeSignal, IInv, TypeOK, Tasks, connVars, clockVars
<1>3. CASE ~Locks(s)
  BY <1>1, <1>3, OutsideStep DEF TakeSignal, IInv, TypeOK, connVars, clockVars
<1>. QED
  BY <1>2, <1>3

LEMMA SignalLockStep == ASSUME IInv, SignalLock PROVE IInv'
<1>1. \A x \in Tasks : InQueue(x)' <=> (InQueue(x) /\ x # "logind")
  BY DaemonAssumption DEF SignalLock, InQueue, Tasks
<1>. QED
  BY <1>1, TaskLockStep DEF SignalLock, IInv, TypeOK, Tasks, connVars, clockVars

LEMMA MainStep ==
    ASSUME IInv, ShutdownSignal \/ ShutdownLock \/ Exit \/ Terminated
    PROVE  IInv'
<1>1. CASE ShutdownSignal
  <2>1. ~InQueue("main") /\ \A x \in Tasks : InQueue(x)' <=> (InQueue(x) \/ x = "main")
    BY <1>1, DaemonAssumption DEF ShutdownSignal, InQueue, Tasks
  <2>. QED
    BY <1>1, <2>1, TaskJoinStep
    DEF ShutdownSignal, IInv, TypeOK, Tasks, connVars, clockVars
<1>2. CASE ShutdownLock
  <2>1. \A x \in Tasks : InQueue(x)' <=> (InQueue(x) /\ x # "main")
    BY <1>2, DaemonAssumption DEF ShutdownLock, InQueue, Tasks
  <2>. QED
    BY <1>2, <2>1, TaskLockStep
    DEF ShutdownLock, IInv, TypeOK, Tasks, connVars, clockVars
<1>3. CASE Exit
  BY <1>3, OutsideStep DEF Exit, IInv, TypeOK, connVars, clockVars
<1>4. CASE Terminated
  BY <1>4, OutsideStep DEF Terminated, IInv, TypeOK, vars
<1>. QED
  BY <1>1, <1>2, <1>3, <1>4

-----------------------------------------------------------------------------
(* The theorems.                                                           *)

LEMMA StepIInv == IInv /\ [Next]_vars => IInv'
<1>. SUFFICES ASSUME IInv, [Next]_vars PROVE IInv'
  OBVIOUS
<1>1. ASSUME NEW c \in Clients, ClientStep(c) PROVE IInv'
  BY <1>1, AnswerAtOnceStep, AskForVaultStep, OperateStep, PromptReturnsStep, ActStep,
     RespondStep DEF ClientStep
<1>2. ASSUME NEW s \in BusSignals, SignalArrives(s) PROVE IInv'
  BY <1>2, OutsideStep DEF SignalArrives, IInv, TypeOK, connVars, clockVars
<1>3. CASE UNCHANGED vars
  BY <1>3, OutsideStep DEF IInv, TypeOK, vars
<1>. QED
  BY <1>1, <1>2, <1>3, IdleTickStep, IdleLockStep, ElapseStep, TakeSignalStep,
     SignalLockStep, MainStep DEF Next, LogindStep

LEMMA Invariance == Spec => []IInv
BY InitIInv, StepIInv, PTL DEF Spec

(* Every variable keeps its type.                                          *)
THEOREM TypeCorrect == Spec => []TypeOK
BY Invariance, PTL DEF IInv

(* The mutex queue holds exactly the tasks that wait for the mutex or own  *)
(* it, each once.                                                          *)
THEOREM QueueCorrect == Spec => []QueueIsWaiters
BY Invariance, PTL DEF IInv

(* Unlocking is seen only under an open prompt, whose task owns the mutex: *)
(* the vault is never left in the intermediate state, and no two prompts   *)
(* are open.                                                               *)
THEOREM PromptCorrect == Spec => []PromptOwnsUnlocking
BY Invariance, PTL DEF IInv

(* The events tell a subscriber the lock state and the active database.    *)
THEOREM ObserverCorrect == Spec => []ObserverAgrees
<1>1. IInv => ObserverAgrees
  BY DEF IInv, Coherent, ObserverAgrees
<1>. QED
  BY <1>1, Invariance, PTL

(* The entries in memory are those of the database named active, and there *)
(* are none while the vault is locked.                                     *)
THEOREM LoadedCorrect == Spec => []LoadedIsActive
<1>1. IInv => LoadedIsActive
  BY DEF IInv, Coherent, LoadedIsActive
<1>. QED
  BY <1>1, Invariance, PTL

-----------------------------------------------------------------------------
(* No answer says busy.                                                    *)

LEMMA AnswerStep ==
    ASSUME TypeOK, NeverBusy, NEW c \in Clients, NEW a, a.code # "busy",
           answer' = [answer EXCEPT ![c] = a]
    PROVE  NeverBusy'
BY DEF TypeOK, NeverBusy

LEMMA FinishBusy ==
    ASSUME TypeOK, NeverBusy, NEW c \in Clients, NEW m, NEW a, a.code # "busy",
           Finish(c, m, a)
    PROVE  NeverBusy'
BY AnswerStep DEF Finish

(* An unlock in the critical section finds Locked or Unlocked, before and  *)
(* after the switch it may begin with (RequestedCoherent).                 *)
LEMMA OperateBusy ==
    ASSUME IInv, NeverBusy, NEW c \in Clients, Operate(c)
    PROVE  NeverBusy'
<1>. USE DEF IInv
<1>1. CASE Hello(c) \/ Status(c) \/ Overview(c) \/ Lock(c) \/ List(c)
  BY <1>1, FinishBusy DEF Hello, Status, Overview, Lock, List, StateAnswer, Plain
<1>2. CASE Use(c)
  BY <1>2, FinishBusy DEF Use, Plain
<1>3. CASE Get(c) \/ Totp(c)
  BY <1>3, FinishBusy DEF Get, Totp, Lookup, Plain
<1>4. CASE CopyOrType(c)
  <2>1. CASE TakeSecret(c)
    BY <2>1 DEF TakeSecret, NeverBusy
  <2>2. CASE ~TakeSecret(c)
    <3>1. PICK code \in {Lookup(mgr, req[c].uuid)} \cup Refusals(req[c].op) :
             Finish(c, mgr, Plain(code))
      BY <1>4, <2>2 DEF CopyOrType
    <3>2. code # "busy"
      BY DEF Lookup, Refusals
    <3>. QED
      BY <3>1, <3>2, FinishBusy DEF Plain
  <2>. QED
    BY <2>1, <2>2
<1>5. CASE UnlockUnknown(c)
  BY <1>5, FinishBusy DEF UnlockUnknown, Plain
<1>6. CASE UnlockRefused(c)
  <2>1. Requested(mgr, req[c]).state = "Unlocked"
    BY <1>6, RequestedCoherent DEF UnlockRefused
  <2>. QED
    BY <1>6, <2>1, FinishBusy DEF UnlockRefused, UnlockAnswer
<1>7. CASE UnlockInline(c)
  BY <1>7, FinishBusy DEF UnlockInline, EndUnlock, UnlockAnswer, Plain
<1>8. CASE UnlockPrompt(c)
  BY <1>8 DEF UnlockPrompt, NeverBusy
<1>. QED
  BY <1>1, <1>2, <1>3, <1>4, <1>5, <1>6, <1>7, <1>8 DEF Operate

LEMMA StepBusy == IInv /\ NeverBusy /\ [Next]_vars => NeverBusy'
<1>. SUFFICES ASSUME IInv, NeverBusy, [Next]_vars PROVE NeverBusy'
  OBVIOUS
<1>. USE DEF IInv
<1>1. ASSUME NEW c \in Clients, ClientStep(c) PROVE NeverBusy'
  <2>1. CASE \E r \in Workload : AnswerAtOnce(c, r)
    BY <2>1, AnswerStep DEF AnswerAtOnce, ImmediateAnswer, Plain
  <2>2. CASE \E r \in Workload : AskForVault(c, r)
    BY <2>2 DEF AskForVault, NeverBusy
  <2>3. CASE Operate(c)
    BY <2>3, OperateBusy
  <2>4. CASE PromptReturns(c)
    BY <2>4, FinishBusy DEF PromptReturns, EndUnlock, UnlockAnswer, Plain
  <2>5. CASE Act(c)
    BY <2>5, AnswerStep DEF Act, Plain
  <2>6. CASE Respond(c)
    BY <2>6, AnswerStep DEF Respond, NoAnswer, Plain
  <2>. QED
    BY <1>1, <2>1, <2>2, <2>3, <2>4, <2>5, <2>6 DEF ClientStep
<1>2. CASE IdleTick \/ IdleLock \/ Elapse \/ SignalLock \/ ShutdownSignal \/ ShutdownLock
             \/ Exit \/ Terminated \/ UNCHANGED vars
  BY <1>2 DEF IdleTick, IdleLock, Elapse, SignalLock, ShutdownSignal, ShutdownLock, Exit,
              Terminated, vars, connVars, NeverBusy
<1>3. CASE LogindStep
  BY <1>3 DEF LogindStep, SignalArrives, TakeSignal, connVars, NeverBusy
<1>. QED
  BY <1>1, <1>2, <1>3 DEF Next

(* A second unlock waits for the first: the code busy is never answered.   *)
THEOREM BusyUnreachable == Spec => []NeverBusy
<1>1. Init => NeverBusy
  BY DEF Init, NeverBusy, NoAnswer, Plain
<1>. QED
  BY <1>1, StepBusy, Invariance, PTL DEF Spec

-----------------------------------------------------------------------------
(* What a step may do to the vault.                                        *)

(* Without an open prompt the vault may be switched first.                 *)
LEMMA TouchedStep ==
    ASSUME mgr.state # "Unlocking", NEW m, mgr' \in Touched(m),
           m = mgr \/ \E v \in Vaults : m = SwitchTo(mgr, v)
    PROVE  VaultStep
BY DEF VaultStep

LEMMA OperateVault ==
    ASSUME IInv, NEW c \in Clients, Operate(c)
    PROVE  VaultStep
<1>1. phase[c] = "waiting" /\ Owns(c)
  BY DEF Operate, Hello, Status, Overview, Use, Lock, List, Get, Totp, CopyOrType,
         UnlockUnknown, UnlockRefused, UnlockInline, UnlockPrompt, Unlocking, Serving
<1>2. mgr.state # "Unlocking"
  BY <1>1, ServingIsAlone
<1>3. ASSUME mgr' \in {mgr, LockNow(mgr)} PROVE VaultStep
  BY <1>2, <1>3, TouchedStep DEF Touched
<1>4. CASE Hello(c) \/ Status(c) \/ Overview(c) \/ Lock(c) \/ List(c)
  BY <1>3, <1>4 DEF Hello, Status, Overview, Lock, List, Finish
<1>5. CASE Get(c) \/ Totp(c) \/ CopyOrType(c) \/ UnlockUnknown(c)
  BY <1>3, <1>5 DEF Get, Totp, CopyOrType, UnlockUnknown, TakeSecret, Finish
<1>6. CASE Use(c)
  <2>1. CASE req[c].vault \in Vaults
    <3>1. PICK m : m = SwitchTo(mgr, req[c].vault)
      OBVIOUS
    <3>2. mgr' = m
      BY <1>6, <2>1, <3>1 DEF Use, Finish
    <3>3. mgr' \in Touched(m)
      BY <3>2 DEF Touched
    <3>. QED
      BY <1>2, <2>1, <3>1, <3>3, TouchedStep
  <2>2. CASE req[c].vault \notin Vaults
    BY <1>3, <1>6, <2>2 DEF Use, Finish
  <2>. QED
    BY <2>1, <2>2
<1>7. CASE UnlockRefused(c) \/ UnlockInline(c) \/ UnlockPrompt(c)
  <2>1. PICK m : m = Requested(mgr, req[c])
    OBVIOUS
  <2>2. m = mgr \/ \E v \in Vaults : m = SwitchTo(mgr, v)
    BY <1>7, <2>1 DEF Requested, UnlockRefused, UnlockInline, UnlockPrompt, Unlocking
  <2>3. mgr' \in Touched(m)
    <3>1. CASE UnlockRefused(c)
      BY <2>1, <3>1 DEF UnlockRefused, Finish, Touched
    <3>2. CASE UnlockInline(c)
      <4>1. PICK opened \in BOOLEAN : mgr' = EndUnlocking(StartUnlocking(m), opened)
        BY <2>1, <3>2 DEF UnlockInline, EndUnlock, Finish
      <4>2. m.state = "Locked"
        BY <2>1, <3>2 DEF UnlockInline
      <4>. QED
        BY <4>1, <4>2 DEF Touched
    <3>3. CASE UnlockPrompt(c)
      BY <2>1, <3>3 DEF UnlockPrompt, Touched
    <3>. QED
      BY <1>7, <3>1, <3>2, <3>3
  <2>. QED
    BY <1>2, <2>2, <2>3, TouchedStep
<1>. QED
  BY <1>4, <1>5, <1>6, <1>7 DEF Operate

LEMMA TaskVault ==
    ASSUME IInv, IdleLock \/ SignalLock \/ ShutdownLock
    PROVE  VaultStep
<1>1. PICK p \in Tasks : Owns(p)
  BY DEF IdleLock, SignalLock, ShutdownLock, Tasks
<1>2. mgr.state # "Unlocking"
  BY <1>1, OwnerIsAlone, DaemonAssumption
<1>3. mgr' \in Touched(mgr)
  BY DEF IdleLock, SignalLock, ShutdownLock, Touched
<1>. QED
  BY <1>2, <1>3, TouchedStep

LEMMA PromptVault ==
    ASSUME IInv, NEW c \in Clients, PromptReturns(c)
    PROVE  VaultStep
<1>1. phase[c] = "prompt" /\ mgr.state = "Unlocking"
  BY DEF PromptReturns, IInv, PromptOwnsUnlocking
<1>2. phase'[c] = "answering"
  BY DEF PromptReturns, EndUnlock, Finish, IInv, TypeOK
<1>3. PICK opened \in BOOLEAN : mgr' = EndUnlocking(mgr, opened)
  BY DEF PromptReturns, EndUnlock, Finish
<1>. QED
  BY <1>1, <1>2, <1>3 DEF VaultStep

(* However many connections, whatever they ask for: an open prompt keeps   *)
(* every lock, switch and second unlock out until it returns; and without  *)
(* one the vault changes only by what LockNow, SwitchTo and an unlock do.  *)
THEOREM VaultChangesCorrect == Spec => VaultSteps
<1>1. IInv /\ [Next]_vars => [VaultStep]_mgr
  <2>. SUFFICES ASSUME IInv, [Next]_vars PROVE VaultStep \/ UNCHANGED mgr
    OBVIOUS
  <2>1. ASSUME NEW c \in Clients, ClientStep(c) PROVE VaultStep \/ UNCHANGED mgr
    <3>1. CASE \E r \in Workload : AnswerAtOnce(c, r) \/ AskForVault(c, r)
      BY <3>1 DEF AnswerAtOnce, AskForVault
    <3>2. CASE Act(c) \/ Respond(c)
      BY <3>2 DEF Act, Respond
    <3>. QED
      BY <2>1, <3>1, <3>2, OperateVault, PromptVault DEF ClientStep
  <2>2. CASE IdleTick \/ Elapse \/ LogindStep
    BY <2>2 DEF IdleTick, Elapse, LogindStep, SignalArrives, TakeSignal
  <2>3. CASE ShutdownSignal \/ Exit \/ Terminated \/ UNCHANGED vars
    BY <2>3 DEF ShutdownSignal, Exit, Terminated, vars
  <2>. QED
    BY <2>1, <2>2, <2>3, TaskVault DEF Next
<1>. QED
  BY <1>1, Invariance, PTL DEF Spec, VaultSteps

-----------------------------------------------------------------------------
(* The idle lock is in time, for every limit and interval: the inductive   *)
(* invariant together with what the idle task knows of the clock between   *)
(* two ticks.                                                              *)

Open == IdleLimit > 0 /\ mgr.state = "Unlocked"

(* With no tick left to serve, the last one was served TickPeriod - tickIn *)
(* ago and found the limit not yet reached.                                *)
SinceTick ==
    Open => /\ age < IdleLimit + TickPeriod
            /\ idle = "ticking" /\ due = 0 => age < IdleLimit + (TickPeriod - tickIn)

ClockTypes ==
    /\ age \in Nat /\ due \in Nat /\ tickIn \in 1..TickPeriod
    /\ IdleLimit \in Nat /\ TickPeriod \in Nat \ {0}

LEMMA TypedClock == ASSUME IInv PROVE ClockTypes
BY DaemonAssumption DEF IInv, TypeOK, ClockTypes, AgeCap

(* A step that leaves the clock to itself or resets it, and opens the      *)
(* vault only with a reset.                                                *)
LEMMA QuietStep ==
    ASSUME IInv, SinceTick, UNCHANGED <<due, tickIn, idle>>,
           age' = age \/ age' = 0,
           mgr'.state = "Unlocked" => mgr.state = "Unlocked" \/ age' = 0
    PROVE  SinceTick'
BY TypedClock DEF ClockTypes, SinceTick, Open

(* A lock leaves nothing open, and a switch opens nothing. *)
LEMMA Closes ==
    ASSUME IInv
    PROVE  /\ LockNow(mgr).state # "Unlocked"
           /\ \A v \in Vaults : SwitchTo(mgr, v).state = "Unlocked" => mgr.state = "Unlocked"
BY LockNowCoherent, SwitchToCoherent DEF IInv

LEMMA FinishQuiet ==
    ASSUME IInv, SinceTick, NEW c, NEW m, NEW a, Finish(c, m, a),
           age' = age \/ age' = 0,
           m.state = "Unlocked" => mgr.state = "Unlocked" \/ age' = 0
    PROVE  SinceTick'
BY QuietStep DEF Finish, taskVars

LEMMA EndUnlockQuiet ==
    ASSUME IInv, SinceTick, NEW c, NEW m, Coherent(m), NEW code, EndUnlock(c, m, code)
    PROVE  SinceTick'
<1>1. CASE code = "ok"
  BY <1>1, FinishQuiet DEF EndUnlock
<1>2. CASE code # "ok"
  <2>1. EndUnlocking(m, FALSE).state # "Unlocked"
    BY DEF EndUnlocking, Coherent, Managers
  <2>. QED
    BY <1>2, <2>1, FinishQuiet DEF EndUnlock
<1>. QED
  BY <1>1, <1>2

LEMMA OperateQuiet ==
    ASSUME IInv, SinceTick, NEW c \in Clients, Operate(c)
    PROVE  SinceTick'
<1>1. CASE Hello(c) \/ Status(c) \/ Overview(c) \/ List(c) \/ Get(c) \/ Totp(c)
           \/ UnlockUnknown(c)
  BY <1>1, FinishQuiet
  DEF Hello, Status, Overview, List, Get, Totp, UnlockUnknown
<1>2. CASE Use(c)
  BY <1>2, FinishQuiet, Closes DEF Use
<1>3. CASE Lock(c)
  BY <1>3, FinishQuiet, Closes DEF Lock
<1>4. CASE CopyOrType(c)
  <2>1. CASE TakeSecret(c)
    BY <1>4, <2>1, QuietStep DEF CopyOrType, TakeSecret, taskVars
  <2>2. CASE ~TakeSecret(c)
    BY <1>4, <2>2, FinishQuiet DEF CopyOrType
  <2>. QED
    BY <2>1, <2>2
<1>5. CASE UnlockRefused(c)
  BY <1>5, FinishQuiet, Closes DEF UnlockRefused, Unlocking, Requested
<1>6. CASE UnlockInline(c)
  <2>1. Coherent(StartUnlocking(Requested(mgr, req[c])))
    BY <1>6, RequestedCoherent, StartUnlockingCoherent DEF UnlockInline
  <2>. QED
    BY <1>6, <2>1, EndUnlockQuiet DEF UnlockInline
<1>7. CASE UnlockPrompt(c)
  <2>1. mgr'.state # "Unlocked"
    BY <1>7, RequestedCoherent, StartUnlockingCoherent DEF UnlockPrompt
  <2>. QED
    BY <1>7, <2>1, QuietStep DEF UnlockPrompt, clockVars, taskVars
<1>. QED
  BY <1>1, <1>2, <1>3, <1>4, <1>5, <1>6, <1>7 DEF Operate

-----------------------------------------------------------------------------
(* The steps that move the clock.                                          *)

LEMMA IdleTickTimely == ASSUME IInv, SinceTick, IdleTick PROVE SinceTick'
BY TypedClock DEF IdleTick, IdleExpired, ClockTypes, SinceTick, Open

(* The idle task has the mutex: nothing is open afterwards. *)
LEMMA IdleLockTimely == ASSUME IInv, SinceTick, IdleLock PROVE SinceTick'
BY Closes DEF IdleLock, IsLocked, SinceTick, Open

(* Time passes over an open vault only when no tick waits to be served and *)
(* the idle task does not wait for the mutex.                              *)
LEMMA ElapseTimely == ASSUME IInv, SinceTick, Elapse PROVE SinceTick'
<1>. SUFFICES ASSUME Open PROVE SinceTick'
  BY DEF Elapse, SinceTick, Open
<1>1. idle = "ticking" /\ due = 0
  <2>1. \A c \in Clients : phase[c] # "prompt"
    BY DEF Open, IInv, PromptOwnsUnlocking
  <2>2. queue = << >>
    BY <2>1 DEF Elapse, Urgent
  <2>3. ~InQueue("idle")
    BY <2>2 DEF IInv, QueueIsWaiters, Procs, Tasks, Range
  <2>. QED
    BY <2>3, TypedClock DEF InQueue, Elapse, Urgent, IInv, TypeOK, ClockTypes
<1>2. age < IdleLimit + (TickPeriod - tickIn)
  BY <1>1 DEF SinceTick
<1>3. age' <= age + 1 /\ idle' = idle
  BY TypedClock, DaemonAssumption DEF Elapse, AtMost, AgeCap, ClockTypes, taskVars
<1>4. age' \in Nat
  BY ElapseStep, TypedClock, DaemonAssumption
  DEF IInv, TypeOK, ClockTypes, Elapse, AtMost, AgeCap
<1>5. CASE tickIn = 1
  <2>1. due' = 1 /\ tickIn' = TickPeriod
    BY <1>1, <1>5, DaemonAssumption DEF Elapse, AtMost
  <2>. QED
    BY <1>2, <1>3, <1>4, <1>5, <2>1, TypedClock DEF ClockTypes, SinceTick, Open
<1>6. CASE tickIn # 1
  <2>1. tickIn' = tickIn - 1
    BY <1>6 DEF Elapse
  <2>. QED
    BY <1>2, <1>3, <1>4, <1>6, <2>1, TypedClock DEF ClockTypes, SinceTick, Open
<1>. QED
  BY <1>5, <1>6

LEMMA StepTimely == IInv /\ SinceTick /\ [Next]_vars => SinceTick'
<1>. SUFFICES ASSUME IInv, SinceTick, [Next]_vars PROVE SinceTick'
  OBVIOUS
<1>1. ASSUME NEW c \in Clients, ClientStep(c) PROVE SinceTick'
  <2>1. CASE \E r \in Workload : AnswerAtOnce(c, r) \/ AskForVault(c, r)
    BY <2>1, QuietStep DEF AnswerAtOnce, AskForVault, taskVars
  <2>2. CASE Operate(c)
    BY <2>2, OperateQuiet
  <2>3. CASE PromptReturns(c)
    BY <2>3, EndUnlockQuiet DEF PromptReturns, IInv
  <2>4. CASE Act(c) \/ Respond(c)
    BY <2>4, QuietStep DEF Act, Respond, clockVars, taskVars
  <2>. QED
    BY <1>1, <2>1, <2>2, <2>3, <2>4 DEF ClientStep
<1>2. CASE LogindStep
  BY <1>2, QuietStep DEF LogindStep, SignalArrives, TakeSignal, clockVars
<1>3. CASE SignalLock \/ ShutdownLock
  BY <1>3, QuietStep, Closes DEF SignalLock, ShutdownLock, IsLocked, clockVars
<1>4. CASE ShutdownSignal \/ Exit \/ Terminated \/ UNCHANGED vars
  BY <1>4, QuietStep DEF ShutdownSignal, Exit, Terminated, vars, clockVars
<1>. QED
  BY <1>1, <1>2, <1>3, <1>4, IdleTickTimely, IdleLockTimely, ElapseTimely DEF Next

-----------------------------------------------------------------------------
(* An open vault is locked within one interval of the idle limit, however  *)
(* requests, prompts, ticks and signals interleave.                        *)
THEOREM IdleCorrect == Spec => []IdleBound
<1>1. Init => SinceTick
  BY DEF Init, SinceTick, Open, NewManager
<1>2. SinceTick => IdleBound
  BY DEF SinceTick, Open, IdleBound
<1>. QED
  BY <1>1, <1>2, StepTimely, Invariance, PTL DEF Spec
=============================================================================
