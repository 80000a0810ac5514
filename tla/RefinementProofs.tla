-------------------------- MODULE RefinementProofs --------------------------
(***************************************************************************)
(* The daemon implements its abstract service: every step of the tasks     *)
(* around the mutex is a step of module VaultService or changes nothing a  *)
(* client could see, for any number of connections, databases and requests. *)
(***************************************************************************)
EXTENDS DaemonProofs

(* A secret is held only between the critical section and the answer.      *)
HeldWhileActing == \A c \in Clients : phase[c] # "acting" => held[c] = None

(* The prompt on the screen is for the active database.                    *)
PromptForActive ==
    \A c \in Clients :
        phase[c] = "prompt" =>
            /\ req[c].op = "unlock"
            /\ Service!Wanted(req[c]) = mgr.active

RInv == IInv /\ HeldWhileActing /\ PromptForActive

-----------------------------------------------------------------------------
(* One connection moves.                                                   *)

LEMMA Moves ==
    ASSUME RInv, NEW c \in Clients, NEW p \in Phases,
           phase' = [phase EXCEPT ![c] = p], req' = [req EXCEPT ![c] = req'[c]],
           answer' = [answer EXCEPT ![c] = answer'[c]], held' = [held EXCEPT ![c] = held'[c]],
           held'[c] = IF p = "acting" THEN mgr.loaded ELSE None
    PROVE  /\ Service!Move(c, Stage[phase[c]], Stage[p])
           /\ Served'[c] = [stage |-> Stage[p], req |-> req'[c],
                            answer |-> answer'[c], from |-> held'[c]]
           /\ Served[c].req = req[c]
<1>1. /\ phase \in [Clients -> Phases] /\ req \in [Clients -> Requests \cup {NoRequest}]
      /\ answer \in [Clients -> Answers] /\ held \in [Clients -> Vaults \cup {None}]
  BY DEF RInv, IInv, TypeOK
<1>2. Served'[c] = [stage |-> Stage[p], req |-> req'[c],
                    answer |-> answer'[c], from |-> held'[c]]
  BY <1>1 DEF Served
<1>3. Served' = [Served EXCEPT ![c] = Served'[c]]
  BY <1>1 DEF Served
<1>4. Served[c].stage = Stage[phase[c]] /\ Served[c].req = req[c]
  BY DEF Served
<1>5. Stage[p] = "fetched" <=> p = "acting"
  BY DEF Stage, Phases
<1>. QED
  BY <1>2, <1>3, <1>4, <1>5 DEF Service!Move

(* A connection leaves its critical section: the request is served.        *)
LEMMA FinishServes ==
    ASSUME RInv, NEW c \in Clients, phase[c] \in {"waiting", "prompt"},
           NEW m, NEW a, Finish(c, m, a)
    PROVE  /\ Service!Progress(c, Stage[phase[c]], "done")
           /\ Served'[c].answer = a /\ Served[c].req = req[c]
           /\ mgr' = m
<1>. DEFINE p == "answering"
<1>1. p \in Phases /\ Stage[p] = "done" /\ p # "acting"
  BY DEF Phases, Stage
<1>2. /\ phase' = [phase EXCEPT ![c] = p] /\ answer' = [answer EXCEPT ![c] = answer'[c]]
      /\ req' = [req EXCEPT ![c] = req'[c]] /\ held' = [held EXCEPT ![c] = held'[c]]
      /\ answer'[c] = a /\ req'[c] = req[c] /\ held'[c] = None
  BY DEF Finish, RInv, IInv, TypeOK, HeldWhileActing
<1>. HIDE DEF p
<1>3. /\ Service!Move(c, Stage[phase[c]], Stage[p])
      /\ Served'[c] = [stage |-> Stage[p], req |-> req'[c],
                       answer |-> answer'[c], from |-> held'[c]]
      /\ Served[c].req = req[c]
  BY <1>1, <1>2, Moves
<1>. QED
  BY <1>1, <1>2, <1>3 DEF Service!Progress, Finish

(* Steps that no client sees.                                              *)
LEMMA UnseenStep ==
    ASSUME UNCHANGED <<mgr, phase, req, answer, held>>
    PROVE  UNCHANGED Service!vars
BY DEF Service!vars, Served

-----------------------------------------------------------------------------
(* What the service sees of a coherent manager.                            *)

LEMMA SeenState ==
    ASSUME Coherent(mgr), NEW r
    PROVE  /\ mgr.loaded = None <=> IsLocked(mgr)
           /\ Service!LockState = Says(IsLocked(mgr))
           /\ Service!Access(r) = Lookup(mgr, r.uuid)
<1>1. mgr.loaded = None <=> IsLocked(mgr)
  BY VaultAssumption DEF Coherent, Managers, IsLocked
<1>. QED
  BY <1>1 DEF Service!LockState, Service!Access, Says, Lookup

LEMMA SwitchSeen ==
    ASSUME NEW m, Coherent(m), m.state \in {"Locked", "Unlocked"}, NEW v \in Vaults
    PROVE  /\ SwitchTo(m, v).active = v
           /\ SwitchTo(m, v).loaded = IF v = m.active THEN m.loaded ELSE None
<1>1. Coherent(SwitchTo(m, v)) /\ SwitchTo(m, v).active = v
  BY SwitchToCoherent
<1>2. CASE v = m.active
  BY <1>1, <1>2 DEF SwitchTo
<1>3. CASE v # m.active
  <2>1. Coherent(LockNow(m)) /\ LockNow(m).state = "Locked"
    BY LockNowCoherent
  <2>2. LockNow(m).loaded = None
    BY <2>1 DEF Coherent
  <2>3. SwitchTo(m, v).loaded = LockNow(m).loaded
    <3>. DEFINE n == LockNow(m)
    <3>1. n \in Managers
      BY <2>1 DEF Coherent
    <3>. HIDE DEF n
    <3>. QED
      BY <1>3, <3>1 DEF SwitchTo, Emit, Managers, n
  <2>. QED
    BY <1>1, <1>3, <2>2, <2>3
<1>. QED
  BY <1>2, <1>3

LEMMA EndSeen ==
    ASSUME NEW m, Coherent(m), m.state = "Unlocking", NEW opened \in BOOLEAN
    PROVE  /\ EndUnlocking(m, opened).active = m.active
           /\ EndUnlocking(m, opened).loaded = IF opened THEN m.active ELSE None
BY DEF Coherent, Managers, EndUnlocking, Load, Emit

(* The database an unlock asks for, and the manager it finds it in.        *)
LEMMA RequestedSeen ==
    ASSUME RInv, NEW c \in Clients, Unlocking(c)
    PROVE  LET m == Requested(mgr, req[c])
               w == Service!Wanted(req[c])
           IN  /\ w \in Vaults /\ m.active = w
               /\ m.loaded = IF w = mgr.active THEN mgr.loaded ELSE None
<1>1. /\ req[c].vault = None \/ req[c].vault \in Vaults
      /\ Coherent(mgr) /\ mgr.state \in {"Locked", "Unlocked"}
  BY ServingIsAlone DEF Unlocking, Serving, RInv
<1>2. mgr.active \in Vaults
  BY <1>1 DEF Coherent, Managers
<1>3. CASE req[c].vault = None
  BY <1>2, <1>3 DEF Requested, Service!Wanted
<1>4. CASE req[c].vault # None
  BY <1>1, <1>4, SwitchSeen DEF Requested, Service!Wanted
<1>. QED
  BY <1>3, <1>4

-----------------------------------------------------------------------------
(* Each critical section of a connection is a step of the service.         *)

(* The reads: nothing changes, and the answer is one the service gives.    *)
LEMMA ReadImplements ==
    ASSUME RInv, NEW c \in Clients, phase[c] = "waiting", NEW a,
           Finish(c, mgr, a), Service!Reads(req[c], a)
    PROVE  Service!Next
<1>1. /\ Service!Progress(c, "called", "done")
      /\ Served'[c].answer = a /\ Served[c].req = req[c] /\ mgr' = mgr
  BY FinishServes DEF Stage
<1>2. Service!Read(c)
  BY <1>1 DEF Service!Read
<1>. QED
  BY <1>2 DEF Service!Next

LEMMA HelloImplements ==
    ASSUME RInv, NEW c \in Clients, Hello(c) \/ Status(c)
    PROVE  Service!Next
<1>1. Service!Reads(req[c], StateAnswer(mgr))
  BY SeenState DEF Hello, Status, Serving, Service!Reads, Service!Tells, StateAnswer, RInv, IInv
<1>. QED
  BY <1>1, ReadImplements DEF Hello, Status, Serving

LEMMA ListImplements ==
    ASSUME RInv, NEW c \in Clients, Overview(c) \/ List(c)
    PROVE  Service!Next
<1>1. CASE Overview(c)
  <2>1. Service!Reads(req[c], Plain("ok"))
    BY <1>1 DEF Overview, Serving, Service!Reads, Service!Code, Plain
  <2>. QED
    BY <1>1, <2>1, ReadImplements DEF Overview, Serving
<1>2. CASE List(c)
  <2>1. Service!Reads(req[c], Plain(IF IsLocked(mgr) THEN "locked" ELSE "ok"))
    BY <1>2, SeenState DEF List, Serving, Service!Reads, Service!Code, Plain, RInv, IInv
  <2>. QED
    BY <1>2, <2>1, ReadImplements DEF List, Serving
<1>. QED
  BY <1>1, <1>2

LEMMA GetImplements ==
    ASSUME RInv, NEW c \in Clients, Get(c) \/ Totp(c)
    PROVE  Service!Next
<1>1. Service!Access(req[c]) = Lookup(mgr, req[c].uuid)
  BY SeenState DEF RInv, IInv
<1>2. CASE Get(c)
  <2>. DEFINE code == Lookup(mgr, req[c].uuid)
              a == Plain(IF code = "ok" /\ req[c].secret THEN "unsupported" ELSE code)
  <2>1. Service!Reads(req[c], a)
    BY <1>1, <1>2 DEF Get, Serving, Service!Reads, Service!Code, Plain
  <2>2. phase[c] = "waiting" /\ Finish(c, mgr, a)
    BY <1>2 DEF Get, Serving
  <2>. HIDE DEF a
  <2>. QED
    BY <2>1, <2>2, ReadImplements
<1>3. CASE Totp(c)
  <2>. DEFINE a == Plain(Lookup(mgr, req[c].uuid))
  <2>1. Service!Reads(req[c], a)
    BY <1>1, <1>3 DEF Totp, Serving, Service!Reads, Service!Code, Plain
  <2>2. phase[c] = "waiting" /\ Finish(c, mgr, a)
    BY <1>3 DEF Totp, Serving
  <2>. HIDE DEF a
  <2>. QED
    BY <2>1, <2>2, ReadImplements
<1>. QED
  BY <1>2, <1>3

(* A secret is fetched, or the request is refused with the entry at hand.  *)
LEMMA CopyOrTypeImplements ==
    ASSUME RInv, NEW c \in Clients, CopyOrType(c)
    PROVE  Service!Next
<1>. DEFINE code == Lookup(mgr, req[c].uuid)
<1>1. /\ phase[c] = "waiting" /\ req[c].op \in {"copy", "type"}
      /\ Service!Access(req[c]) = code
  BY SeenState DEF CopyOrType, Serving, RInv, IInv
<1>2. CASE TakeSecret(c) /\ code = "ok"
  <2>. DEFINE p == "acting"
  <2>1. p \in Phases /\ Stage[p] = "fetched" /\ p = "acting"
    BY DEF Phases, Stage
  <2>2. /\ phase' = [phase EXCEPT ![c] = p] /\ req' = [req EXCEPT ![c] = req'[c]]
        /\ answer' = [answer EXCEPT ![c] = answer'[c]] /\ held' = [held EXCEPT ![c] = held'[c]]
        /\ req'[c] = req[c] /\ held'[c] = mgr.loaded /\ mgr' = mgr
    BY <1>2 DEF TakeSecret, RInv, IInv, TypeOK
  <2>. HIDE DEF p
  <2>3. /\ Service!Move(c, Stage[phase[c]], Stage[p])
        /\ Served'[c] = [stage |-> Stage[p], req |-> req'[c],
                         answer |-> answer'[c], from |-> held'[c]]
        /\ Served[c].req = req[c]
    BY <2>1, <2>2, Moves
  <2>4. Service!Progress(c, "called", "fetched")
    BY <1>1, <2>1, <2>2, <2>3 DEF Service!Progress, Stage
  <2>5. Service!Fetch(c)
    BY <1>1, <1>2, <2>2, <2>3, <2>4 DEF Service!Fetch
  <2>. QED
    BY <2>5 DEF Service!Next
<1>3. ASSUME code = "ok", NEW refusal \in Refusals(req[c].op), Finish(c, mgr, Plain(refusal))
      PROVE  Service!Next
  <2>1. refusal \in {"not-found", "vault-error", "bad-request"}
    BY <1>3 DEF Refusals
  <2>2. Service!Reads(req[c], Plain(refusal))
    BY <1>1, <1>3, <2>1 DEF Service!Reads, Service!Code, Plain
  <2>. QED
    BY <1>1, <1>3, <2>2, ReadImplements
<1>4. CASE code # "ok" /\ Finish(c, mgr, Plain(code))
  <2>1. Service!Reads(req[c], Plain(code))
    BY <1>1, <1>4 DEF Service!Reads, Service!Code, Plain
  <2>. QED
    BY <1>1, <1>4, <2>1, ReadImplements
<1>. QED
  BY <1>2, <1>3, <1>4 DEF CopyOrType

(* A `use' names something.                                                *)
LEMMA UseNames ==
    ASSUME IInv, NEW c \in Clients, req[c].op = "use"
    PROVE  req[c].vault # None
<1>1. req[c] \in Requests
  BY DEF IInv, TypeOK, NoRequest
<1>2. req[c].vault \in Names
  BY <1>1 DEF Requests
<1>. QED
  BY <1>2, VaultAssumption

LEMMA UseImplements ==
    ASSUME RInv, NEW c \in Clients, Use(c)
    PROVE  Service!Next
<1>. DEFINE v == req[c].vault
<1>1. /\ phase[c] = "waiting" /\ Owns(c) /\ req[c].op = "use"
  BY DEF Use, Serving
<1>2. CASE v \in Vaults
  <2>. DEFINE a == [code |-> "ok", says |-> "locked", vault |-> v]
  <2>1. Finish(c, SwitchTo(mgr, v), a)
    BY <1>2 DEF Use
  <2>2. Coherent(mgr) /\ mgr.state \in {"Locked", "Unlocked"}
    BY <1>1, ServingIsAlone DEF RInv
  <2>3. Service!Tells(a, "locked", v)
    BY DEF Service!Tells
  <2>. HIDE DEF a
  <2>4. /\ Service!Progress(c, "called", "done")
        /\ Served'[c].answer = a /\ Served[c].req = req[c] /\ mgr' = SwitchTo(mgr, v)
    BY <1>1, <2>1, FinishServes DEF Stage
  <2>5. Service!SwitchTo(v)
    BY <1>2, <2>2, <2>4, SwitchSeen DEF Service!SwitchTo
  <2>6. Service!Use(c)
    BY <1>1, <1>2, <2>3, <2>4, <2>5 DEF Service!Use
  <2>. QED
    BY <2>6 DEF Service!Next
<1>3. CASE v \notin Vaults
  <2>1. Finish(c, mgr, Plain("not-found"))
    BY <1>3 DEF Use
  <2>2. v # None
    BY <1>1, UseNames DEF RInv
  <2>3. Service!Reads(req[c], Plain("not-found"))
    BY <1>1, <1>3, <2>2 DEF Service!Reads, Service!Code, Plain
  <2>. QED
    BY <1>1, <2>1, <2>3, ReadImplements
<1>. QED
  BY <1>2, <1>3

LEMMA LockImplements ==
    ASSUME RInv, NEW c \in Clients, Lock(c)
    PROVE  Service!Next
<1>. DEFINE a == [code |-> "ok", says |-> "locked", vault |-> None]
<1>1. phase[c] = "waiting" /\ req[c].op = "lock" /\ Finish(c, LockNow(mgr), a)
  BY DEF Lock, Serving
<1>2. Service!Tells(a, "locked", None)
  BY DEF Service!Tells
<1>. HIDE DEF a
<1>3. LockNow(mgr).active = mgr.active /\ LockNow(mgr).loaded = None
  BY LockNowCoherent DEF Coherent, RInv, IInv
<1>4. /\ Service!Progress(c, "called", "done")
      /\ Served'[c].answer = a /\ Served[c].req = req[c] /\ mgr' = LockNow(mgr)
  BY <1>1, FinishServes DEF Stage
<1>5. Service!Close(c)
  BY <1>1, <1>2, <1>3, <1>4 DEF Service!Close
<1>. QED
  BY <1>5 DEF Service!Next

-----------------------------------------------------------------------------
(* An unlock, at once or in two steps.                                     *)

(* do_unlock has ended, in a state reached with the wanted database active. *)
LEMMA EndUnlockImplements ==
    ASSUME RInv, NEW c \in Clients, phase[c] \in {"waiting", "prompt"}, req[c].op = "unlock",
           NEW m, Coherent(m), m.state = "Unlocking",
           m.active = Service!Wanted(req[c]), m.active \in Vaults,
           NEW code \in {"ok", "auth-failed", "vault-error", "io-error"}, EndUnlock(c, m, code)
    PROVE  Service!Next
<1>. DEFINE n == EndUnlocking(m, code = "ok")
            a == IF code = "ok" THEN UnlockAnswer(n) ELSE Plain(code)
<1>1. n.active = m.active /\ n.loaded = IF code = "ok" THEN m.active ELSE None
  BY EndSeen
<1>2. Finish(c, n, a)
  BY DEF EndUnlock
<1>3. /\ code = "ok" => Service!Tells(a, "unlocked", n.active)
      /\ code # "ok" => Service!Code(a, code)
  BY DEF UnlockAnswer, Plain, Service!Tells, Service!Code
<1>. HIDE DEF n, a
<1>4. /\ Service!Progress(c, Stage[phase[c]], "done")
      /\ Served'[c].answer = a /\ Served[c].req = req[c] /\ mgr' = n
  BY <1>2, FinishServes
<1>5. Stage[phase[c]] \in {"called", "opening"}
  BY DEF Stage
<1>6. CASE code = "ok"
  <2>1. Service!Opens(c, Stage[phase[c]])
    BY <1>1, <1>3, <1>4, <1>6 DEF Service!Opens
  <2>. QED
    BY <1>5, <2>1 DEF Service!Next
<1>7. CASE code # "ok"
  <2>1. Service!Fails(c, Stage[phase[c]])
    BY <1>1, <1>3, <1>4, <1>7 DEF Service!Fails, Service!Failures
  <2>. QED
    BY <1>5, <2>1 DEF Service!Next
<1>. QED
  BY <1>6, <1>7

LEMMA UnlockImplements ==
    ASSUME RInv, NEW c \in Clients,
           UnlockUnknown(c) \/ UnlockRefused(c) \/ UnlockInline(c) \/ UnlockPrompt(c)
    PROVE  Service!Next
<1>. DEFINE m == Requested(mgr, req[c])
            w == Service!Wanted(req[c])
<1>1. phase[c] = "waiting" /\ Owns(c) /\ req[c].op = "unlock"
  BY DEF UnlockUnknown, UnlockRefused, UnlockInline, UnlockPrompt, Unlocking, Serving
<1>2. CASE UnlockUnknown(c)
  <2>1. Service!Reads(req[c], Plain("not-found"))
    BY <1>1, <1>2 DEF UnlockUnknown, Service!Reads, Service!Code, Plain
  <2>. QED
    BY <1>1, <1>2, <2>1, ReadImplements DEF UnlockUnknown
<1>3. ASSUME Unlocking(c)
      PROVE  /\ w \in Vaults /\ m.active = w /\ Coherent(m)
             /\ m.loaded = IF w = mgr.active THEN mgr.loaded ELSE None
             /\ m.state \in {"Locked", "Unlocked"}
  BY <1>3, RequestedSeen, RequestedCoherent DEF RInv
<1>4. CASE UnlockRefused(c)
  <2>1. Unlocking(c) /\ m.state = "Unlocked" /\ Finish(c, m, UnlockAnswer(m))
    BY <1>3, <1>4 DEF UnlockRefused
  <2>2. m.active = w /\ m.loaded = w /\ w \in Vaults
    BY <1>3, <2>1 DEF Coherent
  <2>3. Service!Tells(UnlockAnswer(m), "unlocked", w)
    BY <2>2 DEF UnlockAnswer, Service!Tells
  <2>. HIDE DEF m, w
  <2>4. /\ Service!Progress(c, "called", "done")
        /\ Served'[c].answer = UnlockAnswer(m) /\ Served[c].req = req[c] /\ mgr' = m
    BY <1>1, <2>1, FinishServes DEF Stage
  <2>5. Service!Opens(c, "called")
    BY <1>1, <2>2, <2>3, <2>4 DEF Service!Opens, w
  <2>. QED
    BY <2>5 DEF Service!Next
<1>5. CASE UnlockInline(c)
  <2>1. /\ Unlocking(c) /\ m.state = "Locked"
        /\ \E code \in {"ok", "auth-failed", "vault-error"} :
              EndUnlock(c, StartUnlocking(m), code)
    BY <1>5 DEF UnlockInline
  <2>. DEFINE k == StartUnlocking(m)
  <2>2. w \in Vaults /\ m.active = w /\ Coherent(m)
    BY <1>3, <2>1
  <2>. HIDE DEF m
  <2>3. Coherent(k) /\ k.state = "Unlocking" /\ k.active = w
    BY <2>1, <2>2, StartUnlockingCoherent DEF StartUnlocking, Coherent, Managers
  <2>4. PICK code \in {"ok", "auth-failed", "vault-error"} : EndUnlock(c, k, code)
    BY <2>1
  <2>. HIDE DEF k
  <2>. QED
    BY <1>1, <2>2, <2>3, <2>4, EndUnlockImplements
<1>6. CASE UnlockPrompt(c)
  <2>1. /\ Unlocking(c) /\ m.state = "Locked" /\ mgr' = StartUnlocking(m)
        /\ phase' = [phase EXCEPT ![c] = "prompt"] /\ UNCHANGED <<req, answer, held>>
    BY <1>6 DEF UnlockPrompt
  <2>2. w \in Vaults /\ m.active = w /\ Coherent(m)
        /\ m.loaded = IF w = mgr.active THEN mgr.loaded ELSE None
    BY <1>3, <2>1
  <2>. HIDE DEF m
  <2>3. mgr'.active = w /\ mgr'.loaded = None /\ m.loaded = None
    BY <2>1, <2>2 DEF StartUnlocking, Coherent, Managers
  <2>. DEFINE p == "prompt"
  <2>4. p \in Phases /\ Stage[p] = "opening" /\ p # "acting"
    BY DEF Phases, Stage
  <2>5. /\ phase' = [phase EXCEPT ![c] = p] /\ req' = [req EXCEPT ![c] = req'[c]]
        /\ answer' = [answer EXCEPT ![c] = answer'[c]] /\ held' = [held EXCEPT ![c] = held'[c]]
        /\ req'[c] = req[c] /\ held'[c] = None
    BY <1>1, <2>1 DEF RInv, IInv, TypeOK, HeldWhileActing
  <2>. HIDE DEF p
  <2>6. /\ Service!Move(c, Stage[phase[c]], Stage[p])
        /\ Served'[c] = [stage |-> Stage[p], req |-> req'[c],
                         answer |-> answer'[c], from |-> held'[c]]
        /\ Served[c].req = req[c]
    BY <2>4, <2>5, Moves
  <2>7. Service!Progress(c, "called", "opening") /\ Served[c].req = req[c]
    BY <1>1, <2>4, <2>5, <2>6 DEF Service!Progress, Stage
  <2>8. Service!SwitchTo(w)
    BY <2>2, <2>3 DEF Service!SwitchTo
  <2>9. Service!StartOpening(c)
    BY <1>1, <2>2, <2>3, <2>7, <2>8 DEF Service!StartOpening
  <2>. QED
    BY <2>9 DEF Service!Next
<1>. QED
  BY <1>2, <1>4, <1>5, <1>6

LEMMA PromptReturnsImplements ==
    ASSUME RInv, NEW c \in Clients, PromptReturns(c)
    PROVE  Service!Next
<1>1. /\ phase[c] = "prompt" /\ mgr.state = "Unlocking" /\ Coherent(mgr)
      /\ req[c].op = "unlock" /\ mgr.active = Service!Wanted(req[c])
  BY DEF PromptReturns, RInv, IInv, PromptOwnsUnlocking, PromptForActive
<1>2. mgr.active \in Vaults
  BY <1>1 DEF Coherent, Managers
<1>3. PICK code \in {"ok", "auth-failed", "vault-error", "io-error"} : EndUnlock(c, mgr, code)
  BY DEF PromptReturns
<1>. QED
  BY <1>1, <1>2, <1>3, EndUnlockImplements

-----------------------------------------------------------------------------
(* Outside the critical sections.                                          *)

(* The call is one the service knows. *)
LEMMA CallTyped ==
    ASSUME NEW p \in Phases, NEW r \in Requests \cup {NoRequest}, NEW a \in Answers
    PROVE  [stage |-> Stage[p], req |-> r, answer |-> a, from |-> None] \in Service!Calls
<1>1. Stage[p] \in {"idle", "called", "opening", "fetched", "done"}
  BY DEF Phases, Stage
<1>. QED
  BY <1>1 DEF Service!Calls, NoRequest

LEMMA ArrivalImplements ==
    ASSUME RInv, NEW c \in Clients, NEW r \in Workload, AnswerAtOnce(c, r) \/ AskForVault(c, r)
    PROVE  Service!Next
<1>1. r \in Requests /\ phase[c] = "reading" /\ mgr' = mgr
  BY DaemonAssumption DEF AnswerAtOnce, AskForVault
<1>2. CASE AnswerAtOnce(c, r)
  <2>. DEFINE p == "answering"
  <2>1. p \in Phases /\ Stage[p] = "done" /\ p # "acting"
    BY DEF Phases, Stage
  <2>2. /\ phase' = [phase EXCEPT ![c] = p] /\ req' = [req EXCEPT ![c] = req'[c]]
        /\ answer' = [answer EXCEPT ![c] = answer'[c]] /\ held' = [held EXCEPT ![c] = held'[c]]
        /\ req'[c] = r /\ answer'[c] = ImmediateAnswer(r) /\ held'[c] = None
    BY <1>1, <1>2 DEF AnswerAtOnce, RInv, IInv, TypeOK, HeldWhileActing
  <2>. HIDE DEF p
  <2>3. /\ Service!Move(c, Stage[phase[c]], Stage[p])
        /\ Served'[c] = [stage |-> Stage[p], req |-> req'[c],
                         answer |-> answer'[c], from |-> held'[c]]
    BY <2>1, <2>2, Moves
  <2>4. ImmediateAnswer(r) \in Answers /\ ImmediateAnswer(r).says = "unsaid"
    BY DEF ImmediateAnswer, Plain, Answers, Codes
  <2>5. r.op \in {"garbage", "malformed", "subscribe", "unlock"}
    BY <1>2 DEF AnswerAtOnce, Immediate
  <2>6. Served'[c] \in Service!Calls
    BY <1>1, <2>1, <2>2, <2>3, <2>4, CallTyped
  <2>7. Service!Refuse(c)
    BY <1>1, <2>1, <2>2, <2>3, <2>4, <2>5, <2>6 DEF Service!Refuse, Stage
  <2>. QED
    BY <2>7 DEF Service!Next
<1>3. CASE AskForVault(c, r)
  <2>. DEFINE p == "waiting"
  <2>1. p \in Phases /\ Stage[p] = "called" /\ p # "acting"
    BY DEF Phases, Stage
  <2>2. /\ phase' = [phase EXCEPT ![c] = p] /\ req' = [req EXCEPT ![c] = req'[c]]
        /\ answer' = [answer EXCEPT ![c] = answer'[c]] /\ held' = [held EXCEPT ![c] = held'[c]]
        /\ req'[c] = r /\ answer'[c] \in Answers /\ held'[c] = None
    BY <1>1, <1>3 DEF AskForVault, RInv, IInv, TypeOK, HeldWhileActing
  <2>. HIDE DEF p
  <2>3. /\ Service!Move(c, Stage[phase[c]], Stage[p])
        /\ Served'[c] = [stage |-> Stage[p], req |-> req'[c],
                         answer |-> answer'[c], from |-> held'[c]]
    BY <2>1, <2>2, Moves
  <2>4. Served'[c] \in Service!Calls
    BY <1>1, <2>1, <2>2, <2>3, CallTyped
  <2>5. Service!Call(c)
    BY <1>1, <2>1, <2>3, <2>4 DEF Service!Call, Stage
  <2>. QED
    BY <2>5 DEF Service!Next
<1>. QED
  BY <1>2, <1>3

LEMMA RespondImplements ==
    ASSUME RInv, NEW c \in Clients, Respond(c)
    PROVE  Service!Next
<1>. DEFINE p == "reading"
<1>1. p \in Phases /\ Stage[p] = "idle" /\ p # "acting"
  BY DEF Phases, Stage
<1>2. /\ phase' = [phase EXCEPT ![c] = p] /\ req' = [req EXCEPT ![c] = req'[c]]
      /\ answer' = [answer EXCEPT ![c] = answer'[c]] /\ held' = [held EXCEPT ![c] = held'[c]]
      /\ req'[c] = NoRequest /\ answer'[c] = NoAnswer /\ held'[c] = None
      /\ phase[c] = "answering" /\ mgr' = mgr
  BY DEF Respond, RInv, IInv, TypeOK, HeldWhileActing
<1>. HIDE DEF p
<1>3. /\ Service!Move(c, Stage[phase[c]], Stage[p])
      /\ Served'[c] = [stage |-> Stage[p], req |-> req'[c],
                       answer |-> answer'[c], from |-> held'[c]]
  BY <1>1, <1>2, Moves
<1>4. NoAnswer \in Answers
  BY PlainAnswer DEF NoAnswer, Codes
<1>5. Served'[c] \in Service!Calls
  BY <1>1, <1>2, <1>3, <1>4, CallTyped
<1>6. Service!Return(c)
  BY <1>1, <1>2, <1>3, <1>5 DEF Service!Return, Stage
<1>. QED
  BY <1>6 DEF Service!Next

LEMMA ActImplements ==
    ASSUME RInv, NEW c \in Clients, Act(c)
    PROVE  Service!Next
<1>. DEFINE p == "answering"
<1>1. p \in Phases /\ Stage[p] = "done" /\ p # "acting"
  BY DEF Phases, Stage
<1>2. PICK code \in {"ok", "io-error"} : answer' = [answer EXCEPT ![c] = Plain(code)]
  BY DEF Act
<1>3. /\ phase' = [phase EXCEPT ![c] = p] /\ req' = [req EXCEPT ![c] = req'[c]]
      /\ answer' = [answer EXCEPT ![c] = answer'[c]] /\ held' = [held EXCEPT ![c] = held'[c]]
      /\ req'[c] = req[c] /\ answer'[c] = Plain(code) /\ held'[c] = None
      /\ phase[c] = "acting" /\ mgr' = mgr
  BY <1>2 DEF Act, RInv, IInv, TypeOK
<1>. HIDE DEF p
<1>4. /\ Service!Move(c, Stage[phase[c]], Stage[p])
      /\ Served'[c] = [stage |-> Stage[p], req |-> req'[c],
                       answer |-> answer'[c], from |-> held'[c]]
      /\ Served[c].req = req[c]
  BY <1>1, <1>3, Moves
<1>5. Service!Progress(c, "fetched", "done")
  BY <1>1, <1>3, <1>4 DEF Service!Progress, Stage
<1>6. Service!Code(Served'[c].answer, "ok") \/ Service!Code(Served'[c].answer, "io-error")
  BY <1>3, <1>4 DEF Service!Code, Plain
<1>7. Service!Delivered(c)
  BY <1>3, <1>5, <1>6 DEF Service!Delivered
<1>. QED
  BY <1>7 DEF Service!Next

(* The idle task, the logind task and main close the vault, or find it     *)
(* closed.                                                                 *)
LEMMA TaskLockImplements ==
    ASSUME RInv, IdleLock \/ SignalLock \/ ShutdownLock
    PROVE  Service!Next
<1>1. /\ mgr' = LockNow(mgr) \/ (mgr' = mgr /\ IsLocked(mgr))
      /\ UNCHANGED <<phase, req, answer, held>>
  BY DEF IdleLock, SignalLock, ShutdownLock, connVars
<1>2. Coherent(mgr)
  BY DEF RInv, IInv
<1>3. /\ LockNow(mgr).loaded = None /\ LockNow(mgr).active = mgr.active
      /\ IsLocked(mgr) => mgr.loaded = None
  BY <1>2, LockNowCoherent DEF Coherent, IsLocked
<1>4. mgr'.loaded = None /\ mgr'.active = mgr.active /\ Served' = Served
  BY <1>1, <1>3 DEF Served
<1>. QED
  BY <1>4 DEF Service!Next, Service!AutoLock

LEMMA StepImplements == RInv /\ [Next]_vars => [Service!Next]_(Service!vars)
<1>. SUFFICES ASSUME RInv, [Next]_vars PROVE [Service!Next]_(Service!vars)
  OBVIOUS
<1>1. ASSUME NEW c \in Clients, ClientStep(c) PROVE Service!Next
  <2>1. CASE Operate(c)
    BY <2>1, HelloImplements, ListImplements, GetImplements, CopyOrTypeImplements,
       UseImplements, LockImplements, UnlockImplements DEF Operate
  <2>. QED
    BY <1>1, <2>1, ArrivalImplements, PromptReturnsImplements, ActImplements,
       RespondImplements DEF ClientStep
<1>2. CASE IdleLock \/ SignalLock \/ ShutdownLock
  BY <1>2, TaskLockImplements
<1>3. CASE IdleTick \/ Elapse \/ LogindStep \/ ShutdownSignal \/ Exit \/ Terminated
             \/ UNCHANGED vars
  <2>1. UNCHANGED <<mgr, phase, req, answer, held>>
    BY <1>3 DEF IdleTick, Elapse, LogindStep, SignalArrives, TakeSignal, ShutdownSignal,
       Exit, Terminated, vars, connVars
  <2>. QED
    BY <2>1, UnseenStep
<1>. QED
  BY <1>1, <1>2, <1>3 DEF Next

-----------------------------------------------------------------------------
(* What the steps need to know of secrets and prompts is kept.             *)

(* Nobody else has a prompt open when c leaves the mutex or goes on with   *)
(* it, so no prompt is left that could be for another database.            *)
LEMMA FinishKeeps ==
    ASSUME RInv, NEW c \in Clients, phase[c] \in {"waiting", "prompt"}, Owns(c),
           NEW m, NEW a, Finish(c, m, a)
    PROVE  HeldWhileActing' /\ PromptForActive'
<1>1. /\ phase \in [Clients -> Phases] /\ phase' = [phase EXCEPT ![c] = "answering"]
      /\ held' = held
  BY DEF Finish, RInv, IInv, TypeOK
<1>2. \A d \in Clients : phase[d] = "prompt" => d = c
  BY DEF RInv, IInv, PromptOwnsUnlocking, Owns
<1>3. \A d \in Clients : phase'[d] # "prompt"
  BY <1>1, <1>2
<1>. QED
  BY <1>1, <1>3 DEF HeldWhileActing, PromptForActive, RInv

LEMMA OperateKeeps ==
    ASSUME RInv, NEW c \in Clients, Operate(c)
    PROVE  HeldWhileActing' /\ PromptForActive'
<1>1. phase[c] = "waiting" /\ Owns(c)
  BY DEF Operate, Hello, Status, Overview, Use, Lock, List, Get, Totp, CopyOrType,
         UnlockUnknown, UnlockRefused, UnlockInline, UnlockPrompt, Unlocking, Serving
<1>2. /\ phase \in [Clients -> Phases] /\ held \in [Clients -> Vaults \cup {None}]
      /\ \A d \in Clients : phase[d] # "prompt"
  BY <1>1, ServingIsAlone DEF RInv, IInv, TypeOK
<1>3. CASE \E m, a : Finish(c, m, a)
  BY <1>1, <1>3, FinishKeeps
<1>4. CASE TakeSecret(c)
  <2>1. /\ phase' = [phase EXCEPT ![c] = "acting"]
        /\ \A d \in Clients : d # c => held'[d] = held[d]
    BY <1>2, <1>4 DEF TakeSecret
  <2>. QED
    BY <1>2, <2>1 DEF HeldWhileActing, PromptForActive, RInv
<1>5. CASE UnlockPrompt(c)
  <2>. DEFINE m == Requested(mgr, req[c])
  <2>1. /\ Unlocking(c) /\ mgr' = StartUnlocking(m) /\ req[c].op = "unlock"
        /\ phase' = [phase EXCEPT ![c] = "prompt"] /\ UNCHANGED <<req, held>>
    BY <1>5 DEF UnlockPrompt, Unlocking, Serving
  <2>2. Coherent(m) /\ m.active = Service!Wanted(req[c])
    BY <2>1, RequestedCoherent, RequestedSeen DEF RInv
  <2>. HIDE DEF m
  <2>3. mgr'.active = m.active
    BY <2>1, <2>2 DEF StartUnlocking, Coherent, Managers
  <2>4. Service!Wanted(req[c])' = mgr'.active
    BY <2>1, <2>2, <2>3 DEF Service!Wanted
  <2>5. \A d \in Clients : phase'[d] = "prompt" <=> d = c
    BY <1>2, <2>1
  <2>6. HeldWhileActing'
    BY <1>1, <1>2, <2>1 DEF HeldWhileActing, RInv
  <2>7. PromptForActive'
    BY <2>1, <2>4, <2>5 DEF PromptForActive
  <2>. QED
    BY <2>6, <2>7
<1>. QED
  BY <1>3, <1>4, <1>5 DEF Operate, Hello, Status, Overview, Use, Lock, List, Get, Totp,
     CopyOrType, UnlockUnknown, UnlockRefused, UnlockInline, EndUnlock

(* A step that leaves the vault and the prompts alone.                     *)
LEMMA QuietKeeps ==
    ASSUME RInv, mgr' = mgr \/ \A c \in Clients : phase[c] # "prompt",
           \A c \in Clients : phase'[c] = "prompt" => phase[c] = "prompt" /\ req'[c] = req[c],
           \A c \in Clients : phase'[c] # "acting" => held'[c] = None
    PROVE  HeldWhileActing' /\ PromptForActive'
<1>1. HeldWhileActing'
  BY DEF HeldWhileActing
<1>2. ASSUME NEW c \in Clients, phase'[c] = "prompt"
      PROVE  req'[c].op = "unlock" /\ Service!Wanted(req[c])' = mgr'.active
  <2>1. phase[c] = "prompt" /\ req'[c] = req[c] /\ mgr' = mgr
    BY <1>2
  <2>. QED
    BY <2>1 DEF RInv, PromptForActive, Service!Wanted
<1>. QED
  BY <1>1, <1>2 DEF PromptForActive

LEMMA StepKeeps == RInv /\ [Next]_vars => HeldWhileActing' /\ PromptForActive'
<1>. SUFFICES ASSUME RInv, [Next]_vars PROVE HeldWhileActing' /\ PromptForActive'
  OBVIOUS
<1>1. /\ phase \in [Clients -> Phases] /\ req \in [Clients -> Requests \cup {NoRequest}]
      /\ held \in [Clients -> Vaults \cup {None}] /\ HeldWhileActing
  BY DEF RInv, IInv, TypeOK
<1>2. ASSUME NEW c \in Clients, ClientStep(c)
      PROVE  HeldWhileActing' /\ PromptForActive'
  <2>1. CASE Operate(c)
    BY <2>1, OperateKeeps
  <2>2. CASE PromptReturns(c)
    <3>1. phase[c] = "prompt" /\ Owns(c)
      BY <2>2 DEF PromptReturns, RInv, IInv, PromptOwnsUnlocking
    <3>2. \E m, a : Finish(c, m, a)
      BY <2>2 DEF PromptReturns, EndUnlock
    <3>. QED
      BY <3>1, <3>2, FinishKeeps
  <2>3. CASE \E r \in Workload : AnswerAtOnce(c, r) \/ AskForVault(c, r)
    <3>1. /\ mgr' = mgr /\ held' = held /\ phase[c] = "reading"
          /\ phase'[c] \in {"waiting", "answering"}
          /\ \A d \in Clients : d # c => phase'[d] = phase[d] /\ req'[d] = req[d]
      BY <1>1, <2>3 DEF AnswerAtOnce, AskForVault
    <3>. QED
      BY <1>1, <3>1, QuietKeeps DEF HeldWhileActing
  <2>4. CASE Act(c) \/ Respond(c)
    <3>1. /\ mgr' = mgr /\ phase'[c] \in {"answering", "reading"}
          /\ held'[c] = None
          /\ \A d \in Clients : d # c => /\ phase'[d] = phase[d] /\ req'[d] = req[d]
                                         /\ held'[d] = held[d]
      BY <1>1, <2>4 DEF Act, Respond, HeldWhileActing
    <3>. QED
      BY <1>1, <3>1, QuietKeeps DEF HeldWhileActing
  <2>. QED
    BY <1>2, <2>1, <2>2, <2>3, <2>4 DEF ClientStep
<1>3. CASE IdleLock \/ SignalLock \/ ShutdownLock
  <2>1. \A c \in Clients : phase[c] # "prompt"
    <3>1. PICK p \in Tasks : Owns(p)
      BY <1>3 DEF IdleLock, SignalLock, ShutdownLock, Tasks
    <3>. QED
      BY <3>1, OwnerIsAlone, DaemonAssumption DEF RInv
  <2>2. UNCHANGED <<phase, req, held>>
    BY <1>3 DEF IdleLock, SignalLock, ShutdownLock, connVars
  <2>. QED
    BY <1>1, <2>1, <2>2, QuietKeeps DEF HeldWhileActing
<1>4. CASE IdleTick \/ Elapse \/ LogindStep \/ ShutdownSignal \/ Exit \/ Terminated
             \/ UNCHANGED vars
  <2>1. UNCHANGED <<mgr, phase, req, held>>
    BY <1>4 DEF IdleTick, Elapse, LogindStep, SignalArrives, TakeSignal, ShutdownSignal,
       Exit, Terminated, vars, connVars
  <2>. QED
    BY <1>1, <2>1, QuietKeeps DEF HeldWhileActing
<1>. QED
  BY <1>2, <1>3, <1>4 DEF Next

-----------------------------------------------------------------------------
(* omarkeyd is the vault of PROTOCOL.md: its tasks, mutex, clock and       *)
(* Unlocking state (main.rs, ipc.rs, security.rs) cannot be told from a    *)
(* vault on which every request takes effect at one instant, an unlock at  *)
(* two, and which may close at any time.                                   *)
THEOREM Refinement == Spec => ImplementsService
<1>1. Init => RInv
  <2>1. Init => IInv
    BY InitIInv
  <2>2. Init => HeldWhileActing /\ PromptForActive
    BY DEF Init, HeldWhileActing, PromptForActive
  <2>. QED
    BY <2>1, <2>2 DEF RInv
<1>2. RInv /\ [Next]_vars => RInv'
  BY StepIInv, StepKeeps DEF RInv
<1>3. Init => Service!Init
  <2>. SUFFICES ASSUME Init PROVE Service!Init
    OBVIOUS
  <2>1. \A c \in Clients : phase[c] = "reading" /\ req[c] = NoRequest
                              /\ answer[c] = NoAnswer /\ held[c] = None
    BY DEF Init
  <2>2. "reading" \in Phases /\ Stage["reading"] = "idle" /\ NoAnswer \in Answers
    BY PlainAnswer DEF Phases, Stage, NoAnswer, Codes
  <2>3. \A c \in Clients : Served[c] \in Service!Calls /\ Served[c].stage = "idle"
                              /\ Served[c].from = None
    <3>. SUFFICES ASSUME NEW c \in Clients
                  PROVE  Served[c] \in Service!Calls /\ Served[c].stage = "idle"
                            /\ Served[c].from = None
      OBVIOUS
    <3>. DEFINE p == "reading"
    <3>1. Served[c] = [stage |-> Stage[p], req |-> NoRequest, answer |-> NoAnswer,
                       from |-> None]
      BY <2>1 DEF Served
    <3>2. p \in Phases /\ Stage[p] = "idle"
      BY <2>2
    <3>. HIDE DEF p
    <3>3. Served[c] \in Service!Calls
      BY <2>2, <3>1, <3>2, CallTyped
    <3>. QED
      BY <3>1, <3>2, <3>3
  <2>4. Served \in [Clients -> Service!Calls]
    BY <2>3 DEF Served
  <2>5. mgr.active = DefaultVault /\ mgr.loaded = None
    BY DEF Init, NewManager
  <2>. QED
    BY <2>3, <2>4, <2>5 DEF Service!Init
<1>. QED
  BY <1>1, <1>2, <1>3, StepImplements, PTL DEF Spec, ImplementsService, Service!Spec
=============================================================================
