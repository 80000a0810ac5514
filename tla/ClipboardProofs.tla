-------------------------- MODULE ClipboardProofs --------------------------
(***************************************************************************)
(* Theorems about Clipboard: for any number of connections, copies and     *)
(* values the variables keep their types, generations are unique, and the  *)
(* newest copy keeps its wipe; and as long as copies do not overlap, no    *)
(* promised wipe is called off.                                            *)
(***************************************************************************)
EXTENDS Clipboard, FiniteSetTheorems, TLAPS

(* The copies that have been given a generation. *)
Numbered == {k \in Copies : copy[k].gen # 0}

BeforeSchedule == {"unused", "writing", "written", "failed"}

(* The copies not begun yet are blank; only those past their schedule have *)
(* a generation; a connection is in a copy that has begun.                 *)
Progress ==
    /\ \A k \in Copies : k > started => copy[k].stage = "unused"
    /\ \A k \in Copies : copy[k].stage \in BeforeSchedule => copy[k].gen = 0
    /\ \A c \in Conns : running[c] <= started

(* The counter counts the copies with a generation; so it never runs ahead *)
(* of the copies begun, which the type of the counter needs.               *)
Counted == Cardinality(Numbered) = generation

CInv == TypeOK /\ Progress /\ Counted

-----------------------------------------------------------------------------
(* Cardinalities.                                                          *)

LEMMA NumberedFinite ==
    ASSUME CInv
    PROVE  IsFiniteSet(Numbered) /\ Numbered \subseteq 1..started
<1>1. Numbered \subseteq 1..started
  BY ClipboardAssumption DEF CInv, TypeOK, Progress, Numbered, Copies, BeforeSchedule
<1>2. IsFiniteSet(1..started)
  BY FS_Interval DEF CInv, TypeOK
<1>. QED
  BY <1>1, <1>2, FS_Subset

(* A copy that has begun and has no generation leaves room for one more. *)
LEMMA RoomForOne ==
    ASSUME CInv, NEW k \in 1..started, copy[k].gen = 0
    PROVE  generation < started
<1>1. IsFiniteSet(1..started) /\ Cardinality(1..started) = started
  BY FS_Interval DEF CInv, TypeOK
<1>2. Numbered \subseteq 1..started /\ k \notin Numbered
  BY NumberedFinite DEF Numbered
<1>3. Numbered # 1..started
  BY <1>2
<1>4. /\ Cardinality(Numbered) <= Cardinality(1..started)
      /\ Cardinality(Numbered) # Cardinality(1..started)
  BY <1>1, <1>2, <1>3, FS_Subset
<1>. QED
  BY <1>1, <1>4 DEF CInv, Counted, TypeOK

-----------------------------------------------------------------------------
(* Types and the counter.                                                  *)

(* A copy moves on, within its half of the stages. *)
LEMMA MoveCounted ==
    ASSUME CInv, NEW k \in Copies, NEW stage \in Stages, GoTo(k, stage),
           stage # "unused", copy[k].stage # "unused",
           stage \in BeforeSchedule => copy[k].stage \in BeforeSchedule,
           clip' \in [value : Values, writer : Copies \cup {User}],
           \A c \in Conns : running'[c] \in {running[c], 0},
           running' \in [Conns -> Copies \cup {0}],
           UNCHANGED <<generation, started, up>>
    PROVE  CInv'
<1>1. \A j \in Copies : /\ copy'[j].gen = copy[j].gen
                        /\ copy'[j].stage = IF j = k THEN stage ELSE copy[j].stage
  BY DEF CInv, TypeOK, CopyStates, GoTo
<1>2. copy' \in [Copies -> CopyStates]
  BY DEF CInv, TypeOK, CopyStates, GoTo
<1>3. Numbered' = Numbered
  BY <1>1 DEF Numbered
<1>4. Counted'
  BY <1>3 DEF CInv, Counted
<1>5. Progress'
  BY <1>1 DEF CInv, Progress, TypeOK
<1>. QED
  BY <1>2, <1>4, <1>5 DEF CInv, TypeOK

LEMMA StartCounted == ASSUME CInv, NEW c \in Conns, StartCopy(c) PROVE CInv'
<1>. DEFINE k == started + 1
<1>1. k \in Copies /\ started' = k /\ k \in Nat /\ started < k
  BY ClipboardAssumption DEF StartCopy, CInv, TypeOK, Copies
<1>2. copy[k].stage = "unused" /\ copy[k].gen = 0
  BY <1>1 DEF CInv, Progress, BeforeSchedule
<1>3. PICK v \in Secrets, w \in BOOLEAN :
         copy' = [copy EXCEPT ![k] =
                     [stage |-> "writing", value |-> v, wipe |-> w, gen |-> 0]]
  BY DEF StartCopy
<1>4. \A j \in Copies : copy'[j] = IF j = k
         THEN [stage |-> "writing", value |-> v, wipe |-> w, gen |-> 0] ELSE copy[j]
  BY <1>3 DEF CInv, TypeOK
<1>. HIDE DEF k
<1>5. copy' \in [Copies -> CopyStates]
  <2>1. [stage |-> "writing", value |-> v, wipe |-> w, gen |-> 0] \in CopyStates
    BY ClipboardAssumption DEF CopyStates, Stages
  <2>. QED
    BY <1>3, <2>1 DEF CInv, TypeOK
<1>6. Numbered' = Numbered
  BY <1>2, <1>4 DEF Numbered
<1>7. running' = [running EXCEPT ![c] = k] /\ UNCHANGED <<clip, generation, up>>
  BY DEF StartCopy, k
<1>8. Progress'
  BY <1>1, <1>4, <1>7 DEF CInv, Progress, BeforeSchedule, TypeOK, Copies
<1>. QED
  BY <1>1, <1>5, <1>6, <1>7, <1>8, ClipboardAssumption DEF CInv, TypeOK, Counted, Copies, k

LEMMA ScheduleCounted == ASSUME CInv, NEW c \in Conns, Schedule(c) PROVE CInv'
<1>. DEFINE k == running[c]
            s == IF copy[k].wipe THEN "sleeping" ELSE "kept"
            n == generation + 1
<1>1. k \in Copies /\ copy[k].stage = "written" /\ copy[k].gen = 0 /\ k \in 1..started
  BY DEF Schedule, Generation, CInv, TypeOK, Progress, BeforeSchedule, Copies
<1>2. generation < started /\ started <= MaxCopies
  BY <1>1, RoomForOne DEF CInv, TypeOK
<1>3. n \in 1..MaxCopies /\ n \in 0..started
  BY <1>2, ClipboardAssumption DEF CInv, TypeOK
<1>4. /\ copy' = [copy EXCEPT ![k].gen = n, ![k].stage = s]
      /\ generation' = n /\ running' = [running EXCEPT ![c] = 0]
      /\ UNCHANGED <<clip, started, up>>
  BY DEF Schedule, Generation
<1>. HIDE DEF k, n
<1>5. \A j \in Copies : /\ copy'[j].gen = IF j = k THEN n ELSE copy[j].gen
                        /\ copy'[j].stage = IF j = k THEN s ELSE copy[j].stage
  BY <1>1, <1>4 DEF CInv, TypeOK, CopyStates
<1>6. copy' \in [Copies -> CopyStates]
  BY <1>1, <1>3, <1>4 DEF CInv, TypeOK, CopyStates, Stages
<1>7. Numbered' = Numbered \cup {k} /\ k \notin Numbered
  <2>1. n # 0 /\ copy[k].gen = 0 /\ k \in Copies
    BY <1>1, <1>3
  <2>. QED
    BY <1>5, <2>1 DEF Numbered
<1>8. Cardinality(Numbered') = Cardinality(Numbered) + 1
  BY <1>7, NumberedFinite, FS_AddElement
<1>9. Counted'
  BY <1>4, <1>8 DEF CInv, Counted, n
<1>10. Progress'
  BY <1>1, <1>4, <1>5 DEF CInv, Progress, BeforeSchedule, TypeOK
<1>. QED
  BY <1>3, <1>4, <1>6, <1>9, <1>10 DEF CInv, TypeOK

LEMMA StepCounted == CInv /\ [Next]_vars => CInv'
<1>. SUFFICES ASSUME CInv, [Next]_vars PROVE CInv'
  OBVIOUS
<1>1. ASSUME NEW c \in Conns, Written(c) \/ WriteFails(c) PROVE CInv'
  <2>. DEFINE k == running[c]
  <2>1. k \in Copies /\ copy[k].stage = "writing" /\ copy[k].value \in Values
    BY <1>1 DEF Written, WriteFails, CInv, TypeOK, CopyStates, Values
  <2>2. clip' \in [value : Values, writer : Copies \cup {User}]
    BY <1>1, <2>1 DEF Written, WriteFails, CInv, TypeOK
  <2>3. PICK stage \in {"written", "failed"} : GoTo(k, stage)
    BY <1>1 DEF Written, WriteFails
  <2>. QED
    BY <1>1, <2>1, <2>2, <2>3, MoveCounted
    DEF Written, WriteFails, CInv, TypeOK, Stages, BeforeSchedule
<1>2. ASSUME NEW k \in Copies, Wipe(k) PROVE CInv'
  <2>1. PICK stage \in {"pasting", "ended", "clearing", "cleared", "gaveup"} : GoTo(k, stage)
    BY <1>2 DEF Wipe, Wake, Paste, Clear, GiveUp
  <2>2. copy[k].stage # "unused" /\ UNCHANGED <<generation, started, running, up>>
    BY <1>2 DEF Wipe, Wake, Paste, Clear, GiveUp
  <2>3. clip' \in [value : Values, writer : Copies \cup {User}]
    BY <1>2 DEF Wipe, Wake, Paste, Clear, GiveUp, CInv, TypeOK, Values
  <2>. QED
    BY <2>1, <2>2, <2>3, MoveCounted DEF CInv, TypeOK, Stages, BeforeSchedule
<1>3. CASE (\E v \in Texts : UserCopies(v)) \/ Exit \/ UNCHANGED vars
  <2>1. UNCHANGED <<generation, started, running, copy>>
    BY <1>3 DEF UserCopies, Exit, vars
  <2>2. Progress' /\ Counted'
    BY <2>1 DEF CInv, Progress, Counted, Numbered
  <2>3. clip' \in [value : Values, writer : Copies \cup {User}] /\ up' \in BOOLEAN
    <3>1. CASE \E v \in Texts : UserCopies(v)
      BY <3>1 DEF UserCopies, CInv, TypeOK, Values
    <3>2. CASE Exit \/ UNCHANGED vars
      BY <3>2 DEF Exit, vars, CInv, TypeOK
    <3>. QED
      BY <1>3, <3>1, <3>2
  <2>. QED
    BY <2>1, <2>2, <2>3 DEF CInv, TypeOK
<1>. QED
  BY <1>1, <1>2, <1>3, StartCounted, ScheduleCounted DEF Next, Call

LEMMA InitCounted == Init => CInv
<1>. SUFFICES ASSUME Init PROVE CInv
  OBVIOUS
<1>1. Numbered = {}
  BY DEF Init, Numbered
<1>2. TypeOK
  BY ClipboardAssumption DEF Init, TypeOK, Values, CopyStates, Stages
<1>. QED
  BY <1>1, <1>2, FS_EmptySet DEF Init, CInv, Progress, Counted

LEMMA CountedAlways == Spec => []CInv
BY InitCounted, StepCounted, PTL DEF Spec

(* Whatever copies, wipes, failures and the user do, every variable keeps  *)
(* its type; the generation never runs ahead of the copies begun.          *)
THEOREM ClipboardTypeCorrect == Spec => []TypeOK
<1>1. CInv => TypeOK
  BY DEF CInv
<1>. QED
  BY <1>1, CountedAlways, PTL

-----------------------------------------------------------------------------
(* Generations are unique.                                                 *)

LEMMA StepUnique == CInv /\ OneWipeLeft /\ [Next]_vars => OneWipeLeft'
<1>. SUFFICES ASSUME CInv, OneWipeLeft, [Next]_vars PROVE OneWipeLeft'
  OBVIOUS
<1>. USE DEF CInv, TypeOK, CopyStates
<1>1. ASSUME NEW c \in Conns, StartCopy(c) PROVE OneWipeLeft'
  <2>1. generation' = generation /\ \A k \in Copies : copy'[k].gen \in {copy[k].gen, 0}
    BY <1>1 DEF StartCopy
  <2>. QED
    BY <2>1 DEF OneWipeLeft
<1>2. ASSUME NEW c \in Conns, Schedule(c) PROVE OneWipeLeft'
  <2>. DEFINE k == running[c]
  <2>1. /\ k \in Copies /\ generation' = generation + 1
        /\ \A j \in Copies :
              copy'[j].gen = IF j = k THEN generation + 1 ELSE copy[j].gen
    BY <1>2 DEF Schedule, Generation
  <2>. HIDE DEF k
  <2>2. \A j \in Copies : copy[j].gen <= generation /\ copy[j].gen \in Nat
    BY DEF OneWipeLeft
  <2>. QED
    BY <2>1, <2>2 DEF OneWipeLeft
<1>3. ASSUME \A k \in Copies : copy'[k].gen = copy[k].gen,
             generation' = generation
      PROVE  OneWipeLeft'
  BY <1>3 DEF OneWipeLeft
<1>4. CASE \E c \in Conns : Written(c) \/ WriteFails(c)
  BY <1>3, <1>4 DEF Written, WriteFails, GoTo
<1>5. CASE \E k \in Copies : Wipe(k)
  <2>1. PICK k \in Copies, stage \in Stages : GoTo(k, stage)
    BY <1>5 DEF Wipe, Wake, Paste, Clear, GiveUp, Stages
  <2>2. generation' = generation
    BY <1>5 DEF Wipe, Wake, Paste, Clear, GiveUp
  <2>. QED
    BY <1>3, <2>1, <2>2 DEF GoTo
<1>6. CASE (\E v \in Texts : UserCopies(v)) \/ Exit \/ UNCHANGED vars
  BY <1>3, <1>6 DEF UserCopies, Exit, vars
<1>. QED
  BY <1>1, <1>2, <1>4, <1>5, <1>6 DEF Next, Call

(* No two copies are ever given the same generation and none is ahead of   *)
(* the counter: for any number of connections, at most one sleeping wipe   *)
(* passes the generation check.                                            *)
THEOREM WipesUnique == Spec => []OneWipeLeft
<1>1. Init => OneWipeLeft
  BY DEF Init, OneWipeLeft
<1>. QED
  BY <1>1, CountedAlways, StepUnique, PTL DEF Spec

-----------------------------------------------------------------------------
(* Any number of connections: the newest copy keeps its wipe.              *)

(* What a copy wrote and nobody overwrote is still that copy's value.      *)
ValueIsWriters ==
    clip.writer # User =>
        clip.value = copy[clip.writer].value /\ clip.writer <= started

(* Of the copies with a promise, the one that took its generation last: if *)
(* the clipboard still holds what it wrote, its wipe task is on its way.   *)
NewestHasWiper ==
    \A k \in Copies :
        (/\ up /\ clip.writer = k /\ Scheduled(k)
         /\ copy[k].gen = generation /\ copy[k].stage # "gaveup") =>
            copy[k].stage \in {"sleeping", "pasting", "clearing"}

NInv == CInv /\ OneWipeLeft /\ ValueIsWriters /\ NewestHasWiper

LEMMA StepNewest ==
    NInv /\ [Next]_vars => ValueIsWriters' /\ NewestHasWiper'
<1>. SUFFICES ASSUME NInv, [Next]_vars PROVE ValueIsWriters' /\ NewestHasWiper'
  OBVIOUS
<1>. USE DEF NInv, CInv, TypeOK, CopyStates
<1>1. ASSUME NEW c \in Conns, StartCopy(c) PROVE ValueIsWriters' /\ NewestHasWiper'
  <2>. DEFINE k == started + 1
  <2>1. k \in Copies
    BY <1>1, ClipboardAssumption DEF StartCopy, Copies
  <2>2. /\ \A j \in Copies \ {k} : copy'[j] = copy[j]
        /\ started' = k /\ UNCHANGED <<clip, generation, up>>
    BY <1>1, <2>1 DEF StartCopy
  <2>3. clip.writer # k
    BY DEF ValueIsWriters, User
  <2>. HIDE DEF k
  <2>4. ValueIsWriters'
    BY <2>1, <2>2, <2>3 DEF ValueIsWriters, User, Copies, k
  <2>5. NewestHasWiper'
    BY <2>2, <2>3 DEF NewestHasWiper, Scheduled
  <2>. QED
    BY <2>4, <2>5
<1>2. ASSUME NEW c \in Conns, Written(c) \/ WriteFails(c)
      PROVE  ValueIsWriters' /\ NewestHasWiper'
  <2>. DEFINE k == running[c]
  <2>1. k \in Copies /\ copy[k].stage = "writing" /\ copy[k].gen = 0 /\ k <= started
    BY <1>2 DEF Written, WriteFails, Progress, BeforeSchedule
  <2>2. /\ clip' \in {clip, [value |-> copy[k].value, writer |-> k]}
        /\ \A j \in Copies \ {k} : copy'[j] = copy[j]
        /\ copy'[k].value = copy[k].value /\ copy'[k].gen = 0
        /\ UNCHANGED <<generation, started, up>>
    BY <1>2, <2>1 DEF Written, WriteFails, GoTo
  <2>. HIDE DEF k
  <2>. QED
    BY <2>1, <2>2 DEF ValueIsWriters, NewestHasWiper, Scheduled, User, Copies
<1>3. ASSUME NEW c \in Conns, Schedule(c) PROVE ValueIsWriters' /\ NewestHasWiper'
  <2>. DEFINE k == running[c]
  <2>1. k \in Copies
    BY <1>3 DEF Schedule, Generation
  <2>2. /\ \A j \in Copies \ {k} : copy'[j] = copy[j]
        /\ copy'[k].wipe = copy[k].wipe /\ copy'[k].value = copy[k].value
        /\ copy[k].wipe => copy'[k].stage = "sleeping"
        /\ generation' = generation + 1
        /\ UNCHANGED <<clip, started, up>>
    BY <1>3, <2>1 DEF Schedule, Generation
  <2>3. \A j \in Copies : copy[j].gen # generation'
    BY <2>2 DEF OneWipeLeft
  <2>. HIDE DEF k
  <2>4. ValueIsWriters'
    BY <2>1, <2>2 DEF ValueIsWriters, User, Copies
  <2>5. NewestHasWiper'
    BY <2>1, <2>2, <2>3 DEF NewestHasWiper, Scheduled
  <2>. QED
    BY <2>4, <2>5
<1>4. ASSUME NEW k \in Copies, Wipe(k) PROVE ValueIsWriters' /\ NewestHasWiper'
  <2>1. /\ copy[k].stage \in {"sleeping", "pasting", "clearing"}
        /\ \A j \in Copies \ {k} : copy'[j] = copy[j]
        /\ copy'[k].gen = copy[k].gen /\ copy'[k].wipe = copy[k].wipe
        /\ copy'[k].value = copy[k].value
        /\ UNCHANGED <<generation, started, running, up>>
    BY <1>4 DEF Wipe, Wake, Paste, Clear, GiveUp, GoTo
  <2>2. clip' = clip \/ clip'.writer = User
    BY <1>4 DEF Wipe, Wake, Paste, Clear, GiveUp
  <2>3. ValueIsWriters'
    BY <2>1, <2>2 DEF ValueIsWriters, User, Copies
  <2>4. ASSUME clip'.writer = k, copy[k].gen = generation, copy'[k].stage # "gaveup"
        PROVE  copy'[k].stage \in {"pasting", "clearing"}
    <3>1. clip' = clip /\ clip.value = copy[k].value
      BY <2>2, <2>4 DEF User, Copies, ValueIsWriters
    <3>2. CASE Wake(k)
      BY <2>4, <3>2 DEF Wake, GoTo
    <3>3. CASE Paste(k)
      BY <3>1, <3>3 DEF Paste, GoTo
    <3>4. CASE Clear(k)
      BY <2>4, <3>4 DEF Clear, User, Copies
    <3>5. CASE GiveUp(k)
      BY <2>4, <3>5 DEF GiveUp, GoTo
    <3>. QED
      BY <1>4, <3>2, <3>3, <3>4, <3>5 DEF Wipe
  <2>5. NewestHasWiper'
    BY <2>1, <2>2, <2>4 DEF NewestHasWiper, Scheduled, User, Copies
  <2>. QED
    BY <2>3, <2>5
<1>5. CASE (\E v \in Texts : UserCopies(v)) \/ Exit \/ UNCHANGED vars
  <2>1. /\ UNCHANGED <<generation, started, running, copy>>
        /\ clip' = clip \/ clip'.writer = User
        /\ up' => up
    BY <1>5 DEF UserCopies, Exit, vars
  <2>. QED
    BY <2>1 DEF ValueIsWriters, NewestHasWiper, Scheduled, User, Copies
<1>. QED
  BY <1>1, <1>2, <1>3, <1>4, <1>5 DEF Next, Call

LEMMA NewestAlways == Spec => []NInv
<1>1. Init => NInv
  <2>1. Init => OneWipeLeft /\ ValueIsWriters /\ NewestHasWiper
    BY DEF Init, OneWipeLeft, ValueIsWriters, NewestHasWiper, User, Copies
  <2>. QED
    BY <2>1, InitCounted DEF NInv
<1>2. NInv /\ [Next]_vars => NInv'
  BY StepNewest, StepCounted, StepUnique DEF NInv
<1>. QED
  BY <1>1, <1>2, PTL DEF Spec

(* For any number of connections: the generation check never calls off the *)
(* wipe of the copy that took its generation last, while the clipboard     *)
(* holds what that copy wrote.  A secret is left behind only by a copy     *)
(* that was overtaken between its write and its schedule.                  *)
THEOREM NewestCorrect == Spec => []NewestHasWiper
<1>1. NInv => NewestHasWiper
  BY DEF NInv
<1>. QED
  BY <1>1, NewestAlways, PTL

-----------------------------------------------------------------------------
(* Copies that do not overlap: a promised wipe is never called off.        *)

(* At most one connection is in a copy, up to its schedule. *)
OneAtATime ==
    \A c, d \in Conns : running[c] # 0 /\ running[d] # 0 => c = d

(* The copy in progress is that of a connection; and between its write and *)
(* its schedule no other copy has written.  When copies overlap the last   *)
(* part fails, and with it SecretHasWiper.                                 *)
Owned ==
    /\ \A k \in Copies :
          copy[k].stage \in {"writing", "written"} => \E c \in Conns : running[c] = k
    /\ \A k \in Copies : copy[k].stage = "written" => clip.writer \in {k, User}

OInv == NInv /\ Owned /\ SecretHasWiper

LEMMA StepOwned ==
    ASSUME OInv, OneAtATime, OneAtATime', [Next]_vars
    PROVE  Owned' /\ SecretHasWiper'
<1>. USE DEF OInv, NInv, CInv, TypeOK, CopyStates
<1>1. ASSUME NEW c \in Conns, StartCopy(c) PROVE Owned' /\ SecretHasWiper'
  <2>. DEFINE k == started + 1
  <2>1. k \in Copies /\ running[c] = 0
    BY <1>1, ClipboardAssumption DEF StartCopy, Copies
  <2>2. /\ \A j \in Copies \ {k} : copy'[j] = copy[j]
        /\ copy'[k].stage = "writing" /\ copy'[k].gen = 0
        /\ running' = [running EXCEPT ![c] = k]
        /\ started' = k /\ UNCHANGED <<clip, generation, up>>
    BY <1>1, <2>1 DEF StartCopy
  <2>3. \A j \in Copies : copy[j].stage \notin {"writing", "written"}
    <3>1. \A d \in Conns : running[d] = 0
      BY <2>1, <2>2 DEF OneAtATime, Copies
    <3>. QED
      BY <3>1 DEF Owned, Copies
  <2>4. clip.writer # k
    BY DEF ValueIsWriters, User
  <2>. HIDE DEF k
  <2>5. Owned'
    BY <2>1, <2>2, <2>3 DEF Owned
  <2>6. SecretHasWiper'
    BY <2>2, <2>4 DEF SecretHasWiper, Scheduled
  <2>. QED
    BY <2>5, <2>6
<1>2. ASSUME NEW c \in Conns, Written(c) \/ WriteFails(c)
      PROVE  Owned' /\ SecretHasWiper'
  <2>. DEFINE k == running[c]
  <2>1. k \in Copies /\ copy[k].stage = "writing" /\ copy[k].gen = 0 /\ k <= started
    BY <1>2 DEF Written, WriteFails, Progress, BeforeSchedule
  <2>2. /\ clip' \in {clip, [value |-> copy[k].value, writer |-> k]}
        /\ \A j \in Copies \ {k} : copy'[j] = copy[j]
        /\ copy'[k].value = copy[k].value /\ copy'[k].gen = 0
        /\ UNCHANGED <<generation, started, up>>
    BY <1>2, <2>1 DEF Written, WriteFails, GoTo
  <2>3. \/ clip'.writer = k /\ copy'[k].stage = "written" /\ running' = running
        \/ copy'[k].stage = "failed" /\ running' = [running EXCEPT ![c] = 0]
    BY <1>2, <2>1 DEF Written, WriteFails, GoTo
  <2>4. \A j \in Copies \ {k} : copy[j].stage \notin {"writing", "written"}
    BY <2>1 DEF Owned, OneAtATime, Copies
  <2>. HIDE DEF k
  <2>5. Owned'
    BY <2>1, <2>2, <2>3, <2>4 DEF Owned
  <2>6. SecretHasWiper'
    BY <2>1, <2>2, <2>3 DEF SecretHasWiper, Scheduled
  <2>. QED
    BY <2>5, <2>6
<1>3. ASSUME NEW c \in Conns, Schedule(c) PROVE Owned' /\ SecretHasWiper'
  <2>. DEFINE k == running[c]
  <2>1. k \in Copies /\ copy[k].stage = "written"
    BY <1>3 DEF Schedule, Generation
  <2>2. /\ \A j \in Copies \ {k} : copy'[j] = copy[j]
        /\ copy'[k].gen = generation + 1 /\ copy'[k].wipe = copy[k].wipe
        /\ copy'[k].stage = IF copy[k].wipe THEN "sleeping" ELSE "kept"
        /\ copy'[k].value = copy[k].value
        /\ generation' = generation + 1 /\ running' = [running EXCEPT ![c] = 0]
        /\ UNCHANGED <<clip, started, up>>
    BY <1>3, <2>1 DEF Schedule, Generation
  <2>3. /\ clip.writer \in {k, User}
        /\ \A j \in Copies \ {k} : copy[j].stage \notin {"writing", "written"}
    BY <2>1 DEF Owned, OneAtATime, Copies
  <2>. HIDE DEF k
  <2>5. Owned'
    BY <2>1, <2>2, <2>3 DEF Owned
  <2>6. SecretHasWiper'
    BY <2>1, <2>2, <2>3 DEF SecretHasWiper, Scheduled, User, Copies
  <2>. QED
    BY <2>5, <2>6
<1>4. ASSUME NEW k \in Copies, Wipe(k) PROVE Owned' /\ SecretHasWiper'
  <2>1. /\ copy[k].stage \in {"sleeping", "pasting", "clearing"}
        /\ \A j \in Copies \ {k} : copy'[j] = copy[j]
        /\ copy'[k].stage \in {"pasting", "ended", "clearing", "cleared", "gaveup"}
        /\ copy'[k].gen = copy[k].gen /\ copy'[k].wipe = copy[k].wipe
        /\ copy'[k].value = copy[k].value
        /\ UNCHANGED <<generation, started, running, up>>
    BY <1>4 DEF Wipe, Wake, Paste, Clear, GiveUp, GoTo
  <2>2. clip' = clip \/ clip'.writer = User
    BY <1>4 DEF Wipe, Wake, Paste, Clear, GiveUp
  <2>3. Owned'
    BY <2>1, <2>2 DEF Owned, User, Copies
  <2>4. ASSUME up, clip'.writer = k, Scheduled(k), copy'[k].stage # "gaveup"
        PROVE  copy'[k].stage \in {"pasting", "clearing"}
    <3>1. clip' = clip /\ k # User
      BY <2>2, <2>4 DEF User, Copies
    <3>2. clip.value = copy[k].value
      BY <2>4, <3>1 DEF ValueIsWriters
    <3>3. \/ copy[k].stage = "sleeping" /\ copy[k].gen = generation
          \/ copy[k].stage \in {"pasting", "clearing"}
      BY <2>1, <2>4, <3>1 DEF SecretHasWiper
    <3>4. CASE Wake(k)
      BY <3>3, <3>4 DEF Wake, GoTo
    <3>5. CASE Paste(k)
      BY <3>2, <3>5 DEF Paste, GoTo
    <3>6. CASE Clear(k)
      BY <2>4, <3>1, <3>6 DEF Clear
    <3>7. CASE GiveUp(k)
      BY <2>4, <3>7 DEF GiveUp, GoTo
    <3>. QED
      BY <1>4, <3>4, <3>5, <3>6, <3>7 DEF Wipe
  <2>5. SecretHasWiper'
    BY <2>1, <2>2, <2>4 DEF SecretHasWiper, Scheduled, User, Copies
  <2>. QED
    BY <2>3, <2>5
<1>5. CASE (\E v \in Texts : UserCopies(v)) \/ Exit \/ UNCHANGED vars
  <2>1. /\ UNCHANGED <<generation, started, running, copy>>
        /\ clip' = clip \/ clip'.writer = User
        /\ up' => up
    BY <1>5 DEF UserCopies, Exit, vars
  <2>. QED
    BY <2>1 DEF Owned, SecretHasWiper, Scheduled, User, Copies
<1>. QED
  BY <1>1, <1>2, <1>3, <1>4, <1>5 DEF Next, Call

(* For any number of connections, copies and values, as long as copies do  *)
(* not overlap: a secret on the clipboard whose wipe was promised has its  *)
(* wipe task on its way, past the generation check or sure to pass it.     *)
THEOREM WiperCorrect == Spec /\ []OneAtATime => []SecretHasWiper
<1>1. Init => OInv
  <2>1. Init => Owned /\ SecretHasWiper /\ NInv
    BY InitCounted DEF Init, Owned, SecretHasWiper, User, Copies,
                       NInv, OneWipeLeft, ValueIsWriters, NewestHasWiper
  <2>. QED
    BY <2>1 DEF OInv
<1>2. OInv /\ OneAtATime /\ OneAtATime' /\ [Next]_vars => OInv'
  BY StepOwned, StepNewest, StepCounted, StepUnique DEF OInv, NInv
<1>3. OInv => SecretHasWiper
  BY DEF OInv
<1>. QED
  BY <1>1, <1>2, <1>3, PTL DEF Spec

(* With one connection copies cannot overlap. *)
THEOREM WiperOfOne ==
    ASSUME NEW c, Conns = {c}
    PROVE  Spec => []SecretHasWiper
<1>1. OneAtATime
  BY DEF OneAtATime
<1>. QED
  BY <1>1, WiperCorrect, PTL
=============================================================================
