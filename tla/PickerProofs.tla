---------------------------- MODULE PickerProofs ----------------------------
(***************************************************************************)
(* Theorems about Picker: for any set of databases and any size of the     *)
(* receiver, the socket and the backlog, the client's copy of the daemon's *)
(* state, the rows it lists and the picker it fills end up right.          *)
(*                                                                         *)
(* Lines travel through `recv' (events only) and `outbox'.  What the proof *)
(* says of them needs no fold over what is underway: a line that states    *)
(* what is no longer true is followed by one that states what is.          *)
(***************************************************************************)
EXTENDS Picker, TLAPS

(* Some member of sequence s is in S. *)
Has(s, S) == \E i \in DOMAIN s : s[i] \in S

(* Whatever of s is in P is followed by a member of S, in s or in t, which *)
(* comes after s.                                                          *)
Followed(s, t, P, S) ==
    \A i \in DOMAIN s : s[i] \in P =>
        (\E j \in DOMAIN s : j > i /\ s[j] \in S) \/ Has(t, S)

(* In s, no member of B comes after a member of A.                         *)
Ahead(s, B, A) == \A i, j \in DOMAIN s : s[i] \in A /\ s[j] \in B => j < i

-----------------------------------------------------------------------------
(* Sequences of lines: what is appended, handed over and forgotten.        *)

LEMMA HasEmpty == ASSUME NEW S PROVE ~Has(<< >>, S)
BY DEF Has

LEMMA FollowedEmpty == ASSUME NEW t, NEW P, NEW S PROVE Followed(<< >>, t, P, S)
BY DEF Followed

LEMMA HasAppend ==
    ASSUME NEW L, NEW s \in Seq(L), NEW x \in L, NEW S
    PROVE  Has(Append(s, x), S) <=> Has(s, S) \/ x \in S
<1>1. ASSUME Has(Append(s, x), S) PROVE Has(s, S) \/ x \in S
  <2>1. PICK i \in DOMAIN Append(s, x) : Append(s, x)[i] \in S
    BY <1>1 DEF Has
  <2>. QED
    BY <2>1 DEF Has
<1>2. ASSUME Has(s, S) PROVE Has(Append(s, x), S)
  <2>1. PICK i \in DOMAIN s : s[i] \in S
    BY <1>2 DEF Has
  <2>2. i \in DOMAIN Append(s, x) /\ Append(s, x)[i] = s[i]
    OBVIOUS
  <2>. QED
    BY <2>1, <2>2 DEF Has
<1>3. ASSUME x \in S PROVE Has(Append(s, x), S)
  <2>1. Len(s) + 1 \in DOMAIN Append(s, x) /\ Append(s, x)[Len(s) + 1] = x
    OBVIOUS
  <2>. QED
    BY <1>3, <2>1 DEF Has
<1>. QED
  BY <1>1, <1>2, <1>3

LEMMA HasTail ==
    ASSUME NEW L, NEW s \in Seq(L), s # << >>, NEW S
    PROVE  Has(s, S) <=> Head(s) \in S \/ Has(Tail(s), S)
<1>1. ASSUME Has(s, S), Head(s) \notin S PROVE Has(Tail(s), S)
  <2>1. PICK i \in DOMAIN s : s[i] \in S
    BY <1>1 DEF Has
  <2>2. i - 1 \in DOMAIN Tail(s) /\ Tail(s)[i - 1] = s[i]
    BY <1>1, <2>1
  <2>. QED
    BY <2>1, <2>2 DEF Has
<1>2. ASSUME Has(Tail(s), S) PROVE Has(s, S)
  <2>1. PICK i \in DOMAIN Tail(s) : Tail(s)[i] \in S
    BY <1>2 DEF Has
  <2>2. i + 1 \in DOMAIN s /\ s[i + 1] = Tail(s)[i]
    OBVIOUS
  <2>. QED
    BY <2>1, <2>2 DEF Has
<1>3. ASSUME Head(s) \in S PROVE Has(s, S)
  <2>1. 1 \in DOMAIN s /\ s[1] = Head(s)
    OBVIOUS
  <2>. QED
    BY <1>3, <2>1 DEF Has
<1>. QED
  BY <1>1, <1>2, <1>3

(* A harmless line is written, or one after which the right one comes. *)
LEMMA FollowedAppend ==
    ASSUME NEW L, NEW s \in Seq(L), NEW t, NEW x \in L, NEW P, NEW S,
           Followed(s, t, P, S), x \notin P \/ Has(t, S)
    PROVE  Followed(Append(s, x), t, P, S)
<1>. SUFFICES ASSUME NEW i \in DOMAIN Append(s, x), Append(s, x)[i] \in P, ~Has(t, S)
              PROVE  \E j \in DOMAIN Append(s, x) : j > i /\ Append(s, x)[j] \in S
  BY DEF Followed
<1>1. i \in DOMAIN s /\ s[i] \in P
  OBVIOUS
<1>2. PICK j \in DOMAIN s : j > i /\ s[j] \in S
  BY <1>1 DEF Followed
<1>3. j \in DOMAIN Append(s, x) /\ Append(s, x)[j] = s[j]
  OBVIOUS
<1>. QED
  BY <1>2, <1>3

(* The right line settles what comes before it. *)
LEMMA FollowedClosed ==
    ASSUME NEW L, NEW s \in Seq(L), NEW t, NEW x \in L, NEW P, NEW S,
           x \in S, x \notin P
    PROVE  Followed(Append(s, x), t, P, S)
<1>. SUFFICES ASSUME NEW i \in DOMAIN Append(s, x), Append(s, x)[i] \in P
              PROVE  \E j \in DOMAIN Append(s, x) : j > i /\ Append(s, x)[j] \in S
  BY DEF Followed
<1>1. i \in DOMAIN s
  OBVIOUS
<1>2. Len(s) + 1 \in DOMAIN Append(s, x) /\ Len(s) + 1 > i /\ Append(s, x)[Len(s) + 1] = x
  BY <1>1
<1>. QED
  BY <1>2

LEMMA FollowedTail ==
    ASSUME NEW L, NEW s \in Seq(L), s # << >>, NEW t, NEW P, NEW S, Followed(s, t, P, S)
    PROVE  /\ Followed(Tail(s), t, P, S)
           /\ Head(s) \in P => Has(Tail(s), S) \/ Has(t, S)
<1>1. \A j \in DOMAIN Tail(s) : j + 1 \in DOMAIN s /\ Tail(s)[j] = s[j + 1]
  OBVIOUS
<1>2. \A j \in DOMAIN s : j > 1 => j - 1 \in DOMAIN Tail(s) /\ Tail(s)[j - 1] = s[j]
  OBVIOUS
<1>3. ASSUME NEW i \in DOMAIN Tail(s), Tail(s)[i] \in P, ~Has(t, S)
      PROVE  \E j \in DOMAIN Tail(s) : j > i /\ Tail(s)[j] \in S
  <2>1. PICK j \in DOMAIN s : j > i + 1 /\ s[j] \in S
    BY <1>1, <1>3 DEF Followed
  <2>2. j - 1 \in DOMAIN Tail(s) /\ j - 1 > i /\ Tail(s)[j - 1] = s[j]
    BY <1>2, <2>1
  <2>. QED
    BY <2>1, <2>2
<1>4. ASSUME Head(s) \in P, ~Has(t, S) PROVE Has(Tail(s), S)
  <2>1. 1 \in DOMAIN s /\ s[1] = Head(s)
    OBVIOUS
  <2>2. PICK j \in DOMAIN s : j > 1 /\ s[j] \in S
    BY <1>4, <2>1 DEF Followed
  <2>. QED
    BY <1>2, <2>2 DEF Has
<1>. QED
  BY <1>3, <1>4 DEF Followed

(* More may come after, nothing less. *)
LEMMA FollowedLater ==
    ASSUME NEW s, NEW t, NEW u, NEW P, NEW S, Followed(s, t, P, S), Has(t, S) => Has(u, S)
    PROVE  Followed(s, u, P, S)
BY DEF Followed

(* The first line of t is handed over to s. *)
LEMMA FollowedForward ==
    ASSUME NEW L, NEW s \in Seq(L), NEW t \in Seq(L), t # << >>, NEW P, NEW S,
           Followed(s, t, P, S), Followed(t, << >>, P, S)
    PROVE  /\ Followed(Append(s, Head(t)), Tail(t), P, S)
           /\ Followed(Tail(t), << >>, P, S)
<1>1. Head(t) \in L /\ Tail(t) \in Seq(L)
  OBVIOUS
<1>2. /\ Followed(Tail(t), << >>, P, S)
      /\ Head(t) \in P => Has(Tail(t), S)
  BY FollowedTail, HasEmpty
<1>3. CASE Has(Tail(t), S)
  <2>1. Followed(s, Tail(t), P, S)
    BY <1>3, FollowedLater
  <2>. QED
    BY <1>1, <1>2, <1>3, <2>1, FollowedAppend
<1>4. CASE ~Has(Tail(t), S) /\ Head(t) \in S
  BY <1>1, <1>2, <1>4, FollowedClosed
<1>5. CASE ~Has(t, S)
  <2>1. Followed(s, Tail(t), P, S)
    BY <1>5, FollowedLater
  <2>2. Head(t) \notin P
    BY <1>2, <1>5, HasTail
  <2>. QED
    BY <1>1, <1>2, <2>1, <2>2, FollowedAppend
<1>. QED
  BY <1>2, <1>3, <1>4, <1>5, HasTail

LEMMA AheadAppend ==
    ASSUME NEW L, NEW s \in Seq(L), NEW x \in L, NEW A, NEW B, Ahead(s, B, A),
           x \notin B \/ (~Has(s, A) /\ x \notin A)
    PROVE  Ahead(Append(s, x), B, A)
<1>. SUFFICES ASSUME NEW i \in DOMAIN Append(s, x), NEW j \in DOMAIN Append(s, x),
                     Append(s, x)[i] \in A, Append(s, x)[j] \in B
              PROVE  j < i
  BY DEF Ahead
<1>1. /\ \A n \in DOMAIN Append(s, x) : n \in DOMAIN s \/ n = Len(s) + 1
      /\ \A n \in DOMAIN s : Append(s, x)[n] = s[n] /\ n \in Nat /\ n < Len(s) + 1
      /\ Append(s, x)[Len(s) + 1] = x /\ Len(s) \in Nat
  OBVIOUS
<1>. QED
  BY <1>1 DEF Ahead, Has

LEMMA AheadTail ==
    ASSUME NEW L, NEW s \in Seq(L), s # << >>, NEW A, NEW B, Ahead(s, B, A)
    PROVE  /\ Ahead(Tail(s), B, A)
           /\ Head(s) \in A => ~Has(s, B)
<1>1. /\ \A n \in DOMAIN Tail(s) : n + 1 \in DOMAIN s /\ Tail(s)[n] = s[n + 1] /\ n \in Nat
      /\ \A n \in DOMAIN s : n \in Nat /\ n >= 1
      /\ 1 \in DOMAIN s /\ s[1] = Head(s)
  OBVIOUS
<1>2. Ahead(Tail(s), B, A)
  BY <1>1 DEF Ahead
<1>3. Head(s) \in A => ~Has(s, B)
  BY <1>1 DEF Ahead, Has
<1>. QED
  BY <1>2, <1>3

-----------------------------------------------------------------------------
(* The receiver: what a full one forgets.                                  *)

LEMMA NewestIsSuffix ==
    ASSUME NEW L, NEW s \in Seq(L), NEW n \in Nat \ {0}
    PROVE  /\ Newest(s, n) \in Seq(L) /\ Len(Newest(s, n)) <= n
           /\ Len(s) - Len(Newest(s, n)) \in Nat
           /\ \A i \in 1..Len(Newest(s, n)) :
                 Newest(s, n)[i] = s[i + (Len(s) - Len(Newest(s, n)))]
           /\ Len(s) > 0 => Len(Newest(s, n)) > 0
<1>1. CASE Len(s) <= n
  BY <1>1 DEF Newest
<1>2. CASE Len(s) > n
  <2>. DEFINE k == Len(s) - n + 1
  <2>1. k \in 1..Len(s) /\ Newest(s, n) = SubSeq(s, k, Len(s))
    BY <1>2 DEF Newest
  <2>. HIDE DEF k
  <2>2. /\ SubSeq(s, k, Len(s)) \in Seq(L)
        /\ Len(SubSeq(s, k, Len(s))) = Len(s) - k + 1
        /\ \A i \in 1..(Len(s) - k + 1) : SubSeq(s, k, Len(s))[i] = s[k + i - 1]
    BY <2>1
  <2>3. Len(s) - k + 1 = n /\ \A i \in 1..n : k + i - 1 = i + (Len(s) - n)
    BY <1>2 DEF k
  <2>4. Len(Newest(s, n)) = n /\ Newest(s, n) \in Seq(L)
    BY <2>1, <2>2, <2>3
  <2>5. \A i \in 1..n : Newest(s, n)[i] = s[i + (Len(s) - n)]
    BY <2>1, <2>2, <2>3
  <2>. QED
    BY <1>2, <2>4, <2>5
<1>. QED
  BY <1>1, <1>2

LEMMA FollowedNewest ==
    ASSUME NEW L, NEW s \in Seq(L), NEW n \in Nat \ {0}, NEW P, NEW S,
           Followed(s, << >>, P, S)
    PROVE  Followed(Newest(s, n), << >>, P, S)
<1>. DEFINE k == Newest(s, n)
            d == Len(s) - Len(k)
<1>1. /\ k \in Seq(L) /\ d \in Nat
      /\ \A i \in 1..Len(k) : k[i] = s[i + d]
  <2>. HIDE DEF k
  <2>. QED
    BY NewestIsSuffix DEF k
<1>2. Len(k) \in Nat /\ DOMAIN k = 1..Len(k) /\ Len(s) = Len(k) + d /\ DOMAIN s = 1..Len(s)
  BY <1>1
<1>. HIDE DEF k, d
<1>3. SUFFICES ASSUME NEW i \in DOMAIN k, k[i] \in P
               PROVE  \E j \in DOMAIN k : j > i /\ k[j] \in S
  BY DEF Followed, k
<1>4. i + d \in DOMAIN s /\ s[i + d] \in P
  BY <1>1, <1>2, <1>3
<1>5. PICK j \in DOMAIN s : j > i + d /\ s[j] \in S
  BY <1>3, <1>4, HasEmpty DEF Followed
<1>6. j - d \in DOMAIN k /\ j - d > i /\ k[j - d] = s[j]
  BY <1>1, <1>2, <1>5
<1>. QED
  BY <1>5, <1>6

(* The newest event is kept. *)
LEMMA NewestKeepsLast ==
    ASSUME NEW L, NEW s \in Seq(L), NEW x \in L, NEW n \in Nat \ {0}, NEW S, x \in S
    PROVE  Has(Newest(Append(s, x), n), S)
<1>. DEFINE a == Append(s, x)
            k == Newest(a, n)
<1>1. a \in Seq(L) /\ Len(a) = Len(s) + 1 /\ a[Len(a)] = x
  OBVIOUS
<1>2. /\ k \in Seq(L) /\ Len(a) - Len(k) \in Nat
      /\ \A i \in 1..Len(k) : k[i] = a[i + (Len(a) - Len(k))]
      /\ Len(a) > 0 => Len(k) > 0
  BY <1>1, NewestIsSuffix
<1>. HIDE DEF a, k
<1>3. Len(k) \in DOMAIN k /\ k[Len(k)] = x
  BY <1>1, <1>2
<1>. QED
  BY <1>3 DEF Has, a, k

(* An event that is not forgotten is kept. *)
LEMMA NewestKeeps ==
    ASSUME NEW L, NEW s \in Seq(L), NEW n \in Nat \ {0}, NEW S, Has(s, S),
           \A i \in 1..(Len(s) - Len(Newest(s, n))) : s[i] \notin S
    PROVE  Has(Newest(s, n), S)
<1>. DEFINE k == Newest(s, n)
            d == Len(s) - Len(k)
<1>1. k \in Seq(L) /\ d \in Nat /\ \A i \in 1..Len(k) : k[i] = s[i + d]
  BY NewestIsSuffix
<1>. HIDE DEF k
<1>2. PICK i \in DOMAIN s : s[i] \in S
  BY DEF Has
<1>3. i > d
  BY <1>1, <1>2 DEF k
<1>4. Len(k) \in Nat /\ Len(s) = Len(k) + d /\ i \in 1..Len(s) /\ DOMAIN k = 1..Len(k)
  BY <1>1, <1>2
<1>5. i - d \in DOMAIN k /\ k[i - d] = s[i]
  BY <1>1, <1>3, <1>4
<1>. QED
  BY <1>2, <1>5 DEF Has, k

-----------------------------------------------------------------------------
(* Lines, by what they state.                                              *)

Lines == Events \cup Replies

Clears  == {LockedEvent} \cup {SwitchedEvent(v) : v \in Vaults}
Unlocks == {UnlockedEvent(v) : v \in Vaults}

(* The lines that say that the daemon is locked, and those that say that   *)
(* it is not; those of either kind that are right about m, or wrong.       *)
LockedLines   == {line \in Replies : line.says = "locked"} \cup Clears
UnlockedLines == {line \in Replies : line.says = "unlocked"} \cup Unlocks

RightLines(m) == IF IsLocked(m) THEN LockedLines ELSE UnlockedLines
WrongLines(m) == IF IsLocked(m) THEN UnlockedLines ELSE LockedLines

(* The lines that name v as the active database, and those that name       *)
(* another one.                                                            *)
VaultLines(v) ==
    {line \in Replies : line.vault = v} \cup {UnlockedEvent(v), SwitchedEvent(v)}

Strays(v) == {line \in Lines : \E w \in Vaults \ {v} : line \in VaultLines(w)}

(* The listings of a database in W. *)
Listings(W) == {line \in Replies : line.re = "list" /\ line.ok /\ line.from \in W}

Answers(op)    == {line \in Replies : line.re = op}
OpenStates(op) == {line \in Answers(op) : line.says = "unlocked"}

LEMMA EventsAreNoReplies == ASSUME NEW e \in Events PROVE e \notin Replies
BY DEF Events, Replies, LockedEvent, ChangedEvent, UnlockedEvent, SwitchedEvent

LEMMA LockLinesOfEvents ==
    /\ LockedEvent \in LockedLines /\ LockedEvent \notin UnlockedLines
    /\ \A v \in Vaults : /\ SwitchedEvent(v) \in LockedLines
                         /\ SwitchedEvent(v) \notin UnlockedLines
                         /\ UnlockedEvent(v) \in UnlockedLines
                         /\ UnlockedEvent(v) \notin LockedLines
    /\ ChangedEvent \notin LockedLines /\ ChangedEvent \notin UnlockedLines
BY DEF LockedLines, UnlockedLines, Clears, Unlocks, Replies, LockedEvent, ChangedEvent, UnlockedEvent, SwitchedEvent

LEMMA VaultLinesOfEvents ==
    /\ \A v \in Vaults : /\ LockedEvent \notin VaultLines(v)
                         /\ ChangedEvent \notin VaultLines(v)
    /\ \A v, w \in Vaults : /\ SwitchedEvent(v) \in VaultLines(w) <=> v = w
                            /\ UnlockedEvent(v) \in VaultLines(w) <=> v = w
BY DEF VaultLines, Replies, LockedEvent, ChangedEvent, UnlockedEvent, SwitchedEvent

LEMMA StraysOfEvents ==
    ASSUME NEW v \in Vaults
    PROVE  /\ LockedEvent \notin Strays(v) /\ ChangedEvent \notin Strays(v)
           /\ SwitchedEvent(v) \notin Strays(v) /\ UnlockedEvent(v) \notin Strays(v)
           /\ \A w \in Vaults \ {v} : SwitchedEvent(w) \in Strays(v) /\ UnlockedEvent(w) \in Strays(v)
BY VaultLinesOfEvents DEF Strays, Lines, Events

LEMMA LinesOfReplies ==
    ASSUME NEW line \in Replies
    PROVE  /\ line \notin Clears /\ line \notin Unlocks
           /\ line \in LockedLines <=> line.says = "locked"
           /\ line \in UnlockedLines <=> line.says = "unlocked"
           /\ \A v \in Vaults : /\ line \in VaultLines(v) <=> line.vault = v
                                /\ line \in Strays(v) <=> line.vault # v /\ line.vault # None
<1>1. line \notin Clears /\ line \notin Unlocks
  BY DEF Clears, Unlocks, Replies, LockedEvent, UnlockedEvent, SwitchedEvent
<1>2. \A v \in Vaults : line \in VaultLines(v) <=> line.vault = v
  BY DEF VaultLines, Replies, UnlockedEvent, SwitchedEvent
<1>3. line.vault \in Vaults \cup {None} /\ None \notin Vaults
  BY VaultAssumption DEF Replies
<1>4. \A v \in Vaults : line \in Strays(v) <=> line.vault # v /\ line.vault # None
  BY <1>2, <1>3 DEF Strays, Lines
<1>. QED
  BY <1>1, <1>2, <1>4 DEF LockedLines, UnlockedLines

LEMMA EventsAnswerNothing ==
    ASSUME NEW e \in Events, NEW op, NEW W
    PROVE  e \notin Listings(W) /\ e \notin Answers(op) /\ e \notin OpenStates(op)
BY EventsAreNoReplies DEF Listings, Answers, OpenStates

LEMMA EventKinds ==
    ASSUME NEW e \in Events
    PROVE  /\ e \in Clears \/ e \in Unlocks \/ e = ChangedEvent
           /\ e.event \in NamingEvents =>
                 \E v \in Vaults : e = SwitchedEvent(v) \/ e = UnlockedEvent(v)
           /\ e.event \notin StateEvents => e = ChangedEvent
BY DEF Events, Clears, Unlocks, NamingEvents, StateEvents,
       LockedEvent, ChangedEvent, UnlockedEvent, SwitchedEvent

-----------------------------------------------------------------------------
(* The inductive invariant.                                                *)

Asked(op) == Has(inbox, {op})

(* What the connection is like before it is made, after it is lost, and    *)
(* while its task sits in a prompt; what the open database is, and that a  *)
(* listing lists one.                                                      *)
Shape ==
    /\ ~served => recv = << >> /\ inbox = << >> /\ ~subscribed /\ prompt # "mine"
    /\ ~link => outbox = << >>
    /\ ~up => prompt = "none"
    /\ prompt = "mine" => Len(outbox) <= OutCap
    /\ mgr.loaded = IF mgr.state = "Unlocked" THEN mgr.active ELSE None
    /\ ~Has(outbox, Listings({None}))

(* Lines that state what is not so of m are followed by lines that state   *)
(* what is.                                                                *)
Agreeing(s, t, m) ==
    /\ Followed(s, t, WrongLines(m), RightLines(m))
    /\ Followed(s, t, Strays(m.active), VaultLines(m.active))

(* A copy v of m is right, or put right by lines underway.                 *)
Copied(s, t, m, v) ==
    /\ v.locked = IsLocked(m) \/ Has(s, RightLines(m)) \/ Has(t, RightLines(m))
    /\ \/ v.activeVault = m.active
       \/ Has(s, VaultLines(m.active)) \/ Has(t, VaultLines(m.active))

(* Listings of what is not open, and rows listed from one, are followed by *)
(* an event that clears the rows.                                          *)
Listed(s, t, m, p, h) ==
    /\ Followed(s, t, Listings(Vaults \ {m.loaded}), Clears)
    /\ h.listed /\ p.rows # None => p.rows = m.loaded \/ Has(s, Clears) \/ Has(t, Clears)

EventsAgree == Agreeing(recv, << >>, mgr)
LinesAgree  == served /\ told # "less" => Agreeing(outbox, recv, mgr)
ViewAgrees  == served /\ told # "less" /\ ~Asked("hello") => Copied(outbox, recv, mgr, view)
RowsAgree   == served /\ told = "all" => Listed(outbox, recv, mgr, picker, since)

(* Of an open database, whatever says or has made the client believe that  *)
(* it is locked is followed by the event of the unlock; before hello is    *)
(* answered, by that answer.                                               *)
UnlockFollows ==
    served /\ told = "all" /\ ~IsLocked(mgr) =>
        /\ Followed(outbox, recv, LockedLines, Unlocks)
        /\ view.locked =>
              \/ Asked("hello") \/ Has(outbox, OpenStates("hello"))
              \/ Has(outbox, Unlocks) \/ Has(recv, Unlocks)

(* The picker asks for the state after hello has been sent.                *)
HelloFirst ==
    /\ Ahead(inbox, {"hello"}, {"status"})
    /\ Ahead(outbox, Answers("hello"), Answers("status"))
    /\ served /\ Has(outbox, Answers("status")) => ~Asked("hello")

(* A picker opened over the connection has rows, or something is underway  *)
(* that lists them, or the database is about to be locked.                 *)
Filling ==
    served /\ told = "all" /\ picker.opened /\ since.summoned /\ ~IsLocked(mgr) =>
        \/ picker.rows # None
        \/ Asked("status") \/ Asked("list") \/ Asked("lock")
        \/ Has(outbox, OpenStates("status")) \/ Has(outbox, Listings(Vaults))
        \/ Has(outbox, Unlocks) \/ Has(recv, Unlocks)

PInv ==
    /\ TypeOK /\ Shape
    /\ EventsAgree /\ LinesAgree /\ ViewAgrees
    /\ RowsAgree /\ UnlockFollows /\ HelloFirst /\ Filling

-----------------------------------------------------------------------------
(* Publishing.                                                             *)

(* The events of a step from m to n: what they state holds of n, and they  *)
(* are silent of what has not changed.                                     *)
Announced(events, m, n) ==
    \/ /\ events \in {<< >>, <<ChangedEvent>>}
       /\ n.active = m.active /\ n.loaded = m.loaded /\ IsLocked(n) = IsLocked(m)
    \/ /\ events = <<LockedEvent>>
       /\ n.active = m.active /\ n.loaded = None /\ IsLocked(n)
    \/ /\ events \in {<<SwitchedEvent(n.active)>>, <<LockedEvent, SwitchedEvent(n.active)>>}
       /\ n.loaded = None /\ IsLocked(n)
    \/ /\ events = <<UnlockedEvent(n.active)>>
       /\ n.active = m.active /\ m.loaded = None /\ ~IsLocked(n)

(* Nothing that states something is forgotten on the way from s to t.      *)
Keeps(s, t) == \A S : ChangedEvent \notin S /\ Has(s, S) => Has(t, S)

Named == {e \in Events : e.event \in NamingEvents}

LEMMA PublishTells ==
    ASSUME served, recv \in Seq(Events), told \in {"all", "less", "again"},
           NEW events \in Seq(Events), Publish(events)
    PROVE  /\ recv' = Newest(recv \o events, Cap)
           /\ recv' \in Seq(Events) /\ Len(recv') <= Cap
           /\ told' \in {"all", "less", "again"}
           /\ told' = "all" => told = "all" /\ Keeps(recv \o events, recv')
           /\ told' # "less" => \/ Has(recv', Named)
                                \/ told # "less" /\ Keeps(recv \o events, recv')
<1>. DEFINE all   == recv \o events
            kept  == Newest(all, Cap)
            d     == Len(all) - Len(kept)
            lost  == Any(SubSeq(all, 1, d), StateEvents)
            named == Any(kept, NamingEvents)
<1>1. /\ recv' = kept
      /\ told' = CASE named /\ (lost \/ told = "less") -> "again"
                   [] lost /\ ~named                   -> "less"
                   [] OTHER                            -> told
  BY DEF Publish
<1>2. all \in Seq(Events)
  OBVIOUS
<1>3. kept \in Seq(Events) /\ Len(kept) <= Cap /\ d \in Nat /\ d <= Len(all)
  <2>1. kept \in Seq(Events) /\ Len(kept) <= Cap /\ d \in Nat
    BY <1>2, NewestIsSuffix, StreamAssumption
  <2>. HIDE DEF kept, all
  <2>2. Len(kept) \in Nat /\ Len(all) \in Nat
    BY <1>2, <2>1
  <2>. QED
    BY <2>1, <2>2
<1>4. ASSUME ~lost PROVE Keeps(all, kept)
  <2>1. \A i \in 1..d : SubSeq(all, 1, d)[i] = all[i] /\ all[i] \in Events
    BY <1>2, <1>3
  <2>2. DOMAIN SubSeq(all, 1, d) = 1..d
    BY <1>2, <1>3
  <2>3. \A i \in 1..d : all[i] = ChangedEvent
    BY <1>4, <2>1, <2>2, EventKinds DEF Any
  <2>. QED
    BY <1>2, <2>3, NewestKeeps, StreamAssumption DEF Keeps
<1>5. named => Has(kept, Named)
  BY <1>3 DEF Any, Has, Named
<1>. HIDE DEF all, kept, lost, named
<1>6. told' = "all" => told = "all" /\ ~lost
  BY <1>1
<1>7. told' # "less" => named \/ (told # "less" /\ ~lost)
  BY <1>1
<1>8. told' \in {"all", "less", "again"}
  BY <1>1
<1>. QED
  BY <1>1, <1>3, <1>4, <1>5, <1>6, <1>7, <1>8 DEF all, kept

(* The events underway state what is so after the step.                    *)
LEMMA EventsStayRight ==
    ASSUME NEW r \in Seq(Events), NEW m \in Managers, NEW n \in Managers,
           Agreeing(r, << >>, m), NEW events, Announced(events, m, n)
    PROVE  events \in Seq(Events) /\ Agreeing(r \o events, << >>, n)
<1>. USE DEF Agreeing
<1>0. /\ LockedEvent \in Events /\ ChangedEvent \in Events
      /\ \A v \in Vaults : SwitchedEvent(v) \in Events /\ UnlockedEvent(v) \in Events
  BY DEF Events
<1>1. m.active \in Vaults /\ n.active \in Vaults /\ IsLocked(m) \in BOOLEAN /\ IsLocked(n) \in BOOLEAN
  BY DEF Managers, IsLocked
<1>2. \A e \in Events : r \o <<e>> = Append(r, e) /\ Append(r, e) \in Seq(Events)
  OBVIOUS
<1>3. CASE /\ events \in {<< >>, <<ChangedEvent>>}
           /\ n.active = m.active /\ IsLocked(n) = IsLocked(m)
  <2>1. CASE events = << >>
    <3>1. r \o events = r /\ events \in Seq(Events)
      BY <2>1
    <3>. QED
      BY <1>3, <3>1 DEF RightLines, WrongLines
  <2>2. CASE events = <<ChangedEvent>>
    <3>1. /\ ChangedEvent \notin WrongLines(m)
          /\ ChangedEvent \notin Strays(m.active)
      BY <1>1, LockLinesOfEvents, StraysOfEvents DEF RightLines, WrongLines
    <3>2. Agreeing(Append(r, ChangedEvent), << >>, m)
      BY <1>0, <3>1, FollowedAppend
    <3>3. r \o events = Append(r, ChangedEvent) /\ events \in Seq(Events)
      BY <1>0, <2>2
    <3>4. /\ RightLines(n) = RightLines(m)
          /\ WrongLines(n) = WrongLines(m)
      BY <1>3 DEF RightLines, WrongLines
    <3>. QED
      BY <1>3, <3>2, <3>3, <3>4
  <2>. QED
    BY <1>3, <2>1, <2>2
<1>4. CASE events = <<LockedEvent>> /\ n.active = m.active /\ IsLocked(n)
  <2>1. /\ LockedEvent \in LockedLines /\ LockedEvent \notin UnlockedLines
        /\ LockedEvent \notin Strays(m.active)
    BY <1>1, LockLinesOfEvents, StraysOfEvents
  <2>2. Followed(Append(r, LockedEvent), << >>, UnlockedLines, LockedLines)
    BY <1>0, <2>1, FollowedClosed
  <2>3. Followed(Append(r, LockedEvent), << >>, Strays(m.active), VaultLines(m.active))
    BY <1>0, <2>1, FollowedAppend
  <2>4. r \o events = Append(r, LockedEvent) /\ events \in Seq(Events)
    BY <1>0, <1>4
  <2>. QED
    BY <1>4, <2>2, <2>3, <2>4 DEF RightLines, WrongLines
<1>5. CASE /\ events \in {<<SwitchedEvent(n.active)>>, <<LockedEvent, SwitchedEvent(n.active)>>}
           /\ IsLocked(n)
  <2>. DEFINE e == SwitchedEvent(n.active)
  <2>1. /\ e \in LockedLines /\ e \notin UnlockedLines
        /\ e \notin Strays(n.active) /\ e \in VaultLines(n.active) /\ e \in Events
    BY <1>0, <1>1, LockLinesOfEvents, StraysOfEvents, VaultLinesOfEvents
  <2>. HIDE DEF e
  <2>2. \A s \in Seq(Events) :
           /\ Followed(Append(s, e), << >>, UnlockedLines, LockedLines)
           /\ Followed(Append(s, e), << >>, Strays(n.active), VaultLines(n.active))
    BY <2>1, FollowedClosed
  <2>3. PICK s \in Seq(Events) : r \o events = Append(s, e) /\ events \in Seq(Events)
    <3>1. CASE events = <<e>>
      BY <1>2, <2>1, <3>1
    <3>2. CASE events = <<LockedEvent, e>>
      <4>1. r \o events = Append(Append(r, LockedEvent), e) /\ events \in Seq(Events)
        BY <1>0, <2>1, <3>2
      <4>. QED
        BY <1>0, <1>2, <4>1
    <3>. QED
      BY <1>5, <3>1, <3>2 DEF e
  <2>. QED
    BY <1>5, <2>2, <2>3 DEF RightLines, WrongLines
<1>6. CASE events = <<UnlockedEvent(n.active)>> /\ ~IsLocked(n)
  <2>. DEFINE e == UnlockedEvent(n.active)
  <2>1. /\ e \in UnlockedLines /\ e \notin LockedLines
        /\ e \notin Strays(n.active) /\ e \in VaultLines(n.active) /\ e \in Events
    BY <1>0, <1>1, LockLinesOfEvents, StraysOfEvents, VaultLinesOfEvents
  <2>. HIDE DEF e
  <2>2. /\ Followed(Append(r, e), << >>, LockedLines, UnlockedLines)
        /\ Followed(Append(r, e), << >>, Strays(n.active), VaultLines(n.active))
    BY <2>1, FollowedClosed
  <2>3. r \o events = Append(r, e) /\ events \in Seq(Events)
    BY <1>6, <2>1 DEF e
  <2>. QED
    BY <1>6, <2>2, <2>3 DEF RightLines, WrongLines
<1>. QED
  BY <1>3, <1>4, <1>5, <1>6 DEF Announced

LEMMA HasPrefix ==
    ASSUME NEW L, NEW s \in Seq(L), NEW t \in Seq(L), NEW S, Has(s, S)
    PROVE  Has(s \o t, S)
<1>1. PICK i \in DOMAIN s : s[i] \in S
  BY DEF Has
<1>2. i \in DOMAIN (s \o t) /\ (s \o t)[i] = s[i]
  OBVIOUS
<1>. QED
  BY <1>1, <1>2 DEF Has

(* An event of a step, the last one, is in the receiver after it. *)
LEMMA LastIsKept ==
    ASSUME NEW r \in Seq(Events), NEW e \in Events, NEW S, e \in S,
           NEW events, events \in {<<e>>, <<LockedEvent, e>>}
    PROVE  Has(Newest(r \o events, Cap), S)
<1>1. LockedEvent \in Events
  BY DEF Events
<1>2. CASE events = <<e>>
  <2>1. r \o events = Append(r, e)
    BY <1>2
  <2>. QED
    BY <2>1, NewestKeepsLast, StreamAssumption
<1>3. CASE events = <<LockedEvent, e>>
  <2>1. /\ Append(r, LockedEvent) \in Seq(Events)
        /\ r \o events = Append(Append(r, LockedEvent), e)
    BY <1>1, <1>3
  <2>. QED
    BY <2>1, NewestKeepsLast, StreamAssumption
<1>. QED
  BY <1>2, <1>3

(* What a receiver that has not lost an event without another one that     *)
(* names a database holds of the lock state and of the active database: it *)
(* states what is so after the step, or nothing of it changed.             *)
LEMMA PublishedRight ==
    ASSUME NEW r \in Seq(Events), NEW m \in Managers, NEW n \in Managers,
           Agreeing(r, << >>, m), NEW events, Announced(events, m, n),
           NEW k, k = Newest(r \o events, Cap)
    PROVE  /\ k \in Seq(Events) /\ Agreeing(k, << >>, n)
           /\ Has(k, Named) => Has(k, RightLines(n)) /\ Has(k, VaultLines(n.active))
           /\ Keeps(r \o events, k) =>
                 /\ \/ Has(k, RightLines(n))
                    \/ /\ IsLocked(n) = IsLocked(m)
                       /\ Has(r, RightLines(m)) => Has(k, RightLines(m))
                 /\ \/ Has(k, VaultLines(n.active))
                    \/ /\ n.active = m.active
                       /\ Has(r, VaultLines(m.active)) => Has(k, VaultLines(m.active))
<1>1. events \in Seq(Events) /\ Agreeing(r \o events, << >>, n)
  BY EventsStayRight
<1>2. r \o events \in Seq(Events)
  BY <1>1
<1>3. k \in Seq(Events) /\ Agreeing(k, << >>, n)
  BY <1>1, <1>2, NewestIsSuffix, FollowedNewest, StreamAssumption DEF Agreeing
<1>4. m.active \in Vaults /\ n.active \in Vaults
  BY DEF Managers
<1>5. ASSUME Has(k, Named) PROVE Has(k, RightLines(n)) /\ Has(k, VaultLines(n.active))
  <2>1. PICK i \in DOMAIN k : k[i] \in Named
    BY <1>5 DEF Has
  <2>2. k[i] \in Events /\ k[i].event \in NamingEvents
    BY <2>1 DEF Named
  <2>3. PICK v \in Vaults : k[i] = SwitchedEvent(v) \/ k[i] = UnlockedEvent(v)
    BY <2>2, EventKinds
  <2>4. k[i] \in RightLines(n) \/ k[i] \in WrongLines(n)
    BY <2>3, LockLinesOfEvents DEF RightLines, WrongLines
  <2>5. k[i] \in VaultLines(n.active) \/ k[i] \in Strays(n.active)
    BY <1>4, <2>3, VaultLinesOfEvents, StraysOfEvents
  <2>6. Has(k, RightLines(n))
    BY <1>3, <2>4, HasEmpty DEF Agreeing, Followed, Has
  <2>7. Has(k, VaultLines(n.active))
    BY <1>3, <2>5, HasEmpty DEF Agreeing, Followed, Has
  <2>. QED
    BY <2>6, <2>7
<1>6. ASSUME Keeps(r \o events, k), NEW S, ChangedEvent \notin S, Has(r, S)
      PROVE  Has(k, S)
  BY <1>1, <1>6, HasPrefix DEF Keeps
<1>7. /\ ChangedEvent \notin RightLines(m) /\ ChangedEvent \notin VaultLines(m.active)
  BY <1>4, LockLinesOfEvents, VaultLinesOfEvents DEF RightLines
<1>8. ASSUME Keeps(r \o events, k)
      PROVE  /\ Has(r, RightLines(m)) => Has(k, RightLines(m))
             /\ Has(r, VaultLines(m.active)) => Has(k, VaultLines(m.active))
  BY <1>6, <1>7, <1>8
<1>9. \/ Has(k, RightLines(n))
      \/ IsLocked(n) = IsLocked(m)
  <2>1. CASE events = <<LockedEvent>> /\ IsLocked(n)
    <3>1. LockedEvent \in Events /\ LockedEvent \in RightLines(n)
      BY <2>1, LockLinesOfEvents DEF Events, RightLines
    <3>. QED
      BY <2>1, <3>1, LastIsKept
  <2>2. CASE /\ events \in {<<SwitchedEvent(n.active)>>, <<LockedEvent, SwitchedEvent(n.active)>>}
             /\ IsLocked(n)
    <3>1. SwitchedEvent(n.active) \in Events /\ SwitchedEvent(n.active) \in RightLines(n)
      BY <1>4, <2>2, LockLinesOfEvents DEF Events, RightLines
    <3>. QED
      BY <2>2, <3>1, LastIsKept
  <2>3. CASE events = <<UnlockedEvent(n.active)>> /\ ~IsLocked(n)
    <3>1. UnlockedEvent(n.active) \in Events /\ UnlockedEvent(n.active) \in RightLines(n)
      BY <1>4, <2>3, LockLinesOfEvents DEF Events, RightLines
    <3>. QED
      BY <2>3, <3>1, LastIsKept
  <2>. QED
    BY <2>1, <2>2, <2>3 DEF Announced
<1>10. \/ Has(k, VaultLines(n.active))
       \/ n.active = m.active
  <2>1. CASE events \in {<<SwitchedEvent(n.active)>>, <<LockedEvent, SwitchedEvent(n.active)>>}
    <3>1. SwitchedEvent(n.active) \in Events /\ SwitchedEvent(n.active) \in VaultLines(n.active)
      BY <1>4, VaultLinesOfEvents DEF Events
    <3>. QED
      BY <2>1, <3>1, LastIsKept
  <2>. QED
    BY <2>1 DEF Announced
<1>. QED
  BY <1>3, <1>5, <1>8, <1>9, <1>10

(* The same of the rows and of the unlock.                                 *)
LEMMA PublishedRows ==
    ASSUME NEW r \in Seq(Events), NEW m \in Managers, NEW n \in Managers,
           NEW events \in Seq(Events), Announced(events, m, n),
           NEW k, k = Newest(r \o events, Cap), Keeps(r \o events, k)
    PROVE  /\ \/ Has(k, Clears)
              \/ n.loaded = m.loaded /\ (Has(r, Clears) => Has(k, Clears))
              \/ m.loaded = None /\ (Has(r, Clears) => Has(k, Clears))
           /\ \/ IsLocked(n) \/ Has(k, Unlocks)
              \/ /\ ~IsLocked(m) /\ n.loaded = m.loaded
                 /\ Has(r, Unlocks) => Has(k, Unlocks)
<1>1. m.active \in Vaults /\ n.active \in Vaults
  BY DEF Managers
<1>2. ChangedEvent \notin Clears /\ ChangedEvent \notin Unlocks
  BY DEF Clears, Unlocks, ChangedEvent, LockedEvent, UnlockedEvent, SwitchedEvent
<1>3. /\ Has(r, Clears) => Has(k, Clears)
      /\ Has(r, Unlocks) => Has(k, Unlocks)
  BY <1>2, HasPrefix DEF Keeps
<1>4. CASE events = <<LockedEvent>> /\ IsLocked(n)
  <2>1. LockedEvent \in Events /\ LockedEvent \in Clears
    BY DEF Events, Clears
  <2>. QED
    BY <1>4, <2>1, LastIsKept
<1>5. CASE /\ events \in {<<SwitchedEvent(n.active)>>, <<LockedEvent, SwitchedEvent(n.active)>>}
           /\ IsLocked(n)
  <2>1. SwitchedEvent(n.active) \in Events /\ SwitchedEvent(n.active) \in Clears
    BY <1>1 DEF Events, Clears
  <2>. QED
    BY <1>5, <2>1, LastIsKept
<1>6. CASE events = <<UnlockedEvent(n.active)>> /\ m.loaded = None
  <2>1. UnlockedEvent(n.active) \in Events /\ UnlockedEvent(n.active) \in Unlocks
    BY <1>1 DEF Events, Unlocks
  <2>. QED
    BY <1>3, <1>6, <2>1, LastIsKept
<1>. QED
  BY <1>3, <1>4, <1>5, <1>6 DEF Announced

(* What is underway and what the client has made of it are right after the *)
(* events of a step have been published.                                   *)
LEMMA PublishRight ==
    ASSUME PInv, served, mgr' \in Managers,
           NEW events, Announced(events, mgr, mgr'), Publish(events)
    PROVE  /\ recv' \in Seq(Events) /\ Len(recv') <= Cap
           /\ told' \in {"all", "less", "again"}
           /\ EventsAgree'
           /\ told' # "less" =>
                 /\ Agreeing(outbox, recv', mgr')
                 /\ ~Asked("hello") => Copied(outbox, recv', mgr', view)
           /\ told' = "all" =>
                 /\ told = "all"
                 /\ Listed(outbox, recv', mgr', picker, since)
                 /\ \/ IsLocked(mgr') \/ Has(recv', Unlocks)
                    \/ ~IsLocked(mgr) /\ (Has(recv, Unlocks) => Has(recv', Unlocks))
<1>1. /\ recv \in Seq(Events) /\ mgr \in Managers /\ told \in {"all", "less", "again"}
      /\ Agreeing(recv, << >>, mgr)
  BY DEF PInv, TypeOK, StreamTypeOK, EventsAgree
<1>2. events \in Seq(Events)
  BY <1>1, EventsStayRight
<1>3. /\ recv' = Newest(recv \o events, Cap)
      /\ recv' \in Seq(Events) /\ Len(recv') <= Cap
      /\ told' \in {"all", "less", "again"}
      /\ told' = "all" => told = "all" /\ Keeps(recv \o events, recv')
      /\ told' # "less" => \/ Has(recv', Named)
                           \/ told # "less" /\ Keeps(recv \o events, recv')
  BY <1>1, <1>2, PublishTells
<1>4. /\ Agreeing(recv', << >>, mgr')
      /\ Has(recv', Named) => Has(recv', RightLines(mgr')) /\ Has(recv', VaultLines(mgr'.active))
      /\ Keeps(recv \o events, recv') =>
            /\ \/ Has(recv', RightLines(mgr'))
               \/ /\ IsLocked(mgr') = IsLocked(mgr)
                  /\ Has(recv, RightLines(mgr)) => Has(recv', RightLines(mgr))
            /\ \/ Has(recv', VaultLines(mgr'.active))
               \/ /\ mgr'.active = mgr.active
                  /\ Has(recv, VaultLines(mgr.active)) => Has(recv', VaultLines(mgr.active))
  BY <1>1, <1>3, PublishedRight
<1>5. /\ served /\ told # "less" => Agreeing(outbox, recv, mgr)
      /\ served /\ told # "less" /\ ~Asked("hello") => Copied(outbox, recv, mgr, view)
      /\ served /\ told = "all" => Listed(outbox, recv, mgr, picker, since)
  BY DEF PInv, LinesAgree, ViewAgrees, RowsAgree
<1>6. ASSUME told' # "less"
      PROVE  /\ Agreeing(outbox, recv', mgr')
             /\ ~Asked("hello") => Copied(outbox, recv', mgr', view)
  <2>1. CASE Has(recv', RightLines(mgr'))
    <3>1. Followed(outbox, recv', WrongLines(mgr'), RightLines(mgr'))
      BY <2>1 DEF Followed
    <3>2. CASE Has(recv', VaultLines(mgr'.active))
      BY <2>1, <3>1, <3>2 DEF Followed, Agreeing, Copied
    <3>3. CASE /\ told # "less" /\ mgr'.active = mgr.active
               /\ Has(recv, VaultLines(mgr.active)) => Has(recv', VaultLines(mgr.active))
      <4>1. Followed(outbox, recv', Strays(mgr'.active), VaultLines(mgr'.active))
        BY <1>5, <3>3, FollowedLater DEF Agreeing
      <4>2. ~Asked("hello") => \/ view.activeVault = mgr'.active
                               \/ Has(outbox, VaultLines(mgr'.active))
                               \/ Has(recv', VaultLines(mgr'.active))
        BY <1>5, <3>3 DEF Copied
      <4>. QED
        BY <2>1, <3>1, <4>1, <4>2 DEF Agreeing, Copied
    <3>. QED
      BY <1>3, <1>4, <1>6, <3>2, <3>3
  <2>2. CASE /\ told # "less" /\ IsLocked(mgr') = IsLocked(mgr)
             /\ Has(recv, RightLines(mgr)) => Has(recv', RightLines(mgr))
    <3>1. RightLines(mgr') = RightLines(mgr) /\ WrongLines(mgr') = WrongLines(mgr)
      BY <2>2 DEF RightLines, WrongLines
    <3>2. Followed(outbox, recv', WrongLines(mgr'), RightLines(mgr'))
      BY <1>5, <2>2, <3>1, FollowedLater DEF Agreeing
    <3>3. ~Asked("hello") => \/ view.locked = IsLocked(mgr')
                             \/ Has(outbox, RightLines(mgr')) \/ Has(recv', RightLines(mgr'))
      BY <1>5, <2>2, <3>1 DEF Copied
    <3>4. CASE Has(recv', VaultLines(mgr'.active))
      BY <3>2, <3>3, <3>4 DEF Followed, Agreeing, Copied
    <3>5. CASE /\ mgr'.active = mgr.active
               /\ Has(recv, VaultLines(mgr.active)) => Has(recv', VaultLines(mgr.active))
      <4>1. Followed(outbox, recv', Strays(mgr'.active), VaultLines(mgr'.active))
        BY <1>5, <2>2, <3>5, FollowedLater DEF Agreeing
      <4>2. ~Asked("hello") => \/ view.activeVault = mgr'.active
                               \/ Has(outbox, VaultLines(mgr'.active))
                               \/ Has(recv', VaultLines(mgr'.active))
        BY <1>5, <2>2, <3>5 DEF Copied
      <4>. QED
        BY <3>2, <3>3, <4>1, <4>2 DEF Agreeing, Copied
    <3>. QED
      BY <1>3, <1>4, <1>6, <3>4, <3>5
  <2>. QED
    BY <1>3, <1>4, <1>6, <2>1, <2>2
<1>7. ASSUME told' = "all"
      PROVE  /\ told = "all"
             /\ Listed(outbox, recv', mgr', picker, since)
             /\ \/ IsLocked(mgr') \/ Has(recv', Unlocks)
                \/ ~IsLocked(mgr) /\ (Has(recv, Unlocks) => Has(recv', Unlocks))
  <2>1. told = "all" /\ Keeps(recv \o events, recv') /\ Listed(outbox, recv, mgr, picker, since)
    BY <1>3, <1>5, <1>7
  <2>2. /\ \/ Has(recv', Clears)
           \/ mgr'.loaded = mgr.loaded /\ (Has(recv, Clears) => Has(recv', Clears))
           \/ mgr.loaded = None /\ (Has(recv, Clears) => Has(recv', Clears))
        /\ \/ IsLocked(mgr') \/ Has(recv', Unlocks)
           \/ /\ ~IsLocked(mgr) /\ mgr'.loaded = mgr.loaded
              /\ Has(recv, Unlocks) => Has(recv', Unlocks)
    BY <1>1, <1>2, <1>3, <2>1, PublishedRows
  <2>3. Listed(outbox, recv', mgr', picker, since)
    <3>1. CASE Has(recv', Clears)
      BY <3>1 DEF Followed, Listed
    <3>2. CASE /\ mgr'.loaded = mgr.loaded \/ mgr.loaded = None
               /\ Has(recv, Clears) => Has(recv', Clears)
      <4>1. Listings(Vaults \ {mgr'.loaded}) \subseteq Listings(Vaults \ {mgr.loaded})
        BY <3>2, VaultAssumption DEF Listings
      <4>2. Followed(outbox, recv', Listings(Vaults \ {mgr'.loaded}), Clears)
        BY <2>1, <3>2, <4>1 DEF Followed, Listed
      <4>3. since.listed /\ picker.rows # None =>
               \/ picker.rows = mgr'.loaded \/ Has(outbox, Clears) \/ Has(recv', Clears)
        BY <2>1, <3>2 DEF Listed
      <4>. QED
        BY <4>2, <4>3 DEF Listed
    <3>. QED
      BY <2>2, <3>1, <3>2
  <2>. QED
    BY <2>1, <2>2, <2>3
<1>. QED
  BY <1>3, <1>4, <1>6, <1>7 DEF EventsAgree

-----------------------------------------------------------------------------
(* Lines written.                                                          *)

(* What a response says of m is so.                                        *)
Truthful(line, m) ==
    /\ line.says \in {"unsaid", IF IsLocked(m) THEN "locked" ELSE "unlocked"}
    /\ line.vault \in {None, m.active}
    /\ line.re = "list" /\ line.ok => line.from = m.loaded

Full(line) == line.says # "unsaid" /\ line.vault # None

LEMMA WriteRight ==
    ASSUME NEW s \in Seq(Lines), NEW t, NEW m \in Managers, NEW v, NEW p, NEW h,
           NEW line \in Replies, Truthful(line, m)
    PROVE  /\ Agreeing(s, t, m) => Agreeing(Append(s, line), t, m)
           /\ Copied(s, t, m, v) => Copied(Append(s, line), t, m, v)
           /\ Full(line) => Agreeing(Append(s, line), t, m) /\ Copied(Append(s, line), t, m, v)
           /\ Listed(s, t, m, p, h) => Listed(Append(s, line), t, m, p, h)
           /\ ~IsLocked(m) /\ Followed(s, t, LockedLines, Unlocks) =>
                 Followed(Append(s, line), t, LockedLines, Unlocks)
<1>1. line \in Lines /\ m.active \in Vaults
  BY DEF Lines, Managers
<1>2. /\ line \notin WrongLines(m) /\ line \notin Strays(m.active)
      /\ Full(line) => line \in RightLines(m) /\ line \in VaultLines(m.active)
      /\ ~IsLocked(m) => line \notin LockedLines
  BY <1>1, LinesOfReplies DEF Truthful, Full, RightLines, WrongLines
<1>3. line \notin Listings(Vaults \ {m.loaded})
  BY DEF Truthful, Listings
<1>4. Agreeing(s, t, m) => Agreeing(Append(s, line), t, m)
  BY <1>1, <1>2, FollowedAppend DEF Agreeing
<1>5. Copied(s, t, m, v) => Copied(Append(s, line), t, m, v)
  BY <1>1, HasAppend DEF Copied
<1>6. Full(line) => Agreeing(Append(s, line), t, m)
  BY <1>1, <1>2, FollowedClosed DEF Agreeing
<1>7. Full(line) => Copied(Append(s, line), t, m, v)
  BY <1>1, <1>2, HasAppend DEF Copied
<1>8. Listed(s, t, m, p, h) => Listed(Append(s, line), t, m, p, h)
  BY <1>1, <1>3, FollowedAppend, HasAppend DEF Listed
<1>9. ~IsLocked(m) /\ Followed(s, t, LockedLines, Unlocks) =>
         Followed(Append(s, line), t, LockedLines, Unlocks)
  BY <1>1, <1>2, FollowedAppend
<1>. QED
  BY <1>4, <1>5, <1>6, <1>7, <1>8, <1>9

(* A step after which what was underway before, and the events it has      *)
(* published, are right; or that writes the full state.                    *)
Delivers(full) ==
    /\ EventsAgree'
    /\ told' # "less" =>
          \/ full
          \/ /\ Agreeing(outbox, recv', mgr')
             /\ ~Asked("hello") => Copied(outbox, recv', mgr', view)
    /\ told' = "all" =>
          /\ told = "all"
          /\ Listed(outbox, recv', mgr', picker, since)
          /\ \/ IsLocked(mgr') \/ Has(recv', Unlocks)
             \/ ~IsLocked(mgr) /\ (Has(recv, Unlocks) => Has(recv', Unlocks))

Promises == EventsAgree /\ LinesAgree /\ ViewAgrees /\ RowsAgree
                /\ UnlockFollows /\ HelloFirst /\ Filling

LEMMA PublishDelivers ==
    ASSUME PInv, served, mgr' \in Managers,
           NEW events, Announced(events, mgr, mgr'), Publish(events)
    PROVE  /\ recv' \in Seq(Events) /\ Len(recv') <= Cap
           /\ told' \in {"all", "less", "again"}
           /\ Delivers(FALSE)
BY PublishRight DEF Delivers

(* Nothing is published, nothing that lines state of the manager changes.  *)
LEMMA QuietDelivers ==
    ASSUME PInv, served, mgr'.active = mgr.active, mgr'.loaded = mgr.loaded,
           IsLocked(mgr') = IsLocked(mgr), UNCHANGED recv,
           NEW full, told' = told \/ (full /\ told' = "again")
    PROVE  Delivers(full)
<1>1. RightLines(mgr') = RightLines(mgr) /\ WrongLines(mgr') = WrongLines(mgr)
  BY DEF RightLines, WrongLines
<1>2. /\ Agreeing(recv, << >>, mgr) => Agreeing(recv, << >>, mgr')
      /\ Agreeing(outbox, recv, mgr) => Agreeing(outbox, recv, mgr')
      /\ Copied(outbox, recv, mgr, view) => Copied(outbox, recv, mgr', view)
      /\ Listed(outbox, recv, mgr, picker, since) => Listed(outbox, recv, mgr', picker, since)
  BY <1>1 DEF Agreeing, Copied, Listed
<1>3. EventsAgree'
  BY <1>2 DEF PInv, EventsAgree
<1>. QED
  BY <1>2, <1>3 DEF Delivers, PInv, LinesAgree, ViewAgrees, RowsAgree

-----------------------------------------------------------------------------
(* Steps of the daemon, by what they do to the lines.                      *)

LEMMA AskedTail ==
    ASSUME inbox \in Seq(Ops), inbox # << >>, inbox' = Tail(inbox)
    PROVE  \A op \in Ops : /\ Asked(op)' => Asked(op)
                           /\ Asked(op) /\ op # Head(inbox) => Asked(op)'
<1>1. \A op \in Ops : Has(inbox, {op}) <=> Head(inbox) = op \/ Has(inbox', {op})
  BY HasTail
<1>. QED
  BY <1>1 DEF Asked

(* The world goes on: events only.                                         *)
LEMMA EventStep ==
    ASSUME PInv, served => Delivers(FALSE), EventsAgree',
           UNCHANGED <<served, inbox, outbox, clientVars>>
    PROVE  Promises'
<1>1. served' = served /\ inbox' = inbox /\ outbox' = outbox /\ view' = view
        /\ picker' = picker /\ since' = since
  BY DEF clientVars
<1>2. LinesAgree' /\ ViewAgrees' /\ RowsAgree'
  BY <1>1 DEF Delivers, LinesAgree, ViewAgrees, RowsAgree, Asked
<1>3. UnlockFollows'
  <2>. SUFFICES ASSUME served, told' = "all", ~IsLocked(mgr')
                PROVE  /\ Followed(outbox, recv', LockedLines, Unlocks)
                       /\ view.locked =>
                             \/ Asked("hello") \/ Has(outbox, OpenStates("hello"))
                             \/ Has(outbox, Unlocks) \/ Has(recv', Unlocks)
    BY <1>1 DEF UnlockFollows, Asked
  <2>1. CASE Has(recv', Unlocks)
    BY <2>1 DEF Followed
  <2>2. CASE ~IsLocked(mgr) /\ (Has(recv, Unlocks) => Has(recv', Unlocks))
    BY <2>2, FollowedLater DEF Delivers, PInv, UnlockFollows
  <2>. QED
    BY <2>1, <2>2 DEF Delivers
<1>4. HelloFirst'
  BY <1>1 DEF PInv, HelloFirst, Asked
<1>5. Filling'
  BY <1>1 DEF Delivers, PInv, Filling, Asked
<1>. QED
  BY <1>2, <1>3, <1>4, <1>5 DEF Promises

(* A response is written.                                                  *)
LEMMA ReplyStep ==
    ASSUME PInv, served, mgr' \in Managers, NEW line \in Replies, Truthful(line, mgr'),
           outbox' = Append(outbox, line), Delivers(Full(line)),
           \/ UNCHANGED inbox /\ line.re \notin {"hello", "status", "list", "lock"}
           \/ inbox # << >> /\ Head(inbox) = line.re /\ inbox' = Tail(inbox),
           UNCHANGED <<served, clientVars>>,
           line.re = "hello" => Full(line),
           line.re = "list" /\ line.ok => line.from \in Vaults,
           ~IsLocked(mgr') =>
              /\ line.re # "lock"
              /\ line.re \in {"hello", "status"} => line.says = "unlocked"
              /\ line.re = "list" => line.ok
    PROVE  Promises'
<1>1. /\ served' = served /\ view' = view /\ picker' = picker /\ since' = since
      /\ outbox \in Seq(Lines) /\ line \in Lines /\ inbox \in Seq(Ops)
  BY DEF clientVars, PInv, TypeOK, StreamTypeOK, Lines
<1>2. \A op \in Ops : /\ Asked(op)' => Asked(op)
                      /\ Asked(op) => Asked(op)' \/ op = line.re
  BY <1>1, AskedTail DEF Asked
<1>3. \A S : Has(outbox', S) <=> Has(outbox, S) \/ line \in S
  BY <1>1, HasAppend
<1>4. {"hello", "status", "list", "lock"} \subseteq Ops
  BY DEF Ops
<1>5. ASSUME NEW t, NEW v, NEW p, NEW h
      PROVE  /\ Agreeing(outbox, t, mgr') => Agreeing(outbox', t, mgr')
             /\ Copied(outbox, t, mgr', v) => Copied(outbox', t, mgr', v)
             /\ Full(line) => Agreeing(outbox', t, mgr') /\ Copied(outbox', t, mgr', v)
             /\ Listed(outbox, t, mgr', p, h) => Listed(outbox', t, mgr', p, h)
             /\ ~IsLocked(mgr') /\ Followed(outbox, t, LockedLines, Unlocks) =>
                   Followed(outbox', t, LockedLines, Unlocks)
  BY <1>1, WriteRight
<1>6. LinesAgree'
  BY <1>5 DEF Delivers, LinesAgree
<1>7. ViewAgrees'
  <2>. SUFFICES ASSUME told' # "less", ~Asked("hello")'
                PROVE  Copied(outbox', recv', mgr', view)
    BY <1>1 DEF ViewAgrees
  <2>1. CASE Full(line)
    BY <1>5, <2>1
  <2>2. CASE ~Full(line)
    BY <1>2, <1>4, <1>5, <2>2 DEF Delivers
  <2>. QED
    BY <2>1, <2>2
<1>8. RowsAgree'
  BY <1>1, <1>5 DEF Delivers, RowsAgree
<1>9. UnlockFollows'
  <2>. SUFFICES ASSUME told' = "all", ~IsLocked(mgr')
                PROVE  /\ Followed(outbox', recv', LockedLines, Unlocks)
                       /\ view.locked =>
                             \/ Asked("hello")' \/ Has(outbox', OpenStates("hello"))
                             \/ Has(outbox', Unlocks) \/ Has(recv', Unlocks)
    BY <1>1 DEF UnlockFollows
  <2>1. CASE Has(recv', Unlocks)
    BY <2>1 DEF Followed
  <2>2. CASE told = "all" /\ ~IsLocked(mgr) /\ (Has(recv, Unlocks) => Has(recv', Unlocks))
    <3>1. /\ Followed(outbox, recv, LockedLines, Unlocks)
          /\ view.locked =>
                \/ Asked("hello") \/ Has(outbox, OpenStates("hello"))
                \/ Has(outbox, Unlocks) \/ Has(recv, Unlocks)
      BY <2>2 DEF PInv, UnlockFollows
    <3>2. Followed(outbox', recv', LockedLines, Unlocks)
      BY <1>5, <2>2, <3>1, FollowedLater
    <3>3. line.re = "hello" => line \in OpenStates("hello")
      BY DEF OpenStates, Answers
    <3>. QED
      BY <1>2, <1>3, <1>4, <2>2, <3>1, <3>2, <3>3
  <2>. QED
    BY <2>1, <2>2 DEF Delivers
<1>10. HelloFirst'
  <2>1. /\ Ahead(inbox, {"hello"}, {"status"})
        /\ Ahead(outbox, Answers("hello"), Answers("status"))
        /\ Has(outbox, Answers("status")) => ~Asked("hello")
    BY DEF PInv, HelloFirst
  <2>2. Ahead(inbox', {"hello"}, {"status"})
    BY <1>1, <2>1, AheadTail
  <2>3. line.re = "hello" => Asked("hello")
    BY <1>1, HasTail DEF Asked
  <2>4. line.re = "status" => ~Asked("hello")
    BY <1>1, <2>1, AheadTail DEF Asked
  <2>5. Ahead(outbox', Answers("hello"), Answers("status"))
    <3>1. line \notin Answers("hello") \/ (~Has(outbox, Answers("status")) /\ line \notin Answers("status"))
      BY <2>1, <2>3 DEF Answers
    <3>. QED
      BY <1>1, <2>1, <3>1, AheadAppend
  <2>6. Has(outbox', Answers("status")) => ~Asked("hello")'
    BY <1>2, <1>3, <1>4, <2>1, <2>4 DEF Answers
  <2>. QED
    BY <2>2, <2>5, <2>6 DEF HelloFirst
<1>11. Filling'
  <2>. SUFFICES ASSUME told' = "all", picker.opened, since.summoned, ~IsLocked(mgr')
                PROVE  \/ picker.rows # None
                       \/ Asked("status")' \/ Asked("list")' \/ Asked("lock")'
                       \/ Has(outbox', OpenStates("status")) \/ Has(outbox', Listings(Vaults))
                       \/ Has(outbox', Unlocks) \/ Has(recv', Unlocks)
    BY <1>1 DEF Filling
  <2>1. CASE Has(recv', Unlocks)
    BY <2>1
  <2>2. CASE told = "all" /\ ~IsLocked(mgr) /\ (Has(recv, Unlocks) => Has(recv', Unlocks))
    <3>1. \/ picker.rows # None
          \/ Asked("status") \/ Asked("list") \/ Asked("lock")
          \/ Has(outbox, OpenStates("status")) \/ Has(outbox, Listings(Vaults))
          \/ Has(outbox, Unlocks) \/ Has(recv, Unlocks)
      BY <2>2 DEF PInv, Filling
    <3>2. /\ line.re = "status" => line \in OpenStates("status")
          /\ line.re = "list" => line \in Listings(Vaults)
      BY DEF OpenStates, Answers, Listings
    <3>. QED
      BY <1>2, <1>3, <1>4, <2>2, <3>1, <3>2
  <2>. QED
    BY <2>1, <2>2 DEF Delivers
<1>. QED
  BY <1>6, <1>7, <1>8, <1>9, <1>10, <1>11 DEF Promises, Delivers

-----------------------------------------------------------------------------
(* The manager's operations.                                               *)

(* The open database is the active one. *)
Opened(m) == m.loaded = IF m.state = "Unlocked" THEN m.active ELSE None

LEMMA LockNowAnnounced ==
    ASSUME NEW m \in Managers, Opened(m), m.state # "Unlocking"
    PROVE  /\ LockNow(m) \in Managers /\ Opened(LockNow(m))
           /\ LockNow(m).state = "Locked"
           /\ Announced(LockEvents(m), m, LockNow(m))
<1>1. CASE m.state = "Locked"
  BY <1>1 DEF LockNow, LockEvents, Announced, Opened, IsLocked
<1>2. CASE m.state # "Locked"
  BY <1>2 DEF LockNow, LockEvents, Announced, Opened, IsLocked, Emit, HandleEvent,
              LockedEvent, Managers, States
<1>. QED
  BY <1>1, <1>2

LEMMA AppendToOne ==
    ASSUME NEW L, NEW s \in Seq(L), Len(s) = 1, NEW b \in L
    PROVE  Append(s, b) = <<s[1], b>>
<1>1. Append(s, b) \in Seq(L) /\ Len(Append(s, b)) = 2
  OBVIOUS
<1>2. Append(s, b)[1] = s[1] /\ Append(s, b)[2] = b
  <2>1. /\ \A i \in DOMAIN s : Append(s, b)[i] = s[i]
        /\ Append(s, b)[Len(s) + 1] = b
    OBVIOUS
  <2>2. 1 \in DOMAIN s /\ Len(s) + 1 = 2
    OBVIOUS
  <2>. QED
    BY <2>1, <2>2
<1>3. PICK t \in Seq(L) : t = Append(s, b)
  BY <1>1
<1>4. Len(t) = 2 /\ t[1] = s[1] /\ t[2] = b
  BY <1>1, <1>2, <1>3
<1>5. t = <<s[1], b>>
  BY <1>4
<1>. QED
  BY <1>3, <1>5

LEMMA SwitchToAnnounced ==
    ASSUME NEW m \in Managers, Opened(m), m.state # "Unlocking",
           NEW v \in Vaults, v # m.active
    PROVE  /\ SwitchTo(m, v) \in Managers /\ Opened(SwitchTo(m, v))
           /\ SwitchTo(m, v).state = "Locked"
           /\ Announced(SwitchEvents(m, v), m, SwitchTo(m, v))
<1>. DEFINE n == LockNow(m)
            q == [n EXCEPT !.active = v]
<1>1. n \in Managers /\ Opened(n) /\ n.state = "Locked"
  BY LockNowAnnounced
<1>2. SwitchTo(m, v) = [q EXCEPT !.seen = HandleEvent(q.seen, SwitchedEvent(v))]
  BY DEF SwitchTo, Emit
<1>. HIDE DEF n
<1>3. q \in Managers /\ q.state = "Locked" /\ q.active = v /\ q.loaded = None
  BY <1>1 DEF Managers, Opened
<1>. HIDE DEF q
<1>4. HandleEvent(q.seen, SwitchedEvent(v)) \in [locked : BOOLEAN, activeVault : Vaults]
  BY DEF HandleEvent, SwitchedEvent
<1>5. /\ SwitchTo(m, v) \in Managers /\ SwitchTo(m, v).state = "Locked"
      /\ SwitchTo(m, v).active = v /\ SwitchTo(m, v).loaded = None
  BY <1>2, <1>3, <1>4 DEF Managers
<1>6. SwitchEvents(m, v) \in {<<SwitchedEvent(v)>>, <<LockedEvent, SwitchedEvent(v)>>}
  <2>. DEFINE e == SwitchedEvent(v)
  <2>1. SwitchEvents(m, v) = Append(LockEvents(m), e)
    BY DEF SwitchEvents
  <2>. HIDE DEF e
  <2>2. Append(<< >>, e) = <<e>>
    OBVIOUS
  <2>3. Append(<<LockedEvent>>, e) = <<LockedEvent, e>>
    <3>1. LockedEvent \in Events /\ e \in Events
      BY DEF Events, e
    <3>2. <<LockedEvent>> \in Seq(Events) /\ Len(<<LockedEvent>>) = 1
      BY <3>1
    <3>3. <<LockedEvent>>[1] = LockedEvent
      OBVIOUS
    <3>4. Append(<<LockedEvent>>, e) = <<(<<LockedEvent>>)[1], e>>
      BY <3>1, <3>2, AppendToOne
    <3>. QED
      BY <3>3, <3>4
  <2>4. LockEvents(m) \in {<< >>, <<LockedEvent>>}
    BY DEF LockEvents
  <2>. QED
    BY <2>1, <2>2, <2>3, <2>4 DEF e
<1>. QED
  BY <1>5, <1>6 DEF Announced, Opened, IsLocked

LEMMA StartUnlockingTyped ==
    ASSUME NEW m \in Managers, Opened(m), m.state = "Locked"
    PROVE  /\ StartUnlocking(m) \in Managers /\ Opened(StartUnlocking(m))
           /\ StartUnlocking(m).state = "Unlocking"
           /\ StartUnlocking(m).active = m.active
           /\ StartUnlocking(m).loaded = m.loaded
           /\ IsLocked(StartUnlocking(m)) = IsLocked(m)
BY DEF StartUnlocking, Managers, Opened, States, IsLocked

LEMMA EndUnlockingAnnounced ==
    ASSUME NEW m \in Managers, Opened(m), m.state = "Unlocking", NEW o \in BOOLEAN
    PROVE  /\ EndUnlocking(m, o) \in Managers /\ Opened(EndUnlocking(m, o))
           /\ EndUnlocking(m, o).state = IF o THEN "Unlocked" ELSE "Locked"
           /\ EndUnlocking(m, o).active = m.active
           /\ Announced(IF o THEN <<UnlockedEvent(m.active)>> ELSE << >>, m, EndUnlocking(m, o))
<1>1. CASE o
  <2>. DEFINE q == [m EXCEPT !.state = "Unlocked", !.loaded = m.active]
  <2>1. /\ EndUnlocking(m, o) = [q EXCEPT !.seen = HandleEvent(q.seen, UnlockedEvent(m.active))]
    BY <1>1 DEF EndUnlocking, Load, Emit
  <2>2. q \in Managers /\ q.state = "Unlocked" /\ q.active = m.active /\ q.loaded = m.active
    BY DEF Managers, States
  <2>. HIDE DEF q
  <2>3. HandleEvent(q.seen, UnlockedEvent(m.active)) \in [locked : BOOLEAN, activeVault : Vaults]
    BY DEF HandleEvent, UnlockedEvent, Managers
  <2>4. /\ EndUnlocking(m, o) \in Managers /\ EndUnlocking(m, o).state = "Unlocked"
        /\ EndUnlocking(m, o).active = m.active /\ EndUnlocking(m, o).loaded = m.active
    BY <2>1, <2>2, <2>3 DEF Managers
  <2>. QED
    BY <1>1, <2>4 DEF Announced, Opened, IsLocked
<1>2. CASE ~o
  BY <1>2 DEF EndUnlocking, Managers, States, Opened, Announced, IsLocked
<1>. QED
  BY <1>1, <1>2

-----------------------------------------------------------------------------
(* The rest of the world.                                                  *)

LEMMA PublishAny ==
    ASSUME PInv, mgr' \in Managers, NEW events, Announced(events, mgr, mgr'), Publish(events)
    PROVE  /\ recv' \in Seq(Events) /\ Len(recv') <= Cap
           /\ told' \in {"all", "less", "again"}
           /\ ~served => recv' = << >>
           /\ EventsAgree'
           /\ served => Delivers(FALSE)
<1>1. CASE served
  BY <1>1, PublishDelivers DEF Delivers
<1>2. CASE ~served
  <2>1. recv = << >> /\ recv' = << >> /\ told' = told
    BY <1>2 DEF Publish, PInv, Shape
  <2>2. EventsAgree'
    BY <2>1, FollowedEmpty DEF EventsAgree, Agreeing
  <2>. QED
    BY <1>2, <2>1, <2>2 DEF PInv, TypeOK, StreamTypeOK
<1>. QED
  BY <1>1, <1>2

(* A step that publishes and does no more to the connection.               *)
LEMMA WorldStep ==
    ASSUME PInv, mgr' \in Managers, Opened(mgr'),
           NEW events, Announced(events, mgr, mgr'), Publish(events),
           prompt' \in {"none", prompt}, dirty' \in BOOLEAN,
           mgr'.state = "Unlocking" <=> prompt' # "none",
           UNCHANGED <<up, served, subscribed, inbox, outbox, clientVars>>
    PROVE  PInv'
<1>1. /\ recv' \in Seq(Events) /\ Len(recv') <= Cap
      /\ told' \in {"all", "less", "again"}
      /\ ~served => recv' = << >>
      /\ EventsAgree'
      /\ served => Delivers(FALSE)
  BY PublishAny
<1>2. Promises'
  BY <1>1, EventStep
<1>3. TypeOK'
  BY <1>1 DEF PInv, TypeOK, StreamTypeOK, clientVars
<1>4. Shape'
  BY <1>1 DEF PInv, Shape, Opened, clientVars
<1>. QED
  BY <1>2, <1>3, <1>4 DEF PInv, Promises

LEMMA FreeManager ==
    ASSUME PInv
    PROVE  /\ mgr \in Managers /\ Opened(mgr)
           /\ MutexFree => mgr.state # "Unlocking"
           /\ prompt # "none" => mgr.state = "Unlocking"
BY DEF PInv, TypeOK, StreamTypeOK, Shape, Opened, MutexFree

LEMMA OthersLockStep == ASSUME PInv, OthersLock, UNCHANGED clientVars PROVE PInv'
<1>1. /\ mgr' = LockNow(mgr) /\ Publish(LockEvents(mgr)) /\ prompt = "none"
      /\ UNCHANGED <<up, prompt, served, subscribed, inbox, outbox, dirty, clientVars>>
  BY DEF OthersLock, MutexFree
<1>2. /\ mgr' \in Managers /\ Opened(mgr') /\ mgr'.state = "Locked"
      /\ Announced(LockEvents(mgr), mgr, mgr')
  BY <1>1, FreeManager, LockNowAnnounced DEF OthersLock
<1>3. PICK events : events = LockEvents(mgr)
  OBVIOUS
<1>. QED
  BY <1>1, <1>2, <1>3, WorldStep DEF PInv, TypeOK, StreamTypeOK

LEMMA OthersUseStep ==
    ASSUME PInv, NEW v \in Vaults, OthersUse(v), UNCHANGED clientVars PROVE PInv'
<1>1. /\ mgr' = SwitchTo(mgr, v) /\ Publish(SwitchEvents(mgr, v)) /\ prompt = "none"
      /\ UNCHANGED <<up, prompt, served, subscribed, inbox, outbox, dirty, clientVars>>
  BY DEF OthersUse, MutexFree
<1>2. /\ mgr' \in Managers /\ Opened(mgr') /\ mgr'.state = "Locked"
      /\ Announced(SwitchEvents(mgr, v), mgr, mgr')
  BY <1>1, FreeManager, SwitchToAnnounced DEF OthersUse
<1>3. PICK events : events = SwitchEvents(mgr, v)
  OBVIOUS
<1>. QED
  BY <1>1, <1>2, <1>3, WorldStep DEF PInv, TypeOK, StreamTypeOK

LEMMA TheirPromptReturnsStep ==
    ASSUME PInv, NEW o \in BOOLEAN, TheirPromptReturns(o), UNCHANGED clientVars PROVE PInv'
<1>1. PICK events : events = IF o THEN <<UnlockedEvent(mgr.active)>> ELSE << >>
  OBVIOUS
<1>2. /\ mgr' = EndUnlocking(mgr, o) /\ Publish(events)
      /\ prompt = "theirs" /\ prompt' = "none"
      /\ UNCHANGED <<up, served, subscribed, inbox, outbox, dirty, clientVars>>
  BY <1>1 DEF TheirPromptReturns
<1>3. /\ mgr' \in Managers /\ Opened(mgr') /\ mgr'.state # "Unlocking"
      /\ Announced(events, mgr, mgr')
  BY <1>1, <1>2, FreeManager, EndUnlockingAnnounced
<1>. QED
  BY <1>2, <1>3, WorldStep DEF PInv, TypeOK, StreamTypeOK

LEMMA DebounceStep == ASSUME PInv, Debounce, UNCHANGED clientVars PROVE PInv'
<1>1. /\ mgr' = mgr /\ Publish(<<ChangedEvent>>) /\ dirty' = FALSE
      /\ UNCHANGED <<up, prompt, served, subscribed, inbox, outbox, clientVars>>
  BY DEF Debounce
<1>2. Announced(<<ChangedEvent>>, mgr, mgr')
  BY <1>1 DEF Announced
<1>. QED
  BY <1>1, <1>2, FreeManager, WorldStep DEF PInv, TypeOK, StreamTypeOK

(* Neither events nor what lines state of the manager.                     *)
LEMMA QuietStep ==
    ASSUME PInv, mgr'.active = mgr.active, mgr'.loaded = mgr.loaded,
           IsLocked(mgr') = IsLocked(mgr),
           UNCHANGED <<recv, told, served, inbox, outbox, clientVars>>
    PROVE  Promises'
<1>1. CASE served
  <2>1. Delivers(FALSE)
    BY <1>1, QuietDelivers
  <2>. QED
    BY <2>1, EventStep DEF Delivers
<1>2. CASE ~served
  <2>1. EventsAgree'
    BY <1>2, FollowedEmpty DEF PInv, Shape, EventsAgree, Agreeing
  <2>. QED
    BY <1>2, <2>1, EventStep
<1>. QED
  BY <1>1, <1>2

LEMMA OthersUnlockStep == ASSUME PInv, OthersUnlock, UNCHANGED clientVars PROVE PInv'
<1>1. /\ mgr' = StartUnlocking(mgr) /\ mgr.state = "Locked" /\ up
      /\ prompt = "none" /\ prompt' = "theirs"
      /\ UNCHANGED <<up, served, subscribed, recv, inbox, outbox, told, dirty, clientVars>>
  BY DEF OthersUnlock, MutexFree
<1>2. /\ mgr' \in Managers /\ Opened(mgr') /\ mgr'.state = "Unlocking"
      /\ mgr'.active = mgr.active /\ mgr'.loaded = mgr.loaded
      /\ IsLocked(mgr') = IsLocked(mgr)
  BY <1>1, FreeManager, StartUnlockingTyped
<1>3. Promises'
  BY <1>1, <1>2, QuietStep
<1>4. TypeOK'
  BY <1>1, <1>2 DEF PInv, TypeOK, StreamTypeOK, clientVars
<1>5. Shape'
  BY <1>1, <1>2 DEF PInv, Shape, Opened, clientVars
<1>. QED
  BY <1>3, <1>4, <1>5 DEF PInv, Promises

LEMMA FileChangesStep == ASSUME PInv, FileChanges, UNCHANGED clientVars PROVE PInv'
<1>1. /\ mgr' = mgr /\ dirty' = TRUE
      /\ UNCHANGED <<up, prompt, served, subscribed, recv, inbox, outbox, told, clientVars>>
  BY DEF FileChanges
<1>2. Promises'
  BY <1>1, QuietStep
<1>3. TypeOK' /\ Shape'
  BY <1>1 DEF PInv, TypeOK, StreamTypeOK, Shape, clientVars
<1>. QED
  BY <1>2, <1>3 DEF PInv, Promises

LEMMA DaemonStartsStep == ASSUME PInv, DaemonStarts, UNCHANGED clientVars PROVE PInv'
<1>1. /\ mgr' = mgr /\ ~up /\ up' = TRUE
      /\ UNCHANGED <<prompt, served, subscribed, recv, inbox, outbox, told, dirty, clientVars>>
  BY DEF DaemonStarts
<1>2. Promises'
  BY <1>1, QuietStep
<1>3. TypeOK' /\ Shape'
  BY <1>1 DEF PInv, TypeOK, StreamTypeOK, Shape, clientVars
<1>. QED
  BY <1>2, <1>3 DEF PInv, Promises

-----------------------------------------------------------------------------
(* The task that serves the connection.                                    *)

(* A response is written while the mutex is free or somebody else's.       *)
LEMMA ServedStep ==
    ASSUME PInv, served, NEW line \in Replies, Truthful(line, mgr'), Write(line),
           Len(outbox) <= OutCap, Delivers(Full(line)),
           \/ UNCHANGED inbox /\ line.re \notin {"hello", "status", "list", "lock"}
           \/ inbox # << >> /\ Head(inbox) = line.re /\ inbox' = Tail(inbox),
           line.re = "hello" => Full(line),
           line.re = "list" /\ line.ok => line.from \in Vaults,
           ~IsLocked(mgr') =>
              /\ line.re # "lock"
              /\ line.re \in {"hello", "status"} => line.says = "unlocked"
              /\ line.re = "list" => line.ok,
           mgr' \in Managers, Opened(mgr'),
           mgr'.state = "Unlocking" <=> prompt' # "none",
           prompt' \in {"none", prompt}, prompt' # "mine",
           recv' \in Seq(Events), Len(recv') <= Cap, told' \in {"all", "less", "again"},
           subscribed' \in BOOLEAN,
           UNCHANGED <<up, served, dirty, clientVars>>
    PROVE  PInv'
<1>1. outbox' = Append(outbox, line)
  BY DEF Write
<1>2. Promises'
  BY <1>1, ReplyStep
<1>3. /\ outbox \in Seq(Events \cup Replies) /\ line \in Events \cup Replies
      /\ inbox \in Seq(Ops) /\ OutCap \in Nat
  BY StreamAssumption DEF PInv, TypeOK, StreamTypeOK
<1>4. /\ outbox' \in Seq(Events \cup Replies) /\ Len(outbox') = Len(outbox) + 1
      /\ Len(outbox) \in Nat
  BY <1>1, <1>3
<1>5. Len(outbox') <= OutCap + 1
  BY <1>3, <1>4
<1>6. inbox' \in Seq(Ops)
  <2>1. inbox # << >> => Tail(inbox) \in Seq(Ops)
    BY <1>3
  <2>. QED
    BY <1>3, <2>1
<1>7. TypeOK'
  BY <1>4, <1>5, <1>6 DEF PInv, TypeOK, StreamTypeOK, clientVars
<1>8. ~Has(outbox', Listings({None}))
  <2>1. line \notin Listings({None})
    BY VaultAssumption DEF Listings
  <2>2. ~Has(outbox, Listings({None}))
    BY DEF PInv, Shape
  <2>. QED
    BY <1>1, <1>3, <2>1, <2>2, HasAppend
<1>9. Shape'
  BY <1>8 DEF PInv, Shape, TypeOK, Opened, clientVars
<1>. QED
  BY <1>2, <1>7, <1>9 DEF PInv, Promises

LEMMA Typed ==
    ASSUME PInv
    PROVE  /\ recv \in Seq(Events) /\ Len(recv) <= Cap /\ told \in {"all", "less", "again"}
           /\ subscribed \in BOOLEAN /\ prompt \in {"none", "mine", "theirs"}
           /\ mgr.state = "Unlocking" <=> prompt # "none"
           /\ mgr.active \in Vaults /\ mgr.loaded \in Vaults \cup {None}
           /\ IsLocked(mgr) \in BOOLEAN
           /\ ~IsLocked(mgr) => mgr.loaded \in Vaults
BY DEF PInv, TypeOK, StreamTypeOK, Shape, Managers, IsLocked

LEMMA ServeSubscribeStep == ASSUME PInv, ServeSubscribe, UNCHANGED clientVars PROVE PInv'
<1>1. PICK line : line = Reply("subscribe", TRUE, "unsaid", None, None)
  OBVIOUS
<1>2. /\ served /\ prompt # "mine" /\ Len(outbox) <= OutCap
      /\ inbox # << >> /\ Head(inbox) = "subscribe" /\ inbox' = Tail(inbox)
      /\ Write(line) /\ subscribed' = TRUE
      /\ UNCHANGED <<mgr, up, prompt, served, recv, told, dirty, clientVars>>
  BY <1>1 DEF ServeSubscribe, Taking, Ready
<1>3. line \in Replies /\ line.re = "subscribe" /\ Truthful(line, mgr')
  BY <1>1 DEF Reply, Replies, Ops, Truthful
<1>4. Delivers(Full(line))
  BY <1>2, QuietDelivers
<1>. QED
  BY <1>2, <1>3, <1>4, FreeManager, Typed, ServedStep

LEMMA ServeStateStep ==
    ASSUME PInv, NEW op \in Ops, ServeState(op), UNCHANGED clientVars PROVE PInv'
<1>1. PICK line : line = StateReply(op, mgr)
  OBVIOUS
<1>2. /\ served /\ prompt = "none" /\ Len(outbox) <= OutCap /\ op \in {"hello", "status"}
      /\ inbox # << >> /\ Head(inbox) = op /\ inbox' = Tail(inbox)
      /\ Answer(line)
      /\ UNCHANGED <<mgr, up, prompt, served, subscribed, recv, dirty, clientVars>>
  BY <1>1 DEF ServeState, Taking, Ready, MutexFree
<1>3. /\ line \in Replies /\ line.re = op /\ Truthful(line, mgr') /\ Full(line)
      /\ ~IsLocked(mgr') => line.says = "unlocked"
  BY <1>1, <1>2, Typed, VaultAssumption DEF StateReply, Reply, Replies, Truthful, Full
<1>4. /\ Write(line) /\ told' \in {told, "again"}
      /\ told' = told \/ told' = "again"
  BY <1>2 DEF Answer
<1>5. Delivers(Full(line))
  BY <1>2, <1>3, <1>4, QuietDelivers
<1>6. told' \in {"all", "less", "again"}
  BY <1>4, Typed
<1>. QED
  BY <1>2, <1>3, <1>4, <1>5, <1>6, FreeManager, Typed, ServedStep

LEMMA ServeReadStep ==
    ASSUME PInv, NEW op \in Ops, ServeRead(op), UNCHANGED clientVars PROVE PInv'
<1>1. /\ served /\ prompt = "none" /\ Len(outbox) <= OutCap /\ op \in {"list", "copy"}
      /\ inbox # << >> /\ Head(inbox) = op /\ inbox' = Tail(inbox)
      /\ UNCHANGED <<mgr, up, prompt, served, subscribed, recv, dirty, clientVars>>
  BY DEF ServeRead, Taking, Ready, MutexFree
<1>2. PICK ok \in BOOLEAN :
         /\ ok => ~IsLocked(mgr)
         /\ op = "list" /\ ~IsLocked(mgr) => ok
         /\ Answer(Reply(op, ok, "unsaid", None, IF ok THEN mgr.loaded ELSE None))
  BY <1>1 DEF ServeRead
<1>3. PICK line : line = Reply(op, ok, "unsaid", None, IF ok THEN mgr.loaded ELSE None)
  OBVIOUS
<1>4. /\ line \in Replies /\ line.re = op /\ line.ok = ok /\ line.says = "unsaid"
      /\ line.from = (IF ok THEN mgr.loaded ELSE None)
      /\ Truthful(line, mgr')
  BY <1>1, <1>3, Typed DEF Reply, Replies, Truthful
<1>5. Write(line) /\ told' = told
  BY <1>2, <1>3, <1>4 DEF Answer
<1>6. Delivers(Full(line))
  BY <1>1, <1>5, QuietDelivers
<1>7. /\ ~IsLocked(mgr') /\ line.re = "list" => line.ok
      /\ line.re = "list" /\ line.ok => line.from \in Vaults
  BY <1>1, <1>2, <1>4, Typed
<1>. QED
  BY <1>1, <1>4, <1>5, <1>6, <1>7, FreeManager, Typed, ServedStep

LEMMA ServeLockStep == ASSUME PInv, ServeLock, UNCHANGED clientVars PROVE PInv'
<1>1. PICK line : line = Reply("lock", TRUE, "locked", None, None)
  OBVIOUS
<1>2. PICK events : events = LockEvents(mgr)
  OBVIOUS
<1>3. /\ served /\ prompt = "none" /\ MutexFree /\ Len(outbox) <= OutCap
      /\ inbox # << >> /\ Head(inbox) = "lock" /\ inbox' = Tail(inbox)
      /\ mgr' = LockNow(mgr) /\ Publish(events) /\ Write(line)
      /\ UNCHANGED <<up, prompt, served, subscribed, dirty, clientVars>>
  BY <1>1, <1>2 DEF ServeLock, Taking, Ready, MutexFree
<1>4. /\ mgr' \in Managers /\ Opened(mgr') /\ mgr'.state = "Locked" /\ IsLocked(mgr')
      /\ Announced(events, mgr, mgr')
  BY <1>2, <1>3, FreeManager, LockNowAnnounced DEF IsLocked
<1>5. /\ recv' \in Seq(Events) /\ Len(recv') <= Cap
      /\ told' \in {"all", "less", "again"}
      /\ Delivers(FALSE)
  BY <1>3, <1>4, PublishDelivers
<1>6. /\ line \in Replies /\ line.re = "lock" /\ Truthful(line, mgr')
  BY <1>1, <1>4 DEF Reply, Replies, Ops, Truthful
<1>7. Delivers(Full(line))
  BY <1>5 DEF Delivers
<1>. QED
  BY <1>3, <1>4, <1>5, <1>6, <1>7, Typed, ServedStep

(* The prompt is shown: a request is taken, nothing is written.            *)
LEMMA ServeUnlockStep == ASSUME PInv, ServeUnlock, UNCHANGED clientVars PROVE PInv'
<1>1. /\ served /\ prompt = "none" /\ up /\ MutexFree /\ Len(outbox) <= OutCap
      /\ inbox # << >> /\ Head(inbox) = "unlock" /\ inbox' = Tail(inbox)
      /\ UNCHANGED <<up, served, subscribed, recv, dirty, clientVars>>
  BY DEF ServeUnlock, Taking, Ready, MutexFree
<1>2. CASE mgr.state = "Unlocked"
  <2>1. PICK line : line = StateReply("unlock", mgr)
    OBVIOUS
  <2>2. Answer(line) /\ UNCHANGED <<mgr, prompt>>
    BY <1>2, <2>1 DEF ServeUnlock
  <2>3. line \in Replies /\ line.re = "unlock" /\ Truthful(line, mgr') /\ Full(line)
    BY <2>1, <2>2, Typed, VaultAssumption DEF StateReply, Reply, Replies, Ops, Truthful, Full
  <2>4. Write(line) /\ (told' = told \/ told' = "again")
    BY <2>2 DEF Answer
  <2>5. Delivers(Full(line))
    BY <1>1, <2>2, <2>3, <2>4, QuietDelivers
  <2>6. told' \in {"all", "less", "again"}
    BY <2>4, Typed
  <2>. QED
    BY <1>1, <2>2, <2>3, <2>4, <2>5, <2>6, FreeManager, Typed, ServedStep
<1>3. CASE mgr.state # "Unlocked"
  <2>1. /\ mgr' = StartUnlocking(mgr) /\ prompt' = "mine" /\ UNCHANGED <<outbox, told>>
        /\ mgr.state = "Locked"
    BY <1>1, <1>3, FreeManager DEF ServeUnlock, Managers, States
  <2>2. /\ mgr' \in Managers /\ Opened(mgr') /\ mgr'.state = "Unlocking"
        /\ mgr'.active = mgr.active /\ mgr'.loaded = mgr.loaded
        /\ IsLocked(mgr') /\ IsLocked(mgr') = IsLocked(mgr)
    BY <2>1, FreeManager, StartUnlockingTyped DEF IsLocked
  <2>3. inbox \in Seq(Ops)
    BY DEF PInv, TypeOK, StreamTypeOK
  <2>4. inbox' \in Seq(Ops)
    BY <1>1, <2>3
  <2>5. \A op \in Ops : /\ Asked(op)' => Asked(op)
                        /\ Asked(op) /\ op # "unlock" => Asked(op)'
    BY <1>1, <2>3, AskedTail
  <2>6. "hello" \in Ops
    BY DEF Ops
  <2>7. Delivers(FALSE)
    BY <1>1, <2>1, <2>2, QuietDelivers
  <2>8. LinesAgree' /\ ViewAgrees' /\ RowsAgree'
    BY <1>1, <2>1, <2>5, <2>6, <2>7 DEF Delivers, LinesAgree, ViewAgrees, RowsAgree, clientVars
  <2>9. UnlockFollows' /\ Filling'
    BY <2>2 DEF UnlockFollows, Filling
  <2>10. HelloFirst'
    <3>1. Ahead(inbox', {"hello"}, {"status"})
      BY <1>1, <2>3, AheadTail DEF PInv, HelloFirst
    <3>. QED
      BY <1>1, <2>1, <2>5, <2>6, <3>1 DEF PInv, HelloFirst
  <2>11. TypeOK'
    BY <1>1, <2>1, <2>2, <2>4 DEF PInv, TypeOK, StreamTypeOK, clientVars
  <2>12. Shape'
    BY <1>1, <2>1, <2>2 DEF PInv, Shape, Opened, clientVars
  <2>. QED
    BY <2>7, <2>8, <2>9, <2>10, <2>11, <2>12 DEF PInv, Delivers
<1>. QED
  BY <1>2, <1>3

LEMMA MyPromptReturnsStep ==
    ASSUME PInv, NEW o \in BOOLEAN, MyPromptReturns(o), UNCHANGED clientVars PROVE PInv'
<1>1. PICK events : events = IF o THEN <<UnlockedEvent(mgr.active)>> ELSE << >>
  OBVIOUS
<1>2. PICK line : line = IF o THEN StateReply("unlock", mgr')
                         ELSE Reply("unlock", FALSE, "unsaid", None, None)
  OBVIOUS
<1>3. /\ mgr' = EndUnlocking(mgr, o) /\ Publish(events) /\ Write(line)
      /\ prompt = "mine" /\ prompt' = "none"
      /\ UNCHANGED <<up, served, subscribed, inbox, dirty, clientVars>>
  BY <1>1, <1>2 DEF MyPromptReturns
<1>4. served /\ Len(outbox) <= OutCap
  BY <1>3 DEF PInv, Shape
<1>5. /\ mgr' \in Managers /\ Opened(mgr') /\ mgr'.state # "Unlocking"
      /\ Announced(events, mgr, mgr')
  BY <1>1, <1>3, FreeManager, EndUnlockingAnnounced
<1>6. /\ recv' \in Seq(Events) /\ Len(recv') <= Cap
      /\ told' \in {"all", "less", "again"}
      /\ Delivers(FALSE)
  BY <1>3, <1>4, <1>5, PublishDelivers
<1>7. /\ line \in Replies /\ line.re = "unlock" /\ Truthful(line, mgr')
  <2>1. mgr'.active \in Vaults /\ IsLocked(mgr') \in BOOLEAN
    BY <1>5 DEF Managers, IsLocked
  <2>. QED
    BY <1>2, <2>1 DEF StateReply, Reply, Replies, Ops, Truthful
<1>8. Delivers(Full(line))
  BY <1>6 DEF Delivers
<1>. QED
  BY <1>3, <1>4, <1>5, <1>6, <1>7, <1>8, Typed, ServedStep

(* An event leaves the receiver for the socket: it comes after the same    *)
(* lines, and before the same.                                             *)
LEMMA ForwardStep == ASSUME PInv, Forward, UNCHANGED clientVars PROVE PInv'
<1>1. PICK e : e = Head(recv)
  OBVIOUS
<1>2. /\ served /\ prompt # "mine" /\ Len(outbox) <= OutCap /\ recv # << >>
      /\ outbox' = Append(outbox, e) /\ recv' = Tail(recv)
      /\ UNCHANGED <<mgr, up, prompt, served, subscribed, inbox, told, dirty, clientVars>>
  BY <1>1 DEF Forward, Ready, Write
<1>3. /\ recv \in Seq(Events) /\ outbox \in Seq(Lines) /\ recv \in Seq(Lines)
      /\ Len(recv) <= Cap /\ OutCap \in Nat /\ Cap \in Nat
  BY StreamAssumption DEF PInv, TypeOK, StreamTypeOK, Lines
<1>4. e \in Events /\ e \in Lines
  BY <1>1, <1>2, <1>3 DEF Lines
<1>5. /\ recv' \in Seq(Events) /\ outbox' \in Seq(Lines)
      /\ Len(recv') <= Cap /\ Len(outbox') <= OutCap + 1
  BY <1>2, <1>3, <1>4
<1>6. \A S : /\ Has(recv, S) <=> e \in S \/ Has(recv', S)
             /\ Has(outbox', S) <=> Has(outbox, S) \/ e \in S
  BY <1>1, <1>2, <1>3, <1>4, HasTail, HasAppend
<1>7. \A P, S : Followed(outbox, recv, P, S) /\ Followed(recv, << >>, P, S) =>
                    Followed(outbox', recv', P, S)
  BY <1>1, <1>2, <1>3, FollowedForward
<1>8. \A P, S : Followed(recv, << >>, P, S) => Followed(recv', << >>, P, S)
  BY <1>2, <1>3, FollowedTail
<1>9. EventsAgree'
  BY <1>2, <1>8 DEF PInv, EventsAgree, Agreeing
<1>10. LinesAgree'
  BY <1>2, <1>7 DEF PInv, EventsAgree, LinesAgree, Agreeing
<1>11. ViewAgrees'
  BY <1>2, <1>6 DEF PInv, ViewAgrees, Copied, Asked, clientVars
<1>12. RowsAgree'
  <2>1. Followed(recv, << >>, Listings(Vaults \ {mgr.loaded}), Clears)
    BY <1>3, EventsAnswerNothing DEF Followed
  <2>. QED
    BY <1>2, <1>6, <1>7, <2>1 DEF PInv, RowsAgree, Listed, clientVars
<1>13. UnlockFollows'
  <2>. SUFFICES ASSUME told = "all", ~IsLocked(mgr) PROVE UnlockFollows'
    BY <1>2 DEF UnlockFollows
  <2>1. Followed(recv, << >>, WrongLines(mgr), RightLines(mgr))
    BY DEF PInv, EventsAgree, Agreeing
  <2>2. \A i \in DOMAIN recv : recv[i] \in RightLines(mgr) => recv[i] \in Unlocks
    BY <1>3, EventsAreNoReplies DEF RightLines, UnlockedLines
  <2>3. WrongLines(mgr) = LockedLines
    BY DEF WrongLines
  <2>4. Followed(recv, << >>, LockedLines, Unlocks)
    BY <2>1, <2>2, <2>3, HasEmpty DEF Followed
  <2>5. Followed(outbox', recv', LockedLines, Unlocks)
    BY <1>2, <1>7, <2>4 DEF PInv, UnlockFollows
  <2>. QED
    BY <1>2, <1>6, <2>5 DEF PInv, UnlockFollows, Asked, clientVars
<1>14. HelloFirst'
  <2>1. e \notin Answers("hello") /\ e \notin Answers("status")
    BY <1>4, EventsAnswerNothing
  <2>2. Ahead(outbox', Answers("hello"), Answers("status"))
    BY <1>2, <1>3, <1>4, <2>1, AheadAppend DEF PInv, HelloFirst
  <2>. QED
    BY <1>2, <1>6, <2>1, <2>2 DEF PInv, HelloFirst, Asked
<1>15. Filling'
  BY <1>2, <1>6 DEF PInv, Filling, Asked, clientVars
<1>16. TypeOK'
  BY <1>2, <1>5 DEF PInv, TypeOK, StreamTypeOK, Lines, clientVars
<1>17. Shape'
  <2>1. e \notin Listings({None})
    BY <1>4, EventsAnswerNothing
  <2>. QED
    BY <1>2, <1>6, <2>1 DEF PInv, Shape, TypeOK, clientVars
<1>. QED
  BY <1>9, <1>10, <1>11, <1>12, <1>13, <1>14, <1>15, <1>16, <1>17 DEF PInv

(* The connection is left, with some of the lines in the client's hands.   *)
LEMMA DaemonEndsStep == ASSUME PInv, DaemonEnds, UNCHANGED clientVars PROVE PInv'
<1>1. /\ mgr' = NewManager /\ up' = FALSE /\ prompt' = "none"
      /\ served' = FALSE /\ subscribed' = FALSE /\ dirty' = FALSE
      /\ recv' = << >> /\ inbox' = << >> /\ told' = told
      /\ UNCHANGED clientVars
  BY DEF DaemonEnds
<1>2. PICK n \in 0..Len(outbox) : outbox' = SubSeq(outbox, 1, n)
  BY DEF DaemonEnds
<1>3. outbox \in Seq(Events \cup Replies) /\ Len(outbox) <= OutCap + 1 /\ OutCap \in Nat
  BY StreamAssumption DEF PInv, TypeOK, StreamTypeOK
<1>4. /\ outbox' \in Seq(Events \cup Replies) /\ Len(outbox') = n
      /\ \A i \in 1..n : i \in DOMAIN outbox /\ outbox'[i] = outbox[i]
      /\ DOMAIN outbox' = 1..n
  BY <1>2, <1>3
<1>5. Len(outbox') <= OutCap + 1 /\ (outbox = << >> => outbox' = << >>)
  BY <1>3, <1>4
<1>6. NewManager \in Managers /\ Opened(NewManager) /\ NewManager.state = "Locked"
  BY VaultAssumption DEF NewManager, Managers, States, Opened
<1>7. TypeOK'
  <2>1. recv' \in Seq(Events) /\ Len(recv') <= Cap /\ inbox' \in Seq(Ops)
    BY <1>1, StreamAssumption
  <2>2. told' \in {"all", "less", "again"}
    BY <1>1, Typed
  <2>3. StreamTypeOK'
    BY <1>1, <1>4, <1>5, <1>6, <2>1, <2>2 DEF StreamTypeOK
  <2>. QED
    BY <1>1, <2>3 DEF PInv, TypeOK, clientVars
<1>8. Shape'
  <2>1. ~Has(outbox', Listings({None}))
    BY <1>4 DEF PInv, Shape, Has
  <2>. QED
    BY <1>1, <1>5, <1>6, <2>1 DEF PInv, Shape, Opened, clientVars
<1>9. EventsAgree'
  BY <1>1, FollowedEmpty DEF EventsAgree, Agreeing
<1>10. HelloFirst'
  <2>1. Ahead(outbox', Answers("hello"), Answers("status"))
    BY <1>4 DEF PInv, HelloFirst, Ahead
  <2>. QED
    BY <1>1, <2>1 DEF HelloFirst, Ahead
<1>11. LinesAgree' /\ ViewAgrees' /\ RowsAgree' /\ UnlockFollows' /\ Filling'
  BY <1>1 DEF LinesAgree, ViewAgrees, RowsAgree, UnlockFollows, Filling
<1>. QED
  BY <1>7, <1>8, <1>9, <1>10, <1>11 DEF PInv

-----------------------------------------------------------------------------
(* The client.                                                             *)

(* What a line read does to the copy, the rows and the backlog.            *)
Handles(line, ops) ==
    /\ view'.locked = IF line \in LockedLines THEN TRUE
                      ELSE IF line \in UnlockedLines THEN FALSE ELSE view.locked
    /\ \A v \in Vaults : line \in VaultLines(v) => view'.activeVault = v
    /\ (\A v \in Vaults : line \notin VaultLines(v)) => view'.activeVault = view.activeVault
    /\ picker'.opened => picker.opened
    /\ since'.summoned = since.summoned
    /\ \/ line \in Listings(Vaults \cup {None}) /\ picker'.rows = line.from
       \/ /\ line \notin Listings(Vaults \cup {None})
          /\ since'.listed = since.listed
          /\ \/ picker'.rows = picker.rows /\ line \notin Clears
             \/ picker'.rows = None /\ line \in LockedLines
    /\ ops \in {<< >>, <<"list">>}
    /\ line \in Unlocks => ops = <<"list">>
    /\ line \in OpenStates("status") /\ picker.opened /\ ~view.locked => ops = <<"list">>

LEMMA SendList ==
    ASSUME inbox \in Seq(Ops), NEW ops \in {<< >>, <<"list">>}, Send(ops)
    PROVE  /\ inbox' \in Seq(Ops)
           /\ ~served => inbox' = inbox
           /\ \A op \in Ops : /\ Asked(op) => Asked(op)'
                              /\ op # "list" /\ Asked(op)' => Asked(op)
           /\ served /\ ops = <<"list">> => Asked("list")'
           /\ Ahead(inbox, {"hello"}, {"status"}) => Ahead(inbox', {"hello"}, {"status"})
<1>1. "list" \in Ops
  BY DEF Ops
<1>2. CASE ~served \/ ops = << >>
  <2>1. inbox' = inbox
    BY <1>2 DEF Send
  <2>2. served => ops # <<"list">>
    BY <1>2
  <2>. QED
    BY <2>1, <2>2 DEF Asked
<1>3. CASE served /\ ops = <<"list">>
  <2>1. inbox' = Append(inbox, "list")
    BY <1>1, <1>3 DEF Send
  <2>2. \A op \in Ops : Has(inbox', {op}) <=> Has(inbox, {op}) \/ op = "list"
    BY <1>1, <2>1, HasAppend
  <2>3. Ahead(inbox, {"hello"}, {"status"}) => Ahead(inbox', {"hello"}, {"status"})
    BY <1>1, <2>1, AheadAppend
  <2>4. inbox' \in Seq(Ops)
    BY <1>1, <2>1
  <2>5. \A op \in Ops : Asked(op)' <=> Asked(op) \/ op = "list"
    BY <2>2 DEF Asked
  <2>. QED
    BY <1>1, <1>3, <2>3, <2>4, <2>5
<1>. QED
  BY <1>2, <1>3

LEMMA ReadStep ==
    ASSUME PInv, outbox # << >>, NEW line, line = Head(outbox), outbox' = Tail(outbox),
           NEW ops, Handles(line, ops), Send(ops), link,
           view' \in [locked : BOOLEAN, activeVault : Vaults \cup {None}],
           picker' \in [opened : BOOLEAN, rows : Vaults \cup {None}],
           since' \in [listed : BOOLEAN, summoned : BOOLEAN],
           UNCHANGED <<mgr, up, prompt, served, subscribed, recv, told, dirty, link>>
    PROVE  PInv'
<1>1. /\ outbox \in Seq(Lines) /\ inbox \in Seq(Ops) /\ line \in Lines
      /\ Len(outbox) <= OutCap + 1 /\ OutCap \in Nat
  <2>1. outbox \in Seq(Lines) /\ inbox \in Seq(Ops) /\ Len(outbox) <= OutCap + 1 /\ OutCap \in Nat
    BY StreamAssumption DEF PInv, TypeOK, StreamTypeOK, Lines
  <2>. QED
    BY <2>1
<1>2. \A S : Has(outbox, S) <=> line \in S \/ Has(outbox', S)
  BY <1>1, HasTail
<1>3. \A P, S : Followed(outbox, recv, P, S) =>
                   /\ Followed(outbox', recv, P, S)
                   /\ line \in P => Has(outbox', S) \/ Has(recv, S)
  BY <1>1, FollowedTail
<1>4. /\ inbox' \in Seq(Ops)
      /\ ~served => inbox' = inbox
      /\ \A op \in Ops : /\ Asked(op) => Asked(op)'
                         /\ op # "list" /\ Asked(op)' => Asked(op)
      /\ served /\ ops = <<"list">> => Asked("list")'
      /\ Ahead(inbox, {"hello"}, {"status"}) => Ahead(inbox', {"hello"}, {"status"})
  BY <1>1, SendList DEF Handles
<1>5. {"hello", "status", "list", "lock"} \subseteq Ops
  BY DEF Ops
<1>6. line \notin Listings({None})
  BY <1>2 DEF PInv, Shape
<1>7. EventsAgree' /\ LinesAgree'
  BY <1>3 DEF PInv, EventsAgree, LinesAgree, Agreeing
<1>8. ViewAgrees'
  <2>. SUFFICES ASSUME served, told # "less", ~Asked("hello")
                PROVE  Copied(outbox', recv, mgr, view')
    BY <1>4, <1>5 DEF ViewAgrees
  <2>1. Copied(outbox, recv, mgr, view) /\ Agreeing(outbox, recv, mgr)
    BY DEF PInv, ViewAgrees, LinesAgree
  <2>2. view'.locked = IsLocked(mgr) \/ Has(outbox', RightLines(mgr)) \/ Has(recv, RightLines(mgr))
    <3>1. CASE line \in WrongLines(mgr)
      BY <1>3, <2>1, <3>1 DEF Agreeing
    <3>2. CASE line \in RightLines(mgr) /\ line \notin WrongLines(mgr)
      BY <3>2 DEF Handles, RightLines, WrongLines, IsLocked
    <3>3. CASE line \notin RightLines(mgr) /\ line \notin WrongLines(mgr)
      BY <1>2, <2>1, <3>3 DEF Handles, RightLines, WrongLines, Copied
    <3>. QED
      BY <3>1, <3>2, <3>3
  <2>3. \/ view'.activeVault = mgr.active
        \/ Has(outbox', VaultLines(mgr.active)) \/ Has(recv, VaultLines(mgr.active))
    <3>1. CASE line \in Strays(mgr.active)
      BY <1>3, <2>1, <3>1 DEF Agreeing
    <3>2. CASE line \in VaultLines(mgr.active)
      BY <3>2, Typed DEF Handles
    <3>3. CASE line \notin Strays(mgr.active) /\ line \notin VaultLines(mgr.active)
      <4>1. \A v \in Vaults : line \notin VaultLines(v)
        BY <1>1, <3>3 DEF Strays
      <4>. QED
        BY <1>2, <2>1, <3>3, <4>1 DEF Handles, Copied
    <3>. QED
      BY <3>1, <3>2, <3>3
  <2>. QED
    BY <2>2, <2>3 DEF Copied
<1>9. RowsAgree'
  <2>. SUFFICES ASSUME served, told = "all"
                PROVE  Listed(outbox', recv, mgr, picker', since')
    BY DEF RowsAgree
  <2>1. Listed(outbox, recv, mgr, picker, since)
    BY DEF PInv, RowsAgree
  <2>2. Followed(outbox', recv, Listings(Vaults \ {mgr.loaded}), Clears)
    BY <1>3, <2>1 DEF Listed
  <2>3. ASSUME since'.listed, picker'.rows # None, picker'.rows # mgr.loaded
        PROVE  Has(outbox', Clears) \/ Has(recv, Clears)
    <3>1. CASE line \in Listings(Vaults \cup {None}) /\ picker'.rows = line.from
      <4>1. line \in Listings(Vaults \ {mgr.loaded})
        BY <1>6, <2>3, <3>1 DEF Listings
      <4>. QED
        BY <1>3, <2>1, <4>1 DEF Listed
    <3>2. CASE since'.listed = since.listed /\ picker'.rows = picker.rows /\ line \notin Clears
      BY <1>2, <2>1, <2>3, <3>2 DEF Listed
    <3>. QED
      BY <2>3, <3>1, <3>2 DEF Handles
  <2>. QED
    BY <2>2, <2>3 DEF Listed
<1>10. UnlockFollows'
  <2>. SUFFICES ASSUME served, told = "all", ~IsLocked(mgr)
                PROVE  /\ Followed(outbox', recv, LockedLines, Unlocks)
                       /\ view'.locked =>
                             \/ Asked("hello")' \/ Has(outbox', OpenStates("hello"))
                             \/ Has(outbox', Unlocks) \/ Has(recv, Unlocks)
    BY DEF UnlockFollows
  <2>1. /\ Followed(outbox, recv, LockedLines, Unlocks)
        /\ view.locked =>
              \/ Asked("hello") \/ Has(outbox, OpenStates("hello"))
              \/ Has(outbox, Unlocks) \/ Has(recv, Unlocks)
    BY DEF PInv, UnlockFollows
  <2>2. CASE line \in LockedLines
    BY <1>3, <2>1, <2>2
  <2>3. CASE line \in UnlockedLines /\ line \notin LockedLines
    BY <1>3, <2>1, <2>3 DEF Handles
  <2>4. CASE line \notin UnlockedLines /\ line \notin LockedLines
    <3>1. line \notin Unlocks /\ line \notin OpenStates("hello")
      BY <2>4 DEF UnlockedLines, OpenStates, Answers
    <3>. QED
      BY <1>2, <1>3, <1>4, <1>5, <2>1, <2>4, <3>1 DEF Handles
  <2>. QED
    BY <2>2, <2>3, <2>4
<1>11. HelloFirst'
  <2>1. Ahead(outbox', Answers("hello"), Answers("status"))
    BY <1>1, AheadTail DEF PInv, HelloFirst
  <2>2. served /\ Has(outbox', Answers("status")) => ~Asked("hello")'
    BY <1>2, <1>4, <1>5 DEF PInv, HelloFirst
  <2>. QED
    BY <1>4, <2>1, <2>2 DEF PInv, HelloFirst
<1>12. Filling'
  <2>. SUFFICES ASSUME served, told = "all", picker'.opened, since'.summoned, ~IsLocked(mgr)
                PROVE  \/ picker'.rows # None
                       \/ Asked("status")' \/ Asked("list")' \/ Asked("lock")'
                       \/ Has(outbox', OpenStates("status")) \/ Has(outbox', Listings(Vaults))
                       \/ Has(outbox', Unlocks) \/ Has(recv, Unlocks)
    BY DEF Filling
  <2>1. picker.opened /\ since.summoned
    BY DEF Handles
  <2>2. \/ picker.rows # None
        \/ Asked("status") \/ Asked("list") \/ Asked("lock")
        \/ Has(outbox, OpenStates("status")) \/ Has(outbox, Listings(Vaults))
        \/ Has(outbox, Unlocks) \/ Has(recv, Unlocks)
    BY <2>1 DEF PInv, Filling
  <2>3. CASE line \in LockedLines
    BY <1>3, <2>3 DEF PInv, UnlockFollows
  <2>4. CASE line \in Unlocks
    BY <1>4, <2>4 DEF Handles
  <2>5. CASE line \in Listings(Vaults \cup {None})
    <3>1. line.from \in Vaults /\ picker'.rows = line.from
      BY <1>6, <2>5 DEF Listings, Handles
    <3>. QED
      BY <3>1, VaultAssumption
  <2>6. CASE line \in OpenStates("status")
    <3>1. CASE ~view.locked
      BY <1>4, <2>1, <2>6, <3>1 DEF Handles
    <3>2. CASE view.locked
      <4>1. line \in Answers("status") /\ line \notin Unlocks
        BY <2>6, LinesOfReplies DEF OpenStates, Answers
      <4>2. ~Asked("hello") /\ ~Has(outbox, Answers("hello"))
        BY <1>1, <1>2, <4>1, AheadTail DEF PInv, HelloFirst
      <4>3. ~Has(outbox, OpenStates("hello"))
        BY <4>2 DEF Has, OpenStates
      <4>. QED
        BY <1>2, <3>2, <4>1, <4>2, <4>3 DEF PInv, UnlockFollows
    <3>. QED
      BY <3>1, <3>2
  <2>7. CASE /\ line \notin LockedLines /\ line \notin Unlocks
             /\ line \notin Listings(Vaults \cup {None}) /\ line \notin OpenStates("status")
    <3>1. picker'.rows = picker.rows /\ line \notin Listings(Vaults)
      BY <2>7 DEF Handles, Listings
    <3>. QED
      BY <1>2, <1>4, <1>5, <2>2, <2>7, <3>1
  <2>. QED
    BY <2>3, <2>4, <2>5, <2>6, <2>7
<1>13. /\ outbox' \in Seq(Events \cup Replies) /\ Len(outbox') <= OutCap + 1
       /\ prompt = "mine" => Len(outbox') <= OutCap
  BY <1>1 DEF Lines, PInv, Shape
<1>14. TypeOK'
  BY <1>4, <1>13 DEF PInv, TypeOK, StreamTypeOK
<1>15. Shape'
  BY <1>2, <1>4, <1>13 DEF PInv, Shape
<1>. QED
  BY <1>7, <1>8, <1>9, <1>10, <1>11, <1>12, <1>14, <1>15 DEF PInv

LEMMA RefreshAsks ==
    ASSUME NEW v
    PROVE  /\ Refresh(v) \in {<< >>, <<"list">>}
           /\ ~v.locked => Refresh(v) = <<"list">>
BY DEF Refresh

LEMMA ClientTyped ==
    ASSUME PInv
    PROVE  /\ view \in [locked : BOOLEAN, activeVault : Vaults \cup {None}]
           /\ picker \in [opened : BOOLEAN, rows : Vaults \cup {None}]
           /\ since \in [listed : BOOLEAN, summoned : BOOLEAN]
BY DEF PInv, TypeOK

LEMMA ReadResponseStep ==
    ASSUME PInv, link, outbox # << >>, HandleResponse(Head(outbox)), outbox' = Tail(outbox),
           UNCHANGED <<mgr, up, prompt, served, subscribed, recv, told, dirty, link>>
    PROVE  PInv'
<1>1. PICK line : line = Head(outbox)
  OBVIOUS
<1>2. PICK ops : ops = CallbackSends(line)
  OBVIOUS
<1>3. /\ line \in Replies /\ picker' = CallbackPicker(line) /\ Send(ops)
      /\ view' = Track(view, line)
      /\ since' = IF line.re = "list" /\ line.ok THEN [since EXCEPT !.listed = TRUE] ELSE since
  BY <1>1, <1>2 DEF HandleResponse
<1>4. /\ line.says \in {"locked", "unlocked", "unsaid"} /\ line.ok \in BOOLEAN
      /\ line.vault \in Vaults \cup {None} /\ line.from \in Vaults \cup {None}
  BY <1>3 DEF Replies
<1>5. /\ line \notin Clears /\ line \notin Unlocks
      /\ line \in LockedLines <=> line.says = "locked"
      /\ line \in UnlockedLines <=> line.says = "unlocked"
      /\ \A v \in Vaults : line \in VaultLines(v) <=> line.vault = v
  BY <1>3, LinesOfReplies
<1>6. /\ view'.locked = IF line \in LockedLines THEN TRUE
                        ELSE IF line \in UnlockedLines THEN FALSE ELSE view.locked
      /\ \A v \in Vaults : line \in VaultLines(v) => view'.activeVault = v
      /\ (\A v \in Vaults : line \notin VaultLines(v)) => view'.activeVault = view.activeVault
      /\ view' \in [locked : BOOLEAN, activeVault : Vaults \cup {None}]
  BY <1>3, <1>4, <1>5, ClientTyped, VaultAssumption DEF Track
<1>7. line \in Listings(Vaults \cup {None}) <=> line.re = "list" /\ line.ok
  BY <1>3, <1>4 DEF Listings
<1>8. /\ picker' \in [opened : BOOLEAN, rows : Vaults \cup {None}]
      /\ picker'.opened => picker.opened
      /\ line.re = "list" /\ line.ok => picker'.rows = line.from
      /\ ~(line.re = "list" /\ line.ok) =>
            \/ picker'.rows = picker.rows
            \/ picker'.rows = None /\ line.says = "locked"
  <2>1. CASE line.re = "status" /\ picker.opened /\ line.says = "locked"
    BY <1>3, <2>1, ClientTyped DEF CallbackPicker, Clear
  <2>2. CASE line.re = "list" /\ line.ok
    BY <1>3, <1>4, <2>2, ClientTyped DEF CallbackPicker
  <2>3. CASE line.re = "copy" /\ line.ok
    BY <1>3, <2>3, ClientTyped DEF CallbackPicker, Dismiss
  <2>4. CASE /\ ~(line.re = "status" /\ picker.opened /\ line.says = "locked")
             /\ ~(line.re = "list" /\ line.ok) /\ ~(line.re = "copy" /\ line.ok)
    <3>1. picker' = picker
      BY <1>3, <2>4 DEF CallbackPicker
    <3>. QED
      BY <2>4, <3>1, ClientTyped
  <2>. QED
    BY <2>1, <2>2, <2>3, <2>4
<1>9. /\ since' \in [listed : BOOLEAN, summoned : BOOLEAN]
      /\ since'.summoned = since.summoned
      /\ ~(line.re = "list" /\ line.ok) => since' = since
  BY <1>3, ClientTyped
<1>10. /\ ops \in {<< >>, <<"list">>}
       /\ line \in OpenStates("status") /\ picker.opened /\ ~view.locked => ops = <<"list">>
  BY <1>2, RefreshAsks DEF CallbackSends, OpenStates, Answers
<1>11. Handles(line, ops)
  BY <1>5, <1>6, <1>7, <1>8, <1>9, <1>10 DEF Handles
<1>. QED
  BY <1>1, <1>3, <1>6, <1>8, <1>9, <1>11, ReadStep

LEMMA ReadEventStep ==
    ASSUME PInv, link, outbox # << >>, HandleNotice(Head(outbox)), outbox' = Tail(outbox),
           UNCHANGED <<mgr, up, prompt, served, subscribed, recv, told, dirty, link>>
    PROVE  PInv'
<1>1. PICK line : line = Head(outbox)
  OBVIOUS
<1>2. PICK ops : ops = EventSends(line)
  OBVIOUS
<1>3. /\ line \in Events /\ view' = View(line) /\ picker' = EventPicker(line)
      /\ Send(ops) /\ since' = since
  BY <1>1, <1>2 DEF HandleNotice
<1>4. ops \in {<< >>, <<"list">>}
  BY <1>2, RefreshAsks DEF EventSends
<1>5. \A op, W : line \notin Listings(W) /\ line \notin OpenStates(op)
  BY <1>3, EventsAnswerNothing
<1>. DEFINE Good == /\ Handles(line, ops)
                    /\ view' \in [locked : BOOLEAN, activeVault : Vaults \cup {None}]
                    /\ picker' \in [opened : BOOLEAN, rows : Vaults \cup {None}]
<1>6. ASSUME line = ChangedEvent PROVE Good
  <2>1. view' = view /\ picker' = picker
    BY <1>3, <1>6 DEF View, EventPicker, ChangedEvent
  <2>2. line \notin LockedLines /\ line \notin UnlockedLines /\ line \notin Clears /\ line \notin Unlocks
    BY <1>6, LockLinesOfEvents DEF LockedLines, UnlockedLines
  <2>3. \A v \in Vaults : line \notin VaultLines(v)
    BY <1>6, VaultLinesOfEvents
  <2>. QED
    BY <1>3, <1>4, <1>5, <2>1, <2>2, <2>3, ClientTyped DEF Handles
<1>7. ASSUME line = LockedEvent PROVE Good
  <2>1. view' = [locked |-> TRUE, activeVault |-> view.activeVault]
    BY <1>3, <1>7 DEF View, HandleEvent, ChangedEvent, LockedEvent
  <2>2. picker' = Clear(picker)
    BY <1>3, <1>7 DEF EventPicker, LockedEvent
  <2>3. line \in LockedLines /\ line \notin UnlockedLines /\ line \notin Unlocks
    BY <1>7, LockLinesOfEvents DEF UnlockedLines
  <2>4. \A v \in Vaults : line \notin VaultLines(v)
    BY <1>7, VaultLinesOfEvents
  <2>5. /\ view'.locked = TRUE /\ view'.activeVault = view.activeVault
        /\ view' \in [locked : BOOLEAN, activeVault : Vaults \cup {None}]
    BY <2>1, ClientTyped
  <2>6. /\ picker'.opened = picker.opened /\ picker'.rows = None
        /\ picker' \in [opened : BOOLEAN, rows : Vaults \cup {None}]
    BY <2>2, ClientTyped DEF Clear
  <2>. QED
    BY <1>3, <1>4, <1>5, <2>3, <2>4, <2>5, <2>6 DEF Handles
<1>8. ASSUME \E v \in Vaults : line = SwitchedEvent(v) PROVE Good
  <2>1. PICK v \in Vaults : line = SwitchedEvent(v)
    BY <1>8
  <2>2. view' = [locked |-> TRUE, activeVault |-> v]
    BY <1>3, <2>1 DEF View, HandleEvent, ChangedEvent, SwitchedEvent
  <2>3. picker' = Clear(picker)
    BY <1>3, <2>1 DEF EventPicker, SwitchedEvent
  <2>4. line \in LockedLines /\ line \notin UnlockedLines /\ line \notin Unlocks
    BY <2>1, LockLinesOfEvents DEF UnlockedLines
  <2>5. \A w \in Vaults : line \in VaultLines(w) <=> w = v
    BY <2>1, VaultLinesOfEvents
  <2>. QED
    BY <1>3, <1>4, <1>5, <2>2, <2>3, <2>4, <2>5, ClientTyped DEF Handles, Clear
<1>9. ASSUME \E v \in Vaults : line = UnlockedEvent(v) PROVE Good
  <2>1. PICK v \in Vaults : line = UnlockedEvent(v)
    BY <1>9
  <2>2. view' = [locked |-> FALSE, activeVault |-> v]
    BY <1>3, <2>1 DEF View, HandleEvent, ChangedEvent, UnlockedEvent
  <2>3. picker' = picker
    BY <1>3, <2>1 DEF EventPicker, UnlockedEvent
  <2>4. line \notin LockedLines /\ line \in UnlockedLines /\ line \notin Clears
    BY <2>1, LockLinesOfEvents DEF LockedLines
  <2>5. \A w \in Vaults : line \in VaultLines(w) <=> w = v
    BY <2>1, VaultLinesOfEvents
  <2>6. ops = <<"list">>
    <3>1. ops = Refresh(View(line)) /\ ~View(line).locked
      BY <1>2, <1>3, <2>1, <2>2 DEF EventSends, UnlockedEvent
    <3>. QED
      BY <3>1, RefreshAsks
  <2>. QED
    BY <1>3, <1>5, <2>2, <2>3, <2>4, <2>5, <2>6, ClientTyped DEF Handles
<1>10. Good
  BY <1>3, <1>6, <1>7, <1>8, <1>9 DEF Events
<1>. QED
  BY <1>1, <1>3, <1>10, ClientTyped, ReadStep

LEMMA ConnectStep == ASSUME PInv, Connect PROVE PInv'
<1>1. /\ ~link /\ up /\ link' = TRUE /\ served' = TRUE /\ told' = "all"
      /\ since' = [listed |-> FALSE, summoned |-> FALSE]
      /\ UNCHANGED <<mgr, up, prompt, subscribed, recv, outbox, dirty, view, picker>>
  BY DEF Connect
<1>2. PICK ops \in {<< >>, <<"list">>} : inbox' = ops \o <<"subscribe", "hello">>
  BY RefreshAsks DEF Connect
<1>3. ~served /\ recv = << >> /\ outbox = << >> /\ prompt # "mine"
  BY <1>1 DEF PInv, Shape, TypeOK
<1>4. /\ inbox' \in Seq(Ops) /\ Asked("hello")'
      /\ Ahead(inbox', {"hello"}, {"status"})
  <2>. DEFINE Plain == Ops \ {"status"}
              p      == <<"subscribe", "hello">>
  <2>1. ops \in Seq(Plain) /\ p \in Seq(Plain) /\ Len(p) = 2 /\ p[2] = "hello"
    <3>1. /\ "list" \in Plain /\ "subscribe" \in Plain /\ "hello" \in Plain
      BY DEF Ops
    <3>. HIDE DEF Plain
    <3>2. << >> \in Seq(Plain) /\ <<"list">> \in Seq(Plain)
      BY <3>1
    <3>3. p \in Seq(Plain) /\ Len(p) = 2 /\ p[2] = "hello"
      BY <3>1
    <3>. QED
      BY <3>2, <3>3
  <2>. HIDE DEF Plain, p
  <2>2. inbox' \in Seq(Plain)
    BY <1>2, <2>1 DEF p
  <2>3. /\ Len(ops) + 2 \in DOMAIN (ops \o p)
        /\ (ops \o p)[Len(ops) + 2] = p[2]
    <3>1. PICK s \in Seq(Plain), t \in Seq(Plain) : s = ops /\ t = p /\ Len(t) = 2
      BY <2>1
    <3>2. /\ Len(s \o t) = Len(s) + Len(t) /\ Len(s) \in Nat
          /\ s \o t \in Seq(Plain)
      OBVIOUS
    <3>3. \A i \in 1..Len(t) : (s \o t)[Len(s) + i] = t[i]
      OBVIOUS
    <3>. QED
      BY <3>1, <3>2, <3>3
  <2>4. Asked("hello")'
    BY <1>2, <2>1, <2>3 DEF Asked, Has, p
  <2>5. Ahead(inbox', {"hello"}, {"status"})
    BY <2>2 DEF Ahead, Plain
  <2>6. inbox' \in Seq(Ops)
    BY <2>2 DEF Plain
  <2>. QED
    BY <2>4, <2>5, <2>6
<1>5. \A P, S, t : Followed(outbox', t, P, S) /\ ~Has(outbox', S)
  BY <1>1, <1>3, FollowedEmpty, HasEmpty
<1>6. EventsAgree' /\ LinesAgree' /\ ViewAgrees'
  BY <1>1, <1>4, <1>5 DEF PInv, EventsAgree, LinesAgree, ViewAgrees, Agreeing
<1>7. RowsAgree' /\ UnlockFollows' /\ Filling'
  BY <1>1, <1>4, <1>5 DEF RowsAgree, UnlockFollows, Filling, Listed
<1>8. HelloFirst'
  BY <1>1, <1>3, <1>4, <1>5 DEF HelloFirst, Ahead
<1>9. TypeOK'
  BY <1>1, <1>4 DEF PInv, TypeOK, StreamTypeOK
<1>10. Shape'
  BY <1>1, <1>3, <1>5 DEF PInv, Shape
<1>. QED
  BY <1>6, <1>7, <1>8, <1>9, <1>10 DEF PInv

LEMMA DisconnectStep == ASSUME PInv, Disconnect PROVE PInv'
<1>1. /\ link /\ ~served /\ link' = FALSE /\ outbox' = << >>
      /\ UNCHANGED <<mgr, up, prompt, served, subscribed, recv, inbox, told, dirty,
                     view, picker, since>>
  BY DEF Disconnect
<1>2. EventsAgree' /\ LinesAgree' /\ ViewAgrees' /\ RowsAgree' /\ UnlockFollows' /\ Filling'
  BY <1>1 DEF PInv, EventsAgree, LinesAgree, ViewAgrees, RowsAgree, UnlockFollows, Filling
<1>3. HelloFirst'
  BY <1>1 DEF PInv, HelloFirst, Ahead
<1>4. TypeOK'
  <2>1. outbox' \in Seq(Events \cup Replies) /\ Len(outbox') <= OutCap + 1
    BY <1>1, StreamAssumption
  <2>2. StreamTypeOK'
    BY <1>1, <2>1 DEF PInv, TypeOK, StreamTypeOK
  <2>. QED
    BY <1>1, <2>2 DEF PInv, TypeOK
<1>5. Shape'
  BY <1>1, HasEmpty, StreamAssumption DEF PInv, Shape
<1>. QED
  BY <1>2, <1>3, <1>4, <1>5 DEF PInv

(* A key or a timer: at most one request is sent, rows may be cleared.     *)
LEMMA UserStep ==
    ASSUME PInv, NEW op \in Ops, op # "hello",
           UNCHANGED inbox \/ (served /\ inbox' = Append(inbox, op)),
           picker' \in [opened : BOOLEAN, rows : {picker.rows, None}],
           since' \in [listed : {since.listed}, summoned : BOOLEAN],
           served /\ picker'.opened /\ since'.summoned =>
               \/ /\ picker.opened /\ since.summoned
                  /\ picker'.rows = picker.rows \/ Asked("lock")'
               \/ Asked("status")',
           UNCHANGED <<mgr, up, prompt, served, subscribed, recv, outbox, told, dirty,
                       link, view>>
    PROVE  PInv'
<1>1. inbox \in Seq(Ops)
  BY DEF PInv, TypeOK, StreamTypeOK
<1>2. /\ inbox' \in Seq(Ops) /\ (~served => inbox' = inbox)
      /\ \A o \in Ops : /\ Asked(o) => Asked(o)'
                        /\ o # op /\ Asked(o)' => Asked(o)
      /\ Ahead(inbox, {"hello"}, {"status"}) => Ahead(inbox', {"hello"}, {"status"})
  <2>1. CASE UNCHANGED inbox
    BY <1>1, <2>1 DEF Asked
  <2>2. CASE served /\ inbox' = Append(inbox, op)
    <3>1. \A o \in Ops : Has(inbox', {o}) <=> Has(inbox, {o}) \/ op = o
      BY <1>1, <2>2, HasAppend
    <3>2. \A o \in Ops : Asked(o)' <=> Asked(o) \/ op = o
      BY <3>1 DEF Asked
    <3>3. Ahead(inbox, {"hello"}, {"status"}) => Ahead(inbox', {"hello"}, {"status"})
      BY <1>1, <2>2, AheadAppend
    <3>4. inbox' \in Seq(Ops)
      BY <1>1, <2>2
    <3>. QED
      BY <2>2, <3>2, <3>3, <3>4
  <2>. QED
    BY <2>1, <2>2
<1>3. {"hello", "status", "list", "lock"} \subseteq Ops
  BY DEF Ops
<1>4. EventsAgree' /\ LinesAgree' /\ ViewAgrees'
  BY <1>2, <1>3 DEF PInv, EventsAgree, LinesAgree, ViewAgrees
<1>5. RowsAgree'
  <2>1. /\ picker'.rows = picker.rows \/ picker'.rows = None
        /\ since'.listed = since.listed
    OBVIOUS
  <2>. QED
    BY <2>1 DEF PInv, RowsAgree, Listed
<1>6. UnlockFollows'
  BY <1>2, <1>3 DEF PInv, UnlockFollows
<1>7. HelloFirst'
  BY <1>2, <1>3 DEF PInv, HelloFirst
<1>8. Filling'
  BY <1>2, <1>3 DEF PInv, Filling
<1>9. TypeOK'
  BY <1>2 DEF PInv, TypeOK, StreamTypeOK
<1>10. Shape'
  BY <1>2 DEF PInv, Shape
<1>. QED
  BY <1>4, <1>5, <1>6, <1>7, <1>8, <1>9, <1>10 DEF PInv

LEMMA SendOne ==
    ASSUME PInv, NEW op \in Ops, IF link THEN Send(<<op>>) ELSE UNCHANGED inbox
    PROVE  /\ UNCHANGED inbox \/ (served /\ inbox' = Append(inbox, op))
           /\ served => Asked(op)'
<1>1. inbox \in Seq(Ops) /\ (served => link)
  BY DEF PInv, TypeOK, StreamTypeOK
<1>2. UNCHANGED inbox \/ (served /\ inbox' = Append(inbox, op))
  BY <1>1 DEF Send
<1>3. ASSUME served PROVE Asked(op)'
  <2>1. inbox' = Append(inbox, op)
    BY <1>1, <1>3 DEF Send
  <2>2. Has(inbox', {op})
    BY <1>1, <2>1, HasAppend
  <2>. QED
    BY <2>2 DEF Asked
<1>. QED
  BY <1>2, <1>3

LEMMA UserOpens ==
    ASSUME PInv, Open, UNCHANGED <<mgr, up, prompt, served, subscribed, recv, outbox, told, dirty>>
    PROVE  PInv'
<1>1. "status" \in Ops
  BY DEF Ops
<1>2. /\ IF link THEN Send(<<"status">>) ELSE UNCHANGED inbox
      /\ picker' = [picker EXCEPT !.opened = TRUE]
      /\ since' = [since EXCEPT !.summoned = link]
      /\ UNCHANGED <<link, view>>
  BY DEF Open
<1>3. /\ UNCHANGED inbox \/ (served /\ inbox' = Append(inbox, "status"))
      /\ served => Asked("status")'
  BY <1>1, <1>2, SendOne
<1>4. picker' \in [opened : BOOLEAN, rows : {picker.rows, None}]
  BY <1>2, ClientTyped
<1>5. since' \in [listed : {since.listed}, summoned : BOOLEAN]
  BY <1>2, ClientTyped DEF PInv, TypeOK
<1>. QED
  BY <1>1, <1>2, <1>3, <1>4, <1>5, UserStep

LEMMA UserCloses ==
    ASSUME PInv, Close, UNCHANGED <<mgr, up, prompt, served, subscribed, recv, outbox, told, dirty>>
    PROVE  PInv'
<1>1. "status" \in Ops
  BY DEF Ops
<1>2. picker' = Dismiss(picker) /\ UNCHANGED <<inbox, link, view, since>>
  BY DEF Close
<1>3. picker' \in [opened : BOOLEAN, rows : {picker.rows, None}] /\ ~picker'.opened
  BY <1>2, ClientTyped DEF Dismiss
<1>4. since' \in [listed : {since.listed}, summoned : BOOLEAN]
  BY <1>2, ClientTyped
<1>. QED
  BY <1>1, <1>2, <1>3, <1>4, UserStep

LEMMA UserUnlocks ==
    ASSUME PInv, RequestUnlock,
           UNCHANGED <<mgr, up, prompt, served, subscribed, recv, outbox, told, dirty>>
    PROVE  PInv'
<1>1. "unlock" \in Ops
  BY DEF Ops
<1>2. /\ IF link THEN Send(<<"unlock">>) ELSE UNCHANGED inbox
      /\ picker' = Dismiss(picker) /\ UNCHANGED <<link, view, since>>
  BY DEF RequestUnlock
<1>3. picker' \in [opened : BOOLEAN, rows : {picker.rows, None}] /\ ~picker'.opened
  BY <1>2, ClientTyped DEF Dismiss
<1>4. since' \in [listed : {since.listed}, summoned : BOOLEAN]
  BY <1>2, ClientTyped
<1>5. UNCHANGED inbox \/ (served /\ inbox' = Append(inbox, "unlock"))
  BY <1>1, <1>2, SendOne
<1>. QED
  BY <1>1, <1>2, <1>3, <1>4, <1>5, UserStep

LEMMA UserLocks ==
    ASSUME PInv, PressLock,
           UNCHANGED <<mgr, up, prompt, served, subscribed, recv, outbox, told, dirty>>
    PROVE  PInv'
<1>1. "lock" \in Ops
  BY DEF Ops
<1>2. /\ IF link THEN Send(<<"lock">>) ELSE UNCHANGED inbox
      /\ picker' = Clear(picker) /\ picker.opened /\ UNCHANGED <<link, view, since>>
  BY DEF PressLock
<1>3. picker' \in [opened : BOOLEAN, rows : {picker.rows, None}]
  BY <1>2, ClientTyped DEF Clear
<1>4. since' \in [listed : {since.listed}, summoned : BOOLEAN]
  BY <1>2, ClientTyped
<1>5. /\ UNCHANGED inbox \/ (served /\ inbox' = Append(inbox, "lock"))
      /\ served => Asked("lock")'
  BY <1>1, <1>2, SendOne
<1>. QED
  BY <1>1, <1>2, <1>3, <1>4, <1>5, UserStep

LEMMA UserTypes ==
    ASSUME PInv, QueryDebounce,
           UNCHANGED <<mgr, up, prompt, served, subscribed, recv, outbox, told, dirty>>
    PROVE  PInv'
<1>1. "list" \in Ops
  BY DEF Ops
<1>2. Send(Refresh(view)) /\ link /\ UNCHANGED clientVars
  BY DEF QueryDebounce
<1>3. picker' = picker /\ since' = since /\ link' = link /\ view' = view
  BY <1>2 DEF clientVars
<1>4. picker' \in [opened : BOOLEAN, rows : {picker.rows, None}]
  BY <1>3, ClientTyped
<1>5. since' \in [listed : {since.listed}, summoned : BOOLEAN]
  BY <1>3, ClientTyped
<1>6. UNCHANGED inbox \/ (served /\ inbox' = Append(inbox, "list"))
  <2>1. inbox \in Seq(Ops)
    BY DEF PInv, TypeOK, StreamTypeOK
  <2>2. Refresh(view) = << >> \/ Refresh(view) = <<"list">>
    BY RefreshAsks
  <2>. QED
    BY <1>1, <1>2, <2>1, <2>2 DEF Send
<1>. QED
  BY <1>1, <1>3, <1>4, <1>5, <1>6, UserStep

LEMMA UserActivates ==
    ASSUME PInv, Activate,
           UNCHANGED <<mgr, up, prompt, served, subscribed, recv, outbox, told, dirty>>
    PROVE  PInv'
<1>1. "copy" \in Ops
  BY DEF Ops
<1>2. /\ IF link THEN Send(<<"copy">>) ELSE UNCHANGED inbox
      /\ UNCHANGED clientVars
  BY DEF Activate
<1>3. picker' = picker /\ since' = since /\ link' = link /\ view' = view
  BY <1>2 DEF clientVars
<1>4. picker' \in [opened : BOOLEAN, rows : {picker.rows, None}]
  BY <1>3, ClientTyped
<1>5. since' \in [listed : {since.listed}, summoned : BOOLEAN]
  BY <1>3, ClientTyped
<1>6. UNCHANGED inbox \/ (served /\ inbox' = Append(inbox, "copy"))
  BY <1>1, <1>2, SendOne
<1>. QED
  BY <1>1, <1>3, <1>4, <1>5, <1>6, UserStep

-----------------------------------------------------------------------------
(* The invariant holds.                                                    *)

LEMMA InitPInv == Init => PInv
<1>. SUFFICES ASSUME Init PROVE PInv
  OBVIOUS
<1>1. /\ mgr = NewManager /\ up = TRUE /\ prompt = "none"
      /\ served = FALSE /\ subscribed = FALSE
      /\ recv = << >> /\ inbox = << >> /\ outbox = << >>
      /\ told = "all" /\ dirty = FALSE /\ link = FALSE
      /\ view = [locked |-> TRUE, activeVault |-> None]
      /\ picker = [opened |-> FALSE, rows |-> None]
      /\ since = [listed |-> FALSE, summoned |-> FALSE]
  BY DEF Init, StreamInit
<1>2. /\ mgr \in Managers /\ mgr.state = "Locked" /\ mgr.loaded = None
  BY <1>1, VaultAssumption DEF NewManager, Managers, States
<1>3. /\ recv \in Seq(Events) /\ Len(recv) <= Cap
      /\ inbox \in Seq(Ops)
      /\ outbox \in Seq(Events \cup Replies) /\ Len(outbox) <= OutCap + 1
      /\ Len(outbox) <= OutCap
  BY <1>1, StreamAssumption
<1>4. StreamTypeOK
  BY <1>1, <1>2, <1>3 DEF StreamTypeOK
<1>5. TypeOK
  BY <1>1, <1>4 DEF TypeOK
<1>6. Shape
  BY <1>1, <1>2, HasEmpty DEF Shape
<1>7. EventsAgree
  BY <1>1, FollowedEmpty DEF EventsAgree, Agreeing
<1>8. LinesAgree /\ ViewAgrees /\ RowsAgree /\ UnlockFollows /\ Filling
  BY <1>1 DEF LinesAgree, ViewAgrees, RowsAgree, UnlockFollows, Filling
<1>9. HelloFirst
  BY <1>1 DEF HelloFirst, Ahead
<1>. QED
  BY <1>5, <1>6, <1>7, <1>8, <1>9 DEF PInv

LEMMA StutterPInv == ASSUME PInv, UNCHANGED vars PROVE PInv'
<1>1. /\ mgr' = mgr /\ up' = up /\ prompt' = prompt /\ served' = served
      /\ subscribed' = subscribed /\ recv' = recv /\ inbox' = inbox /\ outbox' = outbox
      /\ told' = told /\ dirty' = dirty
      /\ link' = link /\ view' = view /\ picker' = picker /\ since' = since
  BY DEF vars, streamVars, clientVars
<1>2. TypeOK' /\ Shape'
  BY <1>1 DEF PInv, TypeOK, StreamTypeOK, Shape
<1>3. EventsAgree' /\ LinesAgree' /\ ViewAgrees' /\ RowsAgree'
  BY <1>1 DEF PInv, EventsAgree, LinesAgree, ViewAgrees, RowsAgree, Asked
<1>4. UnlockFollows' /\ HelloFirst' /\ Filling'
  BY <1>1 DEF PInv, UnlockFollows, HelloFirst, Filling, Asked
<1>. QED
  BY <1>2, <1>3, <1>4 DEF PInv

LEMMA DaemonPInv == ASSUME PInv, Daemon PROVE PInv'
<1>1. UNCHANGED clientVars
  BY DEF Daemon
<1>2. CASE OthersLock \/ OthersUnlock \/ FileChanges \/ Debounce
  BY <1>1, <1>2, OthersLockStep, OthersUnlockStep, FileChangesStep, DebounceStep
<1>3. CASE \E v \in Vaults : OthersUse(v)
  BY <1>1, <1>3, OthersUseStep
<1>4. CASE \E o \in BOOLEAN : TheirPromptReturns(o)
  BY <1>1, <1>4, TheirPromptReturnsStep
<1>5. CASE \E o \in BOOLEAN : MyPromptReturns(o)
  BY <1>1, <1>5, MyPromptReturnsStep
<1>6. CASE ServeSubscribe \/ ServeLock \/ ServeUnlock
  BY <1>1, <1>6, ServeSubscribeStep, ServeLockStep, ServeUnlockStep
<1>7. CASE \E op \in Ops : ServeState(op) \/ ServeRead(op)
  BY <1>1, <1>7, ServeStateStep, ServeReadStep
<1>8. CASE Forward \/ DaemonStarts \/ DaemonEnds
  BY <1>1, <1>8, ForwardStep, DaemonStartsStep, DaemonEndsStep
<1>. QED
  BY <1>2, <1>3, <1>4, <1>5, <1>6, <1>7, <1>8 DEF Daemon, Others, Serve

LEMMA NextPInv == ASSUME PInv, [Next]_vars PROVE PInv'
<1>1. CASE Daemon
  BY <1>1, DaemonPInv
<1>2. CASE ReadLine
  BY <1>2, ReadResponseStep, ReadEventStep DEF ReadLine
<1>3. CASE Connect \/ Disconnect
  BY <1>3, ConnectStep, DisconnectStep
<1>4. CASE User
  BY <1>4, UserOpens, UserCloses, UserUnlocks, UserLocks, UserTypes, UserActivates DEF User
<1>5. CASE UNCHANGED vars
  BY <1>5, StutterPInv
<1>. QED
  BY <1>1, <1>2, <1>3, <1>4, <1>5 DEF Next

(* In every state that the shell and the daemon reach, for every size of   *)
(* the receiver, the socket and the backlog, lines that state what is no   *)
(* longer true are followed by lines that state what is: PInv holds.       *)
THEOREM LinesFollow == Spec => []PInv
<1>1. PInv /\ [Next]_vars => PInv'
  BY NextPInv
<1>. QED
  BY InitPInv, <1>1, PTL DEF Spec

(* Every variable of the connection and of the client keeps its type; in   *)
(* particular neither the receiver nor the socket outgrows its size.       *)
THEOREM PickerTypeCorrect == Spec => []TypeOK
<1>1. PInv => TypeOK
  BY DEF PInv
<1>. QED
  BY LinesFollow, <1>1, PTL

LEMMA Emptied ==
    ASSUME PInv, Settled
    PROVE  /\ served
           /\ \A op : ~Asked(op)
           /\ \A S : ~Has(outbox, S) /\ ~Has(recv, S)
BY HasEmpty DEF Settled, Asked

(* Subscribing and saying hello on every connection is enough: the copy    *)
(* that OmarkeyClient.qml keeps of lock state and active database is the   *)
(* daemon's once everything in flight is handled.                          *)
THEOREM CopyCorrect == Spec => []ClientAgrees
<1>1. ASSUME PInv PROVE ClientAgrees
  <2>. SUFFICES ASSUME Settled, told # "less"
                PROVE  view.locked = IsLocked(mgr) /\ view.activeVault = mgr.active
    BY DEF ClientAgrees
  <2>1. Copied(outbox, recv, mgr, view)
    BY <1>1, Emptied DEF PInv, ViewAgrees
  <2>. QED
    BY <1>1, <2>1, Emptied DEF Copied
<1>. QED
  BY LinesFollow, <1>1, PTL

(* The rows that Menu.qml lists over a connection are those of the open    *)
(* database once everything in flight is handled: the events that clear    *)
(* them come after the listings that no longer hold.                       *)
THEOREM RowsCorrect == Spec => []RowsMatch
<1>1. ASSUME PInv PROVE RowsMatch
  <2>. SUFFICES ASSUME Settled, told = "all", since.listed, picker.rows # None
                PROVE  picker.rows = mgr.loaded
    BY DEF RowsMatch
  <2>1. Listed(outbox, recv, mgr, picker, since)
    BY <1>1, Emptied DEF PInv, RowsAgree
  <2>. QED
    BY <1>1, <2>1, Emptied DEF Listed
<1>. QED
  BY LinesFollow, <1>1, PTL

(* A picker opened over a live connection lists the open database once     *)
(* everything in flight is handled, although the status callback looks at  *)
(* the copy from before its own response.                                  *)
THEOREM FillCorrect == Spec => []PickerFills
<1>1. ASSUME PInv PROVE PickerFills
  <2>. SUFFICES ASSUME Settled, told = "all", picker.opened, since.summoned, ~IsLocked(mgr)
                PROVE  picker.rows # None
    BY DEF PickerFills
  <2>. QED
    BY <1>1, Emptied DEF PInv, Filling
<1>. QED
  BY LinesFollow, <1>1, PTL
=============================================================================
