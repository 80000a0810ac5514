------------------------------- MODULE Picker -------------------------------
(***************************************************************************)
(* The shell side of Omarkey (OmarkeyClient.qml, Menu.qml): a copy of the  *)
(* daemon's state that is kept up by responses and events, and a picker    *)
(* that lists the open database.  Qt runs one handler at a time: a line    *)
(* read, a key pressed or a timer fired is one action, with everything its *)
(* callbacks do.  Wording, selection and layout are left out.              *)
(***************************************************************************)
EXTENDS EventStream

CONSTANT MaxPending     \* bound: requests and lines in flight when a key is pressed

ASSUME PickerAssumption == MaxPending \in Nat

VARIABLES
    link,       \* client.connected
    view,       \* client.locked and client.activeVault
    picker,     \* root.opened, and the database whose rows are listed
    since       \* what happened over this connection: rows were listed, the
                \* picker was opened.  No part of the code

clientVars == <<link, view, picker, since>>

vars == <<streamVars, clientVars>>

TypeOK ==
    /\ StreamTypeOK
    /\ link \in BOOLEAN
    /\ served => link /\ up
    /\ view \in [locked : BOOLEAN, activeVault : Vaults \cup {None}]
    /\ picker \in [opened : BOOLEAN, rows : Vaults \cup {None}]
    /\ since \in [listed : BOOLEAN, summoned : BOOLEAN]

Init ==
    /\ StreamInit
    /\ link = FALSE
    /\ view = [locked |-> TRUE, activeVault |-> None]
    /\ picker = [opened |-> FALSE, rows |-> None]
    /\ since = [listed |-> FALSE, summoned |-> FALSE]

-----------------------------------------------------------------------------
(* Sending.                                                                *)

(* client._send: what is written to a connection that the daemon has left  *)
(* is never read.                                                          *)
Send(ops) == inbox' = IF served THEN inbox \o ops ELSE inbox

(* root.refresh, with v as the client's state. *)
Refresh(v) == IF v.locked THEN << >> ELSE <<"list">>

-----------------------------------------------------------------------------
(* _handleLine: a response.  Its callback runs first; the state it carries *)
(* is stored after that.                                                   *)

(* Seeded fault: responses are not looked at for the state they carry. *)
Track_Ignores(v, line) == v

Track(v, line) ==
    [locked      |-> IF line.says = "unsaid" THEN v.locked ELSE line.says = "locked",
     activeVault |-> IF line.vault = None THEN v.activeVault ELSE line.vault]

Dismiss(p) == [p EXCEPT !.opened = FALSE]
Clear(p)   == [p EXCEPT !.rows = None]

(* What the callback of a response makes of the picker, and what it sends. *)
CallbackPicker(line) ==
    CASE line.re = "status" /\ picker.opened /\ line.says = "locked" -> Clear(picker)
      [] line.re = "list" /\ line.ok -> [picker EXCEPT !.rows = line.from]
      [] line.re = "copy" /\ line.ok -> Dismiss(picker)
      [] OTHER                       -> picker

CallbackSends(line) ==
    IF line.re = "status" /\ picker.opened /\ line.says = "unlocked"
    THEN Refresh(view) ELSE << >>

HandleResponse(line) ==
    /\ line \in Replies
    /\ picker' = CallbackPicker(line)
    /\ Send(CallbackSends(line))
    /\ view' = Track(view, line)
    /\ since' = IF line.re = "list" /\ line.ok THEN [since EXCEPT !.listed = TRUE] ELSE since

-----------------------------------------------------------------------------
(* _handleEvent, and the handlers Menu.qml attaches to its signals.        *)

View(e) ==
    IF e = ChangedEvent THEN view
    ELSE HandleEvent(view, e)

(* Seeded fault: the rows stay when the daemon locks. *)
EventPicker_Keeps(e) ==
    IF e.event = "vault-switched" THEN Clear(picker) ELSE picker

EventPicker(e) ==
    IF e.event \in {"locked", "vault-switched"} THEN Clear(picker) ELSE picker

(* Seeded fault: an unlock is not followed by a listing. *)
EventSends_NotOnUnlock(e) ==
    IF e = ChangedEvent /\ picker.opened THEN Refresh(view) ELSE << >>

EventSends(e) ==
    IF \/ e.event = "unlocked"
       \/ e = ChangedEvent /\ picker.opened
    THEN Refresh(View(e)) ELSE << >>

HandleNotice(e) ==
    /\ e \in Events
    /\ view' = View(e)
    /\ picker' = EventPicker(e)
    /\ Send(EventSends(e))
    /\ UNCHANGED since

(* SplitParser hands over one line. *)
ReadLine ==
    /\ link /\ outbox # << >>
    /\ HandleResponse(Head(outbox)) \/ HandleNotice(Head(outbox))
    /\ outbox' = Tail(outbox)
    /\ UNCHANGED <<mgr, up, prompt, served, subscribed, recv, told, dirty, link>>

-----------------------------------------------------------------------------
(* The connection.                                                         *)

(* The timer dials and the daemon accepts, whose receiver starts with the  *)
(* task.  onConnectedChanged: the picker's handler runs before subscribe   *)
(* and hello are sent.                                                     *)
Connect ==
    /\ ~link /\ up
    /\ link' = TRUE /\ served' = TRUE
    /\ inbox' = (IF picker.opened THEN Refresh(view) ELSE << >>) \o <<"subscribe", "hello">>
    /\ told' = "all"
    /\ since' = [listed |-> FALSE, summoned |-> FALSE]
    /\ UNCHANGED <<mgr, up, prompt, subscribed, recv, outbox, dirty, view, picker>>

(* The end of the connection is noticed: every pending callback is called  *)
(* with io-error, which changes the status line only.                      *)
Disconnect ==
    /\ link /\ ~served
    /\ link' = FALSE
    /\ outbox' = << >>
    /\ UNCHANGED <<mgr, up, prompt, served, subscribed, recv, inbox, told, dirty,
                   view, picker, since>>

-----------------------------------------------------------------------------
(* The user.                                                               *)

Calm == Len(inbox) + Len(outbox) < MaxPending

(* Menu.open. *)
Open ==
    /\ Calm /\ ~picker.opened
    /\ picker' = [picker EXCEPT !.opened = TRUE]
    /\ IF link THEN Send(<<"status">>) ELSE UNCHANGED inbox
    /\ since' = [since EXCEPT !.summoned = link]
    /\ UNCHANGED <<link, view>>

(* Escape, a click beside the card, any key but Enter while locked. *)
Close ==
    /\ picker.opened
    /\ picker' = Dismiss(picker)
    /\ UNCHANGED <<inbox, link, view, since>>

(* Enter on the locked screen: dismiss, then ask the daemon. *)
RequestUnlock ==
    /\ Calm /\ picker.opened /\ view.locked
    /\ picker' = Dismiss(picker)
    /\ IF link THEN Send(<<"unlock">>) ELSE UNCHANGED inbox
    /\ UNCHANGED <<link, view, since>>

(* Ctrl+L. *)
PressLock ==
    /\ Calm /\ picker.opened /\ ~view.locked
    /\ picker' = Clear(picker)
    /\ IF link THEN Send(<<"lock">>) ELSE UNCHANGED inbox
    /\ UNCHANGED <<link, view, since>>

(* The query timer, 90 ms after a key that edits the filter: the picker    *)
(* may be closed by then.                                                  *)
QueryDebounce ==
    /\ Calm /\ link
    /\ Send(Refresh(view))
    /\ UNCHANGED clientVars

(* Enter on a row, in any of its forms. *)
Activate ==
    /\ Calm /\ picker.opened /\ ~view.locked /\ picker.rows # None
    /\ IF link THEN Send(<<"copy">>) ELSE UNCHANGED inbox
    /\ UNCHANGED <<clientVars>>

User ==
    /\ Open \/ Close \/ RequestUnlock \/ PressLock \/ QueryDebounce \/ Activate
    /\ UNCHANGED <<mgr, up, prompt, served, subscribed, recv, outbox, told, dirty>>

-----------------------------------------------------------------------------
Others ==
    \/ OthersLock \/ OthersUnlock
    \/ \E v \in Vaults : OthersUse(v)
    \/ \E opened \in BOOLEAN : TheirPromptReturns(opened)
    \/ FileChanges \/ Debounce

Daemon ==
    /\ Others \/ Serve \/ Forward \/ DaemonStarts \/ DaemonEnds
          \/ \E opened \in BOOLEAN : MyPromptReturns(opened)
    /\ UNCHANGED clientVars

Next == Daemon \/ ReadLine \/ Connect \/ Disconnect \/ User

Spec == Init /\ [][Next]_vars

-----------------------------------------------------------------------------
(* What the shell can rely on.                                             *)

(* Every request is answered, every event forwarded, every line handled. *)
Settled ==
    /\ link /\ served /\ subscribed
    /\ inbox = << >> /\ recv = << >> /\ outbox = << >>

(* "Re-establish subscription + state on every (re)connect"                *)
(* (OmarkeyClient.qml): once everything in flight is handled, the client's *)
(* copy is the daemon's state, whatever was locked, switched or unlocked   *)
(* before, between and after subscribe and hello, and in whatever order    *)
(* responses and older events came.  Lag is the exception, until the state *)
(* is stated again.                                                        *)
ClientAgrees ==
    Settled /\ told # "less" =>
        /\ view.locked = IsLocked(mgr)
        /\ view.activeVault = mgr.active

(* Rows listed over this connection are those of the open database, and    *)
(* none are shown of a locked one, once everything in flight is handled.   *)
RowsMatch ==
    Settled /\ told = "all" /\ since.listed /\ picker.rows # None
        => picker.rows = mgr.loaded

(* A picker opened over a live connection shows the open database once     *)
(* everything in flight is handled: "Re-check state with the daemon - an   *)
(* `omarkey unlock' in another process may have landed just before this    *)
(* open(), before our event arrived" (Menu.qml).  The status callback sees *)
(* client.locked from before its own response and lists nothing then: the  *)
(* picker is filled by the event that arrives after it.                    *)
PickerFills ==
    Settled /\ told = "all" /\ picker.opened /\ since.summoned /\ ~IsLocked(mgr)
        => picker.rows # None
=============================================================================
