------------------------------ MODULE Pinentry ------------------------------
(***************************************************************************)
(* The Assuan dialogue with pinentry after its greeting                    *)
(* (daemon/src/security.rs: prompt_master_password).  Four commands are    *)
(* sent, the last one GETPIN, each after the answer to the one before; so  *)
(* the dialogue is a fold over the lines pinentry writes.                  *)
(***************************************************************************)
EXTENDS Integers, SequencesExt

CONSTANTS
    Pins,           \* the data of D lines, as pinentry writes it
    MaxLines        \* bound: lines that pinentry writes before it closes

ASSUME PinentryAssumption == MaxLines \in Nat

Commands == 4       \* SETTITLE, SETDESC, SETPROMPT, GETPIN

Lines == [kind : {"D"}, pin : Pins]
    \cup [kind : {"ERR"}, cancel : BOOLEAN]     \* 83886179 or "cancel"
    \cup [kind : {"OK", "other"}]               \* other: S, #, INQUIRE, noise

Dialogues == BoundedSeq(Lines, MaxLines)

(* The command that waits for its OK, the data since it was sent, the end. *)
Begin == [command |-> 1, pin |-> {}, end |-> "open"]

End(s) == IF s.pin = {} THEN "no PIN" ELSE "pin"

(* Seeded fault: data is kept from one command to the next. *)
Accept_Keeps(s) ==
    IF s.command = Commands THEN [s EXCEPT !.end = End(s)]
    ELSE [s EXCEPT !.command = @ + 1]

(* OK: the next command, with no data yet; after GETPIN, the end. *)
Accept(s) ==
    IF s.command = Commands THEN [s EXCEPT !.end = End(s)]
    ELSE [s EXCEPT !.command = @ + 1, !.pin = {}]

HearLine(s, line) ==
    CASE s.end # "open"      -> s
      [] s.end = "open" /\ line.kind = "D"     -> [s EXCEPT !.pin = {line.pin}]
      [] s.end = "open" /\ line.kind = "OK"    -> Accept(s)
      [] s.end = "open" /\ line.kind = "ERR"   ->
            [s EXCEPT !.end = IF line.cancel THEN "cancelled" ELSE "error"]
      [] s.end = "open" /\ line.kind = "other" -> s

(* The outcome; pinentry closes after its last line. *)
Prompt(lines) ==
    LET s == FoldLeft(HearLine, Begin, lines)
    IN  [end |-> IF s.end = "open" THEN "closed" ELSE s.end,
         pin |-> IF s.end = "pin" THEN s.pin ELSE {}]

-----------------------------------------------------------------------------
(* The reference.                                                          *)

Accepted(lines, n) == {i \in 1..n : lines[i].kind = "OK"}

(* GETPIN has been sent and the n-th line answers it with OK. *)
AnswersGetPin(lines, n) ==
    /\ lines[n].kind = "OK"
    /\ Cardinality(Accepted(lines, n)) = Commands
    /\ \A i \in 1..n : lines[i].kind # "ERR"

(* The last data of the answer to GETPIN, if there is any. *)
DataOf(lines, n) ==
    {lines[i].pin : i \in {j \in 1..n :
        /\ lines[j].kind = "D"
        /\ Cardinality(Accepted(lines, j)) = Commands - 1
        /\ \A k \in (j + 1)..n : lines[k].kind # "D"}}
=============================================================================
