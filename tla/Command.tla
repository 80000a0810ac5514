------------------------------ MODULE Command ------------------------------
(***************************************************************************)
(* The omarkey command (daemon/src/bin/omarkey.rs): one request, the first *)
(* line of what comes back, an exit status that scripts go by.             *)
(*                                                                         *)
(* What comes back is a sequence of pieces: a JSON object that says ok or  *)
(* that something failed, up to its last brace; that brace; some other     *)
(* JSON value; a blank; the end of a line.  They stop where the daemon     *)
(* stops, anywhere.                                                        *)
(***************************************************************************)
EXTENDS Integers, SequencesExt

CONSTANT MaxPieces  \* bound: the pieces that come back

ASSUME CommandAssumption == MaxPieces \in Nat

Operations == {"unlock", "lock", "status", "hello", "vaults", "use", "list"}
Helps      == {"-h", "--help", "help"}

(* The first argument, if there is one, and whether a second follows. *)
Calls == [cmd : Operations \cup Helps \cup {"unknown", "none"}, named : BOOLEAN]

(* The commands that send a request; without one it is status. *)
Sends(call) ==
    \/ call.cmd \in (Operations \ {"use"}) \cup {"none"}
    \/ call.cmd = "use" /\ call.named

Objects == {"ok", "failed"}
Blanks  == {"blank", "newline"}
Pieces  == Objects \cup {"brace", "value"} \cup Blanks

(* Whether the daemon can be dialled, whether it takes the request, the    *)
(* pieces it writes, and what follows on them: the end of the connection,  *)
(* or a read that fails, after 300 s of silence or a reset.                *)
Services ==
    [answers : BOOLEAN, takes : BOOLEAN, sent : BoundedSeq(Pieces, MaxPieces), ends : BOOLEAN]

(* Seeded fault: what came before a read fails is taken for the response.  *)
ReadLine_Partial(service) ==
    LET newlines == {i \in DOMAIN service.sent : service.sent[i] = "newline"}
    IN  IF newlines = {} THEN {service.sent} ELSE {SubSeq(service.sent, 1, Min(newlines))}

(* read_line: an Option.  It is content with what there is at the end of   *)
(* the connection, and fails where a read does, whatever came before.      *)
ReadLine(service) ==
    LET newlines == {i \in DOMAIN service.sent : service.sent[i] = "newline"}
    IN  IF newlines # {} THEN {SubSeq(service.sent, 1, Min(newlines))}
        ELSE {line \in {service.sent} : service.ends}

Marks(line) == {i \in DOMAIN line : line[i] \notin Blanks}

(* The line is one JSON value, with blanks around and in it. *)
Parses(line) ==
    \/ \E i, j \in DOMAIN line :
          i < j /\ Marks(line) = {i, j} /\ line[i] \in Objects /\ line[j] = "brace"
    \/ \E i \in DOMAIN line : Marks(line) = {i} /\ line[i] = "value"

SaysOk(line) == \E i \in DOMAIN line : line[i] = "ok"

(* A blank line is told apart from one that does not parse in what is      *)
(* printed only.                                                           *)
ExitCode(call, service) ==
    IF call.cmd \in Helps THEN 0
    ELSE IF ~Sends(call) THEN 2
    ELSE IF ~(service.answers /\ service.takes) THEN 1
    ELSE IF \E line \in ReadLine(service) : Parses(line) /\ SaysOk(line)
    THEN 0 ELSE 1

-----------------------------------------------------------------------------
(* The reference: what the daemon wrote is an object that says ok, whole,  *)
(* with nothing but blanks before, in and after it, up to the first end of *)
(* a line or else the end of the connection.                               *)
ToldOk(service) ==
    LET sent == service.sent
        n    == Len(sent)
    IN  \E i, j \in 1..n, k \in 1..(n + 1) :
            /\ i < j /\ j < k
            /\ sent[i] = "ok" /\ sent[j] = "brace"
            /\ \A m \in 1..(k - 1) : m \notin {i, j} => sent[m] = "blank"
            /\ IF k <= n THEN sent[k] = "newline" ELSE service.ends
=============================================================================
