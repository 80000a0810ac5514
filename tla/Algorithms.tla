----------------------------- MODULE Algorithms -----------------------------
(***************************************************************************)
(* The pure functions of Omarkey, one call per behaviour: a call is chosen *)
(* with its arguments and then returns.  Each property compares a result   *)
(* with a reference that is defined another way.                           *)
(***************************************************************************)
EXTENDS Search, Entries, Kdbx, Config, Pinentry, Command

VARIABLES
    call,       \* the function and its arguments
    result      \* what it returned

vars == <<call, result>>

ListCalls == [fn : {"list"}, entries : BoundedSeq(Pool, MaxEntries), query : Queries, limit : Limits]

CopyCalls == [fn : {"copy"}, raw : RawEntries, name : FieldNames]

TypeCalls == [fn : {"type"}, raw : RawEntries, sequence : Sequences,
              mishap : [missing : BOOLEAN, failing : 0..MaxTokens, typed : BOOLEAN]]

(* Every file and credential for an empty tree; every tree, opened. *)
UnlockCalls ==
    [fn : {"unlock"}, file : VaultFiles(<< >>),
     sent : Option(Passwords), typed : Option(Passwords),
     override : Option(KeyFiles), configured : Option(KeyFiles)]
    \cup {[fn |-> "unlock", file |-> f, sent |-> {f.password}, typed |-> {},
            override |-> {}, configured |-> f.keyfile] :
              f \in {g \in UNION {VaultFiles(root) : root \in Roots} :
                        g.found /\ g.damage = "none" /\ g.keyfile = {}}}

ConfigCalls == [fn : {"config"}, file : Files]

PromptCalls == [fn : {"prompt"}, lines : Dialogues]

(* Nothing comes back from a daemon that has not taken a request. *)
CommandCalls ==
    {[fn |-> "omarkey", call |-> c, service |-> s] :
        c \in Calls, s \in {t \in Services : t.sent # << >> => t.answers /\ t.takes}}

Init ==
    /\ call \in ListCalls \cup CopyCalls \cup TypeCalls \cup UnlockCalls \cup ConfigCalls
                    \cup PromptCalls \cup CommandCalls
    /\ result = << >>

Return(value) == result' = <<value>> /\ UNCHANGED call

Called(fn) == call.fn = fn /\ result = << >>

ListReturns == Called("list") /\ Return(List(call.entries, call.query, call.limit))

CopyReturns == Called("copy") /\ Return(CopyOf(ConvertEntry(call.raw), call.name))

TypeReturns ==
    /\ Called("type")
    /\ Return(TypeSequence(ConvertEntry(call.raw), call.sequence, call.mishap))

UnlockReturns ==
    /\ Called("unlock")
    /\ Return(DoUnlock(call.file, call.sent, call.typed, call.override, call.configured))

ConfigReturns == Called("config") /\ Return(FromToml(call.file))

PromptReturns == Called("prompt") /\ Return(Prompt(call.lines))

CommandReturns == Called("omarkey") /\ Return(ExitCode(call.call, call.service))

Next ==
    \/ ListReturns \/ CopyReturns \/ TypeReturns
    \/ UnlockReturns \/ ConfigReturns \/ PromptReturns \/ CommandReturns

Spec == Init /\ [][Next]_vars

-----------------------------------------------------------------------------
Returned(fn) == call.fn = fn /\ result # << >>

(* `list' is a search: what it returns are entries that contain the query, *)
(* or hold its characters in order in their title, without regard to case; *)
(* each once and no more than the limit, by whatever arithmetic and        *)
(* iterators it gets there; and it leaves one out only when the limit is   *)
(* reached.  Excepted are entries that nothing but a tag recommends: they  *)
(* match by PROTOCOL.md:166, which has tags among what is searched, and    *)
(* fuzzy_score leaves them out (vault.rs:613-618).                         *)
ListIsSearch ==
    Returned("list") =>
        LET r == result[1]
            wanted == {i \in DOMAIN call.entries : Wanted(call.query, call.entries[i])}
            tagged == {i \in DOMAIN call.entries : Tagged(call.query, call.entries[i])}
        IN  /\ Range(r) \subseteq wanted \cup tagged
            /\ IsInjective(r) /\ Len(r) <= call.limit
            /\ Len(r) < call.limit => wanted \subseteq Range(r)

(* A title that begins with the query comes before everything else: no sum *)
(* of weight, position and bonus over the other fields gets past it, and   *)
(* the limit never cuts it off in favour of another entry.                 *)
PrefixOnTop ==
    Returned("list") =>
        LET r == result[1]
            top(i) == StartsWith(call.entries[i].title, call.query)
        IN  \A i \in DOMAIN call.entries, n \in DOMAIN r :
                top(i) /\ call.query # << >> /\ ~top(r[n]) => \E m \in 1..(n - 1) : r[m] = i

(* "password | username | url | totp | notes | otp-uri | custom string-    *)
(* field name" (PROTOCOL.md, copy): a name gives the value of the field it *)
(* stands for, through conversion, aliases and case, and nothing of any    *)
(* other field; a custom field is reached under its exact name, unless an  *)
(* alias takes the name for itself.                                        *)
CopyFindsField ==
    Returned("copy") =>
        LET r == result[1]
            known == KeyFor(call.name)
            there == Available(call.raw, call.name)
        IN  /\ r.code = CASE call.name = ""          -> "bad-request"
                          [] call.name # "" /\ there -> "ok"
                          [] OTHER                   -> "not-found"
            /\ r.code = "ok" =>
                  r.text[2] \in {call.raw[k] : k \in known \cap DOMAIN call.raw}
                                    \cup (IF known \cap DOMAIN call.raw = {} THEN {""} ELSE {})

(* `type' types nothing of a sequence with a token it cannot resolve; else *)
(* what has been typed is a beginning of the sequence, and all of it if    *)
(* the answer is ok: a helper that fails half-way is not followed by the   *)
(* rest; and it fails only when a helper does or a token means nothing.    *)
(* What a token means is said on the KeePass entry.  Excepted are names    *)
(* with capital letters that mean something else, or nothing, in lower     *)
(* case: by PROTOCOL.md:226-227 a field name expands to the value of its   *)
(* field, and the code takes the lower-case name (vault.rs:308,320), so    *)
(* that it finds another custom field or none.  Both readings are allowed. *)
TypedIsPrefix ==
    Returned("type") =>
        LET r == result[1]
            s == call.sequence
            spelled(n) == Means(call.raw, s[n])
            lowered(n) == Means(call.raw, LowerCase[s[n]])
        IN  /\ Len(r.typed) <= Len(s)
            /\ \A n \in DOMAIN r.typed : r.typed[n] \in spelled(n) \cup lowered(n)
            /\ r.typed # << >> => \A n \in DOMAIN s : spelled(n) \cup lowered(n) # {}
            /\ r.code = "ok" => Len(r.typed) = Len(s)
            /\ r.code # "ok" =>
                  \/ call.mishap.missing \/ call.mishap.failing \in DOMAIN s
                  \/ \E n \in DOMAIN s : spelled(n) = {} \/ lowered(n) # spelled(n)

(* Loading keeps every entry of the database once, in the order of the     *)
(* tree, and places it: its group is the path of the groups above it,      *)
(* without the root, however deep, empty or unnamed they are.              *)
EntriesPlaced ==
    Returned("unlock") /\ result[1].code = "ok" =>
        LET entries == result[1].entries
            ways == Ways(call.file.root)
        IN  /\ Len(entries) = Cardinality(ways)
            /\ \A w \in ways :
                  entries[1 + Cardinality({v \in ways : Earlier(v, w)})] =
                      [uuid |-> w[Len(w)].node.uuid, group |-> GroupOf(w)]

(* A database opens with its own password and key file and with nothing    *)
(* else, wherever the two come from: a password in the request, or else    *)
(* pinentry; a key file in the request, or else in the configuration.  And *)
(* auth-failed blames the credentials exactly when they are at fault:      *)
(* everything could be read, and they do not fit.  Which code the other    *)
(* failures have is left open: a database or key file that cannot be       *)
(* opened is a vault-error in the code (vault.rs:531-540), and by          *)
(* PROTOCOL.md:56-57, where filesystem failures are, an io-error.          *)
OpensWithItsKey ==
    Returned("unlock") =>
        LET f == call.file
            code == result[1].code
            secret == call.sent \cup {p \in call.typed : call.sent = {}}
            key    == call.override \cup {k \in call.configured : call.override = {}}
            fit    == secret = {f.password} /\ key = f.keyfile
            read   == f.found /\ f.damage # "header" /\ key \subseteq GoodKeyFiles
        IN  /\ (code = "ok") <=> (fit /\ f.found /\ f.damage = "none")
            /\ (code = "auth-failed") <=> (read /\ secret # {} /\ ~fit)

(* A file that is accepted makes every database reachable by its name,     *)
(* which is the one given, else its file stem, else "vault"; and a file is *)
(* refused only for a reason the user can see in it: it cannot be read, it *)
(* has no database, a path is relative, or a name stands twice.            *)
ConfigUnambiguous ==
    Returned("config") =>
        LET file == call.file
            n == Len(Tables(file))
            fine(t) == t.path.begins \in IF HomeKnown THEN {"/", "~/"} ELSE {"/"}
        IN  /\ \A config \in result[1] :
                  /\ Unambiguous(config)
                  /\ \A i \in 1..n : Named(file, i, config.vaults[i].name)
                  /\ (config.idle_lock = {}) <=> (file.idle_lock_seconds = {0})
            /\ result[1] = {} =>
                  \/ ~Readable(file) \/ n = 0
                  \/ \E i \in 1..n : ~fine(Tables(file)[i])
                  \/ \E i, j \in 1..n : \E name \in VaultNames \cup {"vault"} :
                        i # j /\ Named(file, i, name) /\ Named(file, j, name)

(* The password is the last data of pinentry's answer to GETPIN, and of no *)
(* other answer: data that comes earlier, after an error, or before the    *)
(* connection closes is never taken for it, and no such data is missed.    *)
PinIsLastData ==
    Returned("prompt") =>
        LET r == result[1]
            n == {i \in DOMAIN call.lines : AnswersGetPin(call.lines, i)}
        IN  /\ r.pin = UNION {DataOf(call.lines, i) : i \in n}
            /\ (r.end = "pin") <=> (r.pin # {})
            /\ (r.end = "no PIN") <=> (n # {} /\ r.pin = {})

(* `omarkey unlock && ...' goes on exactly when help was asked for, or the *)
(* daemon was reached, took the request and wrote a whole response that    *)
(* says ok, whatever it wrote before and after, in how many pieces, and    *)
(* wherever it stopped: not on a response that is cut, on a second line,   *)
(* or on what came before a read failed.                                   *)
ZeroMeansDone ==
    Returned("omarkey") =>
        LET s == call.service
        IN  (result[1] = 0) <=>
                \/ call.call.cmd \in Helps
                \/ Sends(call.call) /\ s.answers /\ s.takes /\ ToldOk(s)
=============================================================================
