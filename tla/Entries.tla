------------------------------ MODULE Entries ------------------------------
(***************************************************************************)
(* From a KeePass entry to what `copy' and `type' hand out                 *)
(* (daemon/src/vault.rs: convert_entry, CopyField, Entry::secret,          *)
(* resolve_type_sequence; actions.rs: type_tokens).                        *)
(*                                                                         *)
(* A KeePass entry is a function from field keys to values.  A text that   *)
(* reaches the clipboard or a window is a tuple: what kind of text, and    *)
(* the value or key it is made from.                                       *)
(***************************************************************************)
EXTENDS Integers, SequencesExt

CONSTANTS
    FieldNames, \* the strings that occur as field keys, names and tokens
    LowerCase,  \* to_ascii_lowercase, as a function on FieldNames
    Delays,     \* the tokens that start with ~
    GoodDelays, \* those with a number behind it
    OtpUris,    \* the values that parse as an otpauth:// URI
    RawEntries, \* the KeePass entries that are tried
    Sequences,  \* the type sequences that are tried, split into tokens
    MaxTokens   \* bound: their tokens

ASSUME EntriesAssumption ==
    /\ LowerCase \in [FieldNames -> FieldNames]
    /\ \A n \in FieldNames : LowerCase[LowerCase[n]] = LowerCase[n]
    /\ \A n \in FieldNames : LowerCase[n] \in Delays => n \in Delays
    /\ GoodDelays \subseteq Delays /\ Delays \subseteq FieldNames
    /\ Sequences \subseteq Seq(FieldNames) /\ MaxTokens \in Nat
    /\ \A s \in Sequences : Len(s) <= MaxTokens

-----------------------------------------------------------------------------
(* convert_entry.  An Option is a set of at most one value.                *)

StandardFields == {"Title", "UserName", "Password", "URL", "Notes", "otp"}

Value(raw, key) == {raw[k] : k \in {key} \cap DOMAIN raw}

OrEmpty(option) == IF option = {} THEN "" ELSE CHOOSE v \in option : TRUE

ConvertEntry(raw) ==
    [username |-> OrEmpty(Value(raw, "UserName")),
     url      |-> OrEmpty(Value(raw, "URL")),
     password |-> Value(raw, "Password"),
     notes    |-> Value(raw, "Notes"),
     totp     |-> Value(raw, "otp") \cap OtpUris,
     custom   |-> Restrict(raw, DOMAIN raw \ StandardFields)]

-----------------------------------------------------------------------------
(* CopyField::from_str and Entry::secret.                                  *)

Aliases == [password |-> {"password", "pass"},
            username |-> {"username", "user"},
            url      |-> {"url"},
            notes    |-> {"notes", "note"},
            totp     |-> {"totp", "otp"},
            otpUri   |-> {"otp-uri", "otpauth"}]

AllAliases == UNION {Aliases[f] : f \in DOMAIN Aliases}

Refuse(code) == [code |-> code, text |-> << >>]

Provide(text) == [code |-> "ok", text |-> text]

Optional(kind, option) ==
    IF option = {} THEN Refuse("not-found") ELSE Provide(<<kind, OrEmpty(option)>>)

(* generate_current fails only on a clock before 1970, which is left out.  *)
Secret(entry, field) ==
    CASE field = "password" -> Optional("text", entry.password)
      [] field = "username" -> Provide(<<"text", entry.username>>)
      [] field = "url"      -> Provide(<<"text", entry.url>>)
      [] field = "notes"    -> Optional("text", entry.notes)
      [] field = "totp"     -> Optional("code of", entry.totp)
      [] field = "otpUri"   -> Optional("uri", entry.totp)

(* Seeded fault: a custom field is looked up by its lower-case name. *)
CopyOf_Lower(entry, name) ==
    LET field == {f \in DOMAIN Aliases : LowerCase[name] \in Aliases[f]}
    IN  IF name = "" THEN Refuse("bad-request")
        ELSE IF field # {} THEN Secret(entry, OrEmpty(field))
        ELSE Optional("text", Value(entry.custom, LowerCase[name]))

(* What `copy' takes from an entry under a name: the aliases are compared  *)
(* in lower case, the names of custom fields as they are.                  *)
CopyOf(entry, name) ==
    LET field == {f \in DOMAIN Aliases : LowerCase[name] \in Aliases[f]}
    IN  IF name = "" THEN Refuse("bad-request")
        ELSE IF field # {} THEN Secret(entry, OrEmpty(field))
        ELSE Optional("text", Value(entry.custom, name))

-----------------------------------------------------------------------------
(* resolve_type_sequence.                                                  *)

Keys == [tab |-> "Tab", enter |-> "Return", return |-> "Return",
         escape |-> "Escape", esc |-> "Escape"]

(* A field is looked up by the lower-case form of its token. *)
Resolve(entry, token) ==
    IF LowerCase[token] \in DOMAIN Keys THEN Provide(<<"key", Keys[LowerCase[token]]>>)
    ELSE IF token \in Delays
    THEN IF token \in GoodDelays THEN Provide(<<"delay", token>>) ELSE Refuse("bad-request")
    ELSE CopyOf(entry, LowerCase[token])

Resolved == [code |-> "ok", tokens |-> << >>]

(* The first token that cannot be resolved ends it. *)
ResolveTypeSequence(entry, sequence) ==
    LET step(r, token) ==
            LET t == Resolve(entry, token)
            IN  IF r.code # "ok" THEN r
                ELSE IF t.code # "ok" THEN [code |-> t.code, tokens |-> << >>]
                ELSE [r EXCEPT !.tokens = Append(@, t.text)]
    IN  FoldLeft(step, Resolved, sequence)

-----------------------------------------------------------------------------
(* type_tokens.                                                            *)

(* What can become of wtype: it is not there; or its n-th call fails, with *)
(* or without having typed; or all is well.                                *)
Mishaps == [missing : BOOLEAN, failing : Nat, typed : BOOLEAN]

(* Seeded fault: a call that fails does not stop the sequence. *)
TypeTokens_GoesOn(tokens, mishap) ==
    LET fails(n) == n = mishap.failing /\ tokens[n][1] # "delay"
        done     == {n \in DOMAIN tokens : fails(n) => mishap.typed}
        code     == IF mishap.missing \/ \E n \in DOMAIN tokens : fails(n)
                    THEN "io-error" ELSE "ok"
    IN  [code |-> code,
         typed |-> IF mishap.missing THEN << >>
                   ELSE [i \in 1..Cardinality(done) |->
                            tokens[SetToSortSeq(done, LAMBDA m, n : m < n)[i]]]]

(* One program per token, a failure ends the loop; what was typed until    *)
(* then has been typed.                                                    *)
TypeTokens(tokens, mishap) ==
    LET fails(n) == n = mishap.failing /\ tokens[n][1] # "delay"
        failed   == {n \in DOMAIN tokens : fails(n)}
        upTo     == IF failed = {} THEN Len(tokens)
                    ELSE Min(failed) - (IF mishap.typed THEN 0 ELSE 1)
    IN  IF mishap.missing THEN [code |-> "io-error", typed |-> << >>]
        ELSE [code  |-> IF failed = {} THEN "ok" ELSE "io-error",
              typed |-> SubSeq(tokens, 1, upTo)]

(* The operation `type'.  Nothing is typed before all is resolved. *)
TypeSequence(entry, sequence, mishap) ==
    LET r == ResolveTypeSequence(entry, sequence)
    IN  IF r.code # "ok" THEN [code |-> r.code, typed |-> << >>]
        ELSE TypeTokens(r.tokens, mishap)

-----------------------------------------------------------------------------
(* The reference, on the KeePass entry itself.                             *)

StandardKey == [password |-> "Password", username |-> "UserName", url |-> "URL",
                notes |-> "Notes", totp |-> "otp", otpUri |-> "otp"]

(* The key of the KeePass entry that a name stands for. *)
KeyFor(name) ==
    {StandardKey[f] : f \in {g \in DOMAIN Aliases : LowerCase[name] \in Aliases[g]}}
        \cup ({name} \ (StandardFields \cup {n \in FieldNames : LowerCase[n] \in AllAliases}))

(* user name and URL are there even when the KeePass entry has none; an    *)
(* otp that is no URI is not.                                              *)
Available(raw, name) ==
    LowerCase[name] \in Aliases.username \cup Aliases.url
        \/ \E key \in KeyFor(name) \cap DOMAIN raw : key = "otp" => raw[key] \in OtpUris

(* The text of the field a name stands for, if there is one. *)
FieldText(raw, name) ==
    LET values == {raw[key] : key \in KeyFor(name) \cap DOMAIN raw}
        kind == CASE LowerCase[name] \in Aliases.totp   -> "code of"
                  [] LowerCase[name] \in Aliases.otpUri -> "uri"
                  [] OTHER                              -> "text"
    IN  IF name = "" \/ ~Available(raw, name) THEN {}
        ELSE {<<kind, v>> : v \in IF values = {} THEN {""} ELSE values}

Strokes == [Tab |-> {"tab"}, Return |-> {"enter", "return"}, Escape |-> {"escape", "esc"}]

(* What a token may be typed as: a key, a delay, or the text of a field.   *)
Means(raw, token) ==
    LET strokes == {k \in DOMAIN Strokes : LowerCase[token] \in Strokes[k]}
    IN  IF strokes # {} THEN {<<"key", k>> : k \in strokes}
        ELSE IF token \in Delays THEN {<<"delay", d>> : d \in {token} \cap GoodDelays}
        ELSE FieldText(raw, token)
=============================================================================
