---------------------------- MODULE MCAlgorithms ----------------------------
(***************************************************************************)
(* Instances of Algorithms for TLC.                                        *)
(***************************************************************************)
EXTENDS Algorithms

(* Texts over A, a and b; only the title has the long ones, but for one    *)
(* user name that holds an "a" so late that its score is below 0.  Of the  *)
(* tags one holds what the other fields may hold, one what they do not.    *)
Texts(n)  == BoundedSeq({65, 97, 98}, n)
MCQueries == Texts(2)
MCPool ==
    [title : Texts(2) \cup {<<98, 98, 97>>, <<97, 98, 65>>},
     username : {<< >>, <<65, 98>>}, url : {<< >>}, group : {<< >>, <<98, 97>>}, tags : {<< >>}]
    \cup [title : {<< >>, <<97>>}, username : {<< >>}, url : {<< >>}, group : {<< >>},
          tags : {<< <<98>>, <<97>> >>}]
    \cup [title : {<<98>>, <<97, 98>>}, username : {[i \in 1..45 |-> IF i = 45 THEN 97 ELSE 98]},
          url : {<< >>}, group : {<< >>}, tags : {<< >>}]

(* Field keys and tokens: an alias, one in capitals, custom names in both  *)
(* cases, a key, delays with and without a number.                         *)
MCLower == [Title |-> "title", title |-> "title", UserName |-> "username",
            User |-> "user", user |-> "user", Password |-> "password", pass |-> "pass",
            URL |-> "url", Notes |-> "notes", otp |-> "otp", OTPAuth |-> "otpauth",
            otpauth |-> "otpauth", username |-> "username", password |-> "password",
            url |-> "url", notes |-> "notes", API |-> "api", api |-> "api",
            Tab |-> "tab", tab |-> "tab"]
           @@ ("~250" :> "~250") @@ ("~x" :> "~x") @@ ("" :> "")

MCNames == DOMAIN MCLower

MCRawEntries ==
    {[k \in keys |-> IF k = "otp" THEN otp ELSE "the " \o k] :
        keys \in SUBSET {"UserName", "Password", "otp", "User", "API", "api"},
        otp \in {"otpauth://", "123456"}}

MCTokens == {"user", "Password", "otp", "API", "Tab", "~250", "~x"}
MCSequences == BoundedSeq(MCTokens, 2) \cup {<<"user", "Tab", "pass">>, <<"API", "~250", "tab">>}

(* Trees of three levels, with an unnamed and a named group on each. *)
Leaves     == [kind : {"entry"}, uuid : {"e", "f"}]
Groups(N, n) == [kind : {"group"}, name : {"", "Dev"}, children : BoundedSeq(N, n)]
Low        == Leaves \cup Groups(Leaves, 2)
Middle     == Leaves \cup Groups(Low, 2)
MCHeight   == [n \in Middle |-> IF n \in Leaves THEN 0 ELSE IF n \in Low THEN 1 ELSE 2]
MCRoots    == BoundedSeq(Middle, 1) \cup {<<a, b>> : a \in Middle, b \in Low}

MCTrim == ("work" :> "work") @@ (" work " :> "work") @@ ("home" :> "home")
              @@ (" " :> "") @@ ("" :> "") @@ ("vault" :> "vault")

MCPaths == [begins : {"/", "~/", "other"}, stem : {{}, {"work"}, {"home"}}]
MCTables ==
    [name : {{}, {"work"}, {" work "}, {" "}},
     path : [begins : {"/", "~/"}, stem : {{}, {"work"}}], keyfile : {{}}]
    \cup [name : {{"home"}, {"vault"}}, path : {[begins |-> "other", stem |-> {}],
                                               [begins |-> "/", stem |-> {"home"}]},
          keyfile : {{}}]
Seconds == {{}, {0}, {60}}
MCFiles ==
    [shape : {"absent", "odd"}, idle_lock_seconds : Seconds]
    \cup [shape : {"string"}, path : MCPaths,
          keyfile : {{}, {[begins |-> "~/", stem |-> {"work"}]}}, idle_lock_seconds : Seconds]
    \cup [shape : {"tables"}, tables : BoundedSeq(MCTables, 3), idle_lock_seconds : {{0}}]
=============================================================================
