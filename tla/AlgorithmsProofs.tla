-------------------------- MODULE AlgorithmsProofs --------------------------
(***************************************************************************)
(* Theorems about Algorithms: for every value of the constants, and for    *)
(* texts, sequences and dialogues of any length.                           *)
(***************************************************************************)
EXTENDS Algorithms, KdbxProofs

-----------------------------------------------------------------------------
(* A call and what it returned.                                            *)

Dispatched ==
    CASE call.fn = "list"    -> List(call.entries, call.query, call.limit)
      [] call.fn = "copy"    -> CopyOf(ConvertEntry(call.raw), call.name)
      [] call.fn = "type"    -> TypeSequence(ConvertEntry(call.raw), call.sequence, call.mishap)
      [] call.fn = "unlock"  ->
            DoUnlock(call.file, call.sent, call.typed, call.override, call.configured)
      [] call.fn = "config"  -> FromToml(call.file)
      [] call.fn = "prompt"  -> Prompt(call.lines)
      [] call.fn = "omarkey" -> ExitCode(call.call, call.service)

AInv ==
    /\ call \in ListCalls \cup CopyCalls \cup TypeCalls \cup UnlockCalls \cup ConfigCalls
                    \cup PromptCalls \cup CommandCalls
    /\ result # << >> => result = <<Dispatched>>

LEMMA ReturnStep == ASSUME NEW value, AInv, value = Dispatched, Return(value) PROVE AInv'
<1>1. call' = call /\ result' = <<value>>
  BY DEF Return
<1>. QED
  BY <1>1 DEF AInv, Dispatched

(* Whatever has been returned is what the function gives for the call.     *)
THEOREM Returns == Spec => []AInv
<1>1. Init => AInv
  BY DEF Init, AInv
<1>2. ASSUME AInv, [Next]_vars PROVE AInv'
  <2>1. CASE ListReturns
    <3>1. Dispatched = List(call.entries, call.query, call.limit)
      BY <2>1 DEF ListReturns, Called, Dispatched
    <3>. QED
      BY <1>2, <2>1, <3>1, ReturnStep DEF ListReturns
  <2>2. CASE CopyReturns
    <3>1. Dispatched = CopyOf(ConvertEntry(call.raw), call.name)
      BY <2>2 DEF CopyReturns, Called, Dispatched
    <3>. QED
      BY <1>2, <2>2, <3>1, ReturnStep DEF CopyReturns
  <2>3. CASE TypeReturns
    <3>1. Dispatched = TypeSequence(ConvertEntry(call.raw), call.sequence, call.mishap)
      BY <2>3 DEF TypeReturns, Called, Dispatched
    <3>. QED
      BY <1>2, <2>3, <3>1, ReturnStep DEF TypeReturns
  <2>4. CASE UnlockReturns
    <3>1. Dispatched = DoUnlock(call.file, call.sent, call.typed, call.override, call.configured)
      BY <2>4 DEF UnlockReturns, Called, Dispatched
    <3>. QED
      BY <1>2, <2>4, <3>1, ReturnStep DEF UnlockReturns
  <2>5. CASE ConfigReturns
    <3>1. Dispatched = FromToml(call.file)
      BY <2>5 DEF ConfigReturns, Called, Dispatched
    <3>. QED
      BY <1>2, <2>5, <3>1, ReturnStep DEF ConfigReturns
  <2>6. CASE PromptReturns
    <3>1. Dispatched = Prompt(call.lines)
      BY <2>6 DEF PromptReturns, Called, Dispatched
    <3>. QED
      BY <1>2, <2>6, <3>1, ReturnStep DEF PromptReturns
  <2>7. CASE CommandReturns
    <3>1. Dispatched = ExitCode(call.call, call.service)
      BY <2>7 DEF CommandReturns, Called, Dispatched
    <3>. QED
      BY <1>2, <2>7, <3>1, ReturnStep DEF CommandReturns
  <2>8. CASE UNCHANGED vars
    BY <1>2, <2>8 DEF vars, AInv, Dispatched
  <2>. QED
    BY <1>2, <2>1, <2>2, <2>3, <2>4, <2>5, <2>6, <2>7, <2>8 DEF Next
<1>. QED
  BY <1>1, <1>2, PTL DEF Spec

(* A call of one function has the arguments of that function.              *)
LEMMA Arguments ==
    ASSUME AInv
    PROVE  /\ Returned("list")    => call \in ListCalls
           /\ Returned("copy")    => call \in CopyCalls
           /\ Returned("type")    => call \in TypeCalls
           /\ Returned("unlock")  => call \in UnlockCalls
           /\ Returned("config")  => call \in ConfigCalls
           /\ Returned("prompt")  => call \in PromptCalls
           /\ Returned("omarkey") => call \in CommandCalls
<1>1. /\ \A c \in ListCalls : c.fn = "list"
      /\ \A c \in CopyCalls : c.fn = "copy"
      /\ \A c \in TypeCalls : c.fn = "type"
  BY DEF ListCalls, CopyCalls, TypeCalls
<1>2. \A c \in UnlockCalls : c.fn = "unlock"
  BY DEF UnlockCalls
<1>3. /\ \A c \in ConfigCalls : c.fn = "config"
      /\ \A c \in PromptCalls : c.fn = "prompt"
      /\ \A c \in CommandCalls : c.fn = "omarkey"
  BY DEF ConfigCalls, PromptCalls, CommandCalls
<1>. QED
  BY <1>1, <1>2, <1>3 DEF AInv, Returned

-----------------------------------------------------------------------------
(* The omarkey command.                                                    *)

LEMMA CommandArguments ==
    ASSUME NEW c \in CommandCalls
    PROVE  \E n \in Nat : c.service.sent \in [1..n -> Pieces] /\ Len(c.service.sent) = n
<1>1. PICK service \in Services : c.service = service
  BY DEF CommandCalls
<1>2. service.sent \in BoundedSeq(Pieces, MaxPieces)
  BY DEF Services
<1>3. PICK D : D = {[1..m -> Pieces] : m \in 0..MaxPieces}
  OBVIOUS
<1>4. service.sent \in UNION D
  BY <1>2, <1>3 DEF BoundedSeq, SeqOf
<1>5. PICK m \in 0..MaxPieces : service.sent \in [1..m -> Pieces]
  BY <1>3, <1>4
<1>6. m \in Nat
  BY CommandAssumption
<1>7. Len(service.sent) = m
  BY <1>5, <1>6
<1>. QED
  BY <1>1, <1>5, <1>6, <1>7

(* What is read ends at k: where the first line does, or behind the last   *)
(* of the n pieces.                                                        *)
IsCut(sent, n, k, line) ==
    /\ k \in 1..(n + 1)
    /\ k <= n => sent[k] = "newline"
    /\ \A m \in 1..(k - 1) : sent[m] # "newline"
    /\ DOMAIN line = 1..(IF k <= n THEN k ELSE n)
    /\ \A m \in DOMAIN line : line[m] = sent[m]

LEMMA ReadLineIs ==
    ASSUME NEW service, NEW n \in Nat, service.sent \in [1..n -> Pieces]
    PROVE  \E k, line : /\ IsCut(service.sent, n, k, line)
                        /\ \A l : l \in ReadLine(service) <=> l = line /\ (k <= n \/ service.ends)
<1>1. PICK sent : sent = service.sent
  OBVIOUS
<1>2. PICK newlines : newlines = {i \in 1..n : sent[i] = "newline"}
  OBVIOUS
<1>3. ReadLine(service) = IF newlines # {} THEN {SubSeq(sent, 1, Min(newlines))}
                          ELSE {line \in {sent} : service.ends}
  <2>1. DOMAIN sent = 1..n
    BY <1>1
  <2>. QED
    BY <1>1, <1>2, <2>1 DEF ReadLine
<1>4. CASE newlines = {}
  <2>1. \A m \in 1..n : sent[m] # "newline"
    BY <1>2, <1>4
  <2>2. n + 1 \in 1..(n + 1) /\ ~(n + 1 <= n) /\ (n + 1) - 1 = n
    OBVIOUS
  <2>3. IsCut(sent, n, n + 1, sent)
    BY <1>1, <2>1, <2>2 DEF IsCut
  <2>4. \A l : l \in ReadLine(service) <=> l = sent /\ service.ends
    BY <1>3, <1>4
  <2>. QED
    BY <1>1, <2>2, <2>3, <2>4
<1>5. CASE newlines # {}
  <2>1. newlines \in SUBSET Nat
    BY <1>2
  <2>2. PICK k : k = Min(newlines)
    OBVIOUS
  <2>3. k \in newlines /\ \A m \in newlines : k <= m
    BY <1>5, <2>1, <2>2, MinIs
  <2>4. k \in 1..n /\ sent[k] = "newline"
    BY <1>2, <2>3
  <2>5. ASSUME NEW m \in 1..(k - 1) PROVE sent[m] # "newline"
    <3>1. m \in 1..n /\ ~(k <= m)
      BY <2>4
    <3>. QED
      BY <1>2, <2>3, <3>1
  <2>6. PICK line : line = SubSeq(sent, 1, k)
    OBVIOUS
  <2>7. DOMAIN line = 1..k /\ \A m \in 1..k : line[m] = sent[m]
    <3>1. sent \in Seq(Pieces) /\ Len(sent) = n
      BY <1>1
    <3>. QED
      BY <2>4, <2>6, <3>1
  <2>8. k \in 1..(n + 1) /\ k <= n
    BY <2>4
  <2>9. IsCut(sent, n, k, line)
    BY <2>4, <2>5, <2>7, <2>8 DEF IsCut
  <2>10. \A l : l \in ReadLine(service) <=> l = line
    BY <1>3, <1>5, <2>2, <2>6
  <2>. QED
    BY <1>1, <2>8, <2>9, <2>10
<1>. QED
  BY <1>4, <1>5

(* Cutting off the first line and parsing it accepts what the reference    *)
(* describes without a cut.                                                *)
LEMMA FirstLineDecides ==
    ASSUME NEW service, NEW n \in Nat,
           service.sent \in [1..n -> Pieces], Len(service.sent) = n
    PROVE  (\E line \in ReadLine(service) : Parses(line) /\ SaysOk(line)) <=> ToldOk(service)
<1>1. PICK sent : sent = service.sent
  OBVIOUS
<1>2. PICK k, line : /\ IsCut(sent, n, k, line)
                     /\ \A l : l \in ReadLine(service) <=> l = line /\ (k <= n \/ service.ends)
  BY <1>1, ReadLineIs
<1>3. /\ k \in 1..(n + 1) /\ (k <= n => sent[k] = "newline")
      /\ \A m \in 1..(k - 1) : sent[m] # "newline"
      /\ DOMAIN line = 1..(IF k <= n THEN k ELSE n)
      /\ \A m \in DOMAIN line : line[m] = sent[m]
  BY <1>2 DEF IsCut
<1>4. 1..(k - 1) \subseteq DOMAIN line /\ \A m \in DOMAIN line : m \in 1..(k - 1) \/ (m = k /\ k <= n)
  BY <1>3
<1>5. ASSUME Parses(line), SaysOk(line), k <= n \/ service.ends PROVE ToldOk(service)
  <2>1. PICK o \in DOMAIN line : line[o] = "ok" /\ o \in Marks(line)
    BY <1>5 DEF SaysOk, Marks, Blanks
  <2>2. PICK i, j \in DOMAIN line : i < j /\ Marks(line) = {i, j} /\ line[i] = "ok" /\ line[j] = "brace"
    <3>1. \A i \in DOMAIN line : Marks(line) = {i} => line[i] # "value"
      BY <2>1
    <3>. QED
      BY <1>5, <2>1, <3>1 DEF Parses
  <2>3. i \in 1..n /\ j \in 1..n /\ j < k
    <3>1. sent[j] # "newline" /\ j \in 1..n /\ i \in 1..n
      BY <1>3, <2>2
    <3>. QED
      BY <1>3, <1>4, <2>2, <3>1
  <2>4. ASSUME NEW m \in 1..(k - 1), m \notin {i, j} PROVE sent[m] = "blank"
    <3>1. m \in DOMAIN line /\ m \notin Marks(line)
      BY <1>4, <2>2, <2>4
    <3>2. sent[m] \in {"blank", "newline"}
      BY <1>3, <3>1 DEF Marks, Blanks
    <3>. QED
      BY <1>3, <3>2
  <2>5. IF k <= n THEN sent[k] = "newline" ELSE service.ends
    BY <1>3, <1>5
  <2>6. sent[i] = "ok" /\ sent[j] = "brace"
    BY <1>3, <2>2
  <2>. QED
    BY <1>1, <1>3, <2>2, <2>3, <2>4, <2>5, <2>6 DEF ToldOk
<1>6. ASSUME ToldOk(service)
      PROVE  Parses(line) /\ SaysOk(line) /\ (k <= n \/ service.ends)
  <2>1. PICK i, j \in 1..n, e \in 1..(n + 1) :
           /\ i < j /\ j < e /\ sent[i] = "ok" /\ sent[j] = "brace"
           /\ \A m \in 1..(e - 1) : m \notin {i, j} => sent[m] = "blank"
           /\ IF e <= n THEN sent[e] = "newline" ELSE service.ends
    BY <1>1, <1>6 DEF ToldOk
  <2>2. \A m \in 1..(e - 1) : sent[m] # "newline"
    BY <2>1
  <2>3. e = k
    <3>1. ~(k < e)
      BY <1>3, <2>2
    <3>2. ~(e < k)
      BY <1>3, <2>1
    <3>. QED
      BY <1>3, <2>1, <3>1, <3>2
  <2>4. i \in 1..(k - 1) /\ j \in 1..(k - 1)
    BY <1>3, <2>1, <2>3
  <2>5. i \in DOMAIN line /\ j \in DOMAIN line /\ line[i] = "ok" /\ line[j] = "brace"
    BY <1>3, <1>4, <2>1, <2>4
  <2>6. ASSUME NEW m \in DOMAIN line, m \notin {i, j} PROVE line[m] \in Blanks
    <3>1. CASE m \in 1..(k - 1)
      BY <1>3, <2>1, <2>3, <2>6, <3>1 DEF Blanks
    <3>2. CASE m = k /\ k <= n
      BY <1>3, <3>2 DEF Blanks
    <3>. QED
      BY <1>4, <3>1, <3>2
  <2>7. Marks(line) = {i, j}
    <3>1. i \in Marks(line) /\ j \in Marks(line)
      BY <2>5 DEF Marks, Blanks
    <3>. QED
      BY <2>6, <3>1 DEF Marks
  <2>8. Parses(line)
    BY <2>1, <2>5, <2>7 DEF Parses, Objects
  <2>9. SaysOk(line)
    BY <2>5 DEF SaysOk
  <2>. QED
    BY <2>1, <2>3, <2>8, <2>9
<1>. QED
  BY <1>2, <1>5, <1>6

(* `omarkey unlock && ...' goes on exactly when help was asked for, or the *)
(* daemon took the request and wrote a whole response that says ok, be     *)
(* what it writes ever so long, and wherever it stops.                     *)
THEOREM CommandCorrect == Spec => []ZeroMeansDone
<1>1. ASSUME AInv PROVE ZeroMeansDone
  <2>. SUFFICES ASSUME Returned("omarkey") PROVE ZeroMeansDone
    BY DEF ZeroMeansDone
  <2>1. PICK c, s : c = call.call /\ s = call.service
    OBVIOUS
  <2>2. PICK n \in Nat : s.sent \in [1..n -> Pieces] /\ Len(s.sent) = n
    BY <1>1, <2>1, Arguments, CommandArguments
  <2>3. (\E line \in ReadLine(s) : Parses(line) /\ SaysOk(line)) <=> ToldOk(s)
    BY <2>2, FirstLineDecides
  <2>4. result[1] = ExitCode(c, s)
    BY <1>1, <2>1 DEF AInv, Dispatched, Returned
  <2>5. result[1] = IF c.cmd \in Helps THEN 0
                    ELSE IF ~Sends(c) THEN 2
                    ELSE IF ~(s.answers /\ s.takes) THEN 1
                    ELSE IF ToldOk(s) THEN 0 ELSE 1
    BY <2>3, <2>4 DEF ExitCode
  <2>6. (result[1] = 0) <=>
            \/ c.cmd \in Helps
            \/ Sends(c) /\ s.answers /\ s.takes /\ ToldOk(s)
    BY <2>5
  <2>. QED
    BY <2>1, <2>6 DEF ZeroMeansDone
<1>. QED
  BY Returns, <1>1, PTL

-----------------------------------------------------------------------------
(* Opening a database.                                                     *)

LEMMA UnlockArguments ==
    ASSUME NEW c \in UnlockCalls
    PROVE  /\ c.file.damage \in Damages /\ c.file.found \in BOOLEAN
           /\ c.file.password \in Passwords /\ c.file.keyfile \in Option(GoodKeyFiles)
           /\ c.sent \in Option(Passwords) /\ c.typed \in Option(Passwords)
           /\ c.override \in Option(KeyFiles) /\ c.configured \in Option(KeyFiles)
<1>1. \A root : \A f \in VaultFiles(root) :
          /\ f.damage \in Damages /\ f.found \in BOOLEAN
          /\ f.password \in Passwords /\ f.keyfile \in Option(GoodKeyFiles)
  BY DEF VaultFiles
<1>2. Option(GoodKeyFiles) \subseteq Option(KeyFiles)
  BY KdbxAssumption DEF Option
<1>3. {} \in Option(Passwords) /\ {} \in Option(KeyFiles)
  BY DEF Option
<1>4. \A p \in Passwords : {p} \in Option(Passwords)
  BY DEF Option
<1>5. CASE c \in [fn : {"unlock"}, file : VaultFiles(<< >>),
                sent : Option(Passwords), typed : Option(Passwords),
                override : Option(KeyFiles), configured : Option(KeyFiles)]
  BY <1>1, <1>5
<1>6. CASE \E f : /\ c = [fn |-> "unlock", file |-> f, sent |-> {f.password}, typed |-> {},
                         override |-> {}, configured |-> f.keyfile]
                /\ \E root : f \in VaultFiles(root)
  <2>1. PICK f, root : /\ c = [fn |-> "unlock", file |-> f, sent |-> {f.password}, typed |-> {},
                              override |-> {}, configured |-> f.keyfile]
                       /\ f \in VaultFiles(root)
    BY <1>6
  <2>2. /\ c.file = f /\ c.sent = {f.password} /\ c.typed = {}
        /\ c.override = {} /\ c.configured = f.keyfile
    BY <2>1
  <2>. QED
    BY <1>1, <1>2, <1>3, <1>4, <2>1, <2>2
<1>. QED
  BY <1>5, <1>6 DEF UnlockCalls

(* A database opens with its own password and key file, each from the      *)
(* place do_unlock takes it from, and with nothing else; and auth-failed   *)
(* is said exactly of credentials that do not fit, when all can be read.   *)
THEOREM UnlockCorrect == Spec => []OpensWithItsKey
<1>1. ASSUME AInv PROVE OpensWithItsKey
  <2>. SUFFICES ASSUME Returned("unlock") PROVE OpensWithItsKey
    BY DEF OpensWithItsKey
  <2>. DEFINE f == call.file
              sent == call.sent
              typed == call.typed
              override == call.override
              configured == call.configured
              code == result[1].code
              secret == IF sent = {} THEN typed ELSE sent
              key == IF override = {} THEN configured ELSE override
  <2>1. call \in UnlockCalls
    BY <1>1, Arguments
  <2>2. /\ f.damage \in {"none", "header", "body"} /\ f.found \in BOOLEAN
        /\ f.keyfile \in Option(GoodKeyFiles)
        /\ sent \in Option(Passwords) /\ typed \in Option(Passwords)
    BY <2>1, UnlockArguments DEF Damages
  <2>3. /\ sent \cup {p \in typed : sent = {}} = secret
        /\ override \cup {k \in configured : override = {}} = key
    OBVIOUS
  <2>4. secret = {} \/ \E p : secret = {p}
    BY <2>2 DEF Option
  <2>5. f.keyfile \subseteq GoodKeyFiles
    BY <2>2 DEF Option
  <2>6. result[1] = DoUnlock(f, sent, typed, override, configured)
    BY <1>1 DEF AInv, Dispatched, Returned
  <2>7. secret = {} => code = "io-error"
    BY <2>6 DEF DoUnlock, Fails
  <2>8. ASSUME NEW p, secret = {p}
        PROVE  /\ (code = "ok") <=> p = f.password /\ key = f.keyfile /\ f.found /\ f.damage = "none"
               /\ (code = "auth-failed") <=>
                    /\ f.found /\ f.damage # "header" /\ key \subseteq GoodKeyFiles
                    /\ ~(p = f.password /\ key = f.keyfile)
    <3>1. (CHOOSE q \in secret : TRUE) = p /\ secret # {}
      BY <2>8
    <3>2. result[1] = OpenKdbx(f, p, key)
      BY <2>6, <3>1 DEF DoUnlock, KeyFile
    <3>3. PICK file, kf : file = f /\ kf = key
      OBVIOUS
    <3>4. file.damage \in {"none", "header", "body"} /\ file.keyfile \subseteq GoodKeyFiles
      BY <2>2, <2>5, <3>3
    <3>5. code = OpenKdbx(file, p, kf).code
      BY <3>2, <3>3
    <3>6. OpenKdbx(file, p, kf).code =
             IF ~file.found \/ ~(kf \subseteq GoodKeyFiles) \/ file.damage = "header"
             THEN "vault-error"
             ELSE IF p # file.password \/ kf # file.keyfile THEN "auth-failed"
             ELSE IF file.damage = "body" THEN "vault-error" ELSE "ok"
      BY DEF OpenKdbx, Fails
    <3>. HIDE DEF key, f, code
    <3>. QED
      BY <3>3, <3>4, <3>5, <3>6
  <2>9. /\ (code = "ok") <=>
             /\ secret = {f.password} /\ key = f.keyfile
             /\ f.found /\ f.damage = "none"
        /\ (code = "auth-failed") <=>
             /\ f.found /\ f.damage # "header" /\ key \subseteq GoodKeyFiles
             /\ secret # {}
             /\ ~(secret = {f.password} /\ key = f.keyfile)
    <3>. HIDE DEF secret, code, key, f
    <3>. QED
      BY <2>4, <2>7, <2>8
  <2>. HIDE DEF secret, key
  <2>. QED
    BY <2>3, <2>9 DEF OpensWithItsKey
<1>. QED
  BY Returns, <1>1, PTL

LEMMA UnlockRoot ==
    ASSUME NEW c \in UnlockCalls
    PROVE  c.file.root \in Seq(Nodes)
<1>1. \A root : \A f \in VaultFiles(root) : f.root = root
  BY DEF VaultFiles
<1>2. << >> \in Seq(Nodes) /\ Roots \subseteq Seq(Nodes)
  BY KdbxAssumption, EmptySeq
<1>3. CASE c \in [fn : {"unlock"}, file : VaultFiles(<< >>),
                sent : Option(Passwords), typed : Option(Passwords),
                override : Option(KeyFiles), configured : Option(KeyFiles)]
  BY <1>1, <1>2, <1>3
<1>4. CASE \E f : /\ c = [fn |-> "unlock", file |-> f, sent |-> {f.password}, typed |-> {},
                         override |-> {}, configured |-> f.keyfile]
                /\ \E root \in Roots : f \in VaultFiles(root)
  <2>1. PICK f, root : /\ c = [fn |-> "unlock", file |-> f, sent |-> {f.password}, typed |-> {},
                              override |-> {}, configured |-> f.keyfile]
                       /\ root \in Roots /\ f \in VaultFiles(root)
    BY <1>4
  <2>2. c.file = f
    BY <2>1
  <2>. QED
    BY <1>1, <1>2, <2>1, <2>2
<1>. QED
  BY <1>3, <1>4 DEF UnlockCalls

LEMMA OpenedIs ==
    ASSUME NEW file, NEW sent, NEW typed, NEW override, NEW configured,
           DoUnlock(file, sent, typed, override, configured).code = "ok"
    PROVE  DoUnlock(file, sent, typed, override, configured).entries = Loads(file.root, << >>)
<1>1. \A code : Fails(code).code = code
  BY DEF Fails
<1>2. PICK r, p, k : /\ r = DoUnlock(file, sent, typed, override, configured)
                     /\ p = CHOOSE q \in IF sent = {} THEN typed ELSE sent : TRUE
                     /\ k = KeyFile(override, configured)
  OBVIOUS
<1>3. r = Fails("io-error") \/ r = OpenKdbx(file, p, k)
  BY <1>2 DEF DoUnlock
<1>4. r.code = "ok" => r = OpenKdbx(file, p, k)
  BY <1>1, <1>3
<1>5. OpenKdbx(file, p, k) \in {Fails("vault-error"), Fails("auth-failed"),
                               [code |-> "ok", entries |-> Loads(file.root, << >>)]}
  BY DEF OpenKdbx, Loads
<1>6. r = [code |-> "ok", entries |-> Loads(file.root, << >>)]
  BY <1>1, <1>2, <1>4, <1>5
<1>. QED
  BY <1>2, <1>6

(* Loading neither loses nor doubles nor misplaces an entry, in a database *)
(* with groups of any number, width and depth, named or not: walk_node's   *)
(* recursion against the ways from the root to the entries.                *)
THEOREM LoadCorrect == Spec => []EntriesPlaced
<1>1. ASSUME AInv PROVE EntriesPlaced
  <2>. SUFFICES ASSUME Returned("unlock"), result[1].code = "ok" PROVE EntriesPlaced
    BY DEF EntriesPlaced
  <2>1. call \in UnlockCalls
    BY <1>1, Arguments
  <2>2. PICK root, entries : root = call.file.root /\ entries = result[1].entries
    OBVIOUS
  <2>3. root \in Seq(Nodes)
    BY <2>1, <2>2, UnlockRoot
  <2>4. result[1] = DoUnlock(call.file, call.sent, call.typed, call.override, call.configured)
    BY <1>1 DEF AInv, Dispatched, Returned
  <2>5. entries = Loads(root, << >>)
    BY <2>2, <2>4, OpenedIs
  <2>6. /\ Len(entries) = Cardinality(Ways(root))
        /\ \A w \in Ways(root) :
              entries[1 + Cardinality({v \in Ways(root) : Earlier(v, w)})] =
                  [uuid |-> w[Len(w)].node.uuid, group |-> GroupOf(w)]
    BY <2>3, <2>5, LoadedInPlace
  <2>. QED
    BY <2>2, <2>6 DEF EntriesPlaced
<1>. QED
  BY Returns, <1>1, PTL

-----------------------------------------------------------------------------
(* The configuration.                                                      *)

(* vault_index has one answer when no two databases share a name. *)
LEMMA IndexIsOwn ==
    ASSUME NEW config, NEW n \in Nat, DOMAIN config.vaults = 1..n,
           ~TwoNamed(config.vaults), NEW i \in 1..n
    PROVE  VaultIndex(config, config.vaults[i].name) = {i}
<1>1. \A j \in 1..n : config.vaults[j].name = config.vaults[i].name => j = i
  BY DEF TwoNamed
<1>. QED
  BY <1>1 DEF VaultIndex

(* "Reject duplicate names - `omarkey unlock <name>' must be unambiguous"  *)
(* (config.rs): whatever from_toml_str accepts has a first database, every *)
(* path in it is absolute, and every name leads to its own database and to *)
(* no other, derived names and trimmed names included.                     *)
THEOREM AcceptedUnambiguous ==
    ASSUME NEW file, NEW n \in Nat, DOMAIN Tables(file) = 1..n,
           NEW config \in FromToml(file)
    PROVE  Unambiguous(config)
<1>. DEFINE vaults == [i \in DOMAIN Tables(file) |-> BuildVault(Tables(file)[i])]
<1>1. /\ config.vaults = vaults /\ vaults # << >> /\ ~TwoNamed(vaults)
      /\ \A i \in DOMAIN vaults : IsAbsolute(vaults[i].path)
  BY DEF FromToml
<1>2. DOMAIN config.vaults = 1..n
  BY <1>1
<1>3. \A i \in 1..n : VaultIndex(config, config.vaults[i].name) = {i}
  BY <1>1, <1>2, IndexIsOwn
<1>. QED
  BY <1>1, <1>2, <1>3 DEF Unambiguous

LEMMA TablesTyped ==
    ASSUME NEW file \in Files
    PROVE  /\ Len(Tables(file)) \in Nat /\ DOMAIN Tables(file) = 1..Len(Tables(file))
           /\ \A i \in 1..Len(Tables(file)) :
                 Tables(file)[i].name \in SUBSET VaultNames /\ Tables(file)[i].path \in Paths
<1>1. CASE file.shape = "tables"
  <2>1. Tables(file) = file.tables
    BY <1>1 DEF Tables
  <2>2. file.tables \in Seq(VaultTables)
    BY <1>1, ConfigAssumption
  <2>3. \A t \in VaultTables : t.name \in SUBSET VaultNames /\ t.path \in Paths
    BY DEF VaultTables
  <2>. QED
    BY <2>1, <2>2, <2>3
<1>2. CASE file.shape = "string"
  <2>1. /\ Tables(file) = <<[name |-> {}, path |-> file.path, keyfile |-> file.keyfile]>>
        /\ file.path \in Paths
    BY <1>2, ConfigAssumption DEF Tables
  <2>2. Len(Tables(file)) = 1 /\ Tables(file)[1].name = {} /\ Tables(file)[1].path = file.path
    BY <2>1
  <2>3. DOMAIN Tables(file) = 1..1
    BY <2>1
  <2>4. \A i \in 1..1 : i = 1
    OBVIOUS
  <2>. QED
    BY <2>1, <2>2, <2>3, <2>4
<1>3. CASE file.shape \notin {"tables", "string"}
  <2>1. Tables(file) = << >>
    BY <1>3 DEF Tables
  <2>. QED
    BY <2>1
<1>. QED
  BY <1>1, <1>2, <1>3

(* The name a database gets is the one that Named describes.               *)
LEMMA NameIsNamed ==
    ASSUME NEW file, NEW i, NEW t, t = Tables(file)[i],
           t.name \in SUBSET VaultNames, t.path \in Paths
    PROVE  Named(file, i, NameOf(t)) /\ NameOf(t) \in VaultNames \cup {"vault"}
<1>1. t.path.stem \in SUBSET VaultNames
  BY DEF Paths
<1>2. \A n \in t.name : Trim[n] \in VaultNames
  BY ConfigAssumption
<1>3. CASE Given(t.name) # {}
  <2>1. NameOf(t) \in Given(t.name)
    BY <1>3 DEF NameOf
  <2>. QED
    BY <1>2, <2>1 DEF Given, Named
<1>4. CASE Given(t.name) = {} /\ t.path.stem \ {""} # {}
  <2>1. NameOf(t) \in t.path.stem \ {""}
    BY <1>4 DEF NameOf
  <2>2. \A n \in t.name : Trim[n] = ""
    BY <1>4 DEF Given
  <2>. QED
    BY <1>1, <2>1, <2>2 DEF Named
<1>5. CASE Given(t.name) = {} /\ t.path.stem \ {""} = {}
  <2>1. NameOf(t) = "vault"
    BY <1>5 DEF NameOf
  <2>2. \A n \in t.name : Trim[n] = ""
    BY <1>5 DEF Given
  <2>3. t.path.stem \subseteq {""}
    BY <1>5
  <2>. QED
    BY <2>1, <2>2, <2>3 DEF Named
<1>. QED
  BY <1>3, <1>4, <1>5

(* A file that is accepted makes every database reachable by the name it   *)
(* gives, its file stem or "vault"; a file is refused only if it cannot be *)
(* read, has no database or a relative path, or gives a name twice.        *)
THEOREM ConfigCorrect == Spec => []ConfigUnambiguous
<1>1. ASSUME AInv PROVE ConfigUnambiguous
  <2>. SUFFICES ASSUME Returned("config") PROVE ConfigUnambiguous
    BY DEF ConfigUnambiguous
  <2>1. PICK file : file = call.file
    OBVIOUS
  <2>2. file \in Files
    <3>1. call \in ConfigCalls
      BY <1>1, Arguments
    <3>. QED
      BY <2>1, <3>1 DEF ConfigCalls
  <2>3. result[1] = FromToml(file)
    BY <1>1, <2>1 DEF AInv, Dispatched, Returned
  <2>. DEFINE tables == Tables(file)
              n      == Len(tables)
              vaults == [i \in DOMAIN tables |-> BuildVault(tables[i])]
              fine(t) == t.path.begins \in IF HomeKnown THEN {"/", "~/"} ELSE {"/"}
  <2>4. /\ n \in Nat /\ DOMAIN tables = 1..n /\ DOMAIN vaults = 1..n
        /\ \A i \in 1..n : tables[i].name \in SUBSET VaultNames /\ tables[i].path \in Paths
    BY <2>2, TablesTyped
  <2>5. \A i \in 1..n :
           /\ vaults[i].name = NameOf(tables[i])
           /\ Named(file, i, vaults[i].name) /\ vaults[i].name \in VaultNames \cup {"vault"}
    <3>. TAKE i \in 1..n
    <3>1. vaults[i].name = NameOf(tables[i])
      BY <2>4 DEF BuildVault
    <3>. QED
      BY <2>4, <3>1, NameIsNamed
  <2>6. \A i \in 1..n : IsAbsolute(vaults[i].path) <=> fine(tables[i])
    <3>. TAKE i \in 1..n
    <3>1. vaults[i].path = Expand(tables[i].path)
      BY <2>4 DEF BuildVault
    <3>2. tables[i].path \in Paths
      BY <2>4
    <3>. QED
      BY <3>1, <3>2, ConfigAssumption DEF Expand, IsAbsolute, Paths
  <2>7. vaults # << >> <=> n # 0
    BY <2>4
  <2>. HIDE DEF tables, n, vaults, fine
  <2>8. result[1] = IF /\ Readable(file) /\ \A i \in 1..n : IsAbsolute(vaults[i].path)
                       /\ vaults # << >> /\ ~TwoNamed(vaults)
                    THEN {[vaults |-> vaults, idle_lock |-> IdleLock(file.idle_lock_seconds)]}
                    ELSE {}
    BY <2>3, <2>4 DEF FromToml, tables, vaults
  <2>9. ASSUME NEW config \in result[1]
        PROVE  /\ Unambiguous(config)
               /\ \A i \in 1..n : Named(file, i, config.vaults[i].name)
               /\ (config.idle_lock = {}) <=> (file.idle_lock_seconds = {0})
    <3>1. /\ config.vaults = vaults /\ config.idle_lock = IdleLock(file.idle_lock_seconds)
          /\ \A i \in 1..n : IsAbsolute(vaults[i].path)
          /\ vaults # << >> /\ ~TwoNamed(vaults)
      BY <2>8, <2>9
    <3>2. Unambiguous(config)
      BY <2>3, <2>4, <2>9, AcceptedUnambiguous DEF tables
    <3>3. (config.idle_lock = {}) <=> (file.idle_lock_seconds = {0})
      BY <3>1 DEF IdleLock
    <3>. QED
      BY <2>5, <3>1, <3>2, <3>3
  <2>10. ASSUME result[1] = {}
         PROVE  \/ ~Readable(file) \/ n = 0
                \/ \E i \in 1..n : ~fine(tables[i])
                \/ \E i, j \in 1..n : \E name \in VaultNames \cup {"vault"} :
                      i # j /\ Named(file, i, name) /\ Named(file, j, name)
    <3>. SUFFICES ASSUME TwoNamed(vaults)
                  PROVE  \E i, j \in 1..n : \E name \in VaultNames \cup {"vault"} :
                            i # j /\ Named(file, i, name) /\ Named(file, j, name)
      BY <2>6, <2>7, <2>8, <2>10
    <3>1. PICK i \in 1..n, j \in 1..n : i < j /\ vaults[j].name = vaults[i].name
      BY <2>4 DEF TwoNamed
    <3>. QED
      BY <2>4, <2>5, <3>1
  <2>. QED
    BY <2>1, <2>9, <2>10 DEF ConfigUnambiguous, n, tables, fine
<1>. QED
  BY Returns, <1>1, PTL

-----------------------------------------------------------------------------
(* The fields of an entry.                                                 *)

LEMMA ProvideIs ==
    ASSUME NEW kind, NEW v
    PROVE  Provide(<<kind, v>>).code = "ok" /\ Provide(<<kind, v>>).text = <<kind, v>>
BY DEF Provide

LEMMA OptionalIs ==
    ASSUME NEW kind, NEW option
    PROVE  /\ option = {} => Optional(kind, option).code = "not-found"
           /\ option # {} => /\ Optional(kind, option).code = "ok"
                             /\ Optional(kind, option).text = <<kind, OrEmpty(option)>>
<1>1. option = {} => Optional(kind, option).code = "not-found"
  BY DEF Optional, Refuse
<1>2. option # {} => Optional(kind, option) = Provide(<<kind, OrEmpty(option)>>)
  BY DEF Optional
<1>. QED
  BY <1>1, <1>2, ProvideIs

LEMMA ValueIs ==
    ASSUME NEW raw, NEW key, NEW option, option = Value(raw, key)
    PROVE  /\ key \in DOMAIN raw => option # {} /\ option = {raw[key]} /\ OrEmpty(option) = raw[key]
           /\ key \notin DOMAIN raw => option = {} /\ OrEmpty(option) = ""
<1>1. CASE key \in DOMAIN raw
  <2>1. option = {raw[key]}
    BY <1>1 DEF Value
  <2>. QED
    BY <1>1, <2>1 DEF OrEmpty
<1>2. CASE key \notin DOMAIN raw
  <2>1. option = {}
    BY <1>2 DEF Value
  <2>. QED
    BY <1>2, <2>1 DEF OrEmpty
<1>. QED
  BY <1>1, <1>2

LEMMA AliasOf ==
    ASSUME NEW l
    PROVE  LET fields == {f \in DOMAIN Aliases : l \in Aliases[f]}
           IN  /\ \/ fields = {"password"} /\ l \in {"password", "pass"}
                  \/ fields = {"username"} /\ l \in {"username", "user"}
                  \/ fields = {"url"}      /\ l = "url"
                  \/ fields = {"notes"}    /\ l \in {"notes", "note"}
                  \/ fields = {"totp"}     /\ l \in {"totp", "otp"}
                  \/ fields = {"otpUri"}   /\ l \in {"otp-uri", "otpauth"}
                  \/ fields = {}           /\ l \notin {"username", "user", "url"}
               /\ fields = {} <=> l \notin AllAliases
<1>1. /\ DOMAIN Aliases = {"password", "username", "url", "notes", "totp", "otpUri"}
      /\ Aliases["password"] = {"password", "pass"} /\ Aliases["username"] = {"username", "user"}
      /\ Aliases["url"] = {"url"} /\ Aliases["notes"] = {"notes", "note"}
      /\ Aliases["totp"] = {"totp", "otp"} /\ Aliases["otpUri"] = {"otp-uri", "otpauth"}
  BY DEF Aliases
<1>2. AllAliases = UNION {Aliases[f] : f \in DOMAIN Aliases}
  BY DEF AllAliases
<1>3. (\A f \in DOMAIN Aliases : l \notin Aliases[f]) <=> l \notin AllAliases
  BY <1>2
<1>. QED
  BY <1>1, <1>3

(* The fields Secret tells apart.                                          *)
SecretFields == {"password", "username", "url", "notes", "totp", "otpUri"}

KindOf(f) == IF f = "totp" THEN "code of" ELSE IF f = "otpUri" THEN "uri" ELSE "text"

(* The answer r for the field f, which stands under key in raw: the value  *)
(* there; empty for an accessor that has none; an otp only if it is a URI. *)
Gives(r, raw, f, key) ==
    IF \/ f \in {"username", "url"}
       \/ key \in DOMAIN raw /\ (f \in {"totp", "otpUri"} => raw[key] \in OtpUris)
    THEN /\ r.code = "ok"
         /\ r.text = <<KindOf(f), IF key \in DOMAIN raw THEN raw[key] ELSE "">>
    ELSE r.code = "not-found"

(* What Secret gives of a converted entry, by the key it stands for.       *)
LEMMA SecretIs ==
    ASSUME NEW raw, NEW f \in SecretFields,
           NEW key, key = StandardKey[f],
           NEW r, r = Secret(ConvertEntry(raw), f)
    PROVE  Gives(r, raw, f, key)
<1>1. PICK o, kind, v : o = Value(raw, key) /\ kind = KindOf(f) /\ v = OrEmpty(o)
  OBVIOUS
<1>2. /\ key \in DOMAIN raw => o # {} /\ o = {raw[key]} /\ v = raw[key]
      /\ key \notin DOMAIN raw => o = {} /\ v = ""
  BY <1>1, ValueIs
<1>3. Gives(r, raw, f, key) <=>
          IF \/ f \in {"username", "url"}
             \/ key \in DOMAIN raw /\ (f \in {"totp", "otpUri"} => raw[key] \in OtpUris)
          THEN r.code = "ok" /\ r.text = <<kind, v>>
          ELSE r.code = "not-found"
  <2>1. v = IF key \in DOMAIN raw THEN raw[key] ELSE ""
    BY <1>2
  <2>. QED
    BY <1>1, <2>1 DEF Gives
<1>4. CASE f \in {"password", "notes"}
  <2>1. key = IF f = "password" THEN "Password" ELSE "Notes"
    BY <1>4 DEF StandardKey
  <2>2. kind = "text"
    BY <1>1, <1>4 DEF KindOf
  <2>3. r = Optional(kind, o)
    BY <1>1, <1>4, <2>1, <2>2 DEF Secret, ConvertEntry
  <2>4. f \notin {"username", "url", "totp", "otpUri"}
    BY <1>4
  <2>5. /\ o = {} => r.code = "not-found"
        /\ o # {} => r.code = "ok" /\ r.text = <<kind, v>>
    BY <1>1, <2>3, OptionalIs
  <2>. QED
    BY <1>2, <1>3, <2>4, <2>5
<1>5. CASE f \in {"username", "url"}
  <2>1. key = IF f = "username" THEN "UserName" ELSE "URL"
    BY <1>5 DEF StandardKey
  <2>2. kind = "text"
    BY <1>1, <1>5 DEF KindOf
  <2>3. r = Provide(<<kind, v>>)
    BY <1>1, <1>5, <2>1, <2>2 DEF Secret, ConvertEntry
  <2>4. r.code = "ok" /\ r.text = <<kind, v>>
    BY <2>3, ProvideIs
  <2>. QED
    BY <1>3, <1>5, <2>4
<1>6. CASE f \in {"totp", "otpUri"}
  <2>1. key = "otp"
    BY <1>6 DEF StandardKey
  <2>2. PICK uri : uri = o \cap OtpUris
    OBVIOUS
  <2>3. kind = IF f = "totp" THEN "code of" ELSE "uri"
    BY <1>1, <1>6 DEF KindOf
  <2>4. r = Optional(kind, uri)
    BY <1>1, <1>6, <2>1, <2>2, <2>3 DEF Secret, ConvertEntry
  <2>5. CASE key \in DOMAIN raw /\ raw[key] \in OtpUris
    <3>1. uri = o /\ o # {}
      BY <1>2, <2>2, <2>5
    <3>2. r.code = "ok" /\ r.text = <<kind, v>>
      BY <1>1, <2>4, <3>1, OptionalIs
    <3>. QED
      BY <1>3, <1>6, <2>5, <3>2
  <2>6. CASE ~(key \in DOMAIN raw /\ raw[key] \in OtpUris)
    <3>1. uri = {}
      BY <1>2, <2>2, <2>6
    <3>2. r.code = "not-found"
      BY <2>4, <3>1, OptionalIs
    <3>. QED
      BY <1>3, <1>6, <2>6, <3>2
  <2>. QED
    BY <2>5, <2>6
<1>. QED
  BY <1>4, <1>5, <1>6 DEF SecretFields

(* What `copy' takes from an entry under a name is the text of the field   *)
(* the name stands for.                                                    *)
LEMMA CopyIs ==
    ASSUME NEW raw, NEW name \in FieldNames,
           NEW r, r = CopyOf(ConvertEntry(raw), name)
    PROVE  /\ r.code = IF name = "" THEN "bad-request"
                       ELSE IF Available(raw, name) THEN "ok" ELSE "not-found"
           /\ FieldText(raw, name) = IF r.code = "ok" THEN {r.text} ELSE {}
<1>1. PICK l : l = LowerCase[name]
  OBVIOUS
<1>2. PICK fields : fields = {f \in DOMAIN Aliases : l \in Aliases[f]}
  OBVIOUS
<1>3. r = IF name = "" THEN Refuse("bad-request")
          ELSE IF fields # {} THEN Secret(ConvertEntry(raw), OrEmpty(fields))
          ELSE Optional("text", Value(ConvertEntry(raw).custom, name))
  BY <1>1, <1>2 DEF CopyOf
<1>4. PICK values, kind : /\ values = {raw[key] : key \in KeyFor(name) \cap DOMAIN raw}
                          /\ kind = CASE l \in Aliases.totp   -> "code of"
                                      [] l \in Aliases.otpUri -> "uri"
                                      [] OTHER                -> "text"
  OBVIOUS
<1>5. FieldText(raw, name) =
          IF name = "" \/ ~Available(raw, name) THEN {}
          ELSE {<<kind, v>> : v \in IF values = {} THEN {""} ELSE values}
  BY <1>1, <1>4 DEF FieldText
<1>6. KeyFor(name) = {StandardKey[f] : f \in fields}
                         \cup (IF fields = {} /\ name \notin StandardFields THEN {name} ELSE {})
  BY <1>1, <1>2, AliasOf DEF KeyFor
<1>7. Available(raw, name) <=>
         \/ l \in {"username", "user", "url"}
         \/ \E key \in KeyFor(name) \cap DOMAIN raw : key = "otp" => raw[key] \in OtpUris
  BY <1>1 DEF Available, Aliases
<1>8. /\ DOMAIN Aliases = {"password", "username", "url", "notes", "totp", "otpUri"}
      /\ Aliases.totp = Aliases["totp"] /\ Aliases.otpUri = Aliases["otpUri"]
  BY DEF Aliases
<1>. DEFINE Good(v) ==
        /\ r.code = IF Available(raw, name) THEN "ok" ELSE "not-found"
        /\ r.code = "ok" =>
              r.text = <<kind, v>> /\ (IF values = {} THEN {""} ELSE values) = {v}
<1>9. ASSUME name # "", fields = {} PROVE \E v : Good(v)
  <2>1. l \notin {"username", "user", "url"}
    BY <1>2, <1>9, AliasOf
  <2>2. KeyFor(name) = IF name \in StandardFields THEN {} ELSE {name}
    BY <1>6, <1>9
  <2>3. kind = "text"
    BY <1>2, <1>4, <1>8, <1>9
  <2>4. PICK custom, o, v : /\ custom = ConvertEntry(raw).custom
                            /\ o = Value(custom, name) /\ v = OrEmpty(o)
    OBVIOUS
  <2>5. r = Optional(kind, o)
    BY <1>3, <1>9, <2>3, <2>4
  <2>6. /\ DOMAIN custom = DOMAIN raw \ StandardFields
        /\ \A k \in DOMAIN custom : custom[k] = raw[k]
    <3>1. custom = Restrict(raw, DOMAIN raw \ StandardFields)
      BY <2>4 DEF ConvertEntry
    <3>. QED
      BY <3>1 DEF Restrict
  <2>7. /\ name \in DOMAIN raw \ StandardFields => o # {} /\ v = raw[name]
        /\ name \notin DOMAIN raw \ StandardFields => o = {}
    <3>1. /\ name \in DOMAIN custom => o # {} /\ OrEmpty(o) = custom[name]
          /\ name \notin DOMAIN custom => o = {}
      BY <2>4, ValueIs
    <3>. QED
      BY <2>4, <2>6, <3>1
  <2>8. "otp" \in StandardFields
    BY DEF StandardFields
  <2>9. CASE name \in DOMAIN raw \ StandardFields
    <3>1. r.code = "ok" /\ r.text = <<kind, v>>
      BY <2>4, <2>5, <2>7, <2>9, OptionalIs
    <3>2. KeyFor(name) = {name} /\ name # "otp"
      BY <2>2, <2>8, <2>9
    <3>3. Available(raw, name)
      BY <1>7, <2>9, <3>2
    <3>4. values = {v}
      BY <1>4, <2>7, <2>9, <3>2
    <3>. QED
      BY <3>1, <3>3, <3>4
  <2>10. CASE name \notin DOMAIN raw \ StandardFields
    <3>1. r.code = "not-found"
      BY <2>5, <2>7, <2>10, OptionalIs
    <3>2. KeyFor(name) \cap DOMAIN raw = {}
      BY <2>2, <2>10
    <3>. QED
      BY <1>7, <2>1, <3>1, <3>2
  <2>. QED
    BY <2>9, <2>10
<1>10. ASSUME name # "", fields # {} PROVE \E v : Good(v)
  <2>1. PICK f \in {"password", "username", "url", "notes", "totp", "otpUri"} :
           /\ fields = {f}
           /\ f \in {"username", "url"} <=> l \in {"username", "user", "url"}
    BY <1>2, <1>10, AliasOf
  <2>2. PICK key : key = StandardKey[f]
    OBVIOUS
  <2>3. KeyFor(name) = {key}
    BY <1>6, <1>10, <2>1, <2>2
  <2>4. key = "otp" <=> f \in {"totp", "otpUri"}
    BY <2>1, <2>2 DEF StandardKey
  <2>5. kind = KindOf(f)
    <3>1. /\ l \in Aliases["totp"] <=> f = "totp"
          /\ l \in Aliases["otpUri"] <=> f = "otpUri"
      BY <1>2, <1>8, <2>1
    <3>. QED
      BY <1>4, <1>8, <3>1 DEF KindOf
  <2>6. r = Secret(ConvertEntry(raw), f)
    BY <1>3, <1>10, <2>1 DEF OrEmpty
  <2>7. PICK v : v = IF key \in DOMAIN raw THEN raw[key] ELSE ""
    OBVIOUS
  <2>8. IF \/ f \in {"username", "url"}
           \/ key \in DOMAIN raw /\ (f \in {"totp", "otpUri"} => raw[key] \in OtpUris)
        THEN r.code = "ok" /\ r.text = <<kind, v>>
        ELSE r.code = "not-found"
    <3>1. f \in SecretFields
      BY <2>1 DEF SecretFields
    <3>2. Gives(r, raw, f, key)
      BY <3>1, <2>2, <2>6, SecretIs
    <3>. QED
      BY <3>2, <2>5, <2>7 DEF Gives
  <2>9. Available(raw, name) <=>
           \/ f \in {"username", "url"}
           \/ key \in DOMAIN raw /\ (f \in {"totp", "otpUri"} => raw[key] \in OtpUris)
    BY <1>7, <2>1, <2>3, <2>4
  <2>10. (IF values = {} THEN {""} ELSE values) = {v}
    <3>1. values = IF key \in DOMAIN raw THEN {raw[key]} ELSE {}
      BY <1>4, <2>3
    <3>. QED
      BY <2>7, <3>1
  <2>. QED
    BY <2>8, <2>9, <2>10
<1>11. CASE name = ""
  <2>1. r.code = "bad-request"
    <3>1. r = Refuse("bad-request")
      BY <1>3, <1>11, Zenon
    <3>2. Refuse("bad-request").code = "bad-request"
      BY DEF Refuse
    <3>. QED
      BY <3>1, <3>2, Zenon
  <2>2. FieldText(raw, name) = {}
    BY <1>5, <1>11
  <2>3. r.code # "ok"
    BY <2>1
  <2>4. FieldText(raw, name) = IF r.code = "ok" THEN {r.text} ELSE {}
    BY <2>2, <2>3
  <2>. QED
    BY <1>11, <2>1, <2>4
<1>12. CASE name # ""
  <2>1. PICK v : Good(v)
    BY <1>9, <1>10, <1>12
  <2>2. CASE Available(raw, name)
    <3>1. r.code = "ok" /\ r.text = <<kind, v>> /\ (IF values = {} THEN {""} ELSE values) = {v}
      BY <2>1, <2>2
    <3>2. FieldText(raw, name) = {<<kind, v>>}
      BY <1>5, <1>12, <2>2, <3>1
    <3>. QED
      BY <1>12, <2>2, <3>1, <3>2
  <2>3. CASE ~Available(raw, name)
    <3>1. r.code = "not-found" /\ FieldText(raw, name) = {}
      BY <1>5, <2>1, <2>3
    <3>. QED
      BY <1>12, <2>3, <3>1
  <2>. QED
    BY <2>2, <2>3
<1>. QED
  BY <1>11, <1>12

(* A name gives the value of the field it stands for and of no other,      *)
(* through conversion, aliases and case; a custom field is reached under   *)
(* its exact name, unless an alias takes the name for itself.              *)
THEOREM CopyFieldCorrect == Spec => []CopyFindsField
<1>1. ASSUME AInv PROVE CopyFindsField
  <2>. SUFFICES ASSUME Returned("copy") PROVE CopyFindsField
    BY DEF CopyFindsField
  <2>1. PICK raw, name : raw = call.raw /\ name = call.name
    OBVIOUS
  <2>2. name \in FieldNames
    <3>1. call \in CopyCalls
      BY <1>1, Arguments
    <3>. QED
      BY <2>1, <3>1 DEF CopyCalls
  <2>3. PICK r : r = CopyOf(ConvertEntry(raw), name)
    OBVIOUS
  <2>4. result[1] = r
    BY <1>1, <2>1, <2>3 DEF AInv, Dispatched, Returned
  <2>5. /\ r.code = IF name = "" THEN "bad-request"
                    ELSE IF Available(raw, name) THEN "ok" ELSE "not-found"
        /\ FieldText(raw, name) = IF r.code = "ok" THEN {r.text} ELSE {}
    BY <2>2, <2>3, CopyIs
  <2>6. PICK values : values = {raw[k] : k \in KeyFor(name) \cap DOMAIN raw}
    OBVIOUS
  <2>7. ASSUME r.code = "ok" PROVE r.text[2] \in IF values = {} THEN {""} ELSE values
    <3>1. r.text \in FieldText(raw, name) /\ name # "" /\ Available(raw, name)
      BY <2>5, <2>7
    <3>2. PICK kind : FieldText(raw, name) =
                          {<<kind, v>> : v \in IF values = {} THEN {""} ELSE values}
      <4>. DEFINE k == CASE LowerCase[name] \in Aliases.totp   -> "code of"
                         [] LowerCase[name] \in Aliases.otpUri -> "uri"
                         [] OTHER                              -> "text"
      <4>1. FieldText(raw, name) = {<<k, v>> : v \in IF values = {} THEN {""} ELSE values}
        BY <2>6, <3>1 DEF FieldText
      <4>. HIDE DEF k
      <4>. QED
        BY <4>1
    <3>3. PICK v : r.text = <<kind, v>> /\ v \in IF values = {} THEN {""} ELSE values
      BY <3>1, <3>2
    <3>4. r.text[2] = v
      <4>1. PICK text : text = <<kind, v>>
        OBVIOUS
      <4>2. text[2] = v
        BY <4>1
      <4>. QED
        BY <3>3, <4>1, <4>2
    <3>. QED
      BY <3>3, <3>4
  <2>8. values = {} <=> KeyFor(name) \cap DOMAIN raw = {}
    BY <2>6
  <2>9. r.code = CASE name = "" -> "bad-request"
                   [] name # "" /\ Available(raw, name) -> "ok"
                   [] OTHER -> "not-found"
    BY <2>5
  <2>10. r.code = "ok" =>
            r.text[2] \in values \cup (IF KeyFor(name) \cap DOMAIN raw = {} THEN {""} ELSE {})
    BY <2>7, <2>8
  <2>. QED
    BY <2>1, <2>4, <2>6, <2>9, <2>10 DEF CopyFindsField
<1>. QED
  BY Returns, <1>1, PTL

-----------------------------------------------------------------------------
(* Type sequences.                                                         *)

(* A state of the loop over the tokens of a sequence.                      *)
Resolutions(entry) ==
    [code : {"ok"} \cup {Resolve(entry, token).code : token \in FieldNames},
     tokens : Seq({Resolve(entry, token).text : token \in FieldNames})]

(* One token more; the same as step in ResolveTypeSequence.                *)
ResolveNext(entry, r, token) ==
    LET t == Resolve(entry, token)
    IN  IF r.code # "ok" THEN r
        ELSE IF t.code # "ok" THEN [code |-> t.code, tokens |-> << >>]
        ELSE [r EXCEPT !.tokens = Append(@, t.text)]

LEMMA ResolveNextTyped ==
    ASSUME NEW entry, NEW r \in Resolutions(entry), NEW token \in FieldNames
    PROVE  ResolveNext(entry, r, token) \in Resolutions(entry)
<1>1. PICK t : t = Resolve(entry, token)
  OBVIOUS
<1>2. PICK Texts, Codes : /\ Texts = {Resolve(entry, tok).text : tok \in FieldNames}
                          /\ Codes = {"ok"} \cup {Resolve(entry, tok).code : tok \in FieldNames}
  OBVIOUS
<1>3. t.text \in Texts /\ t.code \in Codes
  BY <1>1, <1>2
<1>4. Resolutions(entry) = [code : Codes, tokens : Seq(Texts)]
  BY <1>2 DEF Resolutions
<1>5. ResolveNext(entry, r, token) =
          IF r.code # "ok" THEN r
          ELSE IF t.code # "ok" THEN [code |-> t.code, tokens |-> << >>]
          ELSE [r EXCEPT !.tokens = Append(@, t.text)]
  BY <1>1 DEF ResolveNext
<1>6. << >> \in Seq(Texts) /\ Append(r.tokens, t.text) \in Seq(Texts)
  BY <1>3, <1>4
<1>. QED
  BY <1>3, <1>4, <1>5, <1>6

(* The states that loop goes through, one for every token.                 *)
LEMMA Resolving ==
    ASSUME NEW n \in Nat, NEW entry, NEW sequence \in [1..n -> FieldNames]
    PROVE  \E h : /\ h[0] = Resolved
                  /\ \A k \in 1..n : h[k] = ResolveNext(entry, h[k - 1], sequence[k])
                  /\ ResolveTypeSequence(entry, sequence) = h[n]
<1>. DEFINE Folds(it) ==
        it = [s \in SUBSET (1..n) |->
                 IF s = {} THEN Resolved
                 ELSE ResolveNext(entry, it[s \ {Max(s)}], sequence[Max(s)])]
<1>1. Resolved \in Resolutions(entry)
  BY DEF Resolved, Resolutions
<1>2. PICK g : g = [x \in (1..n) \X Resolutions(entry) |-> ResolveNext(entry, x[2], sequence[x[1]])]
  OBVIOUS
<1>3. g \in Steps(n, Resolutions(entry))
  <2>1. \A x \in (1..n) \X Resolutions(entry) :
            ResolveNext(entry, x[2], sequence[x[1]]) \in Resolutions(entry)
    BY ResolveNextTyped
  <2>. QED
    BY <1>2, <2>1 DEF Steps
<1>4. PICK it : IsFold(it, n, Resolutions(entry), Resolved, g)
  BY <1>1, <1>3, FoldExists
<1>5. ASSUME NEW s \in SUBSET (1..n), s # {}
      PROVE  g[<<Max(s), it[s \ {Max(s)}]>>] =
                 ResolveNext(entry, it[s \ {Max(s)}], sequence[Max(s)])
  <2>1. PICK x, u : x = Max(s) /\ u = it[s \ {Max(s)}]
    OBVIOUS
  <2>2. x \in 1..n
    BY <1>5, <2>1, MaxIs
  <2>3. u \in Resolutions(entry)
    BY <1>4, <2>1 DEF IsFold
  <2>4. g[<<x, u>>] = ResolveNext(entry, u, sequence[x])
    BY <1>2, <2>2, <2>3
  <2>. QED
    BY <2>1, <2>4
<1>6. Folds(it)
  BY <1>4, <1>5 DEF IsFold
<1>7. PICK iter : iter = CHOOSE i : Folds(i)
  OBVIOUS
<1>8. Folds(iter)
  <2>. HIDE DEF Folds
  <2>. QED
    BY <1>6, <1>7
<1>9. ResolveTypeSequence(entry, sequence) = iter[1..n]
  <2>1. DOMAIN sequence = 1..n
    OBVIOUS
  <2>. QED
    BY <1>7, <2>1 DEF ResolveTypeSequence, ResolveNext, FoldLeft, MapThenFoldSet
<1>10. PICK h : h = [k \in 0..n |-> iter[1..k]]
  OBVIOUS
<1>11. h[0] = Resolved
  <2>1. 1..0 = {} /\ {} \in SUBSET (1..n) /\ 0 \in 0..n
    OBVIOUS
  <2>. QED
    BY <1>8, <1>10, <2>1
<1>12. ASSUME NEW k \in 1..n PROVE h[k] = ResolveNext(entry, h[k - 1], sequence[k])
  <2>1. k \in 0..n /\ k - 1 \in 0..n
    OBVIOUS
  <2>2. iter[1..k] = ResolveNext(entry, iter[(1..k) \ {Max(1..k)}], sequence[Max(1..k)])
    BY <1>8, Downwards
  <2>. QED
    BY <1>10, <2>1, <2>2, Downwards
<1>13. n \in 0..n
  OBVIOUS
<1>14. ResolveTypeSequence(entry, sequence) = h[n]
  BY <1>9, <1>10, <1>13
<1>. QED
  BY <1>11, <1>12, <1>14

(* After k tokens: all of them have been resolved, in order, or one cannot *)
(* be and it failed.                                                       *)
ResolvedUpTo(entry, sequence, k, r) ==
    /\ r.code = "ok" => /\ r.tokens = [i \in 1..k |-> Resolve(entry, sequence[i]).text]
                        /\ \A i \in 1..k : Resolve(entry, sequence[i]).code = "ok"
    /\ r.code # "ok" => \E i \in 1..k : Resolve(entry, sequence[i]).code # "ok"
    /\ r \in Resolutions(entry)

LEMMA ResolvedOneMore ==
    ASSUME NEW n \in Nat, NEW entry, NEW sequence \in [1..n -> FieldNames], NEW k \in 1..n,
           NEW r, ResolvedUpTo(entry, sequence, k - 1, r),
           NEW q, q = ResolveNext(entry, r, sequence[k])
    PROVE  ResolvedUpTo(entry, sequence, k, q)
<1>1. PICK t : t = Resolve(entry, sequence[k])
  OBVIOUS
<1>2. q \in Resolutions(entry)
  BY ResolveNextTyped DEF ResolvedUpTo
<1>3. q = IF r.code # "ok" THEN r
          ELSE IF t.code # "ok" THEN [code |-> t.code, tokens |-> << >>]
          ELSE [r EXCEPT !.tokens = Append(@, t.text)]
  BY <1>1 DEF ResolveNext
<1>4. CASE r.code = "ok" /\ t.code = "ok"
  <2>1. q = [r EXCEPT !.tokens = Append(@, t.text)]
    BY <1>3, <1>4
  <2>2. r \in Resolutions(entry)
    BY DEF ResolvedUpTo
  <2>3. q.tokens = Append(r.tokens, t.text)
    BY <2>1, <2>2 DEF Resolutions
  <2>4. /\ r.tokens = [i \in 1..(k - 1) |-> Resolve(entry, sequence[i]).text]
        /\ \A i \in 1..(k - 1) : Resolve(entry, sequence[i]).code = "ok"
    BY <1>4 DEF ResolvedUpTo
  <2>5. PICK Texts : Texts = {Resolve(entry, tok).text : tok \in FieldNames}
    OBVIOUS
  <2>6. r.tokens \in Seq(Texts) /\ Len(r.tokens) = k - 1
    BY <2>2, <2>4, <2>5 DEF Resolutions
  <2>7. q.tokens = [i \in 1..k |-> Resolve(entry, sequence[i]).text]
    <3>1. PICK s, u : s = r.tokens /\ u = q.tokens
      OBVIOUS
    <3>2. u = Append(s, t.text) /\ s \in Seq(Texts) /\ Len(s) = k - 1
      BY <2>3, <2>6, <3>1
    <3>3. t.text \in Texts
      BY <1>1, <2>5
    <3>4. /\ u \in Seq(Texts) /\ Len(u) = k /\ u[k] = t.text
          /\ \A i \in 1..(k - 1) : u[i] = s[i]
      BY <3>2, <3>3
    <3>5. \A i \in 1..k : u[i] = Resolve(entry, sequence[i]).text
      BY <1>1, <2>4, <3>1, <3>4
    <3>6. u = [i \in 1..k |-> u[i]]
      BY <3>4
    <3>. QED
      BY <3>1, <3>5, <3>6
  <2>8. \A i \in 1..k : Resolve(entry, sequence[i]).code = "ok"
    BY <1>1, <1>4, <2>4
  <2>9. q.code = "ok"
    BY <1>4, <2>1, <2>2 DEF Resolutions
  <2>. QED
    BY <1>2, <2>7, <2>8, <2>9 DEF ResolvedUpTo
<1>5. CASE ~(r.code = "ok" /\ t.code = "ok")
  <2>1. q.code # "ok"
    BY <1>3, <1>5
  <2>2. \E i \in 1..k : Resolve(entry, sequence[i]).code # "ok"
    <3>1. CASE r.code = "ok"
      BY <1>1, <1>5, <3>1
    <3>2. CASE r.code # "ok"
      <4>1. PICK i \in 1..(k - 1) : Resolve(entry, sequence[i]).code # "ok"
        BY <3>2 DEF ResolvedUpTo
      <4>2. i \in 1..k
        OBVIOUS
      <4>. QED
        BY <4>1, <4>2
    <3>. QED
      BY <3>1, <3>2
  <2>. QED
    BY <1>2, <2>1, <2>2 DEF ResolvedUpTo
<1>. QED
  BY <1>4, <1>5

LEMMA ResolvedAll ==
    ASSUME NEW n \in Nat, NEW entry, NEW sequence \in [1..n -> FieldNames],
           NEW r, r = ResolveTypeSequence(entry, sequence)
    PROVE  ResolvedUpTo(entry, sequence, n, r)
<1>1. PICK h : /\ h[0] = Resolved
               /\ \A k \in 1..n : h[k] = ResolveNext(entry, h[k - 1], sequence[k])
               /\ ResolveTypeSequence(entry, sequence) = h[n]
  BY Resolving
<1>2. PICK T : T = {k \in 0..n : ResolvedUpTo(entry, sequence, k, h[k])}
  OBVIOUS
<1>3. 0 \in T
  <2>1. Resolved \in Resolutions(entry) /\ Resolved.tokens = << >> /\ Resolved.code = "ok"
    BY DEF Resolved, Resolutions
  <2>2. 1..0 = {} /\ << >> = [i \in 1..0 |-> Resolve(entry, sequence[i]).text]
    OBVIOUS
  <2>3. ResolvedUpTo(entry, sequence, 0, Resolved)
    BY <2>1, <2>2 DEF ResolvedUpTo
  <2>. QED
    BY <1>1, <1>2, <2>3
<1>4. ASSUME NEW k \in 0..(n - 1), k \in T PROVE k + 1 \in T
  <2>1. k + 1 \in 1..n /\ (k + 1) - 1 = k /\ k + 1 \in 0..n
    OBVIOUS
  <2>2. PICK r0, q : r0 = h[k] /\ q = h[k + 1]
    OBVIOUS
  <2>3. q = ResolveNext(entry, r0, sequence[k + 1])
    BY <1>1, <2>1, <2>2
  <2>4. ResolvedUpTo(entry, sequence, (k + 1) - 1, r0)
    BY <1>2, <1>4, <2>1, <2>2
  <2>5. ResolvedUpTo(entry, sequence, k + 1, q)
    BY <2>1, <2>3, <2>4, ResolvedOneMore
  <2>. QED
    BY <1>2, <2>1, <2>2, <2>5
<1>5. n \in T
  BY <1>3, <1>4, InductiveUpTo
<1>. QED
  BY <1>1, <1>2, <1>5

(* A token is resolved to what it means, in lower case, if anything.       *)
LEMMA MeaningIs ==
    ASSUME NEW raw, NEW token \in FieldNames, NEW t, t = Resolve(ConvertEntry(raw), token)
    PROVE  \/ Means(raw, token) = IF t.code = "ok" THEN {t.text} ELSE {}
           \/ Means(raw, LowerCase[token]) = IF t.code = "ok" THEN {t.text} ELSE {}
<1>1. PICK name : name = LowerCase[token]
  OBVIOUS
<1>2. name \in FieldNames /\ LowerCase[name] = name /\ (name \in Delays => token \in Delays)
  BY <1>1, EntriesAssumption
<1>3. PICK strokes : strokes = {k \in DOMAIN Strokes : name \in Strokes[k]}
  OBVIOUS
<1>4. /\ name \in DOMAIN Keys => strokes = {Keys[name]}
      /\ name \notin DOMAIN Keys => strokes = {}
  <2>1. /\ DOMAIN Strokes = {"Tab", "Return", "Escape"}
        /\ Strokes["Tab"] = {"tab"} /\ Strokes["Return"] = {"enter", "return"}
        /\ Strokes["Escape"] = {"escape", "esc"}
    BY DEF Strokes
  <2>2. /\ DOMAIN Keys = {"tab", "enter", "return", "escape", "esc"}
        /\ Keys["tab"] = "Tab" /\ Keys["enter"] = "Return" /\ Keys["return"] = "Return"
        /\ Keys["escape"] = "Escape" /\ Keys["esc"] = "Escape"
    BY DEF Keys
  <2>. QED
    BY <1>3, <2>1, <2>2
<1>5. CASE name \in DOMAIN Keys
  <2>1. PICK key, text : key = Keys[name] /\ text = <<"key", key>>
    OBVIOUS
  <2>2. t = Provide(text)
    BY <1>1, <1>5, <2>1 DEF Resolve
  <2>3. Means(raw, token) = {<<"key", k>> : k \in strokes}
    BY <1>1, <1>3, <1>4, <1>5 DEF Means
  <2>4. Means(raw, token) = {text}
    BY <1>4, <1>5, <2>1, <2>3
  <2>5. t.code = "ok" /\ t.text = text
    BY <2>2 DEF Provide
  <2>. QED
    BY <2>4, <2>5
<1>6. CASE name \notin DOMAIN Keys /\ token \in Delays
  <2>1. PICK text : text = <<"delay", token>>
    OBVIOUS
  <2>2. t = IF token \in GoodDelays THEN Provide(text) ELSE Refuse("bad-request")
    BY <1>1, <1>6, <2>1 DEF Resolve
  <2>3. Means(raw, token) = {<<"delay", d>> : d \in {token} \cap GoodDelays}
    BY <1>1, <1>3, <1>4, <1>6 DEF Means
  <2>4. CASE token \in GoodDelays
    <3>1. Means(raw, token) = {text}
      BY <2>1, <2>3, <2>4
    <3>2. t.code = "ok" /\ t.text = text
      BY <2>2, <2>4 DEF Provide
    <3>. QED
      BY <3>1, <3>2
  <2>5. CASE token \notin GoodDelays
    <3>1. Means(raw, token) = {}
      BY <2>3, <2>5
    <3>2. t.code = "bad-request"
      BY <2>2, <2>5 DEF Refuse
    <3>. QED
      BY <3>1, <3>2
  <2>. QED
    BY <2>4, <2>5
<1>7. CASE name \notin DOMAIN Keys /\ token \notin Delays
  <2>1. t = CopyOf(ConvertEntry(raw), name)
    BY <1>1, <1>7 DEF Resolve
  <2>2. Means(raw, name) = FieldText(raw, name)
    BY <1>2, <1>3, <1>4, <1>7 DEF Means
  <2>3. FieldText(raw, name) = IF t.code = "ok" THEN {t.text} ELSE {}
    BY <1>2, <2>1, CopyIs
  <2>. QED
    BY <1>1, <2>2, <2>3
<1>. QED
  BY <1>5, <1>6, <1>7

(* What type_tokens has typed is a beginning of the tokens; all, if ok.    *)
LEMMA TypedSoFar ==
    ASSUME NEW n \in Nat, NEW X, NEW tokens \in Seq(X), Len(tokens) = n, NEW mishap,
           mishap.failing \in Nat, NEW r, r = TypeTokens(tokens, mishap)
    PROVE  \E u \in 0..n : /\ Len(r.typed) = u /\ DOMAIN r.typed = 1..u
                           /\ \A i \in 1..u : r.typed[i] = tokens[i]
                           /\ r.code = "ok" => u = n
                           /\ ~mishap.missing /\ mishap.failing \notin 1..n => r.code = "ok"
<1>. DEFINE failed == {m \in DOMAIN tokens : m = mishap.failing /\ tokens[m][1] # "delay"}
            upTo == IF failed = {} THEN Len(tokens)
                    ELSE Min(failed) - (IF mishap.typed THEN 0 ELSE 1)
<1>1. CASE mishap.missing
  <2>1. r = [code |-> "io-error", typed |-> << >>]
    BY <1>1 DEF TypeTokens
  <2>2. Len(r.typed) = 0 /\ DOMAIN r.typed = 1..0 /\ r.code # "ok" /\ 0 \in 0..n
    BY <2>1
  <2>. QED
    BY <1>1, <2>2
<1>2. CASE ~mishap.missing
  <2>1. r = [code |-> IF failed = {} THEN "ok" ELSE "io-error", typed |-> SubSeq(tokens, 1, upTo)]
    BY <1>2 DEF TypeTokens
  <2>2. failed # {} => Min(failed) = mishap.failing /\ mishap.failing \in 1..n
    <3>1. ASSUME failed # {} PROVE Min(failed) = mishap.failing /\ mishap.failing \in 1..n
      <4>1. failed = {mishap.failing} /\ mishap.failing \in 1..n
        BY <3>1
      <4>2. \E x \in failed : \A y \in failed : x <= y
        BY <4>1
      <4>3. Min(failed) \in failed
        <5>. HIDE DEF failed
        <5>. QED
          BY <4>2 DEF Min
      <4>. QED
        BY <4>1, <4>3
    <3>. QED
      BY <3>1
  <2>3. PICK u : u = upTo
    OBVIOUS
  <2>4. u \in 0..n /\ (failed = {} => u = n)
    BY <2>2, <2>3
  <2>5. r.typed = SubSeq(tokens, 1, u) /\ (r.code = "ok" <=> failed = {})
    <3>. HIDE DEF failed, upTo
    <3>1. PICK c, y : c = (IF failed = {} THEN "ok" ELSE "io-error") /\ y = SubSeq(tokens, 1, u)
      OBVIOUS
    <3>2. r = [code |-> c, typed |-> y]
      BY <2>1, <2>3, <3>1
    <3>3. c = "ok" <=> failed = {}
      BY <3>1
    <3>4. r.typed = y /\ r.code = c
      BY <3>2
    <3>. QED
      BY <3>1, <3>3, <3>4
  <2>6. PICK typed : typed = SubSeq(tokens, 1, u)
    OBVIOUS
  <2>7. Len(typed) = u /\ DOMAIN typed = 1..u /\ \A i \in 1..u : typed[i] = tokens[i]
    BY <2>4, <2>6
  <2>8. mishap.failing \notin 1..n => failed = {}
    OBVIOUS
  <2>. QED
    BY <1>2, <2>4, <2>5, <2>6, <2>7, <2>8
<1>. QED
  BY <1>1, <1>2

(* What has been typed is a beginning of the sequence, each token as what  *)
(* it means, spelled as it is or in lower case; nothing is typed of a      *)
(* sequence with a token that means nothing; and it fails only if a helper *)
(* or a token gives reason to; be the sequence ever so long.               *)
THEOREM TypeSequenceCorrect == Spec => []TypedIsPrefix
<1>1. ASSUME AInv PROVE TypedIsPrefix
  <2>. SUFFICES ASSUME Returned("type") PROVE TypedIsPrefix
    BY DEF TypedIsPrefix
  <2>1. PICK entry, s, mishap, r : /\ entry = ConvertEntry(call.raw) /\ s = call.sequence
                                   /\ mishap = call.mishap /\ r = result[1]
    OBVIOUS
  <2>2. s \in Sequences /\ mishap.failing \in Nat
    <3>1. call \in TypeCalls
      BY <1>1, Arguments
    <3>. QED
      BY <2>1, <3>1 DEF TypeCalls
  <2>3. PICK n \in Nat : s \in [1..n -> FieldNames] /\ Len(s) = n /\ DOMAIN s = 1..n
    <3>1. s \in Seq(FieldNames)
      BY <2>2, EntriesAssumption
    <3>2. Len(s) \in Nat /\ s \in [1..Len(s) -> FieldNames] /\ DOMAIN s = 1..Len(s)
      BY <3>1
    <3>. QED
      BY <3>2
  <2>4. PICK q : q = ResolveTypeSequence(entry, s)
    OBVIOUS
  <2>5. ResolvedUpTo(entry, s, n, q)
    BY <2>3, <2>4, ResolvedAll
  <2>6. r = IF q.code # "ok" THEN [code |-> q.code, typed |-> << >>]
            ELSE TypeTokens(q.tokens, mishap)
    BY <1>1, <2>1, <2>4 DEF AInv, Dispatched, Returned, TypeSequence
  <2>. DEFINE spelled(i) == Means(call.raw, s[i])
              lowered(i) == Means(call.raw, LowerCase[s[i]])
              text(i) == IF Resolve(entry, s[i]).code = "ok" THEN {Resolve(entry, s[i]).text} ELSE {}
  <2>7. ASSUME NEW i \in 1..n PROVE spelled(i) = text(i) \/ lowered(i) = text(i)
    <3>1. PICK token, t : token = s[i] /\ t = Resolve(entry, token) /\ token \in FieldNames
      BY <2>3
    <3>. QED
      BY <2>1, <3>1, MeaningIs
  <2>8. CASE q.code # "ok"
    <3>1. r.typed = << >> /\ r.code # "ok"
      BY <2>6, <2>8
    <3>2. PICK i \in 1..n : Resolve(entry, s[i]).code # "ok"
      BY <2>5, <2>8 DEF ResolvedUpTo
    <3>3. text(i) = {}
      BY <3>2
    <3>4. spelled(i) = {} \/ lowered(i) # spelled(i)
      BY <2>7, <3>3
    <3>. HIDE DEF spelled, lowered
    <3>5. \E k \in 1..n : spelled(k) = {} \/ lowered(k) # spelled(k)
      BY <3>4
    <3>. USE DEF spelled, lowered
    <3>. QED
      BY <2>1, <2>3, <3>1, <3>5 DEF TypedIsPrefix
  <2>9. CASE q.code = "ok"
    <3>1. PICK tokens : tokens = q.tokens
      OBVIOUS
    <3>2. /\ tokens = [i \in 1..n |-> Resolve(entry, s[i]).text]
          /\ \A i \in 1..n : Resolve(entry, s[i]).code = "ok"
      BY <2>5, <2>9, <3>1 DEF ResolvedUpTo
    <3>3. PICK X : tokens \in Seq(X) /\ Len(tokens) = n
      <4>1. PICK X : X = {Resolve(entry, token).text : token \in FieldNames}
        OBVIOUS
      <4>2. tokens \in Seq(X)
        BY <2>5, <3>1, <4>1 DEF ResolvedUpTo, Resolutions
      <4>3. Len(tokens) = n
        BY <3>2, <4>2
      <4>. QED
        BY <4>2, <4>3
    <3>4. r = TypeTokens(tokens, mishap)
      BY <2>6, <2>9, <3>1
    <3>5. PICK u \in 0..n : /\ Len(r.typed) = u /\ DOMAIN r.typed = 1..u
                            /\ \A i \in 1..u : r.typed[i] = tokens[i]
                            /\ r.code = "ok" => u = n
                            /\ ~mishap.missing /\ mishap.failing \notin 1..n => r.code = "ok"
      BY <2>2, <3>3, <3>4, TypedSoFar
    <3>6. ASSUME NEW i \in 1..n PROVE tokens[i] \in spelled(i) \cup lowered(i)
      <4>1. text(i) = {tokens[i]}
        BY <3>2
      <4>. HIDE DEF spelled, lowered, text
      <4>. QED
        BY <2>7, <4>1
    <3>. HIDE DEF spelled, lowered, text
    <3>7. \A i \in DOMAIN r.typed : r.typed[i] \in spelled(i) \cup lowered(i)
      BY <3>5, <3>6
    <3>8. \A i \in 1..n : spelled(i) \cup lowered(i) # {}
      BY <3>6
    <3>9. Len(r.typed) <= n /\ (r.code = "ok" => Len(r.typed) = n)
      BY <3>5
    <3>10. r.code # "ok" => mishap.missing \/ mishap.failing \in 1..n
      BY <3>5
    <3>. USE DEF spelled, lowered
    <3>. QED
      BY <2>1, <2>3, <3>7, <3>8, <3>9, <3>10 DEF TypedIsPrefix
  <2>. QED
    BY <2>8, <2>9
<1>. QED
  BY Returns, <1>1, PTL

-----------------------------------------------------------------------------
(* The dialogue with pinentry.                                             *)

Hearings == [command : 1..Commands, pin : SUBSET Pins,
             end : {"open", "cancelled", "error", "pin", "no PIN"}]

LEMMA LineKinds ==
    ASSUME NEW line \in Lines
    PROVE  /\ line.kind \in {"D", "ERR", "OK", "other"}
           /\ line.kind = "D" => line.pin \in Pins
  BY DEF Lines

LEMMA HearTyped ==
    ASSUME NEW s \in Hearings, NEW line \in Lines
    PROVE  HearLine(s, line) \in Hearings
<1>1. s.command \in 1..4 /\ s.pin \in SUBSET Pins
  BY DEF Hearings, Commands
<1>2. s.command # 4 => s.command + 1 \in 1..4
  BY <1>1
<1>3. CASE s.end # "open"
  BY <1>3 DEF HearLine
<1>4. CASE s.end = "open" /\ line.kind = "D"
  <2>1. HearLine(s, line) = [s EXCEPT !.pin = {line.pin}]
    BY <1>4 DEF HearLine
  <2>2. {line.pin} \in SUBSET Pins
    BY <1>4, LineKinds
  <2>. QED
    BY <2>1, <2>2 DEF Hearings
<1>5. CASE s.end = "open" /\ line.kind = "OK"
  <2>1. HearLine(s, line) = Accept(s)
    BY <1>5 DEF HearLine
  <2>2. CASE s.command = 4
    BY <2>1, <2>2 DEF Accept, End, Hearings, Commands
  <2>3. CASE s.command # 4
    BY <1>2, <2>1, <2>3 DEF Accept, Hearings, Commands
  <2>. QED
    BY <2>2, <2>3
<1>6. CASE s.end = "open" /\ line.kind = "ERR"
  BY <1>6 DEF HearLine, Hearings
<1>7. CASE s.end = "open" /\ line.kind = "other"
  BY <1>7 DEF HearLine
<1>. QED
  BY <1>3, <1>4, <1>5, <1>6, <1>7, LineKinds

(* The states the dialogue goes through, one for every line.               *)
LEMMA Hearing ==
    ASSUME NEW n \in Nat, NEW lines \in [1..n -> Lines]
    PROVE  \E h : /\ h[0] = Begin
                  /\ \A k \in 1..n : h[k] = HearLine(h[k - 1], lines[k])
                  /\ FoldLeft(HearLine, Begin, lines) = h[n]
<1>. DEFINE Folds(it) == it = [s \in SUBSET (1..n) |->
                          IF s = {} THEN Begin ELSE HearLine(it[s \ {Max(s)}], lines[Max(s)])]
<1>1. Begin \in Hearings
  BY DEF Begin, Hearings, Commands
<1>2. PICK g : g = [x \in (1..n) \X Hearings |-> HearLine(x[2], lines[x[1]])]
  OBVIOUS
<1>3. g \in [(1..n) \X Hearings -> Hearings]
  BY <1>2, HearTyped
<1>4. PICK it : IsFold(it, n, Hearings, Begin, g)
  <2>1. g \in Steps(n, Hearings)
    BY <1>3 DEF Steps
  <2>. QED
    BY <1>1, <2>1, FoldExists
<1>5. ASSUME NEW s \in SUBSET (1..n), s # {}
      PROVE  g[<<Max(s), it[s \ {Max(s)}]>>] = HearLine(it[s \ {Max(s)}], lines[Max(s)])
  <2>1. PICK x, u : x = Max(s) /\ u = it[s \ {Max(s)}]
    OBVIOUS
  <2>2. x \in 1..n
    BY <1>5, <2>1, MaxIs
  <2>3. u \in Hearings
    BY <1>4, <2>1 DEF IsFold
  <2>4. g[<<x, u>>] = HearLine(u, lines[x])
    BY <1>2, <2>2, <2>3
  <2>. QED
    BY <2>1, <2>4
<1>6. Folds(it)
  BY <1>4, <1>5 DEF IsFold
<1>7. PICK iter : iter = CHOOSE i : Folds(i)
  OBVIOUS
<1>8. Folds(iter)
  <2>. HIDE DEF Folds
  <2>. QED
    BY <1>6, <1>7
<1>9. FoldLeft(HearLine, Begin, lines) = iter[1..n]
  <2>1. DOMAIN lines = 1..n
    OBVIOUS
  <2>. QED
    BY <1>7, <2>1 DEF FoldLeft, MapThenFoldSet
<1>10. PICK h : h = [k \in 0..n |-> iter[1..k]]
  OBVIOUS
<1>11. h[0] = Begin
  <2>1. 1..0 = {} /\ {} \in SUBSET (1..n) /\ 0 \in 0..n
    OBVIOUS
  <2>. QED
    BY <1>8, <1>10, <2>1
<1>12. ASSUME NEW k \in 1..n PROVE h[k] = HearLine(h[k - 1], lines[k])
  <2>1. k \in 0..n /\ k - 1 \in 0..n
    OBVIOUS
  <2>2. iter[1..k] = HearLine(iter[(1..k) \ {Max(1..k)}], lines[Max(1..k)])
    BY <1>8, Downwards
  <2>. QED
    BY <1>10, <2>1, <2>2, Downwards
<1>13. n \in 0..n
  OBVIOUS
<1>14. FoldLeft(HearLine, Begin, lines) = h[n]
  BY <1>9, <1>10, <1>13
<1>. QED
  BY <1>11, <1>12, <1>14

(* One more line: one more is accepted if it says OK.                      *)
LEMMA CountUp ==
    ASSUME NEW n \in Nat, NEW lines \in [1..n -> Lines], NEW k \in 1..n
    PROVE  /\ Cardinality(Accepted(lines, k)) \in Nat
           /\ Cardinality(Accepted(lines, k - 1)) \in Nat
           /\ Cardinality(Accepted(lines, k)) =
                 Cardinality(Accepted(lines, k - 1)) + IF lines[k].kind = "OK" THEN 1 ELSE 0
<1>1. PICK A, B : A = Accepted(lines, k - 1) /\ B = Accepted(lines, k)
  OBVIOUS
<1>2. A \in SUBSET (1..(k - 1)) /\ B \in SUBSET (1..k)
  BY <1>1 DEF Accepted
<1>3. IsFiniteSet(A) /\ IsFiniteSet(B)
  <2>1. \A i \in 1..n : IsFiniteSet(1..i) /\ IsFiniteSet(1..(i - 1))
    BY FS_Interval
  <2>. QED
    BY <1>2, <2>1, FS_Subset
<1>4. Cardinality(A) \in Nat /\ Cardinality(B) \in Nat
  BY <1>3, FS_CardinalityType
<1>5. CASE lines[k].kind = "OK"
  <2>1. B = A \cup {k} /\ k \notin A
    BY <1>1, <1>5 DEF Accepted
  <2>. QED
    BY <1>1, <1>3, <1>4, <1>5, <2>1, FS_AddElement
<1>6. CASE lines[k].kind # "OK"
  <2>1. B = A
    BY <1>1, <1>6 DEF Accepted
  <2>. QED
    BY <1>1, <1>4, <1>6, <2>1
<1>. QED
  BY <1>5, <1>6

LEMMA CountFromZero == ASSUME NEW lines PROVE Cardinality(Accepted(lines, 0)) = 0
<1>1. Accepted(lines, 0) = {}
  BY DEF Accepted
<1>. QED
  BY <1>1, FS_EmptySet

LEMMA CountGrows ==
    ASSUME NEW n \in Nat, NEW lines \in [1..n -> Lines], NEW k \in 0..n, NEW j \in 0..k
    PROVE  Cardinality(Accepted(lines, j)) <= Cardinality(Accepted(lines, k))
<1>1. Accepted(lines, j) \subseteq Accepted(lines, k)
  BY DEF Accepted
<1>2. IsFiniteSet(Accepted(lines, k))
  <2>1. IsFiniteSet(1..k) /\ Accepted(lines, k) \in SUBSET (1..k)
    BY FS_Interval DEF Accepted
  <2>. QED
    BY <2>1, FS_Subset
<1>. QED
  BY <1>1, <1>2, FS_Subset

(* The last data among the first k lines, if no line was accepted since.   *)
LastData(lines, k) ==
    {lines[i].pin : i \in {j \in 1..k :
        /\ lines[j].kind = "D"
        /\ Cardinality(Accepted(lines, j)) = Cardinality(Accepted(lines, k))
        /\ \A l \in (j + 1)..k : lines[l].kind # "D"}}

LEMMA LastDataUp ==
    ASSUME NEW n \in Nat, NEW lines \in [1..n -> Lines], NEW k \in 1..n
    PROVE  /\ lines[k].kind = "D" => LastData(lines, k) = {lines[k].pin}
           /\ lines[k].kind = "OK" => LastData(lines, k) = {}
           /\ lines[k].kind \notin {"D", "OK"} => LastData(lines, k) = LastData(lines, k - 1)
<1>. DEFINE At(j, m) == /\ lines[j].kind = "D"
                        /\ Cardinality(Accepted(lines, j)) = Cardinality(Accepted(lines, m))
                        /\ \A l \in (j + 1)..m : lines[l].kind # "D"
            P(m) == {j \in 1..m : At(j, m)}
<1>1. CASE lines[k].kind = "D"
  <2>1. \A l \in (k + 1)..k : FALSE
    OBVIOUS
  <2>2. ASSUME NEW j \in 1..k, At(j, k) PROVE j = k
    <3>1. j # k => k \in (j + 1)..k
      OBVIOUS
    <3>. QED
      BY <1>1, <2>2, <3>1
  <2>3. P(k) = {k}
    BY <1>1, <2>1, <2>2
  <2>4. LastData(lines, k) = {lines[i].pin : i \in P(k)}
    BY DEF LastData
  <2>. QED
    BY <1>1, <2>3, <2>4
<1>2. CASE lines[k].kind = "OK"
  <2>1. ASSUME NEW j \in 1..k, At(j, k) PROVE FALSE
    <3>1. j # k
      BY <1>2, <2>1
    <3>2. j \in 0..(k - 1) /\ k - 1 \in 0..n
      BY <3>1
    <3>3. Cardinality(Accepted(lines, j)) <= Cardinality(Accepted(lines, k - 1))
      BY <3>2, CountGrows
    <3>4. PICK a, b : /\ a = Cardinality(Accepted(lines, k - 1))
                      /\ b = Cardinality(Accepted(lines, k))
      OBVIOUS
    <3>5. a \in Nat /\ b = a + 1
      BY <1>2, <3>4, CountUp
    <3>. QED
      BY <2>1, <3>3, <3>4, <3>5
  <2>. QED
    BY <1>2, <2>1 DEF LastData
<1>3. CASE lines[k].kind \notin {"D", "OK"}
  <2>1. Cardinality(Accepted(lines, k)) = Cardinality(Accepted(lines, k - 1))
    <3>1. PICK a, b : /\ a = Cardinality(Accepted(lines, k - 1))
                      /\ b = Cardinality(Accepted(lines, k))
      OBVIOUS
    <3>2. a \in Nat /\ b = a + 0
      BY <1>3, <3>1, CountUp
    <3>. QED
      BY <3>1, <3>2
  <2>2. ASSUME NEW j PROVE j \in P(k) <=> j \in P(k - 1)
    <3>1. CASE j = k
      BY <1>3, <3>1
    <3>2. CASE j \in 1..(k - 1)
      <4>1. (j + 1)..k = ((j + 1)..(k - 1)) \cup {k}
        BY <3>2
      <4>. QED
        BY <1>3, <2>1, <3>2, <4>1
    <3>3. j \in 1..k <=> j = k \/ j \in 1..(k - 1)
      OBVIOUS
    <3>. QED
      BY <3>1, <3>2, <3>3
  <2>3. P(k) = P(k - 1)
    BY <2>2
  <2>4. /\ LastData(lines, k) = {lines[i].pin : i \in P(k)}
        /\ LastData(lines, k - 1) = {lines[i].pin : i \in P(k - 1)}
    BY DEF LastData
  <2>. QED
    BY <1>3, <2>3, <2>4
<1>. QED
  BY <1>1, <1>2, <1>3

(* After k lines, in the state s.                                          *)
Refused(lines, k) == \E i \in 1..k : lines[i].kind = "ERR"

Unanswered(lines, k) == \A i \in 1..k : ~AnswersGetPin(lines, i)

WhileOpen(lines, k, s) ==
    s.end = "open" =>
        /\ ~Refused(lines, k) /\ Unanswered(lines, k)
        /\ s.command = Cardinality(Accepted(lines, k)) + 1
        /\ s.pin = LastData(lines, k)

WhenRefused(lines, k, s) ==
    s.end \in {"cancelled", "error"} => Refused(lines, k) /\ Unanswered(lines, k)

WhenAnswered(lines, k, s) ==
    s.end \in {"pin", "no PIN"} =>
        /\ Cardinality(Accepted(lines, k)) >= 4
        /\ s.end = End(s)
        /\ \E m \in 1..k : /\ AnswersGetPin(lines, m) /\ s.pin = DataOf(lines, m)
                           /\ \A i \in 1..k : AnswersGetPin(lines, i) => i = m

Heard(lines, k, s) ==
    /\ s \in Hearings
    /\ WhileOpen(lines, k, s) /\ WhenRefused(lines, k, s) /\ WhenAnswered(lines, k, s)

LEMMA HeardNothing == ASSUME NEW lines PROVE Heard(lines, 0, Begin)
<1>1. Begin \in Hearings
  BY DEF Begin, Hearings, Commands
<1>2. Begin.end = "open" /\ Begin.command = 1 /\ Begin.pin = {}
  BY DEF Begin
<1>3. Cardinality(Accepted(lines, 0)) = 0
  BY CountFromZero
<1>4. LastData(lines, 0) = {} /\ ~Refused(lines, 0) /\ Unanswered(lines, 0)
  BY DEF LastData, Refused, Unanswered
<1>. QED
  BY <1>1, <1>2, <1>3, <1>4 DEF Heard, WhileOpen, WhenRefused, WhenAnswered

LEMMA HeardOneMore ==
    ASSUME NEW n \in Nat, NEW lines \in [1..n -> Lines], NEW k \in 1..n,
           NEW s, Heard(lines, k - 1, s), NEW t, t = HearLine(s, lines[k])
    PROVE  Heard(lines, k, t)
<1>1. PICK line : line = lines[k]
  OBVIOUS
<1>2. line \in Lines /\ line.kind \in {"D", "ERR", "OK", "other"}
  BY <1>1, LineKinds
<1>3. PICK a, b : a = Cardinality(Accepted(lines, k - 1)) /\ b = Cardinality(Accepted(lines, k))
  OBVIOUS
<1>4. a \in Nat /\ b \in Nat /\ b = a + IF line.kind = "OK" THEN 1 ELSE 0
  BY <1>1, <1>3, CountUp
<1>5. s \in Hearings /\ t \in Hearings
  <2>1. s \in Hearings
    BY DEF Heard
  <2>. QED
    BY <1>1, <1>2, <2>1, HearTyped
<1>6. /\ s.end \in {"open", "cancelled", "error", "pin", "no PIN"}
      /\ s.command \in 1..4
  BY <1>5 DEF Hearings, Commands
<1>7. 1..k = 1..(k - 1) \cup {k} /\ k \in 1..k
  OBVIOUS
<1>8. Refused(lines, k) <=> Refused(lines, k - 1) \/ line.kind = "ERR"
  BY <1>1, <1>7 DEF Refused
<1>9. Unanswered(lines, k) <=> Unanswered(lines, k - 1) /\ ~AnswersGetPin(lines, k)
  BY <1>7 DEF Unanswered
<1>10. AnswersGetPin(lines, k) <=> line.kind = "OK" /\ b = 4 /\ ~Refused(lines, k)
  BY <1>1, <1>3 DEF AnswersGetPin, Commands, Refused
<1>11. CASE s.end \in {"cancelled", "error"}
  <2>1. t = s
    BY <1>1, <1>11 DEF HearLine
  <2>2. Refused(lines, k) /\ Unanswered(lines, k)
    BY <1>8, <1>9, <1>10, <1>11 DEF Heard, WhenRefused
  <2>. QED
    BY <1>5, <1>11, <2>1, <2>2 DEF Heard, WhileOpen, WhenRefused, WhenAnswered
<1>12. CASE s.end \in {"pin", "no PIN"}
  <2>1. t = s
    BY <1>1, <1>12 DEF HearLine
  <2>2. WhenAnswered(lines, k - 1, s)
    BY DEF Heard
  <2>3. a >= 4 /\ s.end = End(s)
    BY <1>3, <1>12, <2>2 DEF WhenAnswered
  <2>4. PICK m \in 1..(k - 1) : /\ AnswersGetPin(lines, m) /\ s.pin = DataOf(lines, m)
                                /\ \A i \in 1..(k - 1) : AnswersGetPin(lines, i) => i = m
    BY <1>12, <2>2 DEF WhenAnswered
  <2>5. b >= 4
    BY <1>4, <2>3
  <2>6. ~AnswersGetPin(lines, k)
    <3>1. line.kind = "OK" => b # 4
      BY <1>4, <2>3
    <3>. QED
      BY <1>10, <3>1
  <2>7. m \in 1..k /\ \A i \in 1..k : AnswersGetPin(lines, i) => i = m
    BY <1>7, <2>4, <2>6
  <2>8. WhenAnswered(lines, k, t)
    BY <1>3, <2>1, <2>3, <2>4, <2>5, <2>7 DEF WhenAnswered
  <2>. QED
    BY <1>5, <1>12, <2>1, <2>8 DEF Heard, WhileOpen, WhenRefused
<1>13. CASE s.end = "open"
  <2>1. /\ ~Refused(lines, k - 1) /\ Unanswered(lines, k - 1)
        /\ s.command = a + 1 /\ s.pin = LastData(lines, k - 1)
    BY <1>3, <1>13 DEF Heard, WhileOpen
  <2>2. CASE line.kind = "D"
    <3>1. t = [s EXCEPT !.pin = {line.pin}]
      BY <1>1, <1>13, <2>2 DEF HearLine
    <3>2. t.end = "open" /\ t.command = s.command /\ t.pin = {line.pin}
      BY <1>5, <1>13, <3>1 DEF Hearings
    <3>3. LastData(lines, k) = {line.pin}
      BY <1>1, <2>2, LastDataUp
    <3>4. ~Refused(lines, k) /\ Unanswered(lines, k) /\ b = a
      BY <1>4, <1>8, <1>9, <1>10, <2>1, <2>2
    <3>. QED
      BY <1>3, <1>5, <2>1, <3>2, <3>3, <3>4 DEF Heard, WhileOpen, WhenRefused, WhenAnswered
  <2>3. CASE line.kind = "other"
    <3>1. t = s
      BY <1>1, <1>13, <2>3 DEF HearLine
    <3>2. LastData(lines, k) = LastData(lines, k - 1)
      BY <1>1, <2>3, LastDataUp
    <3>3. ~Refused(lines, k) /\ Unanswered(lines, k) /\ b = a
      BY <1>4, <1>8, <1>9, <1>10, <2>1, <2>3
    <3>. QED
      BY <1>3, <1>5, <1>13, <2>1, <3>1, <3>2, <3>3 DEF Heard, WhileOpen, WhenRefused, WhenAnswered
  <2>4. CASE line.kind = "ERR"
    <3>1. t = [s EXCEPT !.end = IF line.cancel THEN "cancelled" ELSE "error"]
      BY <1>1, <1>13, <2>4 DEF HearLine
    <3>2. t.end \in {"cancelled", "error"}
      BY <1>5, <3>1 DEF Hearings
    <3>3. Refused(lines, k) /\ Unanswered(lines, k)
      BY <1>8, <1>9, <1>10, <2>1, <2>4
    <3>. QED
      BY <1>5, <3>2, <3>3 DEF Heard, WhileOpen, WhenRefused, WhenAnswered
  <2>5. CASE line.kind = "OK" /\ s.command # 4
    <3>1. t = [s EXCEPT !.command = @ + 1, !.pin = {}]
      BY <1>1, <1>13, <2>5 DEF HearLine, Accept, Commands
    <3>2. t.end = "open" /\ t.command = s.command + 1 /\ t.pin = {}
      BY <1>5, <1>13, <3>1 DEF Hearings
    <3>3. LastData(lines, k) = {}
      BY <1>1, <2>5, LastDataUp
    <3>4. b = a + 1 /\ b # 4
      BY <1>4, <2>1, <2>5
    <3>5. ~Refused(lines, k) /\ Unanswered(lines, k)
      BY <1>8, <1>9, <1>10, <2>1, <2>5, <3>4
    <3>. QED
      BY <1>3, <1>5, <2>1, <3>2, <3>3, <3>4, <3>5 DEF Heard, WhileOpen, WhenRefused, WhenAnswered
  <2>6. CASE line.kind = "OK" /\ s.command = 4
    <3>1. t = [s EXCEPT !.end = End(s)]
      BY <1>1, <1>13, <2>6 DEF HearLine, Accept, Commands
    <3>2. t.end = End(s) /\ t.pin = s.pin /\ t.end \in {"pin", "no PIN"}
      BY <1>5, <3>1 DEF Hearings, End
    <3>3. t.end = End(t)
      BY <3>2 DEF End
    <3>4. a = 3 /\ b = 4
      BY <1>4, <2>1, <2>6
    <3>5. AnswersGetPin(lines, k)
      BY <1>8, <1>10, <2>1, <2>6, <3>4
    <3>6. \A i \in 1..k : AnswersGetPin(lines, i) => i = k
      BY <1>7, <2>1 DEF Unanswered
    <3>7. DataOf(lines, k) = LastData(lines, k - 1)
      <4>. DEFINE P == {j \in 1..k : /\ lines[j].kind = "D"
                                     /\ Cardinality(Accepted(lines, j)) = 3
                                     /\ \A l \in (j + 1)..k : lines[l].kind # "D"}
                  Q == {j \in 1..(k - 1) : /\ lines[j].kind = "D"
                                           /\ Cardinality(Accepted(lines, j)) = 3
                                           /\ \A l \in (j + 1)..(k - 1) : lines[l].kind # "D"}
      <4>1. lines[k].kind = "OK"
        BY <1>1, <2>6
      <4>2. ASSUME NEW j PROVE j \in P <=> j \in Q
        <5>1. CASE j = k
          BY <4>1, <5>1
        <5>2. CASE j \in 1..(k - 1)
          <6>1. (j + 1)..k = ((j + 1)..(k - 1)) \cup {k}
            BY <5>2
          <6>. QED
            BY <4>1, <5>2, <6>1
        <5>. QED
          BY <1>7, <5>1, <5>2
      <4>3. P = Q
        BY <4>2
      <4>4. DataOf(lines, k) = {lines[i].pin : i \in P}
        BY DEF DataOf, Commands
      <4>5. LastData(lines, k - 1) = {lines[i].pin : i \in Q}
        BY <1>3, <3>4 DEF LastData
      <4>. QED
        BY <4>3, <4>4, <4>5
    <3>8. WhenAnswered(lines, k, t)
      <4>1. t.pin = DataOf(lines, k)
        BY <2>1, <3>2, <3>7
      <4>2. Cardinality(Accepted(lines, k)) >= 4
        BY <1>3, <3>4
      <4>3. \E m \in 1..k : /\ AnswersGetPin(lines, m) /\ t.pin = DataOf(lines, m)
                             /\ \A i \in 1..k : AnswersGetPin(lines, i) => i = m
        BY <1>7, <3>5, <3>6, <4>1
      <4>. QED
        BY <3>3, <4>2, <4>3 DEF WhenAnswered
    <3>. QED
      BY <1>5, <3>2, <3>8 DEF Heard, WhileOpen, WhenRefused
  <2>. QED
    BY <1>2, <2>2, <2>3, <2>4, <2>5, <2>6
<1>. QED
  BY <1>6, <1>11, <1>12, <1>13

LEMMA HeardAll ==
    ASSUME NEW n \in Nat, NEW lines \in [1..n -> Lines],
           NEW s, s = FoldLeft(HearLine, Begin, lines)
    PROVE  Heard(lines, n, s)
<1>1. PICK h : /\ h[0] = Begin
               /\ \A k \in 1..n : h[k] = HearLine(h[k - 1], lines[k])
               /\ FoldLeft(HearLine, Begin, lines) = h[n]
  BY Hearing
<1>2. PICK T : T = {k \in 0..n : Heard(lines, k, h[k])}
  OBVIOUS
<1>3. 0 \in T
  BY <1>1, <1>2, HeardNothing
<1>4. ASSUME NEW k \in 0..(n - 1), k \in T PROVE k + 1 \in T
  <2>1. k + 1 \in 1..n /\ (k + 1) - 1 = k /\ k + 1 \in 0..n
    OBVIOUS
  <2>2. PICK s0, t : s0 = h[k] /\ t = h[k + 1]
    OBVIOUS
  <2>3. t = HearLine(s0, lines[k + 1])
    BY <1>1, <2>1, <2>2
  <2>4. Heard(lines, (k + 1) - 1, s0)
    BY <1>2, <1>4, <2>1, <2>2
  <2>5. Heard(lines, k + 1, t)
    BY <2>1, <2>3, <2>4, HeardOneMore
  <2>. QED
    BY <1>2, <2>1, <2>2, <2>5
<1>5. n \in T
  BY <1>3, <1>4, InductiveUpTo
<1>. QED
  BY <1>1, <1>2, <1>5

(* The password is the last data of the answer to GETPIN and of no other   *)
(* answer, however many lines pinentry writes and in whatever order.       *)
THEOREM PinCorrect == Spec => []PinIsLastData
<1>1. ASSUME AInv PROVE PinIsLastData
  <2>. SUFFICES ASSUME Returned("prompt") PROVE PinIsLastData
    BY DEF PinIsLastData
  <2>1. PICK lines, s, r : /\ lines = call.lines /\ s = FoldLeft(HearLine, Begin, lines)
                           /\ r = result[1]
    OBVIOUS
  <2>2. lines \in Dialogues
    <3>1. call \in PromptCalls
      BY <1>1, Arguments
    <3>. QED
      BY <2>1, <3>1 DEF PromptCalls
  <2>3. PICK n \in Nat : lines \in [1..n -> Lines]
    <3>1. PICK D : D = {[1..m -> Lines] : m \in 0..MaxLines}
      OBVIOUS
    <3>2. lines \in UNION D
      BY <2>2, <3>1 DEF Dialogues, BoundedSeq, SeqOf
    <3>3. PICK m \in 0..MaxLines : lines \in [1..m -> Lines]
      BY <3>1, <3>2
    <3>4. m \in Nat
      BY PinentryAssumption
    <3>. QED
      BY <3>3, <3>4
  <2>4. DOMAIN lines = 1..n
    BY <2>3
  <2>5. Heard(lines, n, s)
    BY <2>1, <2>3, HeardAll
  <2>6. r = [end |-> IF s.end = "open" THEN "closed" ELSE s.end,
             pin |-> IF s.end = "pin" THEN s.pin ELSE {}]
    BY <1>1, <2>1 DEF AInv, Dispatched, Returned, Prompt
  <2>7. PICK N : N = {i \in 1..n : AnswersGetPin(lines, i)}
    OBVIOUS
  <2>8. s.end \in {"open", "cancelled", "error", "pin", "no PIN"}
    BY <2>5 DEF Heard, Hearings
  <2>9. /\ r.pin = UNION {DataOf(lines, i) : i \in N}
        /\ (r.end = "pin") <=> (r.pin # {})
        /\ (r.end = "no PIN") <=> (N # {} /\ r.pin = {})
    <3>1. CASE s.end \in {"open", "cancelled", "error"}
      <4>1. N = {}
        BY <2>5, <2>7, <3>1 DEF Heard, WhileOpen, WhenRefused, Unanswered
      <4>2. r.pin = {} /\ r.end \notin {"pin", "no PIN"}
        BY <2>6, <3>1
      <4>. QED
        BY <4>1, <4>2
    <3>2. CASE s.end \in {"pin", "no PIN"}
      <4>1. WhenAnswered(lines, n, s)
        BY <2>5 DEF Heard
      <4>2. PICK m \in 1..n : /\ AnswersGetPin(lines, m) /\ s.pin = DataOf(lines, m)
                              /\ \A i \in 1..n : AnswersGetPin(lines, i) => i = m
        BY <3>2, <4>1 DEF WhenAnswered
      <4>3. N = {m}
        BY <2>7, <4>2
      <4>4. UNION {DataOf(lines, i) : i \in N} = s.pin
        BY <4>2, <4>3
      <4>5. s.end = IF s.pin = {} THEN "no PIN" ELSE "pin"
        BY <3>2, <4>1 DEF WhenAnswered, End
      <4>6. r.end = s.end /\ r.pin = s.pin
        BY <2>6, <3>2, <4>5
      <4>. QED
        BY <4>3, <4>4, <4>5, <4>6
    <3>. QED
      BY <2>8, <3>1, <3>2
  <2>. QED
    BY <2>1, <2>4, <2>7, <2>9 DEF PinIsLastData
<1>. QED
  BY Returns, <1>1, PTL

-----------------------------------------------------------------------------
(* The search.                                                             *)

LEMMA ListArguments ==
    ASSUME AInv, Returned("list")
    PROVE  /\ call.query \in Text /\ call.limit \in Nat
           /\ \E n \in Nat : call.entries \in [1..n -> EntryMeta]
           /\ result[1] = List(call.entries, call.query, call.limit)
<1>1. call \in ListCalls
  BY Arguments
<1>2. call.query \in Queries /\ call.limit \in Limits /\ call.entries \in BoundedSeq(Pool, MaxEntries)
  BY <1>1 DEF ListCalls
<1>3. \E n \in Nat : call.entries \in [1..n -> EntryMeta]
  <2>1. PICK D : D = {[1..m -> Pool] : m \in 0..MaxEntries}
    OBVIOUS
  <2>2. call.entries \in UNION D
    BY <1>2, <2>1 DEF BoundedSeq, SeqOf
  <2>3. PICK m \in 0..MaxEntries : call.entries \in [1..m -> Pool]
    BY <2>1, <2>2
  <2>4. m \in Nat /\ \A e \in Pool : e \in EntryMeta
    BY SearchAssumption
  <2>5. call.entries \in [1..m -> EntryMeta]
    BY <2>3, <2>4
  <2>. QED
    BY <2>4, <2>5
<1>4. result[1] = List(call.entries, call.query, call.limit)
  BY DEF AInv, Dispatched, Returned
<1>. QED
  BY <1>2, <1>3, <1>4, SearchAssumption

(* `list' finds what a search must find: every entry that contains the     *)
(* query or has its characters in order in the title, unless the limit is  *)
(* reached, none that neither does so nor has a tag with the query in it,  *)
(* and none twice, in a database of any size.                              *)
THEOREM ListCorrect == Spec => []ListIsSearch
<1>1. ASSUME AInv PROVE ListIsSearch
  <2>. SUFFICES ASSUME Returned("list") PROVE ListIsSearch
    BY DEF ListIsSearch
  <2>1. PICK entries, query, limit, r : /\ entries = call.entries /\ query = call.query
                                        /\ limit = call.limit /\ r = result[1]
    OBVIOUS
  <2>2. query \in Text /\ limit \in Nat /\ r = List(entries, query, limit)
    BY <1>1, <2>1, ListArguments
  <2>3. PICK n \in Nat : entries \in [1..n -> EntryMeta]
    BY <1>1, <2>1, ListArguments
  <2>4. PICK found, below : found = Found(entries, query) /\ below = Below(entries, query)
    OBVIOUS
  <2>. PICK sorted, m : IsHead(r, m, sorted, below, found, limit)
    BY <2>2, <2>3, <2>4, ListIs
  <2>5. /\ IsRanking(sorted, below, found) /\ m \in 0..Cardinality(found)
        /\ m = Min({limit, Cardinality(found)})
        /\ Len(r) = m /\ DOMAIN r = 1..m /\ \A i \in 1..m : r[i] = sorted[i]
    BY DEF IsHead
  <2>6. IsOrder(below, found)
    BY <2>2, <2>3, <2>4, BeforeOrders
  <2>7. PICK c : c = Cardinality(found)
    OBVIOUS
  <2>8. c \in Nat /\ found = {i \in 1..n : Wanted(query, entries[i])}
    BY <2>2, <2>3, <2>4, <2>7, FoundAre
  <2>9. /\ \A i \in 1..m : r[i] \in found
        /\ \A i, j \in 1..m : i < j => r[i] \in below[r[j]]
    <3>1. 1..m \subseteq 1..c
      <4>1. c \in Nat
        BY <2>8
      <4>2. m \in 0..c
        BY <2>5, <2>7
      <4>. QED
        BY <4>1, <4>2
    <3>2. /\ \A i \in 1..c : sorted[i] \in found
          /\ \A i, j \in 1..c : i < j => sorted[i] \in below[sorted[j]]
      BY <2>5, <2>7 DEF IsRanking
    <3>. QED
      BY <2>5, <3>1, <3>2
  <2>10. Range(r) \subseteq found
    BY <2>5, <2>9 DEF Range
  <2>11. ASSUME NEW i \in 1..m, NEW j \in 1..m, r[i] = r[j] PROVE i = j
    <3>1. \A x \in found : x \notin below[x]
      BY <2>6 DEF IsOrder
    <3>2. ~(i < j) /\ ~(j < i)
      BY <2>9, <2>11, <3>1
    <3>. QED
      BY <2>5, <2>7, <2>8, <3>2
  <2>12. IsInjective(r)
    BY <2>5, <2>11 DEF IsInjective
  <2>13. DOMAIN entries = 1..n
    BY <2>3
  <2>14. Len(r) <= limit /\ (Len(r) < limit => m = c)
    BY <2>2, <2>5, <2>7, <2>8, PairMin
  <2>15. ASSUME m = c, NEW x \in found PROVE x \in Range(r)
    <3>1. PICK k \in 1..c : sorted[k] = x
      BY <2>5, <2>7 DEF IsRanking
    <3>2. k \in DOMAIN r /\ r[k] = x
      BY <2>5, <2>15, <3>1
    <3>. QED
      BY <3>2 DEF Range
  <2>. QED
    BY <2>1, <2>8, <2>10, <2>12, <2>13, <2>14, <2>15 DEF ListIsSearch
<1>. QED
  BY Returns, <1>1, PTL

(* A title that begins with the query comes before every other entry and   *)
(* is not cut off in favour of one, in a database of any size.             *)
THEOREM TopCorrect == Spec => []PrefixOnTop
<1>1. ASSUME AInv PROVE PrefixOnTop
  <2>1. PICK entries, query, limit, r : /\ entries = call.entries /\ query = call.query
                                        /\ limit = call.limit /\ r = result[1]
    OBVIOUS
  <2>. DEFINE top(i) == StartsWith(entries[i].title, query)
  <2>. SUFFICES ASSUME Returned("list"), NEW i \in DOMAIN entries, NEW k \in DOMAIN r,
                       top(i), query # << >>, ~top(r[k])
               PROVE  \E m \in 1..(k - 1) : r[m] = i
    BY <2>1 DEF PrefixOnTop
  <2>2. query \in Text /\ limit \in Nat /\ r = List(entries, query, limit)
    BY <1>1, <2>1, ListArguments
  <2>3. PICK n \in Nat : entries \in [1..n -> EntryMeta]
    BY <1>1, <2>1, ListArguments
  <2>4. PICK found, below : found = Found(entries, query) /\ below = Below(entries, query)
    OBVIOUS
  <2>. PICK sorted, m : IsHead(r, m, sorted, below, found, limit)
    BY <2>2, <2>3, <2>4, ListIs
  <2>5. /\ IsRanking(sorted, below, found) /\ m \in 0..Cardinality(found)
        /\ m = Min({limit, Cardinality(found)})
        /\ Len(r) = m /\ DOMAIN r = 1..m /\ \A j \in 1..m : r[j] = sorted[j]
    BY DEF IsHead
  <2>6. PICK c : c = Cardinality(found)
    OBVIOUS
  <2>7. c \in Nat /\ found \in SUBSET (1..n)
    BY <2>2, <2>3, <2>4, <2>6, FoundAre
  <2>8. i \in 1..n /\ entries[i] \in EntryMeta
    BY <2>3
  <2>9. i \in found
    BY <2>2, <2>4, <2>8, FuzzyScoreIs DEF Found
  <2>10. PICK p \in 1..c : sorted[p] = i
    BY <2>5, <2>6, <2>9 DEF IsRanking
  <2>11. PICK x : x = r[k]
    OBVIOUS
  <2>12. k \in 1..m /\ k \in 1..c /\ x = sorted[k]
    <3>1. 1..m \subseteq 1..c
      BY <2>5, <2>6, <2>7
    <3>2. k \in 1..m
      BY <2>5
    <3>. QED
      BY <2>5, <2>11, <3>1, <3>2
  <2>13. x \in found /\ x \in 1..n /\ entries[x] \in EntryMeta
    BY <2>3, <2>5, <2>6, <2>7, <2>12 DEF IsRanking
  <2>14. Before(entries, query, i, x)
    <3>1. PICK a, b : /\ a = Max(FuzzyScore(query, entries[i]))
                      /\ b = Max(FuzzyScore(query, entries[x]))
      OBVIOUS
    <3>2. a = 125
      BY <2>2, <2>4, <2>8, <2>9, <3>1, FuzzyScoreIs DEF Found
    <3>3. b \in Int /\ b <= 125 /\ b # 125
      BY <2>2, <2>4, <2>11, <2>13, <3>1, FuzzyScoreIs DEF Found
    <3>4. a > b
      BY <3>2, <3>3
    <3>. QED
      BY <3>1, <3>4 DEF Before
  <2>15. i \in below[x]
    BY <2>4, <2>9, <2>13, <2>14 DEF Below
  <2>16. x \notin below[i] /\ x # i
    <3>1. IsOrder(below, found)
      BY <2>2, <2>3, <2>4, BeforeOrders
    <3>. QED
      BY <2>9, <2>13, <2>15, <3>1 DEF IsOrder
  <2>17. p < k
    <3>1. ~(k < p)
      BY <2>5, <2>6, <2>10, <2>12, <2>16 DEF IsRanking
    <3>2. p # k
      BY <2>10, <2>12, <2>16
    <3>. QED
      BY <2>7, <2>10, <2>12, <3>1, <3>2
  <2>18. p \in 1..m /\ p \in 1..(k - 1)
    BY <2>5, <2>6, <2>7, <2>10, <2>12, <2>17
  <2>. QED
    BY <2>5, <2>10, <2>18
<1>. QED
  BY Returns, <1>1, PTL
=============================================================================
