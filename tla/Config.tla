------------------------------- MODULE Config -------------------------------
(***************************************************************************)
(* The configuration file (daemon/src/config.rs: from_toml_str,            *)
(* build_vault, expand_tilde, vault_index), as a function of what the file *)
(* says.  TOML itself is left to the toml crate.  An Option is a set of at *)
(* most one value; a result that may be an error is one, too.              *)
(***************************************************************************)
EXTENDS Naturals, Sequences

CONSTANTS
    VaultNames, \* the names that occur, as given, trimmed or as file stems
    Trim,       \* str::trim, as a function on VaultNames
    HomeKnown,  \* the home directory can be found
    Files       \* the files that are tried

(* A path: how it begins, and its file stem if it has one. *)
Paths == [begins : {"/", "~/", "other"}, stem : SUBSET VaultNames]

VaultTables == [name : SUBSET VaultNames, path : Paths, keyfile : SUBSET Paths]

ASSUME ConfigAssumption ==
    /\ Trim \in [VaultNames -> VaultNames]
    /\ HomeKnown \in BOOLEAN
    /\ \A file \in Files :
          /\ file.shape = "tables" => file.tables \in Seq(VaultTables)
          /\ file.shape = "string" => file.path \in Paths

(* expand_tilde. *)
Expand(path) ==
    IF path.begins = "~/" /\ HomeKnown THEN [path EXCEPT !.begins = "/"] ELSE path

IsAbsolute(path) == path.begins = "/"

-----------------------------------------------------------------------------
(* What serde makes of the file: [[vault]] tables, or none; or one string. *)

(* The tables of the file.  A string is one table without a name, whose    *)
(* key file is the top-level one; in the multi form that one is ignored.   *)
Tables(file) ==
    CASE file.shape = "tables" -> file.tables
      [] file.shape = "string" ->
            <<[name |-> {}, path |-> file.path, keyfile |-> file.keyfile]>>
      [] OTHER -> << >>

(* Neither shape fits a vault of another type, an ill-typed option or an   *)
(* unknown key in a table.  Unknown keys at the top are not noticed.       *)
Readable(file) == file.shape # "odd"

-----------------------------------------------------------------------------
(* build_vault.                                                            *)

Given(name) == {Trim[n] : n \in name} \ {""}

(* Seeded fault: a name is compared without its blanks and kept with them. *)
NameOf_Untrimmed(table) ==
    LET stem  == table.path.stem \ {""}
        names == IF Given(table.name) # {} THEN table.name
                 ELSE IF stem # {} THEN stem ELSE {"vault"}
    IN  CHOOSE n \in names : TRUE

(* The name given, or the file stem, or "vault". *)
NameOf(table) ==
    LET stem  == table.path.stem \ {""}
        names == IF Given(table.name) # {} THEN Given(table.name)
                 ELSE IF stem # {} THEN stem ELSE {"vault"}
    IN  CHOOSE n \in names : TRUE

BuildVault(table) ==
    [name    |-> NameOf(table),
     path    |-> Expand(table.path),
     keyfile |-> {Expand(k) : k \in table.keyfile}]

-----------------------------------------------------------------------------
(* from_toml_str.                                                          *)

(* Seeded fault: a name is compared with the next one only. *)
TwoNamed_Next(vaults) ==
    \E i, j \in DOMAIN vaults : j = i + 1 /\ vaults[j].name = vaults[i].name

TwoNamed(vaults) ==
    \E i, j \in DOMAIN vaults : i < j /\ vaults[j].name = vaults[i].name

(* None disables the idle lock; it is on when the file does not say. *)
IdleLock(seconds) == IF seconds = {} THEN {300} ELSE seconds \ {0}

FromToml(file) ==
    LET tables == Tables(file)
        vaults == [i \in DOMAIN tables |-> BuildVault(tables[i])]
    IN  IF /\ Readable(file)
           /\ \A i \in DOMAIN vaults : IsAbsolute(vaults[i].path)
           /\ vaults # << >>
           /\ ~TwoNamed(vaults)
        THEN {[vaults |-> vaults, idle_lock |-> IdleLock(file.idle_lock_seconds)]}
        ELSE {}

(* position: the first of that name, or an error. *)
VaultIndex(config, name) ==
    {i \in DOMAIN config.vaults :
        /\ config.vaults[i].name = name
        /\ \A j \in DOMAIN config.vaults : j < i => config.vaults[j].name # name}

-----------------------------------------------------------------------------
(* What the daemon relies on.                                              *)

(* "`omarkey unlock <name>' must be unambiguous" (config.rs): every        *)
(* database is reached by its own name, there is a first one to be active, *)
(* and every path is absolute.                                             *)
Unambiguous(config) ==
    /\ config.vaults # << >>
    /\ \A i \in DOMAIN config.vaults :
          /\ VaultIndex(config, config.vaults[i].name) = {i}
          /\ IsAbsolute(config.vaults[i].path)

(* The name of the n-th table, said without the code's order of trying. *)
Named(file, i, name) ==
    LET t == Tables(file)[i]
    IN  \/ name # "" /\ \E n \in t.name : Trim[n] = name
        \/ (\A n \in t.name : Trim[n] = "") /\ name # "" /\ name \in t.path.stem
        \/ /\ \A n \in t.name : Trim[n] = ""
           /\ t.path.stem \subseteq {""} /\ name = "vault"
=============================================================================
