-------------------------------- MODULE Kdbx --------------------------------
(***************************************************************************)
(* Opening a database (daemon/src/vault.rs: do_unlock, open_kdbx,          *)
(* walk_node).  Decryption is left to the keepass crate: a file has the    *)
(* password and key file that open it, and may be damaged before or behind *)
(* the point where the crate checks them.  An Option is a set of at most   *)
(* one value.                                                              *)
(***************************************************************************)
EXTENDS Integers, SequencesExt

CONSTANTS
    KeyFiles,   \* the key files that may be given
    GoodKeyFiles, \* those that can be opened and read as a key file
    Passwords,
    Nodes,      \* the nodes of the group trees that are tried
    Height,     \* of a node: more than that of its children
    MaxHeight,  \* no tree is higher
    Roots       \* the contents of the root group that are tried

ASSUME KdbxAssumption ==
    /\ GoodKeyFiles \subseteq KeyFiles
    /\ MaxHeight \in Nat /\ Height \in [Nodes -> 0..MaxHeight]
    /\ \A node \in Nodes :
          \/ node.kind = "entry"
          \/ /\ node.kind = "group" /\ node.name \in STRING /\ node.children \in Seq(Nodes)
             /\ \A i \in DOMAIN node.children : Height[node.children[i]] < Height[node]
    /\ Roots \subseteq Seq(Nodes)

Damages == {"none", "header", "body"}

Option(S) == {{v} : v \in S} \cup {{}}

VaultFiles(root) ==
    [found : BOOLEAN, damage : Damages, password : Passwords,
     keyfile : Option(GoodKeyFiles), root : {root}]

-----------------------------------------------------------------------------
(* The group tree: an entry has a uuid, a group a name and children.  A    *)
(* group path is the sequence of the names that the code joins by slashes. *)

(* Seeded fault: a group at the top gets a separator, too. *)
ChildPath_Always(path, name) == (IF path = << >> THEN <<"">> ELSE path) \o <<name>>

(* The empty path and the empty name are the same empty string. *)
ChildPath(path, name) ==
    IF path = << >> THEN IF name = "" THEN << >> ELSE <<name>> ELSE path \o <<name>>

WalkNode(top, group_path) ==
    LET walk[at \in Nodes \X Seq(STRING)] ==
            LET node == at[1]
            IN  IF node.kind = "entry"
                THEN <<[uuid |-> node.uuid, group |-> at[2]]>>
                ELSE FlattenSeq([i \in DOMAIN node.children |->
                                    walk[<<node.children[i], ChildPath(at[2], node.name)>>]])
    IN  walk[<<top, group_path>>]

-----------------------------------------------------------------------------
Fails(code) == [code |-> code, entries |-> << >>]

(* The database, the key file, the key: what is missing first is reported. *)
OpenKdbx(file, password, keyfile) ==
    IF \/ ~file.found
       \/ ~(keyfile \subseteq GoodKeyFiles)
       \/ file.damage = "header"
    THEN Fails("vault-error")
    ELSE IF password # file.password \/ keyfile # file.keyfile
    THEN Fails("auth-failed")
    ELSE IF file.damage = "body" THEN Fails("vault-error")
    ELSE [code |-> "ok",
          entries |-> FlattenSeq([i \in DOMAIN file.root |-> WalkNode(file.root[i], << >>)])]

(* Seeded fault: the configured key file wins. *)
KeyFile_Configured(override, configured) ==
    IF configured = {} THEN override ELSE configured

KeyFile(override, configured) == IF override = {} THEN configured ELSE override

(* sent: the password of the request; typed: what pinentry returned, if    *)
(* anything.                                                               *)
DoUnlock(file, sent, typed, override, configured) ==
    LET secret == IF sent = {} THEN typed ELSE sent
    IN  IF secret = {} THEN Fails("io-error")
        ELSE OpenKdbx(file, CHOOSE p \in secret : TRUE, KeyFile(override, configured))

-----------------------------------------------------------------------------
(* The reference: the ways from the root down, step by step, breadth first. *)

Branches(children) == {[child |-> i, node |-> children[i]] : i \in DOMAIN children}

Children(node) == IF node.kind = "entry" THEN << >> ELSE node.children

(* The ways from the root to the entries. *)
Ways(root) ==
    LET ways[k \in 1..(MaxHeight + 1)] ==
            IF k = 1 THEN {<<b>> : b \in Branches(root)}
            ELSE UNION {{Append(w, b) : b \in Branches(Children(w[k - 1].node))} : w \in ways[k - 1]}
    IN  {w \in UNION {ways[k] : k \in 1..(MaxHeight + 1)} : w[Len(w)].node.kind = "entry"}

(* Where v and w part, v takes the earlier child. *)
Earlier(v, w) ==
    \E k \in DOMAIN v \cap DOMAIN w :
        v[k].child < w[k].child /\ \A i \in 1..(k - 1) : v[i] = w[i]

(* The names of the groups above, from the first that has one. *)
GroupOf(w) ==
    LET names == [k \in 1..(Len(w) - 1) |-> w[k].node.name]
        named == {k \in DOMAIN names : names[k] # ""}
    IN  IF named = {} THEN << >> ELSE SubSeq(names, Min(named), Len(names))
=============================================================================
