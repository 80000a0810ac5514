------------------------------- MODULE Search -------------------------------
(***************************************************************************)
(* What `list' finds and in which order (daemon/src/vault.rs: list,        *)
(* fuzzy_score, is_subsequence).  A text is a sequence of ASCII codes, so  *)
(* that a byte offset is a position and to_lowercase keeps lengths.        *)
(***************************************************************************)
EXTENDS Integers, SequencesExt

CONSTANTS
    Queries,    \* the queries that are tried
    Pool,       \* the entries that databases are made of
    MaxEntries, \* bound: the entries of a database
    Limits      \* the limits that are given

Ascii == 0..127
Text  == Seq(Ascii)

EntryMeta ==
    [title : Text, username : Text, url : Text, group : Text, tags : Seq(Text)]

ASSUME SearchAssumption ==
    /\ Queries \subseteq Text
    /\ Pool \subseteq EntryMeta
    /\ MaxEntries \in Nat /\ Limits \subseteq Nat

Lower(s) == [i \in DOMAIN s |-> IF s[i] \in 65..90 THEN s[i] + 32 ELSE s[i]]

(* The offsets at which str::find could find q in t; it returns the first. *)
Offsets(q, t) == {p \in 0..(Len(t) - Len(q)) : SubSeq(t, p + 1, p + Len(q)) = q}

Weight == [title |-> 100, username |-> 40, url |-> 30, group |-> 20]

Hits(q, e) == {f \in DOMAIN Weight : Offsets(q, Lower(e[f])) # {}}

FieldScore(q, e, f) ==
    LET pos == Min(Offsets(q, Lower(e[f])))
    IN  Weight[f] - pos + (IF pos = 0 THEN 25 ELSE 0)

(* Seeded fault: the last field that matches decides, not the best. *)
BestScore_Last(q, e) ==
    FieldScore(q, e, CHOOSE f \in Hits(q, e) : \A g \in Hits(q, e) : Weight[f] <= Weight[g])

BestScore(q, e) == Max({FieldScore(q, e, f) : f \in Hits(q, e)})

(* Seeded fault: the search for a character begins at the last one found.  *)
IsSubsequence_Stays(needle, haystack) ==
    LET taken[n \in 0..Len(needle)] ==
            IF n = 0 THEN 1
            ELSE Min({i \in taken[n - 1]..Len(haystack) : haystack[i] = needle[n]}
                         \cup {Len(haystack) + 1})
    IN  taken[Len(needle)] <= Len(haystack)

(* all() with any() on one iterator: the characters of the needle are      *)
(* looked for one after the other, each from where the last was found; the *)
(* end of the haystack is never left again.                                *)
IsSubsequence(needle, haystack) ==
    LET taken[n \in 0..Len(needle)] ==
            IF n = 0 THEN 0
            ELSE Min({i \in (taken[n - 1] + 1)..Len(haystack) : haystack[i] = needle[n]}
                         \cup {Len(haystack) + 1})
    IN  taken[Len(needle)] <= Len(haystack)

(* An Option: the score, or nothing. *)
FuzzyScore(query, e) ==
    LET q == Lower(query)
    IN  IF query = << >> THEN {0}
        ELSE IF Hits(q, e) # {} THEN {BestScore(q, e)}
        ELSE IF IsSubsequence(q, Lower(e.title)) THEN {5}
        ELSE {}

(* str::cmp. *)
TextLess(s, t) ==
    \/ IsStrictPrefix(s, t)
    \/ \E n \in 1..Len(s) :
          n <= Len(t) /\ s[n] < t[n] /\ SubSeq(s, 1, n - 1) = SubSeq(t, 1, n - 1)

(* The comparison of a sort that is stable: score, title, position. *)
Before(entries, query, i, j) ==
    LET score(k) == Max(FuzzyScore(query, entries[k]))
        title(k) == entries[k].title
    IN  \/ score(i) > score(j)
        \/ score(i) = score(j) /\ TextLess(title(i), title(j))
        \/ score(i) = score(j) /\ title(i) = title(j) /\ i < j

(* The positions of the entries that are listed, each at the place that    *)
(* the number of those before it gives.                                    *)
List(entries, query, limit) ==
    LET found    == {i \in DOMAIN entries : FuzzyScore(query, entries[i]) # {}}
        place(i) == Cardinality({j \in found : Before(entries, query, j, i)})
        sorted   == [n \in 1..Cardinality(found) |-> CHOOSE i \in found : place(i) = n - 1]
    IN  SubSeq(sorted, 1, Min({limit, Cardinality(found)}))

-----------------------------------------------------------------------------
(* The reference.                                                          *)

Holds(t, q) ==
    \E a, b \in 0..Len(t) : a <= b /\ Lower(SubSeq(t, a + 1, b)) = Lower(q)

(* The characters of q stand in t in their order, others between them. *)
Embeds(q, t) ==
    \E at \in [DOMAIN q -> DOMAIN t] :
        /\ \A m, n \in DOMAIN q : m < n => at[m] < at[n]
        /\ \A n \in DOMAIN q : Lower(q)[n] = Lower(t)[at[n]]

Wanted(q, e) ==
    Embeds(q, e.title) \/ \E f \in DOMAIN Weight : Holds(e[f], q)

(* A tag holds the query.  fuzzy_score does not look at tags.              *)
Tagged(q, e) == \E n \in DOMAIN e.tags : Holds(e.tags[n], q)

StartsWith(t, q) == IsPrefix(Lower(q), Lower(t))
=============================================================================
