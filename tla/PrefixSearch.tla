---------------------------- MODULE PrefixSearch ----------------------------
(* internal/storage/store.go: how ListFilesByPrefix and ListFoldersByPrefix  *)
(* find what lies under a prefix, with a LIKE pattern, and how they cut the  *)
(* list off.  A path is a sequence of characters here.                       *)
EXTENDS MetaStore, Sequences, FiniteSets

CONSTANTS
    Lower(_),       \* how LIKE compares: ASCII letters without their case
    Before(_, _),   \* the order of paths in SQLite
    Characters,     \* the characters of the prefixes that are asked for
    MaxLength,      \* bound: their length
    Limits          \* the limits that are asked for

ASSUME PrefixSearchAssumption == MaxLength \in Nat /\ Paths \subseteq Seq(STRING)

AnyText == "%"
AnyCharacter == "_"
Escape == "\\"

\* Mutant: only the two wildcards are escaped.
EscapedWildcards(c) == IF c \in {AnyText, AnyCharacter} THEN <<Escape, c>> ELSE <<c>>

Escaped(c) == IF c \in {AnyText, AnyCharacter, Escape} THEN <<Escape, c>> ELSE <<c>>

Texts == INSTANCE SequencesExt

escapeLike(value) == Texts!FlattenSeq([i \in DOMAIN value |-> Escaped(value[i])])

\* Whether the text from j on is LIKE the pattern from i on, given the match of
\* the shorter rests.
LikeFrom(match, text, pattern, i, j) ==
    LET Same(k) == j <= Len(text) /\ Lower(pattern[k]) = Lower(text[j])
    IN  IF i > Len(pattern) THEN j > Len(text)
        ELSE CASE pattern[i] = AnyText ->
                    match[<<i + 1, j>>] \/ (j <= Len(text) /\ match[<<i, j + 1>>])
               [] pattern[i] = AnyCharacter -> j <= Len(text) /\ match[<<i + 1, j + 1>>]
               [] pattern[i] = Escape ->
                    i < Len(pattern) /\ Same(i + 1) /\ match[<<i + 2, j + 1>>]
               [] OTHER -> Same(i) /\ match[<<i + 1, j + 1>>]

Rests(text, pattern) == (1..Len(pattern) + 1) \X (1..Len(text) + 1)

\* text LIKE pattern ESCAPE '\'
Like(text, pattern) ==
    LET match[p \in Rests(text, pattern)] == LikeFrom(match, text, pattern, p[1], p[2])
    IN  match[<<1, 1>>]

Prefixes == UNION {[1..n -> Characters] : n \in 0..MaxLength}

Matches ==
    [path \in Paths |-> [prefix \in Prefixes |-> Like(path, escapeLike(prefix) \o <<AnyText>>)]]

RowLimit(limit) == IF limit <= 0 THEN 500 ELSE limit

\* ORDER BY path LIMIT n.
FirstRows(t, ids, n) ==
    {id \in ids : Cardinality({k \in ids : Before(db[t][k].path, db[t][id].path)}) < n}

ListByPrefix(t, account, prefix, limit) ==
    FirstRows(t,
              {id \in DOMAIN db[t] :
                 db[t][id].account = account /\ Matches[db[t][id].path][prefix]},
              RowLimit(limit))

-----------------------------------------------------------------------------
BeginsWith(path, prefix) ==
    /\ Len(prefix) <= Len(path)
    /\ \A i \in 1..Len(prefix) : Lower(prefix[i]) = Lower(path[i])

\* The account's files, or folders, whose path begins with the prefix but for
\* the case of letters.
Under(t, account, prefix) ==
    {id \in DOMAIN db[t] :
       db[t][id].account = account /\ BeginsWith(db[t][id].path, prefix)}

\* A list by prefix holds what lies under the prefix, or the first of it by path,
\* and nothing else takes a place below the limit, also where names contain the
\* wildcards of LIKE or its escape character.
PrefixListIsExact ==
    \A account \in AccountIds, prefix \in Prefixes, t \in {"files", "folders"}, limit \in Limits :
        ListByPrefix(t, account, prefix, limit) =
            FirstRows(t, Under(t, account, prefix), RowLimit(limit))
=============================================================================
