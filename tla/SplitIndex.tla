----------------------------- MODULE SplitIndex -----------------------------
(* _index_entries and _bitmap of scripts/emit-local-manifest.py: an index     *)
(* that is split refers to a shared index, by its hash, and says in two EWAH  *)
(* bitmaps which entries of it are deleted and which are replaced by its own  *)
(* first records, which have no name.                                         *)
(*                                                                            *)
(* Names are numbers in the order in which paths sort; 0 is the empty name. A *)
(* word of a bitmap is a number of WordBits bits: as a marker it is one bit   *)
(* of run, the number of words in the run, and the number of literal words.   *)
EXTENDS Integers, SequencesExt

CONSTANTS
    WordBits,  \* 64
    Runs       \* 2^32, the numbers of words that a run may have

ASSUME WordAssumption == WordBits \in Nat \ {0} /\ Runs \in Nat \ {0}

-----------------------------------------------------------------------------
(* A bitmap is [size, words, rlw, cut]: its bit count, its words, the word it *)
(* names as its last marker, and whether the data end before it does.         *)

\* Takes the count from the wrong end of the word (a mutant of Literals).
LowBits(word) == word % Runs

Ones(word)     == word % 2 = 1
Repeat(word)   == (word \div 2) % Runs
Literals(word) == word \div (2 * Runs)

BitsOf(word) == {b \in 0..(WordBits - 1) : (word \div 2^b) % 2 = 1}

Clipped(map, end) == IF end < map.size THEN end ELSE map.size

\* The cursor and the position at each turn of the loop: after a marker come
\* its literals, then the next marker.
Turns(map) ==
    LET turn[k \in 0..Len(map.words)] ==
          IF k = 0 THEN [cursor |-> 1, pos |-> 0]
          ELSE LET m == turn[k - 1]  word == map.words[m.cursor] IN
               IF m.cursor > Len(map.words) THEN m
               ELSE [cursor |-> m.cursor + 1 + Literals(word),
                     pos    |-> m.pos + (Repeat(word) + Literals(word)) * WordBits]
    IN  turn

Markers(map) ==
    {m \in {Turns(map)[k] : k \in 0..Len(map.words)} : m.cursor <= Len(map.words)}

RunEnd(map, m) == m.pos + Repeat(map.words[m.cursor]) * WordBits

RunOf(map, m) ==
    IF Ones(map.words[m.cursor]) THEN m.pos..(Clipped(map, RunEnd(map, m)) - 1) ELSE {}

\* The literals of a marker, as far as there are any.
LiteralWords(map, m) ==
    {j \in 1..Literals(map.words[m.cursor]) : m.cursor + j <= Len(map.words)}

LiteralsOf(map, m) ==
    UNION {{RunEnd(map, m) + (j - 1) * WordBits + b : b \in BitsOf(map.words[m.cursor + j])} :
              j \in LiteralWords(map, m)}

Positions(map) == UNION {RunOf(map, m) \cup LiteralsOf(map, m) : m \in Markers(map)}

\* What _bitmap refuses of a bitmap over limit entries.
Malformed(map, limit) ==
    \/ map.cut
    \/ map.words # <<>> /\ map.rlw >= Len(map.words)
    \/ \E m \in Markers(map) :
        \/ Literals(map.words[m.cursor]) > Len(map.words) - m.cursor
        \/ Ones(map.words[m.cursor]) /\ Clipped(map, RunEnd(map, m)) > limit
        \/ \E p \in LiteralsOf(map, m) : p >= map.size \/ p >= limit

-----------------------------------------------------------------------------
(* An index file is [records, split, link], the link [base, deleted,          *)
(* replaced, whole, bare]: the entries of the shared index, the bitmaps,      *)
(* whether nothing follows them, and whether there are none.                  *)

Unmergeable(file) ==
    LET link == file.link
        deleted == Positions(link.deleted)  replaced == Positions(link.replaced) IN
    \/ Malformed(link.deleted, Len(link.base)) \/ Malformed(link.replaced, Len(link.base))
    \/ ~link.whole \/ deleted \cap replaced # {}
    \/ Cardinality(replaced) > Len(file.records)
    \/ \E k \in 1..Cardinality(replaced) : file.records[k].name # 0
    \/ \E i \in replaced : link.base[i + 1].name = 0

\* Pairs every replaced entry with the first record (a mutant of Pairing).
FirstRecord(replaced, i) == 1

\* The k-th replaced entry takes the k-th record.
Pairing(replaced, i) == Cardinality({j \in replaced : j <= i})

Merged(file) ==
    LET link == file.link
        replaced == Positions(link.replaced)
        Entry(i) == IF i \in replaced
                    THEN [file.records[Pairing(replaced, i)] EXCEPT !.name = link.base[i + 1].name]
                    ELSE link.base[i + 1]
    IN  {Entry(i) : i \in (0..(Len(link.base) - 1)) \ Positions(link.deleted)}
        \cup {file.records[k] : k \in (Cardinality(replaced) + 1)..Len(file.records)}

Entries(file) ==
    IF ~file.split \/ file.link.bare THEN ToSet(file.records) ELSE Merged(file)

Precedes(e, f) == e.name < f.name \/ (e.name = f.name /\ e.stage < f.stage)

\* The entries S in the order of an index, in which no two have both the same
\* name and the same stage.
InOrder(S) ==
    [k \in 1..Cardinality(S) |-> CHOOSE e \in S : Cardinality({f \in S : Precedes(f, e)}) = k - 1]

-----------------------------------------------------------------------------
(* What a bitmap means, said independently of the above, a word at a time:    *)
(* `left` literals are still to come, `end` bits were said, those in `set`    *)
(* are 1.                                                                     *)

Said(map) ==
    LET after[k \in 0..Len(map.words)] ==
          IF k = 0 THEN [left |-> 0, end |-> 0, set |-> {}]
          ELSE LET before == after[k - 1]  word == map.words[k]
                   run == ((word \div 2) % Runs) * WordBits IN
               IF before.left > 0
               THEN [left |-> before.left - 1, end |-> before.end + WordBits,
                     set  |-> before.set \cup {before.end + b : b \in BitsOf(word)}]
               ELSE [left |-> word \div (2 * Runs), end |-> before.end + run,
                     set  |-> before.set \cup
                              (IF word % 2 = 1 THEN before.end..(before.end + run - 1) ELSE {})]
    IN  after[Len(map.words)]

Denoted(map) == Said(map).set

Meant(map) == Denoted(map) \cap 0..(map.size - 1)

\* The k-th of a set of numbers.
Kth(S, k) == CHOOSE i \in S : Cardinality({j \in S : j < i}) = k - 1

\* The entries of the shared index that neither bitmap names, a record for each
\* replaced one in order, and the records after those.
MeantEntries(f) ==
    LET base == f.link.base  gone == Meant(f.link.deleted)  new == Meant(f.link.replaced) IN
    {base[i] : i \in {j \in DOMAIN base : j - 1 \notin gone \cup new}}
    \cup {[f.records[k] EXCEPT !.name = base[Kth(new, k) + 1].name] : k \in 1..Cardinality(new)}
    \cup {f.records[k] : k \in (Cardinality(new) + 1)..Len(f.records)}

\* A bitmap is damaged that is cut, that counts more literals than it has,
\* names a bit that it says it has not, or has more bits than there are entries.
Damaged(map, limit) ==
    \/ map.cut \/ (map.words # <<>> /\ map.rlw >= Len(map.words))
    \/ Said(map).left > 0 \/ map.size > limit \/ Denoted(map) # Meant(map)
=============================================================================
