------------------------------ MODULE SearchText ------------------------------
(* The functions a search is made of: edit distance, spans of phrases, the    *)
(* vocabulary filter of a segment, the matching of terms, weights, snippets   *)
(* and their highlights; the server's, and the command line's where it has    *)
(* its own.  Words are sequences of letters, a text is a sequence of          *)
(* characters none of which changes its length with its case.                 *)
EXTENDS Integers, Sequences, SequencesExt, FiniteSets, FiniteSetsExt, Folds

CONSTANTS Letters,      \* the alphabet of the words that are compared
          WordSize,     \* their length at most
          TextSize,     \* the length of a text at most
          Context,      \* surrounding_context; a snippet has twice that
          Boundary,     \* maxBoundarySearch of the command line
          SuffixRules,  \* _SUFFIX_RULES: pairs of a suffix and what replaces it
          Endings,      \* _SIMPLE_SUFFIXES
          Vocabulary,   \* words of documents and queries
          Stopwords,    \* some of them
          Synonyms      \* from some of the words, sets of words

\* The configuration asks for 40 characters of context at least, the command
\* line has 100, and scans 30 for a word to end.
ASSUME SnippetsAssumption == Context \in Nat \ {0} /\ Boundary \in 1 .. Context

\* The synonyms are lists in a dictionary.
ASSUME SynonymsAssumption == \A w \in DOMAIN Synonyms : IsFiniteSet(Synonyms[w])

Words == UNION {[1 .. n -> Letters] : n \in 0 .. WordSize}
Lesser(a, b) == IF a < b THEN a ELSE b
Greater(a, b) == IF a < b THEN b ELSE a

\* What is in a set as a list, in an order given by its pairs.
Sorted(S, order) ==
    CHOOSE list \in Bijection(1 .. Cardinality(S), S) :
        \A i, j \in DOMAIN list : i < j => <<list[i], list[j]>> \in order

Ascending(S) == Sorted(S, {p \in S \X S : p[1] < p[2]})

(***************************************************************************)
(* Typing errors                                                           *)
(***************************************************************************)
\* The row for letter c of the longer word, from the row before it.
NextRow(before, s, c, j) ==
    LET row[i \in 0 .. Len(s)] ==
            IF i = 0 THEN j
            ELSE Min({before[i] + 1, row[i - 1] + 1, before[i - 1] + IF s[i] = c THEN 0 ELSE 1})
    IN  row

\* Row by row, until a whole row is above the limit.
Rows(s, t, limit) ==
    LET rows[j \in 0 .. Len(t)] ==
            IF j = 0 THEN [i \in 0 .. Len(s) |-> i] ELSE NextRow(rows[j - 1], s, t[j], j)
        hopeless == \E j \in 1 .. Len(t) : \A i \in 0 .. Len(s) : rows[j][i] > limit
    IN  IF Len(t) - Len(s) > limit \/ Len(s) - Len(t) > limit \/ hopeless
        THEN limit + 1 ELSE rows[Len(t)][Len(s)]

\* Faulty: a row is given up as soon as it reaches the limit.
LevenshteinHasty(s, t, limit) ==
    IF s = << >> \/ t = << >> THEN Len(s) + Len(t)
    ELSE IF Rows(s, t, limit) = limit THEN limit + 1 ELSE Rows(s, t, limit)

\* levenshtein_distance: the shorter word makes the row.
Levenshtein(s, t, limit) ==
    IF s = << >> \/ t = << >> THEN Len(s) + Len(t)
    ELSE IF Len(s) > Len(t) THEN Rows(t, s, limit) ELSE Rows(s, t, limit)

\* The command line's takes the words as they come.
CliLevenshtein(a, b, limit) ==
    IF a = << >> \/ b = << >> THEN Len(a) + Len(b) ELSE Rows(b, a, limit)

\* get_max_edit_distance
MaxEdits(length) == IF length <= 2 THEN 0 ELSE IF length <= 5 THEN 1 ELSE 2

\* find_fuzzy_matches: the closest, one of which the search takes.
FuzzyMatches(word, vocabulary) ==
    LET limit == MaxEdits(Len(word))
        distance == [w \in vocabulary |-> Levenshtein(word, w, limit)]
    IN  {w \in vocabulary : distance[w] <= limit /\ \A v \in vocabulary : distance[w] <= distance[v]}

(***************************************************************************)
(* Phrases                                                                 *)
(***************************************************************************)
\* get_min_span of ascending positions, one list for each term: the window
\* moves its lowest end on until a list is at its end.
MinSpan(lists) ==
    LET terms == DOMAIN lists
        lowest(front) == CHOOSE t \in terms : \A u \in terms : lists[t][front[t]] <= lists[u][front[u]]
        span(front) == Max({lists[t][front[t]] : t \in terms}) - lists[lowest(front)][front[lowest(front)]] + 1
        fronts == {front \in [terms -> Nat] : \A t \in terms : front[t] \in DOMAIN lists[t]}
        least[front \in fronts] ==
            IF front[lowest(front)] = Len(lists[lowest(front)]) THEN span(front)
            ELSE Lesser(span(front), least[[front EXCEPT ![lowest(front)] = @ + 1]])
    IN  IF Cardinality(terms) = 1 THEN 1 ELSE least[[t \in terms |-> 1]]

\* _apply_phrase_bonus, in quarters of a word: four for each word of the query
\* is no bonus, six is the whole.  A query that repeats a word gets none.
Bonus(body, query) ==
    LET n == Len(query)
        span == MinSpan([w \in Range(query) |-> Ascending({i \in DOMAIN body : body[i] = w})])
    IN  IF n < 2 \/ ~IsInjective(query) \/ ~(Range(query) \subseteq Range(body)) THEN 4 * n
        ELSE IF span <= n THEN 6 * n
        ELSE IF span >= 3 * n THEN 4 * n ELSE 7 * n - span

(***************************************************************************)
(* The vocabulary filter: bits are kept in bytes, the bytes in blocks of   *)
(* the database, signed integers with the lowest byte first.               *)
(***************************************************************************)
ByteBits == 2
BlockBits == 4          \* _BLOOM_BLOCK_BITS

Number(bits) == FoldSet(LAMBDA b, sum : sum + 2 ^ b, 0, bits)
Signed(n) == IF n >= 2 ^ (BlockBits - 1) THEN n - 2 ^ BlockBits ELSE n
Masked(n, bit) == (n \div 2 ^ bit) % 2      \* of two's complement

\* BloomFilter.add, of all terms: the values of the bytes.
Bytes(size, bits) ==
    [byte \in 0 .. size \div ByteBits |->
        Number({bit \in 0 .. ByteBits - 1 : byte * ByteBits + bit \in bits})]

\* _bloom_blocks_from_bits; what the last block lacks is zero.
BloomBlocks(bytes) ==
    LET width == BlockBits \div ByteBits
        byte(i) == IF i \in DOMAIN bytes THEN bytes[i] ELSE 0
    IN  [block \in 0 .. (Cardinality(DOMAIN bytes) - 1) \div width |->
            Signed(FoldSet(LAMBDA i, sum : sum + byte(block * width + i) * 2 ^ (i * ByteBits),
                           0, 0 .. width - 1))]

\* _filter_tokens_with_bloom, for one position of one term.
Passes(blocks, position) ==
    LET block == position \div BlockBits
    IN  block \in DOMAIN blocks /\ Masked(blocks[block], position % BlockBits) # 0

(***************************************************************************)
(* Terms                                                                   *)
(***************************************************************************)
\* The first suffix of the list that leaves two letters, if any.
Stripped(word, rules) ==
    LET fits(i) == IsSuffix(rules[i][1], word) /\ Len(word) - Len(rules[i][1]) >= 2
        first == {i \in DOMAIN rules : fits(i) /\ \A j \in 1 .. i - 1 : ~fits(j)}
    IN  {SubSeq(word, 1, Len(word) - Len(rules[i][1])) \o rules[i][2] : i \in first}

\* _build_porter_stemmer
Stem(word) ==
    LET complex == Stripped(word, SuffixRules)
        simple == Stripped(word, [i \in DOMAIN Endings |-> <<Endings[i], << >>>>])
    IN  CHOOSE stem \in IF complex # {} THEN complex ELSE IF simple # {} THEN simple ELSE {word} : TRUE

\* A text is words, and whether slashes separate them or white space:
\* StandardAnalyzer and PathAnalyzer.
Standard(text) ==
    FoldLeft(LAMBDA stems, w : IF w \in Stopwords THEN stems ELSE Append(stems, Stem(w)), << >>, text.words)

Path(text) == IF text.slashes THEN text.words ELSE Standard(text)

\* Each term once, where it comes first.
Once(terms) ==
    FoldLeft(LAMBDA kept, w : IF w \in Range(kept) THEN kept ELSE Append(kept, w), << >>, terms)

TextFields == [body |-> "english", url_path |-> "path"]
Analyze(field, text) == IF TextFields[field] = "path" THEN Path(text) ELSE Standard(text)

\* tokenize_query, for one field: synonyms follow what the query says.
QueryTerms(field, query) ==
    LET base == Once(Analyze(field, query))
        synonyms == UNION {Synonyms[w] : w \in Range(base) \cap DOMAIN Synonyms}
    IN  base \o SetToSeq(synonyms \ Range(base))

\* _resolve_postings and the first half of score: a word of the query without
\* postings is taken for the closest of the vocabulary.  What counts as a word
\* of the query is counted in the body.
Found(corpus, query) ==
    LET words(d, field) == Range(Analyze(field, corpus[d][field]))
        holding(field, w) == {d \in DOMAIN corpus : w \in words(d, field)}
        vocabulary(field) == UNION {words(d, field) : d \in DOMAIN corpus}
        said == Len(Once(Analyze("body", query)))
        resolved(field, i) ==
            LET term == QueryTerms(field, query)[i]
                close == FuzzyMatches(term, vocabulary(field))
            IN  IF holding(field, term) # {} \/ i > said \/ close = {} THEN holding(field, term)
                ELSE holding(field, CHOOSE w \in close : TRUE)
    IN  UNION {UNION {resolved(field, i) : i \in DOMAIN QueryTerms(field, query)}
               : field \in DOMAIN TextFields}

(***************************************************************************)
(* Weights, as fractions                                                   *)
(***************************************************************************)
\* bm25 with k1 = 1.2 and b = 0.75, of tf occurrences in a document of some
\* length; a document four times the average is as long as any longer one.
Weight(tf, length, average) ==
    <<44 * tf * average, 20 * average * tf + 6 * average + 18 * Lesser(length, 4 * average)>>

\* The command line's, with k1 = 1.5.
CliWeight(tf, length, average) ==
    <<20 * tf * average, 8 * average * tf + 3 * average + 9 * Lesser(length, 4 * average)>>

\* What calculate_idf takes the logarithm of.
Rarity(df, total) ==
    LET found == Lesser(df, total) IN <<2 * (total - found) + 1, 2 * found + 1>>

Below(p, q) == p[1] * q[2] < q[1] * p[2]

(***************************************************************************)
(* Snippets: a piece of a text is a start and an end, as in a slice.       *)
(***************************************************************************)
At(text, i) == text[i + 1]
Space == " "

\* The white space of a piece, and the ends of its sentences.
Gaps(text, lo, hi) ==
    {g \in (lo .. hi) \X (lo .. hi) :
        /\ g[1] < g[2] /\ \A i \in g[1] .. g[2] - 1 : At(text, i) = Space
        /\ g[1] = lo \/ At(text, g[1] - 1) # Space
        /\ g[2] = hi \/ At(text, g[2]) # Space}

Sentences(text, lo, hi) == {g[2] : g \in {g \in Gaps(text, lo, hi) : g[1] > lo /\ At(text, g[1] - 1) = "."}}

\* find_sentence_start
SentenceStart(text, position) ==
    LET lo == Greater(0, position - Context)
        gaps == {g \in Gaps(text, lo, position) : g[1] - lo >= (position - lo) \div 4}
    IN  IF position = 0 THEN 0
        ELSE IF Sentences(text, lo, position) # {} THEN Max(Sentences(text, lo, position))
        ELSE IF gaps # {} THEN Min({g[2] : g \in gaps}) ELSE lo

\* find_sentence_end
SentenceEnd(text, position) ==
    LET hi == Lesser(Len(text), position + Context)
        gaps == {g \in Gaps(text, position, hi) : g[1] - position <= (3 * (hi - position)) \div 4}
    IN  IF position >= Len(text) THEN Len(text)
        ELSE IF Sentences(text, position, hi) # {} THEN Min(Sentences(text, position, hi))
        ELSE IF gaps # {} THEN Max({g[1] : g \in gaps}) ELSE hi

\* extract_sentence_snippet, for a match at a place.
Snippet(text, place, length) ==
    LET start == SentenceStart(text, Greater(0, place - Context))
        end == SentenceEnd(text, Lesser(Len(text), place + length + Context))
        center == place + length \div 2
    IN  IF end - start <= 2 * Context THEN <<start, end>>
        ELSE <<Greater(0, center - Context), Lesser(Len(text), center + Context)>>

\* Build of the command line, which cuts no word in two.
CliSnippet(text, place) ==
    LET size == 2 * Context
        fits == Greater(0, place - Context) + size <= Len(text)
        start == IF fits THEN Greater(0, place - Context) ELSE Greater(0, Len(text) - size)
        end == IF fits THEN start + size ELSE Len(text)
        spaces == {i \in start .. end - 1 : At(text, i) = Space}
        first == IF start > 0 /\ spaces # {} /\ Min(spaces) - start < Boundary
                 THEN Min(spaces) + 1 ELSE start
        left == {i \in spaces : i >= first}
    IN  <<first, IF end < Len(text) /\ left # {} /\ Max(left) > end - Boundary THEN Max(left) ELSE end>>

(***************************************************************************)
(* Highlights                                                              *)
(***************************************************************************)
MaxHighlights == 3

Overlap(m, n) == m[1] < n[2] /\ m[2] > n[1]

\* The first matches, the longest of those that begin together, that are not
\* in a link and do not overlap.
Highlighted(matches, links) ==
    LET earlier(m, n) == m[1] < n[1] \/ (m[1] = n[1] /\ m[2] > n[2])
        take(chosen, m) == IF Cardinality(chosen) < MaxHighlights
                              /\ \A n \in links \cup chosen : ~Overlap(m, n)
                           THEN chosen \cup {m} ELSE chosen
    IN  FoldLeft(take, {}, Sorted(matches, {p \in matches \X matches : earlier(p[1], p[2])}))

\* highlight_terms_in_snippet puts the marks in from the end.
Marked(snippet, chosen) ==
    LET mark(text, m) == SubSeq(text, 1, m[1]) \o <<"[[">> \o SubSeq(text, m[1] + 1, m[2])
                         \o <<"]]">> \o SubSeq(text, m[2] + 1, Len(text))
    IN  FoldLeft(mark, snippet, Sorted(chosen, {p \in chosen \X chosen : p[1][1] > p[2][1]}))

(***************************************************************************)
(* Properties, of every word, list, text or document there is.             *)
(***************************************************************************)
\* What one insertion, deletion or substitution makes of a word.
Edited(word) ==
    LET n == Len(word)
    IN  {[word EXCEPT ![i] = c] : i \in 1 .. n, c \in Letters}
        \cup {RemoveAt(word, i) : i \in 1 .. n}
        \cup {InsertAt(word, i, c) : i \in 1 .. n + 1, c \in Letters}

\* By number of edits, the words they make of a word.
Within(word, most) ==
    LET reach[k \in 0 .. most] ==
            IF k = 0 THEN {word} ELSE reach[k - 1] \cup UNION {Edited(w) : w \in reach[k - 1]}
    IN  reach

\* Giving up early never changes which words are near, nor how near, in
\* levenshtein_distance and in the command line's levenshtein.
DistancesAreExact ==
    \A s \in Words :
       LET within == Within(s, 2)
       IN  \A t \in Words, limit \in 1 .. 2 : \A k \in 0 .. limit :
              /\ (Levenshtein(s, t, limit) <= k) <=> (t \in within[k])
              /\ (CliLevenshtein(s, t, limit) <= k) <=> (t \in within[k])

\* One place for each term.
Windows(places) == {c \in [DOMAIN places -> UNION Range(places)] : \A t \in DOMAIN places : c[t] \in places[t]}

\* The moving window of get_min_span finds the least span.
SpanIsLeast(places) ==
    MinSpan([t \in DOMAIN places |-> Ascending(places[t])])
        = Min({Max(Range(c)) - Min(Range(c)) + 1 : c \in Windows(places)})

SpansAreLeast == \A n \in 1 .. 3 : \A places \in [1 .. n -> (SUBSET (0 .. 3)) \ {{}}] : SpanIsLeast(places)

\* The bonus takes no score away, and is whole for a document that contains the
\* query as it stands.
PhraseIsRewarded(body, query) ==
    LET m == Len(query)
    IN  /\ Bonus(body, query) \in 4 * m .. 6 * m
        /\ (\E i \in 1 .. Len(body) - m + 1 : SubSeq(body, i, i + m - 1) = query) => Bonus(body, query) = 6 * m

PhrasesAreRewarded ==
    \A n \in 1 .. 5 : \A body \in [1 .. n -> 1 .. 3] : \A m \in 2 .. 3 :
       \A query \in {q \in [1 .. m -> 1 .. 3] : IsInjective(q)} : PhraseIsRewarded(body, query)

\* Through bytes and signed blocks, the filter of the reader lets the bits pass
\* that the writer has set, and no other.
FilterLosesNothing(size, bits) ==
    LET blocks == BloomBlocks(Bytes(size, bits))
    IN  \A position \in 0 .. size - 1 : Passes(blocks, position) <=> position \in bits

FiltersLoseNothing ==
    \A size \in 1 .. 9 : \A bits \in SUBSET (0 .. size - 1) : FilterLosesNothing(size, bits)

TextsOf(n) == {[words |-> w, slashes |-> s] : w \in UNION {[1 .. m -> Vocabulary] : m \in 1 .. n}, s \in BOOLEAN}

\* A document with a word of the query in its body is found, whatever the rest
\* of the query is, and whatever the other document of the segment says.
WordsAreFound ==
    \A corpus \in [1 .. 2 -> [body : {t \in TextsOf(1) : ~t.slashes}, url_path : {t \in TextsOf(1) : t.slashes}]] :
       \A query \in TextsOf(2) : \A d \in 1 .. 2 :
          Range(Standard(query)) \cap Range(Standard(corpus[d].body)) # {} => d \in Found(corpus, query)

\* One more occurrence never lowers a weight and a greater length never raises
\* it; the server and the command line put documents with a term in one order.
WeightsAgreeOn(average, tf, length, tf2, length2) ==
    /\ ~Below(Weight(tf + 1, length, average), Weight(tf, length, average))
    /\ ~Below(Weight(tf, length, average), Weight(tf, length + 1, average))
    /\ Below(Weight(tf, length, average), Weight(tf2, length2, average))
          <=> Below(CliWeight(tf, length, average), CliWeight(tf2, length2, average))
    /\ ~Below(Rarity(tf, length), Rarity(tf + 1, length))

WeightsAgree ==
    \A average \in 1 .. 3 : \A tf, tf2 \in 1 .. 4 : \A length, length2 \in 1 .. 12 :
       WeightsAgreeOn(average, tf, length, tf2, length2)

SnippetTexts == UNION {[1 .. n -> {"x", Space, "."}] : n \in 1 .. TextSize}

\* A snippet contains the match it was made for, and is no longer than asked,
\* in the server and, for matches that fit, in the command line.
MatchIsShown(text, place, length) ==
    LET piece == Snippet(text, place, length)
        client == CliSnippet(text, place)
    IN  /\ piece[1] <= place /\ place + length <= piece[2] /\ piece[2] - piece[1] <= 2 * Context
        /\ client[1] <= place \/ At(text, place) = Space
        /\ (length <= Context - Boundary /\ \A i \in place .. place + length - 1 : At(text, i) # Space)
              => client[1] <= place /\ place + length <= client[2]

MatchesAreShown ==
    \A text \in SnippetTexts : \A place \in 0 .. Len(text) - 1, length \in 1 .. Context :
       place + length <= Len(text) => MatchIsShown(text, place, length)

Letter == <<"a", "b", "c", "d", "e", "f", "g", "h">>
Marks  == {"[[", "]]"}

\* What of a text is among some characters.
Among(text, chars) == FoldLeft(LAMBDA kept, c : IF c \in chars THEN Append(kept, c) ELSE kept, << >>, text)

\* Without its marks a snippet is as it was, its marks are pairs, three at
\* most, none is in a link, and there are some if a match is in none.
IsClean(text, matches, links) ==
    LET chosen == Highlighted(matches, links)
        marked == Marked(text, chosen)
        marks == Among(marked, Marks)
    IN  /\ Among(marked, Range(marked) \ Marks) = text
        /\ Len(marks) <= 2 * MaxHighlights
        /\ \A i \in DOMAIN marks : marks[i] = IF i % 2 = 1 THEN "[[" ELSE "]]"
        /\ \A m \in chosen, n \in links : ~Overlap(m, n)
        /\ chosen = {} => \A m \in matches : \E n \in links : Overlap(m, n)

HighlightsAreClean ==
    LET pieces == {m \in (0 .. 8) \X (0 .. 8) : m[2] \in {m[1] + 2, m[1] + 3}}
    IN  \A matches \in UNION {kSubset(k, pieces) : k \in 1 .. 4} : \A links \in {{}, {<<3, 7>>}} :
           IsClean(Letter, matches, links)

\* What a search finds, weighs and cuts out is what the plain definitions say.
TextIsExact ==
    DistancesAreExact /\ FiltersLoseNothing /\ WordsAreFound /\ WeightsAgree /\ MatchesAreShown

\* And so are the spans, the bonus for phrases and the highlights.
PhrasesAreExact == SpansAreLeast /\ PhrasesAreRewarded /\ HighlightsAreClean
===============================================================================
