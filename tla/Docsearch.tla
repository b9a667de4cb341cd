------------------------------ MODULE Docsearch ------------------------------
(* The command line client (src/cli), which reads what the server has put on  *)
(* disk: the registry of tenants, the search for a tenant by its names, the   *)
(* search in one segment and in all, and the reading of a document.  What it  *)
(* shares with the server's search is in SearchText, the files it looks for   *)
(* are in UrlPaths.                                                           *)
EXTENDS SearchText

CONSTANTS NameParts,    \* what hyphens separate in a codename or a term
          Codenames     \* of tenants on disk and in deployment.json

\* A part of a name is written with the letters of the words that are compared.
ASSUME NamePartsAssumption == NameParts \subseteq Seq(Letters)

(***************************************************************************)
(* The registry                                                            *)
(***************************************************************************)
SourceTypes == {"filesystem", "online"}

\* A directory of the data root.  names: what its manifest says of the latest
\* segment; dated: source_updated_at is a time; summary: so is one of the
\* scheduler's summaries.  An empty name is "none".
Directories == [segments : BOOLEAN, names : {"nothing", "file", "absent"},
                source : SourceTypes \cup {"none"}, state : {"known", "partial", "odd"},
                dated : BOOLEAN, summary : BOOLEAN, hosts : BOOLEAN]

\* An entry of deployment.json: whether it has a description, and of what kinds
\* are the prefixes it allows (white) and the places it is read from (the entry
\* URLs, or else the sitemaps): public ones are of http or https.
Kinds == SUBSET {"public", "odd"}
Entries == [codename : Codenames, source : SourceTypes \cup {"none"}, white : Kinds, places : Kinds, text : BOOLEAN]

\* What is told of kinds of URLs, and where it is from.
From(where, kinds) == {where} \X kinds
Public(prefixes) == {p \in prefixes : p[2] = "public"}

\* The freshness, and where it is from: loadManifest, loadLegacyFreshness.
Freshness(d) ==
    IF d.names # "nothing" /\ d.state # "odd" /\ d.dated THEN <<d.state, "manifest">>
    ELSE IF d.summary THEN <<"partial", "summary">> ELSE <<"unknown", "none">>

\* scan, for a directory with segments.
Scanned(d) ==
    [segment |-> d.names = "file",
     source |-> IF d.names = "nothing" \/ d.source = "none" THEN "unknown" ELSE d.source,
     freshness |-> Freshness(d), revision |-> Freshness(d)[2] = "manifest",
     prefixes |-> From("hosts", IF d.hosts THEN {"public"} ELSE {}),
     description |-> IF d.hosts THEN "prefixes" ELSE "name"]

Unknown == [segment |-> FALSE, source |-> "unknown", freshness |-> <<"unknown", "none">>,
            revision |-> FALSE, prefixes |-> {}, description |-> "name"]

\* What an entry of the configuration says goes over what the scan has found;
\* the places count where nothing is allowed by prefix, and public ones only.
Overlaid(t, entry) ==
    LET said == IF entry.white # {} THEN From("white", entry.white) ELSE From("places", entry.places)
        prefixes == IF Public(said) # {} THEN Public(said) ELSE t.prefixes
    IN  [t EXCEPT !.source = IF entry.source # "none" THEN entry.source ELSE @,
                  !.prefixes = prefixes,
                  !.description = IF entry.text THEN "config"
                                  ELSE IF prefixes # {} THEN "prefixes" ELSE "name"]

\* loadDeploymentConfig: one that names tenants decides which there are.
Configured(scanned, config) ==
    LET named == {config[i].codename : i \in DOMAIN config}
        kept == [n \in named |-> IF n \in DOMAIN scanned THEN scanned[n] ELSE Unknown]
    IN  IF named = {} THEN scanned
        ELSE FoldLeft(LAMBDA tenants, entry :
                          [tenants EXCEPT ![entry.codename] = Overlaid(@, entry)], kept, config)

\* NewRegistry
Registry(disk, config) ==
    Configured([n \in {n \in DOMAIN disk : disk[n].segments} |-> Scanned(disk[n])], config)

(***************************************************************************)
(* Which tenant is meant.  A term of a query is the parts its hyphens      *)
(* separate, a codename likewise; scores are in six-hundredths.            *)
(***************************************************************************)
Terms == UNION {[1 .. n -> NameParts] : n \in 1 .. 2}
Whole == 600

IsWithin(s, t) == \E i \in 0 .. Len(t) - Len(s) : SubSeq(t, i + 1, i + Len(s)) = s

\* containsWholeWord
ContainsWholeWord(query, name) == \E i \in DOMAIN query : IsWithin(name, query[i])

\* strings.Contains, of a term in a text: within a word, or over hyphens.
Mentions(text, term) ==
    \E i \in 1 .. Len(text) - Len(term) + 1 :
       IF Len(term) = 1 THEN IsWithin(term[1], text[i])
       ELSE /\ IsSuffix(term[1], text[i]) /\ IsPrefix(Last(term), text[i + Len(term) - 1])
            /\ \A j \in 2 .. Len(term) - 1 : text[i + j - 1] = term[j]

\* How many parts are terms of the query.
Matched(parts, query) == Cardinality({i \in DOMAIN parts : <<parts[i]>> \in Range(query)})

NameScore(name, query) ==
    LET m == Matched(name, query)
    IN  IF m = Len(name) THEN Whole + 6 * m
        ELSE IF ContainsWholeWord(query, name) THEN Whole
        ELSE (540 * m) \div Len(name)

DisplayScore(parts, query) == IF parts = << >> THEN 0 ELSE (510 * Matched(parts, query)) \div Len(parts)

TextScore(texts, query) ==
    LET held == {i \in DOMAIN query : \E text \in texts : Mentions(text, query[i])}
    IN  (300 * Cardinality(held)) \div Len(query)

Near(name, query) ==
    {d \in 1 .. 2 : \E i \in DOMAIN query, j \in DOMAIN name :
        /\ Len(query[i]) = 1 /\ Len(query[i][1]) >= 3 /\ Len(name[j]) >= 3
        /\ CliLevenshtein(query[i][1], name[j], 2) = d}

\* scoreTenantMatch; a typing error counts if nothing else does.
TenantScore(t, query) ==
    LET best == Max({NameScore(t.name, query), DisplayScore(t.display, query), TextScore(t.texts, query)})
    IN  IF query = <<t.name>> THEN Whole
        ELSE Max({best} \cup {180 - 60 * d : d \in IF best < 180 THEN Near(t.name, query) ELSE {}})

\* FindTenants
MinMatchScore == 60
Listed(t, query) == TenantScore(t, query) > MinMatchScore

(***************************************************************************)
(* Searching                                                               *)
(***************************************************************************)
\* The documents SearchSegment gives a score, for the terms of Analyze.
CliFound(corpus, query) ==
    {d \in DOMAIN corpus : \E field \in DOMAIN TextFields :
        Range(Standard(query)) \cap Range(Analyze(field, corpus[d][field])) # {}}

Least(scores, heap) == CHOOSE i \in heap : \A j \in heap : scores[i] <= scores[j]

\* TopK: a heap of k documents, whose least gives way to a better one.
Heap(scores, k) ==
    LET step(heap, i) == IF Cardinality(heap) < k THEN heap \cup {i}
                         ELSE IF scores[i] > scores[Least(scores, heap)]
                         THEN (heap \ {Least(scores, heap)}) \cup {i} ELSE heap
    IN  FoldLeft(step, {}, [i \in DOMAIN scores |-> i])

TopK(scores, k) ==
    LET heap == Heap(scores, k)
    IN  Sorted(heap, {p \in heap \X heap : scores[p[1]] >= scores[p[2]]})

RawDamping == 100

\* Faulty: the score of a segment is not divided by the greatest.
FinalRaw(boost, score, greatest) ==
    [boost |-> boost, share |-> <<180 * score, 1>>, damped |-> <<120 * score, score + RawDamping>>]

\* finalScore of SearchAll, in six-hundredths: a whole number and two fractions.
Final(boost, score, greatest) ==
    [boost |-> boost, share |-> <<180 * score, greatest>>, damped |-> <<120 * score, score + RawDamping>>]

\* By how much the one fraction exceeds the other, times both denominators.
Excess(p, q) == p[1] * q[2] - q[1] * p[2]

Higher(f, g) ==
    LET d == f.share[2] * g.share[2]
        e == f.damped[2] * g.damped[2]
    IN  (f.boost - g.boost) * d * e + Excess(f.share, g.share) * e + Excess(f.damped, g.damped) * d > 0

\* SearchAll: from each tenant its hits, best first, a boost for its name.  The
\* hits come in the order the threads end and are sorted by a sort that is not
\* stable: those with the same score may be listed in any order.
SearchAll(hits, boost, total) ==
    LET all == UNION {{<<t, i>> : i \in DOMAIN hits[t]} : t \in DOMAIN hits}
        final(h) == Final(boost[h[1]], hits[h[1]][h[2]], hits[h[1]][1])
        lists == {list \in SetToSeqs(all) :
                    \A i, j \in DOMAIN list : i < j => ~Higher(final(list[j]), final(list[i]))}
    IN  {IF total > 0 THEN SubSeq(list, 1, Lesser(total, Len(list))) ELSE list : list \in lists}

(***************************************************************************)
(* Reading                                                                 *)
(***************************************************************************)
\* GetDocumentByURL: a URL is a path of letters, some capital, and a slash.
Addresses == [path : [1 .. 2 -> {"a", "A", "b"}], slash : BOOLEAN]
Lower(c) == IF c = "A" THEN "a" ELSE c
Loosely(url) == [i \in DOMAIN url.path |-> Lower(url.path[i])]

DocumentByURL(urls, uri) ==
    IF uri \in urls THEN {uri}
    ELSE LET like == {url \in urls : Loosely(url) = Loosely(uri)}
         IN  IF like = {} THEN {} ELSE {CHOOSE url \in like : TRUE}

(***************************************************************************)
(* Properties                                                              *)
(***************************************************************************)
\* The tenants are those configured, or those with segments if none is; one
\* can be searched if its manifest names a segment that exists; only a manifest
\* with a dated state is trusted with a revision; and what the configuration
\* does not say stays as it was found.
RegistryIsHonestFor(disk, config) ==
    LET tenants == Registry(disk, config)
        scanned == {n \in DOMAIN disk : disk[n].segments}
    IN  /\ DOMAIN tenants = IF config = << >> THEN scanned ELSE {config[i].codename : i \in DOMAIN config}
        /\ \A n \in DOMAIN tenants :
              /\ tenants[n].segment <=> n \in scanned /\ disk[n].names = "file"
              /\ tenants[n].freshness[1] = "known" => tenants[n].revision
              /\ tenants[n].revision => n \in scanned /\ disk[n].dated /\ tenants[n].freshness[1] = disk[n].state
        /\ \A n \in DOMAIN tenants \cap scanned :
              /\ disk[n].hosts => tenants[n].prefixes # {} /\ tenants[n].description # "name"
              /\ disk[n].names # "nothing" /\ disk[n].source # "none" => tenants[n].source \in SourceTypes

\* Of two entries of the configuration one, or both, say no more than public URLs.
Brief == {f \in Entries : f.source = "none" /\ ~f.text /\ f.white \cup f.places \subseteq {"public"}}
Configs == {<< >>} \cup {<<e>> : e \in Entries} \cup Brief \X Brief

RegistryIsHonest ==
    \A d \in Directories, n \in Codenames : \A config \in Configs : RegistryIsHonestFor([c \in {n} |-> d], config)

Tenants == [name : Terms, display : {<< >>}, texts : {{}} \cup {{x} : x \in Terms}]
              \cup [name : Terms, display : Terms, texts : {{}}]
Queries == UNION {[1 .. n -> Terms] : n \in 1 .. 2}

\* A tenant has a whole score exactly if the query names it, and less than the
\* half of one that it does not name at all comes from a description; who is one
\* typing error away is listed.
NameIsMeant(t, query) ==
    LET score == TenantScore(t, query)
        named == \/ \A i \in DOMAIN t.name : \E j \in DOMAIN query : query[j] = <<t.name[i]>>
                 \/ ContainsWholeWord(query, t.name)
    IN  /\ named <=> score >= Whole
        /\ (~named /\ Matched(t.name, query) = 0 /\ t.display = << >>) => score <= Whole \div 2
        /\ 1 \in Near(t.name, query) => Listed(t, query)

NamesAreMeant == \A query \in Queries : \A t \in Tenants : NameIsMeant(t, query)

Graded == {s \in UNION {[1 .. n -> {1, 4, 12}] : n \in 1 .. 2} : s[1] >= s[Len(s)]}

\* "A matched tenant always wins": all hits of a tenant that the query names
\* precede those of a tenant with at most half a score, whatever the sizes of
\* their segments, and each hit comes after the better ones of its tenant, whatever
\* the order of those that are equal; as many are listed as there may be.
NamedTenantIsFirst(others, named, low, total) ==
    LET hits == <<others, named>>
        all == Len(others) + Len(named)
    IN  \A list \in SearchAll(hits, <<low, Whole>>, total) :
           /\ Len(list) = IF total > 0 THEN Lesser(total, all) ELSE all
           /\ IsInjective(list)
           /\ \A i \in DOMAIN list : list[i][1] = IF i <= Len(named) THEN 2 ELSE 1
           /\ \A i \in DOMAIN list : \A k \in DOMAIN hits[list[i][1]] :
                 hits[list[i][1]][k] > hits[list[i][1]][list[i][2]]
                    => \E j \in 1 .. i - 1 : list[j] = <<list[i][1], k>>

NamedTenantsLead ==
    \A h1, h2 \in Graded : \A low \in {0, 120, 300} : \A total \in {0, 1, 3} : NamedTenantIsFirst(h1, h2, low, total)

\* As many documents are kept as there may be, and none that is left out is
\* better than one of them.
HeapHasTheBest(scores, k) ==
    LET heap == Heap(scores, k)
    IN  /\ heap \subseteq DOMAIN scores /\ Cardinality(heap) = Lesser(Len(scores), k)
        /\ \A i \in heap, d \in DOMAIN scores \ heap : scores[d] <= scores[i]

BestAreKept == \A n \in 1 .. 5 : \A scores \in [1 .. n -> 1 .. 3] : \A k \in 1 .. 3 : HeapHasTheBest(scores, k)

\* What is kept is listed once, and the list falls.
ListFalls(scores, k) ==
    LET top == TopK(scores, k)
    IN  /\ Range(top) = Heap(scores, k) /\ IsInjective(top)
        /\ \A i, j \in DOMAIN top : i < j => scores[top[i]] >= scores[top[j]]

ListsFall == \A n \in 1 .. 5 : \A scores \in [1 .. n -> 1 .. 3] : \A k \in 1 .. 3 : ListFalls(scores, k)

\* Whatever the command line finds in a segment the server finds, which also
\* follows synonyms and typing errors.  A query with slashes the server takes for
\* a path when it looks for it in paths, and does not stem.
ServerFindsMore ==
    \A corpus \in [1 .. 1 -> [body : {t \in TextsOf(2) : ~t.slashes}, url_path : {t \in TextsOf(1) : t.slashes}]] :
       \A query \in {q \in TextsOf(2) : ~q.slashes} : CliFound(corpus, query) \subseteq Found(corpus, query)

\* A document is found at its own URL though another differs from it in case or
\* slash only, and at any such URL when it is alone.
DocumentIsReached(urls, uri) ==
    LET found == DocumentByURL(urls, uri)
    IN  /\ uri \in urls => found = {uri}
        /\ found = {} <=> \A url \in urls : Loosely(url) # Loosely(uri)

DocumentsAreReached ==
    \A urls \in SUBSET {u \in Addresses : u.path[1] # "b"} : \A uri \in Addresses : DocumentIsReached(urls, uri)

\* What the client lists, means, finds, keeps and reads is what the server has.
ClientIsHonest ==
    RegistryIsHonest /\ NamesAreMeant /\ ServerFindsMore /\ BestAreKept /\ DocumentsAreReached

\* What it puts first is the best.
ClientRanksWell == NamedTenantsLead /\ ListsFall
===============================================================================
