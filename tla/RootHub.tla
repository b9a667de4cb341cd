------------------------------- MODULE RootHub -------------------------------
(* The hub (root_hub.py, registry.py) and what it asks of a tenant            *)
(* (TenantApp): which tenants there are and which a query means, the search   *)
(* that may build an index first, and the reading of a page.  What the        *)
(* command line client does with the same tenants is in Docsearch.            *)
EXTENDS Docsearch

(***************************************************************************)
(* TenantRegistry.  An entry is registered with its app; the metadata made *)
(* of it are kept.                                                         *)
(***************************************************************************)
\* TenantMetadata.from_config
Metadata(entry) ==
    [codename |-> entry.codename, source |-> entry.source,
     description |-> IF entry.text THEN "config" ELSE "generated",
     prefixes |-> From("white", entry.white)]

\* Assignment to a key of a dictionary.
Put(f, key, value) == [k \in DOMAIN f \cup {key} |-> IF k = key THEN value ELSE f[k]]

NoTenants == [tenants |-> << >>, configs |-> << >>, cache |-> << >>]

\* register: a dictionary keeps the place of a key that is set again.
Register(r, entry) ==
    LET name == entry.codename
    IN  [r EXCEPT !.tenants = IF name \in Range(@) THEN @ ELSE Append(@, name),
                  !.configs = Put(@, name, entry),
                  !.cache = Restrict(@, DOMAIN @ \ {name})]

\* get_metadata, of a codename that is registered, and list_tenants.
Described(r, name) ==
    [r EXCEPT !.cache = IF name \in DOMAIN @ THEN @ ELSE Put(@, name, Metadata(r.configs[name]))]
ListedAll(r) == FoldLeft(Described, r, r.tenants)

\* root_search, root_fetch, describe_tenant: what the tenant answers, or which
\* tenants there are.
Routed(r, name, answer) == IF name \in Range(r.tenants) THEN answer ELSE r.tenants

(***************************************************************************)
(* find_tenant.  A text is a sequence of terms, with blanks between.       *)
(***************************************************************************)
Joined(pieces, mark) ==
    FlattenSeq([i \in DOMAIN pieces |-> IF i = 1 THEN pieces[1] ELSE <<mark>> \o pieces[i]])
Written(text) == Joined([i \in DOMAIN text |-> Joined(text[i], "-")], " ")

\* What a term of the query is worth in a text, in tenths: held, or a typing
\* error or two away from a word.
Worth(term, text) ==
    LET word == Joined(term, "-")
        words == {w \in UNION {Range(text[i]) : i \in DOMAIN text} : Len(w) >= 3}
        distances == {Levenshtein(word, w, 2) : w \in IF Len(word) >= 3 THEN words ELSE {}}
    IN  IF IsWithin(word, Written(text)) THEN 8 ELSE Max({0} \cup {7 - 2 * d : d \in distances \cap 0 .. 2})

\* Of a field [text, weight], the weight in halves, in six-hundredths.
FieldScore(field, query) ==
    IF IsWithin(Written(query), Written(field.text)) THEN 300 * field.weight
    ELSE (30 * field.weight * FoldLeft(LAMBDA sum, term : sum + Worth(term, field.text), 0, query)) \div Len(query)

\* _score_tenant_match: the best field, at most a whole.
HubScore(fields, query) == Lesser(Whole, Max({FieldScore(field, query) : field \in fields}))

\* The fields of a tenant: its codename, its name, and its description or the
\* prefixes and example queries, which weigh 2 and not 3; not its kind of source.
Fields(t, other) ==
    {[text |-> <<t.name>>, weight |-> 6], [text |-> [i \in DOMAIN t.display |-> <<t.display[i]>>], weight |-> 5]}
        \cup {[text |-> <<text>>, weight |-> other] : text \in t.texts}

\* find_tenant: of tenants as they were registered, the best; none passes one
\* with its score.
HubThreshold == 60
FindTenant(scores, top) ==
    LET enough == {i \in DOMAIN scores : scores[i] > HubThreshold}
        better(i, j) == scores[i] > scores[j] \/ (scores[i] = scores[j] /\ i < j)
        ranked == Sorted(enough, {p \in enough \X enough : better(p[1], p[2])})
    IN  SubSeq(ranked, 1, Lesser(top, Len(ranked)))

(***************************************************************************)
(* TenantApp.search.  present: _docs_present; segment: one is loaded.      *)
(***************************************************************************)
NewApp(allowed) == [docs |-> FALSE, present |-> "unknown", segment |-> FALSE, allowed |-> allowed]

\* _has_docs looks once.
HasDocs(app) == IF app.present = "unknown" THEN app.docs ELSE app.present = "yes"
Looked(app) == [app EXCEPT !.present = IF HasDocs(app) THEN "yes" ELSE "no"]

\* _ensure_search_index; a build without documents loads nothing.
Ensured(app) ==
    IF app.segment \/ ~app.allowed \/ ~app.docs THEN app ELSE [app EXCEPT !.segment = TRUE, !.present = "yes"]

\* A search, and what it answers.
Searched(app) == IF app.segment THEN app ELSE IF HasDocs(app) THEN Ensured(Looked(app)) ELSE Looked(app)
Answer(app) ==
    IF Searched(app).segment THEN "hits" ELSE IF Searched(app).present = "no" THEN "empty" ELSE "error"

\* build_search_index
Rebuilt(app) == IF ~app.allowed THEN app ELSE IF HasDocs(app) THEN Ensured(Looked(app)) ELSE Looked(app)

EventKinds == {"arrive", "publish", "search", "build"}

\* What happens to an app; documents arrive by a synchronisation, and so may a
\* segment that another process has built.
Happens(app, event) ==
    CASE event = "arrive" -> [app EXCEPT !.docs = TRUE]
      [] event = "publish" -> [app EXCEPT !.segment = @ \/ app.docs]
      [] event = "search" -> Searched(app)
      [] event = "build" -> Rebuilt(app)

(***************************************************************************)
(* TenantApp.fetch                                                         *)
(***************************************************************************)
\* A page may have a file in the hashed layout, where the index says, and in
\* the nested layout; only an index names the second.
Copies == [hashed : {"none", "legible", "broken"}, hinted : {"none", "legible", "broken"},
           nested : {"none", "legible", "broken"}, indexed : BOOLEAN, body : BOOLEAN]

\* _fetch_cached: the first file there is, or what the index has.
FetchCached(c) ==
    LET places == <<"hashed">> \o (IF c.indexed THEN <<"hinted">> ELSE << >>) \o <<"nested">>
        there == {i \in DOMAIN places : c[places[i]] # "none"}
        first == places[Min(there)]
    IN  IF there = {} THEN IF c.indexed /\ c.body THEN "body" ELSE "nothing"
        ELSE IF c[first] = "legible" THEN first ELSE "nothing"

\* _fetch_local_file: a file of the directory as it is, or, when the directory
\* has moved, what follows the last part named like the tenant.
FetchLocal(path, present, moved, codename) ==
    LET named == {i \in DOMAIN path : path[i] = codename}
        rest == IF named = {} THEN << >> ELSE SubSeq(path, Max(named) + 1, Len(path))
    IN  IF path \in present THEN <<"as it is", path>>
        ELSE IF rest # << >> /\ rest \in moved THEN <<"moved", rest>> ELSE << >>

(***************************************************************************)
(* Properties                                                              *)
(***************************************************************************)
\* What a registry says of a tenant is made of the entry registered last,
\* whatever was asked before; and it has the tenants the client has, with the
\* descriptions of the same configuration.  Of prefixes the client has the public
\* ones the hub has; it has others only of a tenant of which the hub has none.
RegistersAgreeOn(e, f, asked) ==
    LET first == Register(NoTenants, e)
        both == Register(IF asked THEN ListedAll(first) ELSE first, f)
        hub == ListedAll(both)
        client == Registry(<< >>, <<e, f>>)
    IN  /\ hub.tenants = IF e.codename = f.codename THEN <<e.codename>> ELSE <<e.codename, f.codename>>
        /\ hub.cache[f.codename] = Metadata(f)
        /\ DOMAIN hub.cache = DOMAIN client
        /\ \A n \in Codenames : Routed(hub, n, << >>) = << >> <=> n \in DOMAIN client
        /\ e.codename # f.codename => \A n \in DOMAIN client :
              /\ hub.cache[n].description = "config" <=> client[n].description = "config"
              /\ Public(hub.cache[n].prefixes) \subseteq client[n].prefixes
              /\ hub.cache[n].prefixes = {} \/ client[n].prefixes \subseteq hub.cache[n].prefixes

RegistersAgree == \A e \in Brief, f \in Entries : \A asked \in BOOLEAN : RegistersAgreeOn(e, f, asked)

\* A tenant of which a query is the codename has the whole score, and so has one
\* that is a typing error away; what the client lists for a query the hub lists,
\* but for a codename within a longer term.  (2 is the least weight of a text.)
HubMeans(t, query) ==
    LET score == HubScore(Fields(t, 2), query)
    IN  /\ query = <<t.name>> => score = Whole
        /\ (Len(query) = 1 /\ 1 \in Near(t.name, query)) => score = Whole
        /\ Listed(t, query) /\ ~ContainsWholeWord(query, t.name) => score > HubThreshold

HubMeansTheSame == \A query \in Queries : \A t \in Tenants : HubMeans(t, query)

\* The tenants found are the best, in order, and of equals the ones registered
\* first.
BestIsFound(scores, top) ==
    LET found == FindTenant(scores, top)
        better(i, j) == scores[i] > scores[j] \/ (scores[i] = scores[j] /\ i < j)
    IN  /\ \A i \in DOMAIN scores :
              (\E j \in DOMAIN found : found[j] = i)
                 <=> /\ scores[i] > HubThreshold
                     /\ Cardinality({j \in DOMAIN scores : better(j, i)}) < top
        /\ \A i, j \in DOMAIN found : i < j => better(found[i], found[j])

BestAreFound ==
    \A n \in 1 .. 4 : \A scores \in [1 .. n -> {0, 60, 300, Whole}] : \A top \in 1 .. 3 : BestIsFound(scores, top)

\* With documents there a search that finds nothing and says nothing has been
\* preceded by one, or by a build, before they came; a first search that may
\* build has hits.
EmptyIsExplainedAfter(events, allowed) ==
    LET app == FoldLeft(Happens, NewApp(allowed), events)
        tooEarly == \E i \in DOMAIN events : /\ events[i] \in {"search", "build"}
                                             /\ \A j \in 1 .. i - 1 : events[j] # "arrive"
    IN  /\ app.docs /\ Answer(app) = "empty" => tooEarly
        /\ app.docs /\ allowed /\ ~tooEarly => Answer(app) = "hits"
        /\ ~app.docs => Answer(app) = "empty"

EmptyIsExplained ==
    \A n \in 0 .. 4 : \A events \in [1 .. n -> EventKinds] : \A allowed \in BOOLEAN :
       EmptyIsExplainedAfter(events, allowed)

\* A page of the index that has a body is fetched, unless the file that comes
\* first cannot be read; without an index it is fetched from the layouts.
PageIsFetched(c) ==
    FetchCached(c) = "nothing" <=>
       \/ c.hashed = "broken"
       \/ c.hashed = "none" /\ c.indexed /\ c.hinted = "broken"
       \/ c.hashed = "none" /\ (c.indexed => c.hinted = "none")
          /\ (c.nested = "broken" \/ (c.nested = "none" /\ ~(c.indexed /\ c.body)))

\* A file of a moved directory is found at its place, or, when a part of the
\* path below is named like the tenant, at most one whose path ends it.
MovedFileIsFetched(name, below, moved) ==
    LET found == FetchLocal(<<"srv", name>> \o below, {}, moved, name)
    IN  /\ name \notin Range(below) =>
              found = IF below \in moved THEN <<"moved", below>> ELSE << >>
        /\ found # << >> => found[2] \in moved /\ IsSuffix(found[2], below)

PagesAreFetched ==
    /\ \A c \in Copies : PageIsFetched(c)
    /\ \A name \in Codenames : \A n \in 1 .. 3 : \A below \in [1 .. n -> Codenames \cup {"guide"}] :
       \A moved \in SUBSET {SubSeq(below, i, n) : i \in 1 .. n} : MovedFileIsFetched(name, below, moved)

\* What the hub offers is what is registered and kept.
HubIsHonest == RegistersAgree /\ EmptyIsExplained /\ PagesAreFetched

\* What it finds for a query is what is meant, the best first.
HubRanksWell == HubMeansTheSame /\ BestAreFound
===============================================================================
