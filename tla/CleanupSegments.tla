--------------------------- MODULE CleanupSegments ---------------------------
(* The clean-up of a tenant's directory (src/cleanup_segments.py): after the  *)
(* rules of a tenant have changed, what was kept of URLs that are no longer   *)
(* allowed goes, and so do metadata without a text or with the text of        *)
(* another.  The directory is read in any order.                              *)
EXTENDS Sequences, SequencesExt, FiniteSets

CONSTANTS Urls,        \* sequences of pieces, of which prefixes are made; << >> is no URL
          Pages,       \* the markdown files metadata may lead to
          Whitelists, Blacklists    \* sets of prefixes

\* A metadata file that can be read leads to a page: by the path it records, or
\* by its own name.
Entry == [url : Urls, page : Pages, readable : BOOLEAN]

\* _url_allowed
UrlAllowed(url, rules) ==
    /\ rules.white # {} => \E prefix \in rules.white : url # << >> /\ IsPrefix(prefix, url)
    /\ url # << >> => ~\E prefix \in rules.black : IsPrefix(prefix, url)

\* cleanup_metadata_directory: marks are the url_*.json of the old scheduler.
WithoutMarks(tree, rules) == [tree EXCEPT !.marks = {url \in @ : UrlAllowed(url, rules)}]

\* _remove_scheduler_entry
Unmarked(tree, url) == tree.marks \ {url}

\* Faulty: with the metadata goes the page, whatever the reason.
VisitedGreedily(tree, i, rules) ==
    LET entry == tree.entries[i]
        allowed == UrlAllowed(entry.url, rules)
    IN  IF ~entry.readable THEN tree
        ELSE IF allowed /\ entry.page \in tree.pages \ tree.taken THEN [tree EXCEPT !.taken = @ \cup {entry.page}]
        ELSE [entries |-> [j \in DOMAIN tree.entries \ {i} |-> tree.entries[j]],
              pages |-> tree.pages \ {entry.page}, marks |-> Unmarked(tree, entry.url), taken |-> tree.taken]

\* One metadata file of cleanup_docs_metadata_directory; taken: the pages an
\* earlier one leads to, seen_markdown.
Visited(tree, i, rules) ==
    LET entry == tree.entries[i]
        allowed == UrlAllowed(entry.url, rules)
    IN  IF ~entry.readable THEN tree
        ELSE IF allowed /\ entry.page \in tree.pages \ tree.taken THEN [tree EXCEPT !.taken = @ \cup {entry.page}]
        ELSE [entries |-> [j \in DOMAIN tree.entries \ {i} |-> tree.entries[j]],
              pages |-> IF allowed THEN tree.pages ELSE tree.pages \ {entry.page},
              marks |-> Unmarked(tree, entry.url), taken |-> tree.taken]

\* cleanup_tenants, for the documents of one; order: the metadata as it is read.
Sweep(tree, order, rules) ==
    LET start == [WithoutMarks(tree, rules) EXCEPT !.taken = {}]
    IN  [FoldLeft(LAMBDA s, i : Visited(s, i, rules), start, order) EXCEPT !.taken = {}]

-----------------------------------------------------------------------------
Trees == [entries : UNION {[1 .. n -> {e \in Entry : e.readable \/ e.url = << >>}] : n \in 1 .. 3},
          pages : SUBSET Pages, marks : {Urls}, taken : {{}}]
Rules == [white : Whitelists, black : Blacklists]

\* After a sweep, in any order, all metadata is of allowed URLs, no two of one
\* page, and only pages of URLs that are not allowed are gone, with those of
\* allowed URLs that share one; nothing is left of the scheduler's marks of URLs
\* that are not allowed.  A second sweep drops what has lost its page meanwhile,
\* and a third finds nothing to do.
SettlesFrom(tree, rules, order) ==
    LET legible(t) == {i \in DOMAIN t.entries : t.entries[i].readable}
        refused == {i \in legible(tree) : ~UrlAllowed(tree.entries[i].url, rules)}
        once == Sweep(tree, order, rules)
    IN  /\ legible(once) \cap refused = {}
        /\ DOMAIN tree.entries \ legible(tree) \subseteq DOMAIN once.entries
        /\ \A i, j \in legible(once) : once.entries[i].page = once.entries[j].page => i = j
        /\ once.pages = tree.pages \ {tree.entries[i].page : i \in refused}
        /\ \A url \in once.marks : UrlAllowed(url, rules)
        /\ \A url \in tree.marks \ once.marks :
              UrlAllowed(url, rules) => \E i \in legible(tree) \ legible(once) : tree.entries[i].url = url
        /\ \A next \in SetToSeqs(DOMAIN once.entries) :
              LET twice == Sweep(once, next, rules)
              IN  /\ \A i \in legible(twice) : twice.entries[i].page \in twice.pages
                  /\ \A last \in SetToSeqs(DOMAIN twice.entries) : Sweep(twice, last, rules) = twice
                  /\ refused = {} =>
                        \A i \in legible(tree) : tree.entries[i].page \in once.pages =>
                           \E j \in legible(twice) : twice.entries[j].page = tree.entries[i].page

\* Whatever the directory holds.
SweepsSettle == \A tree \in Trees, rules \in Rules : \A order \in SetToSeqs(DOMAIN tree.entries) :
                   SettlesFrom(tree, rules, order)
===============================================================================
