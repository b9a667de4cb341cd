------------------------------- MODULE Indexing -------------------------------
(* What a build of the index takes from a tenant's directory                  *)
(* (search/indexer.py): its metadata, in any order, and then the texts that   *)
(* no metadata has led to.  It has the rules of the clean-up in a copy of its *)
(* own, and removes metadata too; what it says of the documents' age is read  *)
(* by the command line client.  Builds of a part (limit, changed_only) are    *)
(* left out.                                                                  *)
EXTENDS CleanupSegments, Integers

CONSTANT NamedInText     \* the URLs that front matter may name; << >> is none

\* A directory with the URL the front matter of each text names.
Directed == {[tree |-> tree, front |-> front] :
                tree \in [entries : UNION {[1 .. n -> Entry] : n \in 0 .. 2},
                          pages : SUBSET Pages, marks : {{}}, taken : {{}}],
                front \in [Pages -> NamedInText]}

\* _default_url_for
FileUrl(page) == <<"file", page>>

\* A directory holds finitely many files, and the list of what an online tenant
\* may have names sites, so that none of its prefixes begins the URL of a file.
ASSUME PagesAssumption == IsFiniteSet(Pages)
ASSUME WhitelistsAssumption ==
    \A list \in Whitelists : \A prefix \in list, page \in Pages : ~IsPrefix(prefix, FileUrl(page))

OwnUrl(dir, page) == IF dir.front[page] # << >> THEN dir.front[page] ELSE FileUrl(page)

\* Only the URLs of an online tenant are looked at.
NoRules == [white |-> {}, black |-> {}]
RulesFor(online, rules) == IF online THEN rules ELSE NoRules

\* SqliteSegmentWriter.add_document: the first document of a URL stays.
Added(docs, url, page) ==
    IF \E d \in docs : d.url = url THEN docs ELSE docs \cup {[url |-> url, page |-> page]}

\* A build has documents, has seen texts, and has left metadata.
Begin(dir) == [docs |-> {}, seen |-> {}, left |-> DOMAIN dir.tree.entries]

\* One metadata file: without its text, or refused, it is removed.
WithMetadata(dir, rules, b, i) ==
    LET entry == dir.tree.entries[i]
    IN  IF ~entry.readable \/ entry.url = << >> THEN b
        ELSE IF entry.page \notin dir.tree.pages THEN [b EXCEPT !.left = @ \ {i}]
        ELSE IF ~UrlAllowed(entry.url, rules)
             THEN [b EXCEPT !.seen = @ \cup {entry.page}, !.left = @ \ {i}]
        ELSE [b EXCEPT !.seen = @ \cup {entry.page}, !.docs = Added(@, entry.url, entry.page)]

\* One text.
WithMarkdown(dir, rules, b, page) ==
    IF page \in b.seen \/ ~UrlAllowed(OwnUrl(dir, page), rules) THEN b
    ELSE [b EXCEPT !.seen = @ \cup {page}, !.docs = Added(@, OwnUrl(dir, page), page)]

\* The two loops of build_segment, over the metadata and over the texts.
ReadMetadata(dir, rules, order) == FoldLeft(LAMBDA b, i : WithMetadata(dir, rules, b, i), Begin(dir), order)
ReadMarkdown(dir, rules, read, texts) == FoldLeft(LAMBDA b, page : WithMarkdown(dir, rules, b, page), read, texts)

\* build_segment, for orders of the metadata and of the texts.
Built(dir, online, rules, order, texts) ==
    LET kept == RulesFor(online, rules)
    IN  ReadMarkdown(dir, kept, IF online THEN ReadMetadata(dir, kept, order) ELSE Begin(dir), texts)

\* What is left of the directory after a build, and after a sweep.
AfterBuild(dir, b) == [dir EXCEPT !.tree.entries = [i \in b.left |-> @[i]]]
AfterSweep(dir, rules, order) == [dir EXCEPT !.tree = Sweep(@, order, rules)]

(***************************************************************************)
(* What the manifest says of the documents' age                            *)
(***************************************************************************)
\* _read_git_sync_evidence: the database, then the file of older versions.
GitEvidence(database, legacy) == IF database.synced THEN database ELSE legacy

\* _resolve_source_freshness: what dates a document.
Evidence(info) == IF info.fetched THEN "fetched" ELSE IF info.indexed THEN "indexed" ELSE "none"

\* _build_provenance, of documents that say this of themselves.
Provenance(source, infos, git) ==
    LET dates == [i \in DOMAIN infos |-> Evidence(infos[i])]
        dated == {i \in DOMAIN infos : dates[i] # "none"}
        kinds == {dates[i] : i \in dated}
    IN  IF source = "git" /\ git.synced
        THEN [state |-> "known", dated |-> TRUE, evidence |-> "git", revision |-> git.revision]
        ELSE [state |-> IF dated = {} THEN "unknown" ELSE IF dated = DOMAIN infos THEN "known" ELSE "partial",
              dated |-> dated # {}, revision |-> FALSE,
              evidence |-> IF kinds = {} THEN "none" ELSE IF Cardinality(kinds) = 1 THEN CHOOSE k \in kinds : TRUE
                           ELSE "documents"]

(***************************************************************************)
(* Properties                                                              *)
(***************************************************************************)
UrlsOf(docs) == {d.url : d \in docs}

\* The metadata that leads to a text, and the texts nothing leads to.
Leading(dir) == {i \in DOMAIN dir.tree.entries :
                    LET entry == dir.tree.entries[i]
                    IN  entry.readable /\ entry.url # << >> /\ entry.page \in dir.tree.pages}
Unled(dir) == dir.tree.pages \ {dir.tree.entries[i].page : i \in Leading(dir)}

\* The URLs of an online tenant's segment.
Indexable(dir, rules) ==
    {url \in {dir.tree.entries[i].url : i \in Leading(dir)} \cup {OwnUrl(dir, p) : p \in Unled(dir)} :
        UrlAllowed(url, rules)}

\* As FileSystemRepository leaves them, texts are named by their metadata, each
\* by one.
AsWritten(dir) ==
    /\ \A i \in DOMAIN dir.tree.entries : dir.front[dir.tree.entries[i].page] = dir.tree.entries[i].url
    /\ \A i, j \in DOMAIN dir.tree.entries : dir.tree.entries[i].page = dir.tree.entries[j].page => i = j

\* A build has the documents whose URLs are allowed and have a text, each URL
\* once, in whatever order it reads; a second build, which finds less metadata,
\* has them all again, and of documents as they were written no others; nor does
\* a clean-up between two builds take one of these away.
BuildsAgreeOn(dir, rules, online) ==
    LET forth == [i \in DOMAIN dir.tree.entries |-> i]
        texts == SetToSeq(dir.tree.pages)
        once == Built(dir, online, rules, forth, texts)
        left == AfterBuild(dir, once)
        swept == AfterSweep(dir, rules, forth)
    IN  /\ UrlsOf(once.docs) = IF online THEN Indexable(dir, rules)
                               ELSE {OwnUrl(dir, p) : p \in dir.tree.pages}
        /\ UrlsOf(Built(dir, online, rules, Reverse(forth), Reverse(texts)).docs) = UrlsOf(once.docs)
        /\ \A d, e \in once.docs : d.url = e.url => d = e
        /\ \A next \in SetToSeqs(once.left) :
              LET twice == Built(left, online, rules, next, texts)
              IN  /\ UrlsOf(once.docs) \subseteq UrlsOf(twice.docs)
                  /\ AsWritten(dir) => UrlsOf(twice.docs) = UrlsOf(once.docs)
        /\ AsWritten(dir) /\ online =>
              \A next \in SetToSeqs(DOMAIN swept.tree.entries) :
                 UrlsOf(Built(swept, online, rules, next, SetToSeq(swept.tree.pages)).docs) = UrlsOf(once.docs)

\* Whatever the directory holds.
BuildsAgree == \A dir \in Directed, rules \in [white : Whitelists, black : Blacklists], online \in BOOLEAN :
                  BuildsAgreeOn(dir, rules, online)
===============================================================================
