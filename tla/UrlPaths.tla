------------------------------- MODULE UrlPaths -------------------------------
(* Where a URL is kept: PathBuilder gives it a key in the crawl database, a   *)
(* nested file and the metadata of that file; UrlTranslator a hashed file;    *)
(* discovery and the fetcher a markdown mirror.  A segment of a path is a     *)
(* word with an extension, a query a set of parameters; characters are left   *)
(* out, and so are percent-encodings and the case where a digest collides.    *)
EXTENDS Sequences, SequencesExt, FiniteSets

CONSTANTS Words,    \* the words of segments, as written
          Fold,     \* what _normalize_segment makes of a word or an extension
          Long,     \* the words that make a path longer than MAX_PATH_LENGTH
          Hosts,    \* domains, lower case
          Depth     \* segments of a path at most

Extensions == {"none", ".html", ".md", ".MD", ".v2"}
FILE_EXTENSIONS == {".html", ".md", ".MD"}
Segments == [stem : Words, ext : Extensions]

\* The parameter "blank" has no value, "rg" is the one the search adds.
Parameters == {"page", "blank", "rg"}

Urls == [host : Hosts, capital : BOOLEAN,   \* the domain has capital letters
         path : UNION {[1 .. n -> Segments] : n \in 0 .. Depth},
         slash : BOOLEAN,                   \* it ends in a slash
         query : SUBSET Parameters]

IsRoot(url) == url.path = << >>
HasExtension(url) == ~IsRoot(url) /\ Last(url.path).ext \in FILE_EXTENSIONS

\* canonicalize_url
Canonical(url, ignore) ==
    [url EXCEPT !.capital = FALSE, !.slash = @ \/ ~HasExtension(url),
                !.query = IF ignore THEN {} ELSE @ \ {"blank"}]

\* The key of its row: the crawl database never keeps queries.
CrawlKey(url) == Canonical(url, TRUE)

(***************************************************************************)
(* The nested layout.  A file is a directory and a name: parts that dots   *)
(* separate, each with the query suffix it carries.                        *)
(***************************************************************************)
Part(text) == [text |-> text, query |-> {}]

FileParts(url) ==
    IF IsRoot(url) THEN <<Part("index"), Part(".md")>>
    ELSE LET last == Last(url.path)
         IN  <<Part(last.stem)>>
             \o (IF last.ext = "none" THEN << >> ELSE <<Part(last.ext)>>)
             \o (IF last.ext \in {".md", ".MD"} THEN << >> ELSE <<Part(".md")>>)

\* _apply_query_suffix: before .md, behind anything else.
Suffixed(parts, query) ==
    [parts EXCEPT ![IF Last(parts).text = ".md" THEN Len(parts) - 1 ELSE Len(parts)].query = query]

\* A directory is named by a word, or by the digest of the words it replaces.
Directory(segment) == <<Fold[segment.stem], Fold[segment.ext]>>
Digest(directories) == <<"#">> \o FlattenSeq(directories)

\* _truncate_path: the directories below the domain become one; without any, all
\* of the path becomes the directory.
Truncated(file) ==
    IF file.below # << >> THEN [file EXCEPT !.below = <<Digest(@)>>]
    ELSE [file EXCEPT !.host = <<"#", @, file.name>>]

\* build_markdown_path
MarkdownPath(url, ignore) ==
    LET canonical == Canonical(url, ignore)
        below == [i \in 1 .. Len(url.path) - 1 |-> Directory(url.path[i])]
        long == \E i \in DOMAIN url.path : url.path[i].stem \in Long
        file == [host |-> <<url.host>>, below |-> below, name |-> Suffixed(FileParts(canonical), canonical.query)]
    IN  IF long THEN Truncated(file) ELSE file

\* build_metadata_path, below a directory of its own.
MetadataPath(file) == [file EXCEPT !.name = Append(Front(@), Part(".meta.json"))]

\* _resolve_markdown_path_from_metadata of the clean-up, without a recorded path.
TextOf(metadata) == [metadata EXCEPT !.name = Append(Front(@), Part(".md"))]

(***************************************************************************)
(* The hashed layout: the file is named by the digest of this.             *)
(***************************************************************************)
\* Faulty: the words of the path are compared without case.
HashedFolded(url) == [url EXCEPT !.path = [i \in DOMAIN @ |-> [@[i] EXCEPT !.stem = Fold[@]]]]

Hashed(url) == [url EXCEPT !.slash = @ \/ IsRoot(url) \/ Last(url.path).ext = "none",
                           !.query = @ \ {"blank", "rg"}]

(***************************************************************************)
(* The markdown mirror of a page, with the suffix ".md".                   *)
(***************************************************************************)
Strippable == {"none", ".html"}

WithSuffix(url) == [url EXCEPT !.path[Len(url.path)].ext = ".md", !.slash = FALSE]

\* canonicalize_markdown_mirror_url: the URL discovery queues, if any.
Mirror(url, keep) ==
    IF IsRoot(url) \/ Last(url.path).ext \notin Strippable \cup {".md"} THEN {}
    ELSE {[WithSuffix(url) EXCEPT !.query = IF keep THEN @ ELSE {}]}

\* _build_markdown_candidate_urls: what the fetcher asks for, before HTML.
CandidateUrls(url) ==
    IF IsRoot(url) \/ Last(url.path).ext \notin Strippable \cup {".md"} THEN << >>
    ELSE <<WithSuffix(url), [WithSuffix(url) EXCEPT !.path[Len(url.path)].ext = ".md.txt"]>>

(***************************************************************************)
(* Properties, of every URL.  A row of the crawl database, and what the    *)
(* digest of the hashed layout is of, are URLs in turn: where they have    *)
(* the file of the first, URLs with one row, or one digest, have one file. *)
(***************************************************************************)
IgnoredPath(url) == MarkdownPath(url, TRUE)
KeptPath(url) == MarkdownPath([url EXCEPT !.query = @ \ {"rg"}], FALSE)

\* For a tenant that ignores queries, URLs with one row in the crawl database
\* have one file, so that no page is lost to the row of another.
OneRowOneFile == \A url \in Urls : IgnoredPath(CrawlKey(url)) = IgnoredPath(url)

\* URLs with one file in the old layout have one in the new: what get finds in
\* either belongs to the same page, with queries ignored or kept.
LayoutsAgree ==
    \A url \in Urls : IgnoredPath(Hashed(url)) = IgnoredPath(url) /\ KeptPath(Hashed(url)) = KeptPath(url)

EndsIn(file, text) == Last(file.name).text = text

\* Two files have the metadata of one only if one of them ends in .MD, and the
\* clean-up finds the text of every other from its metadata.
MetadataIsOwn ==
    \A ignore \in BOOLEAN :
       LET files == {MarkdownPath(url, ignore) : url \in Urls}
       IN  \A file \in files : EndsIn(file, ".md") => TextOf(MetadataPath(file)) = file

\* The fetcher asks first for the very URL discovery has queued, and what
\* discovery has queued is not rewritten again when it is found again.
MirrorsAgree ==
    \A url \in Urls : \A mirror \in Mirror(url, TRUE) :
       /\ Mirror(mirror, TRUE) = {mirror}
       /\ Head(CandidateUrls(url)) = mirror /\ Head(CandidateUrls(mirror)) = mirror
       /\ CandidateUrls(url) # << >>

\* The names the parts of the program give one page are names of one page.
NamesAreOne == OneRowOneFile /\ LayoutsAgree /\ MetadataIsOwn /\ MirrorsAgree
===============================================================================
