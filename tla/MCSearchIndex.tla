---------------------------- MODULE MCSearchIndex ----------------------------
(***************************************************************************)
(* Instances of SearchIndex, of what a search is made of, of the hub and   *)
(* the client that read the index, of what a build takes from a directory  *)
(* and of the clean-up of this directory, for TLC.                         *)
(***************************************************************************)
EXTENDS SearchIndex, RootHub, Indexing, TLC

CONSTANTS v1, v2, thread, cli

TwoVersions == {v1, v2}
Both        == {thread, cli}
OnlyThread  == {thread}

\* "aaes" and "aa" have synonyms or endings, "b" is a stop word, "bba" has a
\* suffix that is replaced.
FourWords    == {<<"a", "a", "e", "s">>, <<"a", "a">>, <<"b", "b", "a">>, <<"b">>}
OneRule      == << << <<"b", "a">>, <<"b">> >> >>
TwoEndings   == << <<"e", "s">>, <<"s">> >>
OneStopword  == {<<"b">>}
SomeSynonyms == <<"a", "a">> :> {<<"b", "b", "a">>, <<"a", "e">>}

ThreeParts == {<<"a", "b", "a">>, <<"a", "b", "b">>, <<"a">>}

Pieces       == {<< >>, <<"guide">>, <<"guide", "old">>, <<"blog">>}
GuideOrAll   == {{}, {<<"guide">>}}
OldOrNothing == {{}, {<<"guide", "old">>}}

\* What the constants alone decide is looked at before anything has happened.
AtStart == Init /\ docs = v1

\* What a search finds, weighs, cuts out and marks is what the plain definitions
\* give, whatever is cut short on the way: distances, filters, terms, weights,
\* snippets, spans of phrases and highlights (search/*.py, src/cli/internal/engine).
SearchAgrees == AtStart => TextIsExact /\ PhrasesAreExact

\* The client calls the age of an index known exactly if all its documents are
\* dated or its repository has been synchronised, and unknown exactly if neither
\* one document is nor that (indexer.py, src/cli/internal/tenant).
AgeIsShownFor(source, database, legacy, infos) ==
    LET age == Provenance(source, infos, GitEvidence(database, legacy))
        shown == Freshness([names |-> "file", state |-> IF age.state = "unknown" THEN "odd" ELSE age.state,
                            dated |-> age.dated, summary |-> FALSE])[1]
        synced == source = "git" /\ (database.synced \/ legacy.synced)
        dated == {i \in DOMAIN infos : infos[i].fetched \/ infos[i].indexed}
    IN  /\ shown = "known" <=> dated = DOMAIN infos \/ synced
        /\ shown = "unknown" <=> dated = {} /\ ~synced
        /\ age.revision => synced

AgeIsShown ==
    \A source \in SourceTypes \cup {"git"}, database, legacy \in [synced : BOOLEAN, revision : BOOLEAN] :
    \A n \in 1 .. 3 : \A infos \in [1 .. n -> [fetched : BOOLEAN, indexed : BOOLEAN]] :
       AgeIsShownFor(source, database, legacy, infos)

\* What the client and the hub say there is, and give to who asks, is what the
\* server has: tenants, their ages, names and documents; and what they put first
\* is the best there is for what was asked (src/cli, registry.py, root_hub.py,
\* tenant.py).
ClientAgrees == AtStart => ClientIsHonest /\ ClientRanksWell /\ HubIsHonest /\ HubRanksWell /\ AgeIsShown

\* A clean-up leaves what the rules of the tenant allow, whatever order it reads
\* the directory in, and comes to rest; a build has the documents the rules
\* allow, also after a clean-up (cleanup_segments.py, indexer.py).
SweepSettles == AtStart => SweepsSettle /\ BuildsAgree
=============================================================================
