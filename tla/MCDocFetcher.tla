----------------------------- MODULE MCDocFetcher -----------------------------
(***************************************************************************)
(* Instances of DocFetcher for TLC, with the names of what it fetches and  *)
(* with the settings and services that a configuration makes.              *)
(***************************************************************************)
EXTENDS DocFetcher, UrlPaths, Deployment, TLC

CONSTANTS f1, f2

Two == {f1, f2}
NoneAndTwo == {0, 2}

Spelt == {"guide", "Guide", "index", "long"}
LowerCase == [w \in Spelt \cup Extensions |->
                CASE w = "Guide" -> "guide" [] w = ".MD" -> ".md" [] OTHER -> w]

\* What the constants alone decide is looked at before anything has happened.
AtStart == ~made

\* The names that the crawl database, both layouts, the metadata and the mirrors
\* give one page are names of one page (path_builder.py, url_translator.py).
NamesAgree == AtStart => NamesAreOne

\* What the configuration accepts is built and served (deployment_config.py,
\* tenant.py, app_builder.py).
DeploymentIsServed == AtStart => AcceptedIsServed
=============================================================================
