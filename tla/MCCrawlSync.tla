------------------------------ MODULE MCCrawlSync ------------------------------
(***************************************************************************)
(* Instances of CrawlSync for TLC: two URLs, and rule sets between which a *)
(* restart may switch: one drops or bans a URL, and the patterns of two    *)
(* sweep a URL that they allow.                                            *)
(***************************************************************************)
EXTENDS CrawlSync

CONSTANTS home, page

TwoUrls  == {home, page}
HomeRoot == {home}
NoRoots  == {}

OpenRules   == [allowed |-> {home, page}, banned |-> {}, swept |-> {}]
NarrowRules == [allowed |-> {home}, banned |-> {}, swept |-> {}]
SweepRules  == [allowed |-> {home}, banned |-> {page}, swept |-> {home, page}]
LikeRules   == [allowed |-> {home, page}, banned |-> {}, swept |-> {page}]

Everything == {{}, {home, page}}
Growing    == {{home}, {home, page}}

Open      == {OpenRules}
Banning   == {OpenRules, SweepRules}
Narrowing == {LikeRules, NarrowRules}
=============================================================================
