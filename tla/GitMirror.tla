----------------------------- MODULE GitMirror -----------------------------
(* What the export of a git tenant promises whoever reads the tenant's      *)
(* documents: they are all of one revision of the branch, never a mixture   *)
(* of two, and never an older revision than was there before.  Between two  *)
(* exports, and after a failed one, there may be none, or a part of them.   *)
EXTENDS Naturals

CONSTANTS MaxRevision,  \* bound: how far the branch moves
          Torn          \* documents of which some files are there, not all

VARIABLES remote,     \* the revision the branch is at
          docs,       \* the revision of the tenant's documents, 0: none
          newest      \* the newest revision that was ever exported

vars == <<remote, docs, newest>>

Init == remote = 1 /\ docs = 0 /\ newest = 0

\* Somebody pushes to the branch.
Push == /\ remote < MaxRevision
        /\ remote' = remote + 1
        /\ UNCHANGED <<docs, newest>>

\* A whole revision takes the place of whatever was there.
Publish == \E r \in newest .. remote : /\ r # 0
                                       /\ docs' = r
                                       /\ newest' = r
                                       /\ UNCHANGED remote

\* An export takes the documents away before it puts new ones.
TakeAway == /\ docs # 0 /\ docs' \in {0, Torn}
            /\ UNCHANGED <<remote, newest>>

Next == Push \/ Publish \/ TakeAway

Spec == Init /\ [][Next]_vars
=============================================================================
