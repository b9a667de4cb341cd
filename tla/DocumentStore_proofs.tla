------------------------- MODULE DocumentStore_proofs -------------------------
(***************************************************************************)
(* Proofs about DocumentStore, for any number of calls, fetches and        *)
(* faults: the store implements DocumentCell, and what a call answers is   *)
(* what the disk holds.                                                    *)
(***************************************************************************)
EXTENDS DocumentStore, FiniteSetTheorems, TLAPS

Stages == {"idle", "lookup", "fetch", "store", "fail", "write", "describe", "commit"}
Answers == {"none", "fresh", "similar", "stored", "failed", "raised"}
CallState == [at : Stages, forced : BOOLEAN,
              half : [layout : Layouts, content : Texts] \cup {None},
              doc : Documents \cup {None}, page : Fetches, answer : Answers]

\* The stages of a call that has a document to write.
Writing == {"write", "describe", "commit"}

\* What a call knows, and what it has staged, when n pages were fetched; lost:
\* some add has swallowed an error.
Fits(c, s, n, lost) ==
    /\ c.at # "idle" => c.answer = "none"
    /\ c.at \in {"idle", "lookup", "fetch", "fail"} => c.page = 0
    /\ c.at = "store" => c.page # 0
    /\ c.page <= n
    /\ c.half # None => c.half.content # None
    /\ c.at \in Writing => c.doc # None /\ (c.page # 0 => c.doc = Stored(c.page))
    /\ c.at \in {"describe", "commit"} => s # None
    /\ ~lost /\ c.at = "describe" => s.content = c.doc.content
    /\ ~lost /\ c.at = "commit" => s.content = c.doc.content /\ s.meta = c.doc.meta

\* One fetch, text and metadata together, or nothing.
Whole(copy, n) ==
    copy # Absent => /\ copy.content \in Fetches /\ copy.content <= n
                     /\ Readable(copy.meta) /\ copy.meta.of = copy.content

\* The page a call brings is not on disk yet; what it has read still is, in
\* this or a newer form.
Ahead(c, fs) ==
    /\ c.page # 0 => fs["nested"].content # c.page
    /\ c.at \in Writing /\ c.page = 0 => \E layout \in Layouts : fs[layout] # Absent

\* Until a mishap, both layouts hold whole documents, the old layout one from
\* before, and no two calls bring the same page.
DiskIsWhole ==
    ~excused =>
        /\ \A layout \in Layouts : Whole(files[layout], fetched)
        /\ files["hashed"].content \in {None, 0}
        /\ \A t \in Tasks : Ahead(call[t], files)
        /\ \A t, u \in Tasks : t # u /\ call[t].page # 0 => call[u].page # call[t].page

\* A kill leaves at most one orphan for each call.
OrphansCounted == orphans \in Nat /\ orphans <= faults * Cardinality(Tasks)

CallsFit == \A t \in Tasks : Fits(call[t], staged[t], fetched, swallowed)

IInv == /\ TypeOK
        /\ swallowed => excused
        /\ CallsFit
        /\ DiskIsWhole
        /\ OrphansCounted

-----------------------------------------------------------------------------
(* Types.                                                                  *)

LEMMA Marks ==
    /\ None \notin Nat /\ None \notin Metadata /\ None \notin Documents /\ None \notin Files
    /\ None \notin Views /\ None # Cut /\ \A n \in Fetches : n # None
    /\ Empty \notin Nat /\ Cut \notin Nat /\ Cut \notin Metadata
    /\ MaxFetches \in Nat /\ MaxFaults \in Nat /\ 0 \in Fetches /\ Fetches \subseteq Nat
  BY MarksAssumption, BoundsAssumption DEF Fetches

LEMMA ViewIsSomething == \A n \in Fetches : [content |-> n, of |-> n] # None
<1> SUFFICES ASSUME NEW n \in Fetches PROVE [content |-> n, of |-> n] \in Views
  BY Marks
<1> QED BY DEF Views, Texts

LEMMA AbsentIsTyped == Absent \in Files /\ Absent.content = None /\ Absent.meta = None
  BY DEF Absent, Files, Texts

LEMMA IdleIsTyped ==
    /\ Idle \in CallState /\ Idle.at = "idle" /\ Idle.page = 0 /\ Idle.half = None
    /\ Idle.doc = None /\ Idle.answer = "none"
<1> DEFINE no == FALSE
           zero == 0
<1>1. /\ no \in BOOLEAN /\ zero \in Fetches /\ "idle" \in Stages /\ "none" \in Answers
  BY Marks DEF Stages, Answers
<1>2. Idle = [at |-> "idle", forced |-> no, half |-> None, doc |-> None, page |-> zero,
              answer |-> "none"]
  BY DEF Idle
<1> HIDE DEF no, zero
<1>3. Idle \in CallState
  BY <1>1, <1>2 DEF CallState
<1> QED BY <1>3 DEF Idle

LEMMA TypeFacts ==
    ASSUME IInv
    PROVE  /\ TypeOK /\ files \in [Layouts -> Files] /\ staged \in [Tasks -> Files \cup {None}]
           /\ call \in [Tasks -> CallState] /\ known \in BOOLEAN \cup {None}
           /\ fetched \in Fetches /\ expired \in Fetches /\ fetched \in Nat
           /\ faults \in 0 .. MaxFaults /\ excused \in BOOLEAN /\ swallowed \in BOOLEAN
           /\ Layouts = {"nested", "hashed"}
<1>1. fetched \in Nat
  BY Marks DEF IInv, TypeOK
<1> QED BY <1>1 DEF IInv, TypeOK, CallState, Stages, Answers, Layouts

\* The products of the bound on orphans.
LEMMA Products ==
    ASSUME NEW a \in Nat, NEW b \in Nat, NEW c \in Nat, a <= b
    PROVE  a * c <= b * c /\ (a + 1) * c = a * c + c
<1>1. (a + 1) * c = a * c + c
  OBVIOUS
<1>2. PICK d \in Nat : b = a + d
  <2>1. b - a \in Nat /\ b = a + (b - a)
    OBVIOUS
  <2> QED BY <2>1
<1>3. b * c = a * c + d * c
  BY <1>2
<1>4. d * c \in Nat /\ a * c \in Nat
  OBVIOUS
<1>5. a * c <= b * c
  BY <1>3, <1>4
<1> QED BY <1>1, <1>5

LEMMA OrphansTyped ==
    ASSUME NEW o \in Nat, NEW f \in 0 .. MaxFaults, o <= f * Cardinality(Tasks)
    PROVE  o \in 0 .. MaxFaults * Cardinality(Tasks)
<1>1. PICK n \in Nat : n = Cardinality(Tasks)
  BY TasksAssumption, FS_CardinalityType
<1>2. f \in Nat /\ MaxFaults \in Nat /\ f <= MaxFaults
  BY Marks
<1>3. f * n <= MaxFaults * n /\ MaxFaults * n \in Nat /\ f * n \in Nat
  BY <1>2, Products
<1> QED BY <1>1, <1>3

\* A step of one call that leaves the files alone.
LEMMA OneCall ==
    ASSUME IInv, NEW t \in Tasks, NEW c \in CallState, NEW s \in Files \cup {None},
           call' = [call EXCEPT ![t] = c], staged' = [staged EXCEPT ![t] = s],
           UNCHANGED <<files, expired, orphans, swallowed, excused, faults>>,
           known' \in BOOLEAN \cup {None}, fetched' \in Fetches, fetched <= fetched',
           Fits(c, s, fetched', swallowed),
           ~excused => /\ Ahead(c, files)
                       /\ c.page \in {0, call[t].page, fetched + 1}
    PROVE  IInv'
<1>1. \A u \in Tasks : /\ call'[u] = IF u = t THEN c ELSE call[u]
                       /\ staged'[u] = IF u = t THEN s ELSE staged[u]
  BY TypeFacts
<1>2. call' \in [Tasks -> CallState] /\ staged' \in [Tasks -> Files \cup {None}]
  BY TypeFacts
<1>3. TypeOK'
  BY <1>2, TypeFacts DEF TypeOK, CallState, Stages, Answers
<1>4. (swallowed => excused)' /\ OrphansCounted'
  BY DEF IInv, OrphansCounted
<1>5. fetched \in Nat /\ fetched' \in Nat /\ \A u \in Tasks : call[u].page \in Nat
  BY TypeFacts, Marks DEF CallState
<1>6. CallsFit'
  <2> SUFFICES ASSUME NEW u \in Tasks
               PROVE  Fits(call'[u], staged'[u], fetched', swallowed')
    BY DEF CallsFit
  <2>1. CASE u = t
    BY <1>1, <2>1
  <2>2. CASE u # t
    <3>1. Fits(call[u], staged[u], fetched, swallowed) /\ call[u].page <= fetched
      BY DEF IInv, CallsFit, Fits
    <3>2. call[u].page <= fetched'
      BY <1>5, <3>1
    <3>3. Fits(call[u], staged[u], fetched', swallowed)
      BY <3>1, <3>2 DEF Fits
    <3> QED BY <1>1, <2>2, <3>3
  <2> QED BY <2>1, <2>2
<1>7. ASSUME ~excused
      PROVE  /\ \A layout \in Layouts : Whole(files[layout], fetched')
             /\ files["hashed"].content \in {None, 0}
             /\ \A u \in Tasks : Ahead(call'[u], files)
             /\ \A u, v \in Tasks : u # v /\ call'[u].page # 0 => call'[v].page # call'[u].page
  <2>1. /\ \A layout \in Layouts : Whole(files[layout], fetched)
        /\ files["hashed"].content \in {None, 0}
        /\ \A u \in Tasks : Ahead(call[u], files)
        /\ \A u, v \in Tasks : u # v /\ call[u].page # 0 => call[v].page # call[u].page
    BY <1>7 DEF IInv, DiskIsWhole
  <2>2. \A layout \in Layouts : Whole(files[layout], fetched')
    <3> SUFFICES ASSUME NEW layout \in Layouts, files[layout] # Absent
                 PROVE  files[layout].content <= fetched'
      BY <2>1 DEF Whole
    <3>1. files[layout].content \in Nat /\ files[layout].content <= fetched
      BY <2>1, Marks DEF Whole
    <3> QED BY <1>5, <3>1
  <2>3. \A u \in Tasks : call[u].page <= fetched
    BY DEF IInv, CallsFit, Fits
  <2>4. \A u \in Tasks : u # t /\ c.page # 0 => call[u].page # c.page
    BY <1>5, <1>7, <2>1, <2>3
  <2> QED BY <1>1, <1>7, <2>1, <2>2, <2>4
<1>8. DiskIsWhole'
  BY <1>7 DEF DiskIsWhole
<1> QED BY <1>3, <1>4, <1>6, <1>8 DEF IInv

\* The same when no page is fetched.
LEMMA QuietCall ==
    ASSUME IInv, NEW t \in Tasks, NEW c \in CallState, NEW s \in Files \cup {None},
           call' = [call EXCEPT ![t] = c], staged' = [staged EXCEPT ![t] = s],
           UNCHANGED <<files, fetched, expired, orphans, history, faults>>,
           known' \in BOOLEAN \cup {None},
           Fits(c, s, fetched, swallowed),
           ~excused => Ahead(c, files), c.page \in {0, call[t].page}
    PROVE  IInv'
<1>1. UNCHANGED <<files, expired, orphans, swallowed, excused, faults>>
  BY DEF history
<1>2. fetched' = fetched /\ fetched' \in Fetches /\ fetched <= fetched'
  BY TypeFacts
<1>3. Fits(c, s, fetched', swallowed)
  BY <1>2
<1>4. c.page \in {0, call[t].page, fetched + 1}
  OBVIOUS
<1> QED BY <1>1, <1>2, <1>3, <1>4, OneCall

\* The ways a call goes on without the disk: it ends, leaves its unit of work,
\* or has something to write.
LEMMA EndStep ==
    ASSUME IInv, NEW t \in Tasks, NEW answer \in Answers, End(t, answer),
           UNCHANGED <<files, fetched, expired, orphans, history, faults>>,
           known' \in BOOLEAN \cup {None}
    PROVE  IInv'
<1> DEFINE c == [Idle EXCEPT !.answer = answer]
<1>1. /\ c \in CallState /\ c.at = "idle" /\ c.page = 0 /\ c.half = None
  BY IdleIsTyped DEF CallState
<1>2. call' = [call EXCEPT ![t] = c] /\ staged' = [staged EXCEPT ![t] = None]
  BY DEF End
<1> HIDE DEF c
<1>3. fetched \in Nat /\ fetched \in Fetches
  BY TypeFacts
<1>4. Fits(c, None, fetched, swallowed) /\ Ahead(c, files)
  BY <1>1, <1>3 DEF Fits, Ahead, Writing
<1> QED BY <1>1, <1>2, <1>4, QuietCall

LEMMA LeaveStep ==
    ASSUME IInv, NEW t \in Tasks, NEW at \in {"fetch", "fail"}, call[t].at # "idle",
           Leave(t, at),
           UNCHANGED <<files, fetched, expired, orphans, history, faults>>,
           known' \in BOOLEAN \cup {None}
    PROVE  IInv'
<1> DEFINE zero == 0
           c == [call[t] EXCEPT !.at = at, !.half = None, !.doc = None, !.page = zero]
<1>1. call[t] \in CallState /\ call[t].answer = "none" /\ zero \in Fetches /\ at \in Stages
  BY TypeFacts, Marks DEF IInv, CallsFit, Fits, Stages
<1>2. /\ c \in CallState /\ c.at = at /\ c.page = 0 /\ c.half = None /\ c.answer = "none"
  BY <1>1 DEF CallState
<1>3. call' = [call EXCEPT ![t] = c] /\ staged' = [staged EXCEPT ![t] = None]
  BY DEF Leave
<1> HIDE DEF c
<1>4. fetched \in Nat /\ fetched \in Fetches
  BY TypeFacts
<1>5. Fits(c, None, fetched, swallowed) /\ Ahead(c, files)
  BY <1>2, <1>4 DEF Fits, Ahead, Writing
<1> QED BY <1>2, <1>3, <1>5, QuietCall

LEMMA StagedStays ==
    ASSUME IInv, NEW t \in Tasks
    PROVE  staged = [staged EXCEPT ![t] = staged[t]] /\ staged[t] \in Files \cup {None}
  BY TypeFacts

LEMMA WriteStep ==
    ASSUME IInv, NEW t \in Tasks, call[t].at # "idle", NEW doc \in Documents,
           Continue(t, "write", doc),
           call[t].page # 0 => doc = Stored(call[t].page),
           call[t].page = 0 /\ ~excused => \E layout \in Layouts : files[layout] # Absent,
           UNCHANGED <<files, fetched, expired, orphans, history, faults>>,
           known' \in BOOLEAN \cup {None}
    PROVE  IInv'
<1> DEFINE c == [call[t] EXCEPT !.at = "write", !.half = None, !.doc = doc]
<1>1. call[t] \in CallState /\ call[t].answer = "none" /\ call[t].page <= fetched
  BY TypeFacts DEF IInv, CallsFit, Fits
<1>2. /\ c \in CallState /\ c.at = "write" /\ c.page = call[t].page /\ c.half = None
      /\ c.answer = "none" /\ c.doc = doc
  BY <1>1 DEF CallState, Stages
<1>3. call' = [call EXCEPT ![t] = c] /\ staged' = [staged EXCEPT ![t] = staged[t]]
  BY StagedStays DEF Continue
<1> HIDE DEF c
<1>4. fetched \in Nat /\ fetched \in Fetches
  BY TypeFacts
<1>5. Fits(c, staged[t], fetched, swallowed)
  BY <1>1, <1>2, Marks DEF Fits
<1>6. ~excused => Ahead(c, files)
  BY <1>2 DEF IInv, DiskIsWhole, Ahead
<1> QED BY <1>2, <1>3, <1>5, <1>6, StagedStays, QuietCall

LEMMA BeginStep == ASSUME IInv, NEW t \in Tasks, Begin(t) PROVE IInv'
<1>1. PICK forced \in BOOLEAN :
        call' = [call EXCEPT ![t] = [Idle EXCEPT !.at = "lookup", !.forced = forced]]
  BY DEF Begin
<1> DEFINE c == [Idle EXCEPT !.at = "lookup", !.forced = forced]
<1>2. /\ c \in CallState /\ c.at = "lookup" /\ c.page = 0 /\ c.half = None /\ c.answer = "none"
  BY IdleIsTyped DEF CallState, Stages
<1>3. /\ call' = [call EXCEPT ![t] = c] /\ staged' = [staged EXCEPT ![t] = staged[t]]
      /\ UNCHANGED <<files, fetched, expired, known, orphans, history, faults>>
  BY <1>1, StagedStays DEF Begin
<1> HIDE DEF c
<1>4. fetched \in Nat /\ fetched \in Fetches /\ known \in BOOLEAN \cup {None}
  BY TypeFacts
<1>5. Fits(c, staged[t], fetched, swallowed) /\ Ahead(c, files)
  BY <1>2, <1>4 DEF Fits, Ahead, Writing
<1> QED BY <1>2, <1>3, <1>4, <1>5, StagedStays, QuietCall

LEMMA CandidateIsTyped == ASSUME IInv PROVE Candidate \in BOOLEAN \cup {None}
<1>1. Listed \in BOOLEAN
  BY Zenon DEF Listed
<1> QED BY <1>1, TypeFacts DEF Candidate

LEMMA StoredIsTyped ==
    ASSUME NEW n \in Fetches
    PROVE  Stored(n) \in Documents /\ Stored(n).content = n /\ Stored(n).meta.of = n
           /\ Stored(n).meta \in Metadata
  BY DEF Stored, Documents, Metadata

LEMMA FailedIsTyped ==
    ASSUME NEW doc \in Documents
    PROVE  /\ Failed(doc) \in Documents /\ Failed(doc).content = doc.content
           /\ Failed(doc).meta.of = doc.meta.of
<1>1. doc.meta \in Metadata
  BY DEF Documents
<1>2. [doc.meta EXCEPT !.status = "failed"] \in Metadata
  BY <1>1 DEF Metadata
<1>3. [doc.meta EXCEPT !.status = "failed"].of = doc.meta.of
  BY <1>1 DEF Metadata
<1>4. Failed(doc) = [doc EXCEPT !.meta = [doc.meta EXCEPT !.status = "failed"]]
  BY DEF Failed
<1> QED BY <1>2, <1>3, <1>4 DEF Documents

LEMMA GotStep ==
    ASSUME IInv, NEW t \in Tasks, Reading(t), NEW doc \in Documents \cup {None}, Got(t, doc),
           doc # None => \E layout \in Layouts : files[layout] # Absent,
           UNCHANGED <<files, fetched, expired, orphans, history, faults>>
    PROVE  IInv'
<1>1. call[t] \in CallState /\ call[t].at # "idle" /\ Fits(call[t], staged[t], fetched, swallowed)
  BY TypeFacts DEF IInv, CallsFit, Reading
<1>2. known \in BOOLEAN \cup {None} /\ Candidate \in BOOLEAN \cup {None}
  BY TypeFacts, CandidateIsTyped
<1>3. CASE call[t].at = "lookup"
  <2>1. known' \in {known, Candidate}
    BY <1>3 DEF Got, LookedUp
  <2>2. End(t, "fresh") \/ End(t, "similar") \/ Leave(t, "fetch")
    BY <1>3 DEF Got, LookedUp
  <2>3. {"fresh", "similar"} \subseteq Answers
    BY DEF Answers
  <2> QED BY <1>1, <1>2, <2>1, <2>2, <2>3, EndStep, LeaveStep
<1>4. CASE call[t].at = "store"
  <2>1. known' = known /\ Continue(t, "write", Stored(call[t].page))
    BY <1>4 DEF Got
  <2>2. call[t].page \in Fetches /\ Stored(call[t].page) \in Documents
    BY <1>1, StoredIsTyped DEF CallState
  <2>3. call[t].page # 0
    BY <1>1, <1>4 DEF Fits
  <2> QED BY <1>1, <1>2, <2>1, <2>2, <2>3, WriteStep
<1>5. CASE call[t].at = "fail"
  <2>1. known' = known /\ IF doc = None THEN End(t, "failed") ELSE Continue(t, "write", Failed(doc))
    BY <1>5 DEF Got
  <2>2. call[t].page = 0
    BY <1>1, <1>5 DEF Fits
  <2>3. "failed" \in Answers
    BY DEF Answers
  <2>4. CASE doc = None
    BY <1>2, <2>1, <2>3, <2>4, EndStep
  <2>5. CASE doc # None
    <3>1. Failed(doc) \in Documents
      BY <2>5, FailedIsTyped
    <3> QED BY <1>1, <1>2, <2>1, <2>2, <2>5, <3>1, WriteStep
  <2> QED BY <2>4, <2>5
<1> QED BY <1>3, <1>4, <1>5 DEF Reading

LEMMA RaisedStep ==
    ASSUME IInv, NEW t \in Tasks, call[t].at # "idle", Raised(t), UNCHANGED known,
           UNCHANGED <<files, fetched, expired, orphans, history, faults>>
    PROVE  IInv'
<1>1. "raised" \in Answers /\ known' \in BOOLEAN \cup {None}
  BY TypeFacts DEF Answers
<1> QED BY <1>1, EndStep, LeaveStep DEF Raised

LEMMA ResolveIsLayout == Resolve(files) \in Layouts
  BY DEF Resolve, Layouts

LEMMA ReadTextStep == ASSUME IInv, NEW t \in Tasks, ReadText(t) PROVE IInv'
<1> DEFINE layout == Resolve(files)
           text == files[layout].content
<1>1. /\ Reading(t) /\ call[t].half = None
      /\ UNCHANGED <<files, fetched, expired, orphans, history, faults>>
      /\ \/ text = None /\ Got(t, None)
         \/ /\ text # None
            /\ call' = [call EXCEPT ![t].half = [layout |-> layout, content |-> text]]
            /\ UNCHANGED <<staged, known>>
  BY DEF ReadText
<1>2. CASE text = None /\ Got(t, None)
  BY <1>1, <1>2, GotStep
<1>3. CASE text # None
  <2> DEFINE half == [layout |-> layout, content |-> text]
             c == [call[t] EXCEPT !.half = half]
  <2>1. layout \in Layouts /\ files[layout] \in Files
    BY ResolveIsLayout, TypeFacts
  <2>2. half \in [layout : Layouts, content : Texts]
    BY <2>1 DEF Files
  <2>3. half.content # None
    BY <1>3
  <2>4. call[t] \in CallState
    BY TypeFacts
  <2> HIDE DEF half
  <2>5. /\ c \in CallState /\ c.half = half /\ c.at = call[t].at /\ c.page = call[t].page
        /\ c.answer = call[t].answer /\ c.doc = call[t].doc
    BY <2>2, <2>4 DEF CallState
  <2>6. /\ call' = [call EXCEPT ![t] = c] /\ staged' = [staged EXCEPT ![t] = staged[t]]
        /\ known' = known
    BY <1>1, <1>3, StagedStays DEF half
  <2> HIDE DEF c
  <2>7. Fits(c, staged[t], fetched, swallowed)
    BY <2>3, <2>5 DEF IInv, CallsFit, Fits
  <2>8. ~excused => Ahead(c, files)
    BY <2>5 DEF IInv, DiskIsWhole, Ahead
  <2>9. fetched \in Nat /\ fetched \in Fetches /\ known \in BOOLEAN \cup {None}
    BY TypeFacts
  <2> QED BY <1>1, <2>5, <2>6, <2>7, <2>8, <2>9, StagedStays, QuietCall
<1> QED BY <1>1, <1>2, <1>3

LEMMA ReadMetaStep == ASSUME IInv, NEW t \in Tasks, ReadMeta(t) PROVE IInv'
<1> DEFINE half == call[t].half
           meta == files[half.layout].meta
           doc == [content |-> half.content, meta |-> meta]
<1>1. /\ Reading(t) /\ half # None
      /\ UNCHANGED <<files, fetched, expired, orphans, history, faults>>
      /\ \/ ~Readable(meta) /\ Got(t, None)
         \/ Readable(meta) /\ half.content = Empty /\ Raised(t) /\ UNCHANGED known
         \/ Readable(meta) /\ half.content # Empty /\ Got(t, doc)
  BY DEF ReadMeta
<1>2. call[t].at # "idle"
  BY <1>1 DEF Reading
<1>3. CASE ~Readable(meta) /\ Got(t, None)
  BY <1>1, <1>3, GotStep
<1>4. CASE Readable(meta) /\ half.content = Empty /\ Raised(t) /\ UNCHANGED known
  BY <1>1, <1>2, <1>4, RaisedStep
<1>5. CASE Readable(meta) /\ half.content # Empty /\ Got(t, doc)
  <2>1. half \in [layout : Layouts, content : Texts] /\ half.content # None
    BY <1>1, TypeFacts DEF CallState, IInv, CallsFit, Fits
  <2>2. files[half.layout] \in Files /\ half.layout \in Layouts
    BY <2>1, TypeFacts
  <2>3. meta \in Metadata /\ files[half.layout] # Absent
    BY <1>5, <2>2, AbsentIsTyped DEF Files, Readable
  <2>4. half.content \in Fetches \cup {Cut}
    BY <1>5, <2>1 DEF Texts
  <2>5. doc \in Documents
    BY <2>3, <2>4 DEF Documents
  <2> HIDE DEF doc
  <2> QED BY <1>1, <1>5, <2>2, <2>3, <2>5, GotStep
<1> QED BY <1>1, <1>3, <1>4, <1>5

LEMMA FetchStep == ASSUME IInv, NEW t \in Tasks, Fetch(t) PROVE IInv'
<1>1. PICK page \in {0, fetched + 1} \cap Fetches :
          /\ fetched' = IF page = 0 THEN fetched ELSE page
          /\ call' = [call EXCEPT ![t].page = page,
                                  ![t].at = IF page = 0 THEN "fail" ELSE "store"]
  BY DEF Fetch
<1> DEFINE at == IF page = 0 THEN "fail" ELSE "store"
           c == [call[t] EXCEPT !.page = page, !.at = at]
<1>2. /\ call[t] \in CallState /\ call[t].at = "fetch" /\ call[t].page = 0
      /\ fetched \in Nat /\ fetched \in Fetches /\ page \in Fetches /\ page \in Nat
      /\ known \in BOOLEAN \cup {None} /\ at \in Stages
  BY TypeFacts, Marks DEF Fetch, IInv, CallsFit, Fits, Stages
<1>3. UNCHANGED <<files, staged, expired, known, orphans, history, faults>>
  BY DEF Fetch
<1>4. /\ call' = [call EXCEPT ![t] = c] /\ staged' = [staged EXCEPT ![t] = staged[t]]
  BY <1>1, <1>2, <1>3, TypeFacts, StagedStays
<1>5. /\ c \in CallState /\ c.at = at /\ c.page = page /\ c.half = call[t].half
      /\ c.answer = call[t].answer
  BY <1>2 DEF CallState
<1> HIDE DEF c
<1>6. /\ fetched' \in Fetches /\ fetched <= fetched' /\ page <= fetched'
  BY <1>1, <1>2
<1>7. Fits(c, staged[t], fetched', swallowed)
  BY <1>2, <1>5, <1>6 DEF IInv, CallsFit, Fits, Writing
<1>8. ~excused => Ahead(c, files)
  <2> SUFFICES ASSUME ~excused PROVE page # 0 => files["nested"].content # page
    BY <1>5 DEF Ahead, Writing
  <2>1. Whole(files["nested"], fetched)
    BY DEF IInv, DiskIsWhole, Layouts
  <2>2. CASE files["nested"] = Absent
    BY <1>2, <2>2, AbsentIsTyped, Marks
  <2>3. CASE files["nested"] # Absent
    <3>1. files["nested"].content \in Nat /\ files["nested"].content <= fetched
      BY <2>1, <2>3, Marks DEF Whole
    <3> QED BY <1>2, <3>1
  <2> QED BY <2>2, <2>3
<1> QED BY <1>1, <1>2, <1>3, <1>4, <1>5, <1>6, <1>7, <1>8, StagedStays, OneCall DEF history

LEMMA WriteTextStep == ASSUME IInv, NEW t \in Tasks, WriteText(t) PROVE IInv'
<1> DEFINE c == [call[t] EXCEPT !.at = "describe"]
           text == call[t].doc.content
           s == [Absent EXCEPT !.content = text]
<1>1. /\ call[t] \in CallState /\ call[t].at = "write"
      /\ Fits(call[t], staged[t], fetched, swallowed)
  BY TypeFacts DEF WriteText, IInv, CallsFit
<1>2. /\ call[t].doc # None /\ call[t].answer = "none" /\ call[t].page <= fetched
      /\ call[t].page # 0 => call[t].doc = Stored(call[t].page)
  BY <1>1 DEF Fits, Writing
<1>3. text \in Texts
  BY <1>1, <1>2 DEF CallState, Documents, Texts
<1>4. s \in Files /\ s.content = text
  BY <1>3, AbsentIsTyped DEF Files
<1>5. /\ c \in CallState /\ c.at = "describe" /\ c.page = call[t].page /\ c.half = call[t].half
      /\ c.answer = call[t].answer /\ c.doc = call[t].doc
  BY <1>1 DEF CallState, Stages
<1>6. /\ call' = [call EXCEPT ![t] = c] /\ staged' = [staged EXCEPT ![t] = s]
      /\ UNCHANGED <<files, fetched, expired, known, orphans, history, faults>>
  BY DEF WriteText
<1> HIDE DEF c, s, text
<1>7. s # None
  BY <1>4, Marks
<1>8. Fits(c, s, fetched, swallowed)
  BY <1>1, <1>2, <1>4, <1>5, <1>7 DEF Fits, Writing, text
<1>9. ~excused => Ahead(c, files)
  BY <1>1, <1>5 DEF IInv, DiskIsWhole, Ahead, Writing
<1>10. known' \in BOOLEAN \cup {None}
  BY <1>6, TypeFacts
<1> QED BY <1>4, <1>5, <1>6, <1>8, <1>9, <1>10, QuietCall

LEMMA WriteMetaStep == ASSUME IInv, NEW t \in Tasks, WriteMeta(t) PROVE IInv'
<1> DEFINE c == [call[t] EXCEPT !.at = "commit"]
           meta == call[t].doc.meta
           s == [staged[t] EXCEPT !.meta = meta]
<1>1. /\ call[t] \in CallState /\ call[t].at = "describe"
      /\ Fits(call[t], staged[t], fetched, swallowed)
  BY TypeFacts DEF WriteMeta, IInv, CallsFit
<1>2. /\ call[t].doc # None /\ call[t].answer = "none" /\ call[t].page <= fetched
      /\ call[t].page # 0 => call[t].doc = Stored(call[t].page)
      /\ staged[t] # None /\ ~swallowed => staged[t].content = call[t].doc.content
  BY <1>1 DEF Fits, Writing
<1>3. staged[t] \in Files /\ meta \in Metadata
  BY <1>1, <1>2, TypeFacts DEF CallState, Documents, Fits
<1>4. s \in Files /\ s.content = staged[t].content /\ s.meta = meta
  BY <1>3 DEF Files
<1>5. /\ c \in CallState /\ c.at = "commit" /\ c.page = call[t].page /\ c.half = call[t].half
      /\ c.answer = call[t].answer /\ c.doc = call[t].doc
  BY <1>1 DEF CallState, Stages
<1>6. /\ call' = [call EXCEPT ![t] = c] /\ staged' = [staged EXCEPT ![t] = s]
      /\ UNCHANGED <<files, fetched, expired, known, orphans, history, faults>>
  BY DEF WriteMeta
<1> HIDE DEF c, s, meta
<1>7. s # None
  BY <1>4, Marks
<1>8. Fits(c, s, fetched, swallowed)
  BY <1>1, <1>2, <1>4, <1>5, <1>7 DEF Fits, Writing, meta
<1>9. ~excused => Ahead(c, files)
  BY <1>1, <1>5 DEF IInv, DiskIsWhole, Ahead, Writing
<1>10. known' \in BOOLEAN \cup {None}
  BY <1>6, TypeFacts
<1> QED BY <1>4, <1>5, <1>6, <1>8, <1>9, <1>10, QuietCall

\* After a mishap only the types, the calls and the orphans are still promised.
LEMMA Excused ==
    ASSUME IInv, excused' = TRUE, swallowed' \in BOOLEAN,
           files' \in [Layouts -> Files], staged' \in [Tasks -> Files \cup {None}],
           call' \in [Tasks -> CallState], known' \in BOOLEAN \cup {None},
           UNCHANGED <<fetched, expired>>, faults' \in 0 .. MaxFaults, OrphansCounted',
           \A t \in Tasks : Fits(call'[t], staged'[t], fetched, swallowed')
    PROVE  IInv'
<1>1. orphans' \in 0 .. MaxFaults * Cardinality(Tasks)
  BY OrphansTyped DEF OrphansCounted
<1>2. excused' \in BOOLEAN
  OBVIOUS
<1>3. TypeOK'
  BY <1>1, <1>2, TypeFacts DEF TypeOK, CallState, Stages, Answers
<1>4. CallsFit' /\ DiskIsWhole'
  BY DEF CallsFit, DiskIsWhole
<1> QED BY <1>3, <1>4 DEF IInv

LEMMA FaultCounts ==
    ASSUME IInv, Fault, NEW more \in Nat, more <= Cardinality(Tasks),
           orphans' = orphans + more
    PROVE  faults' \in 0 .. MaxFaults /\ OrphansCounted'
<1>1. faults \in Nat /\ faults + 1 \in Nat /\ faults' = faults + 1 /\ faults' \in 0 .. MaxFaults
  BY TypeFacts, Marks DEF Fault
<1>2. PICK n \in Nat : n = Cardinality(Tasks)
  BY TasksAssumption, FS_CardinalityType
<1>3. (faults + 1) * n = faults * n + n /\ faults * n \in Nat
  BY <1>1, Products
<1>4. orphans \in Nat /\ orphans <= faults * n /\ more <= n
  BY <1>2 DEF IInv, OrphansCounted
<1>5. orphans' \in Nat /\ orphans' <= faults' * n
  BY <1>1, <1>3, <1>4
<1> QED BY <1>1, <1>2, <1>5 DEF OrphansCounted

LEMMA OtherCallsFit ==
    ASSUME IInv, NEW t \in Tasks, NEW c \in CallState, NEW s \in Files \cup {None},
           call' = [call EXCEPT ![t] = c], staged' = [staged EXCEPT ![t] = s],
           swallowed => swallowed', Fits(c, s, fetched, swallowed')
    PROVE  /\ call' \in [Tasks -> CallState] /\ staged' \in [Tasks -> Files \cup {None}]
           /\ \A u \in Tasks : Fits(call'[u], staged'[u], fetched, swallowed')
<1>1. \A u \in Tasks : /\ call'[u] = IF u = t THEN c ELSE call[u]
                       /\ staged'[u] = IF u = t THEN s ELSE staged[u]
  BY TypeFacts
<1>2. \A u \in Tasks : Fits(call[u], staged[u], fetched, swallowed')
  BY DEF IInv, CallsFit, Fits
<1> QED BY <1>1, <1>2, TypeFacts

LEMMA WriteFailsStep == ASSUME IInv, NEW t \in Tasks, WriteFails(t) PROVE IInv'
<1>1. /\ call' = [call EXCEPT ![t] = [call[t] EXCEPT !.at = "commit"]]
      /\ swallowed' = TRUE /\ excused' = TRUE /\ Fault
      /\ UNCHANGED <<files, fetched, expired, known, orphans>>
      /\ call[t].at \in {"write", "describe"}
  BY DEF WriteFails
<1>2. /\ call[t] \in CallState /\ Fits(call[t], staged[t], fetched, swallowed)
  BY TypeFacts DEF IInv, CallsFit
<1>3. /\ call[t].doc # None /\ call[t].answer = "none" /\ call[t].page <= fetched
      /\ call[t].page # 0 => call[t].doc = Stored(call[t].page)
      /\ call[t].at = "describe" => staged[t] # None
  BY <1>1, <1>2 DEF Fits, Writing
<1>4. PICK s \in Files : staged' = [staged EXCEPT ![t] = s]
  <2>1. CASE call[t].at = "write"
    <3>1. PICK text \in {None, Empty, Cut} :
             staged' = [staged EXCEPT ![t] = [Absent EXCEPT !.content = text]]
      BY <2>1 DEF WriteFails
    <3>2. text \in Texts
      BY DEF Texts
    <3>3. [Absent EXCEPT !.content = text] \in Files
      BY <3>2, AbsentIsTyped DEF Files
    <3> QED BY <3>1, <3>3
  <2>2. CASE call[t].at = "describe"
    <3>1. PICK meta \in {None, Cut} : staged' = [staged EXCEPT ![t].meta = meta]
      BY <2>2 DEF WriteFails
    <3>2. staged[t] \in Files
      BY <1>3, <2>2, TypeFacts
    <3>3. [staged[t] EXCEPT !.meta = meta] \in Files
      BY <3>2 DEF Files
    <3> QED BY <3>1, <3>3
  <2> QED BY <1>1, <2>1, <2>2
<1> DEFINE c == [call[t] EXCEPT !.at = "commit"]
<1>5. /\ c \in CallState /\ c.at = "commit" /\ c.page = call[t].page /\ c.half = call[t].half
      /\ c.answer = call[t].answer /\ c.doc = call[t].doc
  BY <1>2 DEF CallState, Stages
<1>6. call' = [call EXCEPT ![t] = c]
  BY <1>1
<1> HIDE DEF c
<1>7. Fits(c, s, fetched, swallowed')
  BY <1>1, <1>2, <1>3, <1>5, Marks DEF Fits, Writing
<1>8. faults' \in 0 .. MaxFaults /\ OrphansCounted'
  <2>1. orphans' = orphans + 0 /\ 0 <= Cardinality(Tasks)
    BY <1>1, TasksAssumption, FS_CardinalityType DEF IInv, OrphansCounted
  <2> QED BY <1>1, <2>1, FaultCounts
<1>9. swallowed' \in BOOLEAN /\ files' \in [Layouts -> Files] /\ known' \in BOOLEAN \cup {None}
  BY <1>1, TypeFacts
<1>10. /\ call' \in [Tasks -> CallState] /\ staged' \in [Tasks -> Files \cup {None}]
       /\ \A u \in Tasks : Fits(call'[u], staged'[u], fetched, swallowed')
  BY <1>1, <1>4, <1>5, <1>6, <1>7, OtherCallsFit
<1> QED BY <1>1, <1>8, <1>9, <1>10, Excused

LEMMA MergedIsTyped ==
    ASSUME NEW old \in Files, NEW new \in Files
    PROVE  [content |-> Over(old.content, new.content), meta |-> Over(old.meta, new.meta)] \in Files
  BY DEF Over, Files

LEMMA HalfMergedIsTyped ==
    ASSUME IInv, NEW t \in Tasks, call[t].at = "commit"
    PROVE  /\ staged[t] \in Files /\ Merged(t) \in Files
           /\ \A left \in HalfMerged(t) : left \in Files
<1>1. staged[t] \in Files /\ files["nested"] \in Files
  BY TypeFacts DEF IInv, CallsFit, Fits
<1>2. Merged(t) \in Files
  BY <1>1, MergedIsTyped DEF Merged
<1> DEFINE old == files["nested"]
           new == staged[t]
<1>3. /\ [old EXCEPT !.meta = IF new.meta = None THEN @ ELSE None] \in Files
      /\ [old EXCEPT !.meta = Merged(t).meta] \in Files
      /\ [Merged(t) EXCEPT !.content = IF new.content = None THEN @ ELSE None] \in Files
  BY <1>1, <1>2 DEF Files, Texts
<1> QED BY <1>1, <1>2, <1>3 DEF HalfMerged

LEMMA NestedIsTyped ==
    ASSUME IInv, NEW left \in Files, files' = [files EXCEPT !["nested"] = left]
    PROVE  files' \in [Layouts -> Files] /\ files'["nested"] = left
           /\ files'["hashed"] = files["hashed"]
  BY TypeFacts

\* A call that ends or leaves its unit of work.
LEMMA GoneFits ==
    ASSUME IInv, NEW t \in Tasks,
           \/ \E answer \in Answers : End(t, answer)
           \/ call[t].at # "idle" /\ \E at \in {"fetch", "fail"} : Leave(t, at)
    PROVE  \E c \in CallState : /\ call' = [call EXCEPT ![t] = c] /\ c.page = 0
                                /\ c.at \notin Writing
                                /\ staged' = [staged EXCEPT ![t] = None]
                                /\ Fits(c, None, fetched, TRUE) /\ Fits(c, None, fetched, FALSE)
<1>1. fetched \in Nat
  BY TypeFacts
<1>2. ASSUME NEW answer \in Answers, End(t, answer)
      PROVE  \E c \in CallState : /\ call' = [call EXCEPT ![t] = c] /\ c.page = 0
                                  /\ c.at \notin Writing
                                  /\ staged' = [staged EXCEPT ![t] = None]
                                  /\ Fits(c, None, fetched, TRUE) /\ Fits(c, None, fetched, FALSE)
  <2> DEFINE c == [Idle EXCEPT !.answer = answer]
  <2>1. /\ c \in CallState /\ c.at = "idle" /\ c.page = 0 /\ c.half = None
    BY IdleIsTyped DEF CallState
  <2>2. call' = [call EXCEPT ![t] = c] /\ staged' = [staged EXCEPT ![t] = None]
    BY <1>2 DEF End
  <2> HIDE DEF c
  <2>3. c.at \notin Writing /\ Fits(c, None, fetched, TRUE) /\ Fits(c, None, fetched, FALSE)
    BY <1>1, <2>1 DEF Fits, Writing
  <2> QED BY <2>1, <2>2, <2>3
<1>3. ASSUME NEW at \in {"fetch", "fail"}, call[t].at # "idle", Leave(t, at)
      PROVE  \E c \in CallState : /\ call' = [call EXCEPT ![t] = c] /\ c.page = 0
                                  /\ c.at \notin Writing
                                  /\ staged' = [staged EXCEPT ![t] = None]
                                  /\ Fits(c, None, fetched, TRUE) /\ Fits(c, None, fetched, FALSE)
  <2> DEFINE zero == 0
             c == [call[t] EXCEPT !.at = at, !.half = None, !.doc = None, !.page = zero]
  <2>1. call[t] \in CallState /\ call[t].answer = "none" /\ zero \in Fetches /\ at \in Stages
    BY <1>3, TypeFacts, Marks DEF IInv, CallsFit, Fits, Stages
  <2>2. /\ c \in CallState /\ c.at = at /\ c.page = 0 /\ c.half = None /\ c.answer = "none"
    BY <2>1 DEF CallState
  <2>3. call' = [call EXCEPT ![t] = c] /\ staged' = [staged EXCEPT ![t] = None]
    BY <1>3 DEF Leave
  <2> HIDE DEF c
  <2>4. c.at \notin Writing /\ Fits(c, None, fetched, TRUE) /\ Fits(c, None, fetched, FALSE)
    BY <1>1, <2>2 DEF Fits, Writing
  <2> QED BY <2>2, <2>3, <2>4
<1> QED BY <1>2, <1>3

LEMMA CommitFailsStep == ASSUME IInv, NEW t \in Tasks, CommitFails(t) PROVE IInv'
<1>1. /\ call[t].at = "commit" /\ Raised(t) /\ excused' = TRUE /\ Fault
      /\ UNCHANGED <<fetched, expired, known, orphans, swallowed>>
  BY DEF CommitFails
<1>2. PICK left \in Files : files' = [files EXCEPT !["nested"] = left]
  <2>1. files["nested"] \in Files /\ \A left \in HalfMerged(t) : left \in Files
    BY <1>1, HalfMergedIsTyped, TypeFacts
  <2> QED BY <2>1 DEF CommitFails
<1>3. files' \in [Layouts -> Files]
  BY <1>2, NestedIsTyped
<1>4. PICK c \in CallState : /\ call' = [call EXCEPT ![t] = c]
                             /\ staged' = [staged EXCEPT ![t] = None]
                             /\ Fits(c, None, fetched, TRUE) /\ Fits(c, None, fetched, FALSE)
  <2>1. "raised" \in Answers
    BY DEF Answers
  <2> QED BY <1>1, <2>1, GoneFits DEF Raised
<1>5. swallowed \in BOOLEAN /\ known' \in BOOLEAN \cup {None}
  BY <1>1, TypeFacts
<1>6. Fits(c, None, fetched, swallowed')
  BY <1>1, <1>4, <1>5
<1>7. faults' \in 0 .. MaxFaults /\ OrphansCounted'
  <2>1. orphans' = orphans + 0 /\ 0 <= Cardinality(Tasks)
    BY <1>1, TasksAssumption, FS_CardinalityType DEF IInv, OrphansCounted
  <2> QED BY <1>1, <2>1, FaultCounts
<1>8. /\ call' \in [Tasks -> CallState] /\ staged' \in [Tasks -> Files \cup {None}]
      /\ \A u \in Tasks : Fits(call'[u], staged'[u], fetched, swallowed')
  BY <1>1, <1>4, <1>6, OtherCallsFit
<1> QED BY <1>1, <1>3, <1>5, <1>7, <1>8, Excused

-----------------------------------------------------------------------------
(* What a reader gets.                                                     *)

\* Until a mishap a get returns a whole document or nothing, and so it shows.
LEMMA ShownIsWhole ==
    ASSUME IInv, ~excused
    PROVE  LET copy == files[Resolve(files)] IN
           /\ copy = Absent => Get(files) = None /\ Shown = None
           /\ copy # Absent => /\ Get(files) = copy /\ Get(files) # None
                               /\ Shown = [content |-> copy.content, of |-> copy.content]
                               /\ Shown # None
                               /\ copy.content \in Fetches /\ copy.content <= fetched
                               /\ copy.meta.of = copy.content /\ copy.meta \in Metadata
<1> DEFINE copy == files[Resolve(files)]
<1>1. copy \in Files /\ Whole(copy, fetched)
  BY ResolveIsLayout, TypeFacts DEF IInv, DiskIsWhole
<1>2. Get(files) = IF copy.content # None /\ Readable(copy.meta) THEN copy ELSE None
  BY DEF Get
<1>3. Shown = IF copy = Absent THEN None
              ELSE [content |-> copy.content,
                    of |-> IF Readable(copy.meta) THEN copy.meta.of ELSE None]
  BY DEF Shown
<1> HIDE DEF copy
<1>4. ASSUME copy = Absent
      PROVE  Get(files) = None /\ Shown = None
  BY <1>2, <1>3, <1>4, AbsentIsTyped
<1>5. ASSUME copy # Absent
      PROVE  /\ Get(files) = copy /\ Get(files) # None
             /\ Shown = [content |-> copy.content, of |-> copy.content]
             /\ copy.content \in Fetches /\ copy.content <= fetched
             /\ copy.meta.of = copy.content /\ copy.meta \in Metadata
  <2>1. /\ copy.content \in Fetches /\ copy.content <= fetched
        /\ Readable(copy.meta) /\ copy.meta.of = copy.content
    BY <1>1, <1>5 DEF Whole
  <2>2. copy.content # None /\ copy # None /\ copy.meta \in Metadata
    BY <1>1, <2>1, Marks DEF Files, Readable
  <2> QED BY <1>2, <1>3, <1>5, <2>1, <2>2
<1>6. copy # Absent => Shown # None
  <2> SUFFICES ASSUME copy # Absent PROVE Shown \in Views
    BY Marks
  <2>1. copy.content \in Texts /\ copy.content \in Fetches
    BY <1>5 DEF Texts
  <2> QED BY <1>5, <2>1 DEF Views
<1> QED BY <1>4, <1>5, <1>6 DEF copy

\* What a call has staged, when add has swallowed no error.
LEMMA StagedIsDoc ==
    ASSUME IInv, NEW t \in Tasks, call[t].at = "commit", ~swallowed
    PROVE  /\ Merged(t) = [content |-> call[t].doc.content, meta |-> call[t].doc.meta]
           /\ Merged(t) \in Files /\ call[t].doc \in Documents /\ Merged(t) # Absent
           /\ call[t].page # 0 => call[t].doc = Stored(call[t].page)
<1>1. Fits(call[t], staged[t], fetched, swallowed) /\ call[t] \in CallState
  BY TypeFacts DEF IInv, CallsFit
<1>2. /\ call[t].doc # None /\ call[t].doc \in Documents
      /\ staged[t].content = call[t].doc.content /\ staged[t].meta = call[t].doc.meta
      /\ call[t].page # 0 => call[t].doc = Stored(call[t].page)
  BY <1>1 DEF Fits, CallState, Writing
<1>3. call[t].doc.content \in Fetches \cup {Cut} /\ call[t].doc.meta \in Metadata
  BY <1>2 DEF Documents
<1>4. call[t].doc.meta # None /\ Merged(t) \in Files
  BY <1>3, Marks, HalfMergedIsTyped
<1>5. call[t].doc.content # None
  BY <1>3, Marks
<1>6. Merged(t) = [content |-> call[t].doc.content, meta |-> call[t].doc.meta]
  BY <1>2, <1>4, <1>5 DEF Merged, Over
<1>7. Merged(t) # Absent
  BY <1>4, <1>6, AbsentIsTyped
<1> QED BY <1>2, <1>4, <1>6, <1>7

\* A commit that is no mishap brings a whole document: a newer page, or what is
\* on disk already.
LEMMA CommitIsWhole ==
    ASSUME IInv, NEW t \in Tasks, call[t].at = "commit", ~excused, ~Late(t)
    PROVE  LET new == Merged(t) IN
           /\ new \in Files /\ new # Absent /\ Whole(new, fetched) /\ new.content \in Fetches
           /\ call[t].page # 0 => /\ new.content = call[t].page
                                  /\ Shown # None => new.content > Shown.content
           /\ call[t].page = 0 => Shown = [content |-> new.content, of |-> new.content]
<1> DEFINE new == Merged(t)
           copy == files[Resolve(files)]
<1>1. ~swallowed /\ fetched \in Nat
  BY TypeFacts DEF IInv
<1>2. /\ new = [content |-> call[t].doc.content, meta |-> call[t].doc.meta]
      /\ new \in Files /\ call[t].doc \in Documents /\ new # Absent
      /\ call[t].page # 0 => call[t].doc = Stored(call[t].page)
  BY <1>1, StagedIsDoc
<1>3. /\ copy = Absent => Get(files) = None /\ Shown = None
      /\ copy # Absent => /\ Get(files) = copy /\ Get(files) # None
                          /\ Shown = [content |-> copy.content, of |-> copy.content]
                          /\ Shown # None
                          /\ copy.content \in Fetches /\ copy.content <= fetched
                          /\ copy.meta.of = copy.content /\ copy.meta \in Metadata
  BY ShownIsWhole
<1>4. /\ Ahead(call[t], files) /\ files["hashed"].content \in {None, 0}
      /\ call[t].page \in Fetches /\ call[t].page \in Nat /\ call[t].page <= fetched
  BY TypeFacts, Marks DEF IInv, DiskIsWhole, CallsFit, Fits, CallState
<1>5. Late(t) <=> /\ Get(files) # None
                  /\ IF call[t].page # 0
                     THEN Get(files).content \in Nat /\ Get(files).content > call[t].page
                     ELSE <<Get(files).content, Get(files).meta.of>>
                            # <<call[t].doc.content, call[t].doc.meta.of>>
  BY DEF Late
<1>6. ASSUME call[t].page # 0
      PROVE  /\ Whole(new, fetched) /\ new.content = call[t].page
             /\ Shown # None => new.content > Shown.content
  <2>1. /\ new.content = call[t].page /\ new.meta = Stored(call[t].page).meta
        /\ new.meta.of = call[t].page /\ new.meta \in Metadata
    BY <1>2, <1>4, <1>6, StoredIsTyped
  <2>2. Whole(new, fetched)
    BY <1>4, <2>1, Marks DEF Whole, Readable
  <2>3. ASSUME copy # Absent
        PROVE  call[t].page > copy.content
    <3>1. copy.content \in Nat /\ copy.content <= call[t].page
      <4>1. copy.content \in Nat /\ Get(files) = copy /\ Get(files) # None
        BY <1>3, <2>3, Marks
      <4>2. ~(copy.content > call[t].page)
        BY <1>5, <1>6, <4>1
      <4> QED BY <1>4, <4>1, <4>2
    <3>2. copy.content # call[t].page
      <4>1. CASE Resolve(files) = "nested"
        BY <1>4, <1>6, <4>1 DEF Ahead
      <4>2. CASE Resolve(files) = "hashed"
        BY <1>4, <1>6, <3>1, <4>2, Marks
      <4> QED BY <4>1, <4>2 DEF Resolve
    <3> QED BY <1>4, <3>1, <3>2
  <2> QED BY <1>3, <2>1, <2>2, <2>3
<1>7. ASSUME call[t].page = 0
      PROVE  Whole(new, fetched) /\ Shown = [content |-> new.content, of |-> new.content]
  <2>1. copy # Absent
    <3>1. PICK layout \in Layouts : files[layout] # Absent
      BY <1>4, <1>7 DEF Ahead, Writing
    <3> QED BY <3>1 DEF Resolve, Layouts
  <2>2. copy.content = new.content /\ copy.meta.of = new.meta.of
    BY <1>2, <1>3, <1>5, <1>7, <2>1
  <2>3. new.meta \in Metadata
    BY <1>2 DEF Documents
  <2>4. Whole(new, fetched)
    BY <1>3, <2>1, <2>2, <2>3, Marks DEF Whole, Readable
  <2> QED BY <1>3, <2>1, <2>2, <2>4
<1> QED BY <1>2, <1>6, <1>7 DEF Whole

LEMMA CommitStep == ASSUME IInv, NEW t \in Tasks, Commit(t) PROVE IInv'
<1>1. /\ call[t].at = "commit" /\ files' = [files EXCEPT !["nested"] = Merged(t)]
      /\ known' = Recorded(t) /\ UNCHANGED <<fetched, expired, orphans, swallowed, faults>>
      /\ \E answer \in Answers : End(t, answer)
  <2>1. {"stored", "failed"} \subseteq Answers
    BY DEF Answers
  <2> QED BY <2>1 DEF Commit
<1>2. excused' = (excused \/ Late(t))
  BY DEF Commit
<1>3. PICK c \in CallState : /\ call' = [call EXCEPT ![t] = c] /\ c.page = 0
                             /\ c.at \notin Writing
                             /\ staged' = [staged EXCEPT ![t] = None]
                             /\ Fits(c, None, fetched, TRUE) /\ Fits(c, None, fetched, FALSE)
  BY <1>1, GoneFits
<1>4. swallowed \in BOOLEAN /\ known' \in BOOLEAN \cup {None} /\ Merged(t) \in Files
  BY <1>1, TypeFacts, HalfMergedIsTyped DEF Recorded
<1>5. /\ files' \in [Layouts -> Files] /\ files'["nested"] = Merged(t)
      /\ files'["hashed"] = files["hashed"]
  BY <1>1, <1>4, NestedIsTyped
<1>6. /\ call' \in [Tasks -> CallState] /\ staged' \in [Tasks -> Files \cup {None}]
      /\ \A u \in Tasks : Fits(call'[u], staged'[u], fetched, swallowed')
  <2>1. Fits(c, None, fetched, swallowed')
    BY <1>1, <1>3, <1>4
  <2> QED BY <1>1, <1>3, <2>1, OtherCallsFit
<1>7. faults' \in 0 .. MaxFaults /\ OrphansCounted'
  BY <1>1, TypeFacts DEF IInv, OrphansCounted
<1>8. CASE excused \/ Late(t)
  <2>1. excused' = TRUE
    BY <1>2, <1>8, Zenon
  <2> QED BY <1>1, <1>4, <1>5, <1>6, <1>7, <2>1, Excused
<1>9. CASE ~excused /\ ~Late(t)
  <2>1. excused' = FALSE /\ excused' \in BOOLEAN
    BY <1>2, <1>9, Zenon
  <2>2. TypeOK'
    BY <1>1, <1>4, <1>5, <1>6, <2>1, TypeFacts DEF TypeOK, CallState, Stages, Answers
  <2>3. (swallowed => excused)' /\ CallsFit'
    BY <1>1, <1>6, <1>9 DEF IInv, CallsFit
  <2>4. /\ Merged(t) # Absent /\ Whole(Merged(t), fetched)
        /\ call[t].page # 0 => Merged(t).content = call[t].page
        /\ call[t].page = 0 => Shown = [content |-> Merged(t).content, of |-> Merged(t).content]
    BY <1>1, <1>9, CommitIsWhole
  <2>5. /\ \A layout \in Layouts : Whole(files[layout], fetched)
        /\ files["hashed"].content \in {None, 0}
        /\ \A u \in Tasks : Ahead(call[u], files)
        /\ \A u, v \in Tasks : u # v /\ call[u].page # 0 => call[v].page # call[u].page
    BY <1>9 DEF IInv, DiskIsWhole
  <2>6. \A u \in Tasks : call'[u] = IF u = t THEN c ELSE call[u]
    BY <1>3, TypeFacts
  <2>7. \A layout \in Layouts : Whole(files'[layout], fetched')
    BY <1>1, <1>5, <2>4, <2>5 DEF Layouts
  <2>8. ASSUME NEW u \in Tasks PROVE Ahead(call'[u], files')
    <3>1. CASE u = t
      BY <1>3, <2>6, <3>1 DEF Ahead
    <3>2. CASE u # t
      <4>1. call'[u] = call[u] /\ Ahead(call[u], files)
        BY <2>5, <2>6, <3>2
      <4>2. call[u].page # 0 => files'["nested"].content # call[u].page
        <5>1. CASE call[t].page # 0
          BY <1>5, <2>4, <2>5, <3>2, <5>1
        <5>2. CASE call[t].page = 0
          <6>1. Shown = [content |-> Merged(t).content, of |-> Merged(t).content]
            BY <2>4, <5>2
          <6>2. Merged(t).content = files[Resolve(files)].content
            <7>1. Shown # None
              BY <1>1, <1>9, <6>1, CommitIsWhole, ShownIsWhole, ViewIsSomething
            <7>2. Shown = [content |-> files[Resolve(files)].content,
                           of |-> files[Resolve(files)].content]
              BY <1>9, <7>1, ShownIsWhole
            <7> QED BY <6>1, <7>2
          <6>3. Merged(t).content # None
            BY <2>4, Marks DEF Whole
          <6> QED BY <1>5, <2>5, <4>1, <6>2, <6>3 DEF Ahead, Resolve
        <5> QED BY <5>1, <5>2
      <4>3. \E layout \in Layouts : files'[layout] # Absent
        BY <1>5, <2>4 DEF Layouts
      <4> QED BY <4>1, <4>2, <4>3 DEF Ahead
    <3> QED BY <3>1, <3>2
  <2>9. \A u, v \in Tasks : u # v /\ call'[u].page # 0 => call'[v].page # call'[u].page
    BY <1>3, <2>5, <2>6
  <2>10. DiskIsWhole'
    BY <1>5, <2>5, <2>7, <2>8, <2>9 DEF DiskIsWhole
  <2> QED BY <1>7, <2>2, <2>3, <2>10 DEF IInv
<1> QED BY <1>8, <1>9

LEMMA ElapseStep == ASSUME IInv, Elapse PROVE IInv'
<1>1. /\ expired' \in Fetches
      /\ UNCHANGED <<files, staged, call, fetched, known, orphans, swallowed, excused, faults>>
  BY TypeFacts DEF Elapse, history
<1>2. TypeOK'
  BY <1>1, TypeFacts DEF IInv, TypeOK
<1>3. (swallowed => excused)' /\ OrphansCounted' /\ CallsFit'
  BY <1>1 DEF IInv, OrphansCounted, CallsFit
<1>4. DiskIsWhole'
  BY <1>1 DEF IInv, DiskIsWhole
<1> QED BY <1>2, <1>3, <1>4 DEF IInv

\* Deleting empties a layout, the one that would be read first.
LEMMA DeletedFacts ==
    ASSUME NEW fs \in [Layouts -> Files]
    PROVE  /\ Deleted(fs) \in [Layouts -> Files]
           /\ \A layout \in Layouts : Deleted(fs)[layout] \in {fs[layout], Absent}
           /\ Deleted(fs)["nested"] = Absent
           /\ fs["nested"] = Absent => Deleted(fs)["hashed"] = Absent
  BY AbsentIsTyped DEF Deleted, Resolve, Layouts

LEMMA CleanupStep == ASSUME IInv, Cleanup PROVE IInv'
<1>1. /\ \A t \in Tasks : call[t].at = "idle"
      /\ UNCHANGED <<staged, call, fetched, expired, known, orphans, swallowed, excused, faults>>
      /\ files' = Deleted(files) \/ files' = Deleted(Deleted(files))
  BY DEF Cleanup, history
<1>2. files' \in [Layouts -> Files] /\ \A layout \in Layouts : files'[layout] \in {files[layout], Absent}
  BY <1>1, TypeFacts, DeletedFacts
<1>3. TypeOK'
  BY <1>1, <1>2, TypeFacts DEF IInv, TypeOK
<1>4. (swallowed => excused)' /\ OrphansCounted' /\ CallsFit'
  BY <1>1 DEF IInv, OrphansCounted, CallsFit
<1>5. \A t \in Tasks : call[t].page = 0
  BY <1>1 DEF IInv, CallsFit, Fits
<1>6. ASSUME ~excused
      PROVE  /\ \A layout \in Layouts : Whole(files'[layout], fetched)
             /\ files'["hashed"].content \in {None, 0}
             /\ \A t \in Tasks : Ahead(call[t], files')
  <2>1. /\ \A layout \in Layouts : Whole(files[layout], fetched)
        /\ files["hashed"].content \in {None, 0}
    BY <1>6 DEF IInv, DiskIsWhole
  <2> QED BY <1>1, <1>2, <1>5, <2>1, AbsentIsTyped DEF Whole, Layouts, Ahead, Writing
<1>7. DiskIsWhole'
  BY <1>1, <1>5, <1>6 DEF DiskIsWhole
<1> QED BY <1>3, <1>4, <1>7 DEF IInv

LEMMA HoldingIsBounded ==
    ASSUME NEW holding \in SUBSET Tasks
    PROVE  Cardinality(holding) \in Nat /\ Cardinality(holding) <= Cardinality(Tasks)
  BY TasksAssumption, FS_Subset, FS_CardinalityType

LEMMA KillStep == ASSUME IInv, Kill PROVE IInv'
<1> DEFINE holding == {t \in Tasks : staged[t] # None /\ Readable(staged[t].meta)}
<1>1. /\ Fault /\ call' = [t \in Tasks |-> Idle] /\ staged' = [t \in Tasks |-> None]
      /\ known' = None /\ UNCHANGED <<fetched, expired, swallowed>>
  BY DEF Kill
<1>2. /\ call' \in [Tasks -> CallState] /\ staged' \in [Tasks -> Files \cup {None}]
      /\ known' \in BOOLEAN \cup {None}
  BY <1>1, IdleIsTyped
<1>3. \A t \in Tasks : Fits(call'[t], staged'[t], fetched, swallowed')
  <2>1. fetched \in Nat
    BY TypeFacts
  <2> QED BY <1>1, <2>1, IdleIsTyped DEF Fits, Writing
<1>4. \A more \in SUBSET Tasks : orphans' = orphans + Cardinality(more)
                                   => faults' \in 0 .. MaxFaults /\ OrphansCounted'
  BY <1>1, HoldingIsBounded, FaultCounts
<1>5. CASE orphans' = orphans + Cardinality(holding) /\ UNCHANGED <<files, excused>>
  <2>1. faults' \in 0 .. MaxFaults /\ OrphansCounted'
    BY <1>4, <1>5
  <2>2. orphans' \in 0 .. MaxFaults * Cardinality(Tasks)
    BY <2>1, OrphansTyped DEF OrphansCounted
  <2>3. TypeOK'
    BY <1>1, <1>2, <1>5, <2>1, <2>2, TypeFacts DEF TypeOK, CallState, Stages, Answers
  <2>4. (swallowed => excused)' /\ CallsFit'
    BY <1>1, <1>3, <1>5 DEF IInv, CallsFit
  <2>5. \A t \in Tasks : Ahead(call'[t], files) /\ call'[t].page = 0
    BY <1>1, IdleIsTyped DEF Ahead, Writing
  <2>6. DiskIsWhole'
    BY <1>1, <1>5, <2>5 DEF IInv, DiskIsWhole
  <2> QED BY <2>1, <2>3, <2>4, <2>6 DEF IInv
<1>6. ASSUME NEW t \in Tasks, call[t].at = "commit", NEW left \in HalfMerged(t),
             files' = [files EXCEPT !["nested"] = left],
             orphans' = orphans + Cardinality(IF left.meta = None THEN holding ELSE holding \ {t}),
             excused' = TRUE
      PROVE  IInv'
  <2>1. left \in Files
    BY <1>6, HalfMergedIsTyped
  <2>2. files' \in [Layouts -> Files]
    BY <1>6, <2>1, NestedIsTyped
  <2>3. (IF left.meta = None THEN holding ELSE holding \ {t}) \in SUBSET Tasks
    OBVIOUS
  <2>4. faults' \in 0 .. MaxFaults /\ OrphansCounted'
    BY <1>4, <1>6, <2>3
  <2>5. swallowed' \in BOOLEAN
    BY <1>1, TypeFacts
  <2> QED BY <1>1, <1>2, <1>3, <1>6, <2>2, <2>4, <2>5, Excused
<1> QED BY <1>5, <1>6 DEF Kill

LEMMA InitSound == ASSUME Init PROVE IInv
<1>1. PICK old \in {Absent, [content |-> 0, meta |-> [of |-> 0, status |-> "success"]]} :
          files = [layout \in Layouts |-> IF layout = "hashed" THEN old ELSE Absent]
  BY DEF Init
<1>2. /\ staged = [t \in Tasks |-> None] /\ call = [t \in Tasks |-> Idle]
      /\ fetched = 0 /\ expired = 0 /\ known = None /\ orphans = 0
      /\ swallowed = FALSE /\ excused = FALSE /\ faults = 0
  BY DEF Init
<1>3. old \in Files /\ old.content \in {None, 0} /\ Whole(old, 0)
  <2>1. CASE old = Absent
    BY <2>1, AbsentIsTyped DEF Whole
  <2>2. CASE old # Absent
    <3>1. old = Stored(0) /\ Stored(0) \in Documents /\ Stored(0).content = 0
          /\ Stored(0).meta.of = 0 /\ Stored(0).meta \in Metadata
      BY <2>2, Marks, StoredIsTyped DEF Stored
    <3>2. Stored(0) \in Files
      BY <3>1, Marks DEF Documents, Files, Texts
    <3> QED BY <3>1, <3>2, Marks DEF Whole, Readable
  <2> QED BY <2>1, <2>2
<1>4. files \in [Layouts -> Files] /\ \A layout \in Layouts : files[layout] \in {old, Absent}
  BY <1>1, <1>3, AbsentIsTyped
<1>5. /\ call \in [Tasks -> CallState] /\ staged \in [Tasks -> Files \cup {None}]
      /\ \A t \in Tasks : call[t] = Idle /\ staged[t] = None
  BY <1>2, IdleIsTyped
<1>6. OrphansCounted /\ faults \in 0 .. MaxFaults
  BY <1>2, Marks, TasksAssumption, FS_CardinalityType, Products DEF OrphansCounted
<1>7. orphans \in 0 .. MaxFaults * Cardinality(Tasks)
  BY <1>6, OrphansTyped DEF OrphansCounted
<1>8. TypeOK
  <2>1. fetched \in Fetches /\ expired \in Fetches /\ known \in BOOLEAN \cup {None}
        /\ swallowed \in BOOLEAN /\ excused \in BOOLEAN
    BY <1>2, Marks
  <2> QED BY <1>4, <1>5, <1>6, <1>7, <2>1 DEF TypeOK, CallState, Stages, Answers
<1>9. CallsFit
  BY <1>2, <1>5, IdleIsTyped DEF CallsFit, Fits, Writing
<1>10. DiskIsWhole
  <2>1. \A layout \in Layouts : Whole(files[layout], fetched)
    BY <1>2, <1>3, <1>4, AbsentIsTyped DEF Whole
  <2>2. files["hashed"].content \in {None, 0}
    BY <1>3, <1>4, AbsentIsTyped DEF Layouts
  <2>3. \A t \in Tasks : Ahead(call[t], files) /\ call[t].page = 0
    BY <1>5, IdleIsTyped DEF Ahead, Writing
  <2> QED BY <2>1, <2>2, <2>3 DEF DiskIsWhole
<1> QED BY <1>2, <1>6, <1>8, <1>9, <1>10 DEF IInv

LEMMA StepSound == IInv /\ [Next]_vars => IInv'
<1> SUFFICES ASSUME IInv, [Next]_vars PROVE IInv'
  OBVIOUS
<1>1. ASSUME NEW t \in Tasks,
             \/ Begin(t) \/ ReadText(t) \/ ReadMeta(t) \/ Fetch(t)
             \/ WriteText(t) \/ WriteMeta(t) \/ WriteFails(t)
             \/ Commit(t) \/ CommitFails(t)
      PROVE  IInv'
  BY <1>1, BeginStep, ReadTextStep, ReadMetaStep, FetchStep, WriteTextStep, WriteMetaStep,
     WriteFailsStep, CommitStep, CommitFailsStep
<1>2. CASE Elapse
  BY <1>2, ElapseStep
<1>3. CASE Cleanup
  BY <1>3, CleanupStep
<1>4. CASE Kill
  BY <1>4, KillStep
<1>5. CASE UNCHANGED vars
  BY <1>5 DEF IInv, TypeOK, CallsFit, Fits, DiskIsWhole, Whole, Ahead, OrphansCounted,
     Stored, vars, history
<1> QED BY <1>1, <1>2, <1>3, <1>4, <1>5 DEF Next

LEMMA InvariantHolds == Spec => []IInv
BY InitSound, StepSound, PTL DEF Spec

\* Every state of the store is typed: no call is left in an answer or at a stage
\* the code does not know, and no more orphans pile up than calls were killed.
THEOREM TypeCorrect == Spec => []TypeOK
<1>1. IInv => TypeOK
  BY DEF IInv
<1> QED BY <1>1, InvariantHolds, PTL

-----------------------------------------------------------------------------
(* What a call answers.                                                    *)

CallStep(t) == \/ Begin(t) \/ ReadText(t) \/ ReadMeta(t) \/ Fetch(t)
               \/ WriteText(t) \/ WriteMeta(t) \/ WriteFails(t)
               \/ Commit(t) \/ CommitFails(t)

\* A call is moved on by its own steps and by a kill.
LEMMA OwnStep ==
    ASSUME IInv, [Next]_vars, NEW t \in Tasks, call'[t] # call[t]
    PROVE  CallStep(t) \/ Kill
<1>1. ASSUME NEW u \in Tasks, CallStep(u)
      PROVE  \E c : call' = [call EXCEPT ![u] = c]
  <2>1. ASSUME NEW doc, Got(u, doc)
        PROVE  \E c : call' = [call EXCEPT ![u] = c]
    BY <2>1 DEF Got, LookedUp, End, Leave, Continue
  <2>2. CASE ReadText(u)
    BY <2>1, <2>2 DEF ReadText
  <2>3. CASE ReadMeta(u)
    BY <2>1, <2>3 DEF ReadMeta, Raised, End, Leave
  <2>4. CASE Fetch(u)
    BY <2>4 DEF Fetch
  <2>5. CASE Begin(u) \/ WriteText(u) \/ WriteMeta(u) \/ WriteFails(u)
    BY <2>5 DEF Begin, WriteText, WriteMeta, WriteFails
  <2>6. CASE Commit(u) \/ CommitFails(u)
    BY <2>6 DEF Commit, CommitFails, Raised, End, Leave
  <2> QED BY <1>1, <2>2, <2>3, <2>4, <2>5, <2>6 DEF CallStep
<1>2. ASSUME NEW u \in Tasks, CallStep(u)
      PROVE  u = t
  <2>1. PICK c : call' = [call EXCEPT ![u] = c]
    BY <1>1, <1>2
  <2> QED BY <2>1, TypeFacts
<1>3. ~(Elapse \/ Cleanup \/ UNCHANGED vars)
  BY DEF Elapse, Cleanup, vars
<1>4. Kill \/ \E u \in Tasks : CallStep(u)
  BY <1>3 DEF Next, CallStep
<1> QED BY <1>2, <1>4

\* A call that answers from the cache has just read a document that is fresh.
LEMMA FreshRead ==
    ASSUME IInv, [Next]_vars, NEW t \in Tasks, call[t].at = "lookup", call'[t].answer = "fresh"
    PROVE  \E layout \in Layouts : /\ Readable(files[layout].meta)
                                   /\ files[layout].meta.of > expired
<1>1. call[t] \in CallState /\ call[t].answer = "none"
  BY TypeFacts DEF IInv, CallsFit, Fits
<1>2. call'[t] # call[t] /\ ~Kill
  BY <1>1, IdleIsTyped DEF Kill
<1>3. CallStep(t)
  BY <1>2, OwnStep
<1>4. ASSUME NEW doc, Got(t, doc) PROVE Fresh(doc)
  <2>1. LookedUp(t, doc)
    BY <1>4 DEF Got
  <2>2. ASSUME Leave(t, "fetch") PROVE FALSE
    <3>1. call' = [call EXCEPT ![t] = [call[t] EXCEPT !.at = "fetch", !.half = None,
                                                      !.doc = None, !.page = 0]]
      BY <2>2 DEF Leave
    <3>2. call'[t].answer = call[t].answer
      BY <1>1, <3>1, TypeFacts DEF CallState
    <3> QED BY <1>1, <3>2
  <2>3. ASSUME End(t, "similar") PROVE FALSE
    <3>1. call'[t].answer = "similar"
      BY <2>3, TypeFacts, IdleIsTyped DEF End, CallState
    <3> QED BY <3>1
  <2> QED BY <2>1, <2>2, <2>3 DEF LookedUp
<1>5. ReadText(t) \/ ReadMeta(t)
  BY <1>3 DEF CallStep, Begin, Fetch, WriteText, WriteMeta, WriteFails, Commit, CommitFails
<1>6. ASSUME NEW half, call'[t] = [call[t] EXCEPT !.half = half] PROVE FALSE
  BY <1>1, <1>6 DEF CallState
<1>7. ~Got(t, None)
  BY <1>4 DEF Fresh
<1>8. CASE ReadText(t)
  <2>1. \E half : call' = [call EXCEPT ![t].half = half]
    BY <1>7, <1>8 DEF ReadText
  <2> QED BY <1>6, <2>1, TypeFacts
<1>9. CASE ReadMeta(t)
  <2> DEFINE half == call[t].half
             meta == files[half.layout].meta
             doc == [content |-> half.content, meta |-> meta]
  <2>1. ~Raised(t)
    <3>1. call[t].page = 0
      BY DEF IInv, CallsFit, Fits
    <3>2. call'[t].answer = "raised" \/ ~Raised(t)
      BY <3>1, TypeFacts, IdleIsTyped DEF Raised, End, CallState
    <3> QED BY <3>2
  <2>2. Readable(meta) /\ Got(t, doc) /\ half # None
    BY <1>7, <1>9, <2>1 DEF ReadMeta
  <2>3. Fresh(doc)
    BY <1>4, <2>2
  <2>4. half.layout \in Layouts
    BY <1>1, <2>2 DEF CallState
  <2> QED BY <2>2, <2>3, <2>4 DEF Fresh
<1> QED BY <1>5, <1>8, <1>9

LEMMA FreshStep ==
    ASSUME IInv, [Next]_vars, NEW t \in Tasks, call[t].at = "lookup",
           call'[t].answer = "fresh", ~excused
    PROVE  Shown # None /\ Shown.content > expired
<1>1. PICK layout \in Layouts : Readable(files[layout].meta) /\ files[layout].meta.of > expired
  BY FreshRead
<1>2. expired \in Nat /\ Whole(files[layout], fetched) /\ files["hashed"].content \in {None, 0}
  BY TypeFacts, Marks DEF IInv, DiskIsWhole
<1>3. files[layout] # Absent
  BY <1>1, AbsentIsTyped DEF Readable
<1>4. files[layout].content \in Nat /\ files[layout].content > expired
  BY <1>1, <1>2, <1>3, Marks DEF Whole
<1>5. layout = "nested"
  BY <1>2, <1>4, Marks DEF Layouts
<1>6. Resolve(files) = layout
  BY <1>3, <1>5 DEF Resolve
<1>7. Shown # None /\ Shown = [content |-> files[layout].content, of |-> files[layout].content]
  BY <1>3, <1>6, ShownIsWhole
<1> QED BY <1>4, <1>7

\* A call that the freshness check answers for has, until a mishap, a document on
\* disk that was fetched within the interval, whatever the other calls write
\* (CacheService.check_and_fetch_page, FileSystemRepository.get).
THEOREM AnswersAreFresh == Spec => FreshMeansFresh
<1>1. IInv /\ [Next]_vars =>
        [\A t \in Tasks : call[t].at = "lookup" /\ call'[t].answer = "fresh" /\ ~excused
             => Shown # None /\ Shown.content > expired]_vars
  BY FreshStep
<1> QED BY <1>1, InvariantHolds, PTL DEF Spec, FreshMeansFresh

LEMMA StoredStep ==
    ASSUME IInv, [Next]_vars, NEW t \in Tasks, call[t].at = "commit",
           call'[t].answer = "stored", ~swallowed
    PROVE  Shown' = [content |-> call[t].page, of |-> call[t].page]
<1>1. /\ call[t] \in CallState /\ call[t].answer = "none" /\ call[t].page \in Fetches
  BY TypeFacts DEF IInv, CallsFit, Fits, CallState
<1>2. call'[t] # call[t] /\ ~Kill
  BY <1>1, IdleIsTyped DEF Kill
<1>3. CallStep(t)
  BY <1>2, OwnStep
<1>4. ASSUME NEW answer, End(t, answer) PROVE answer = "stored"
  BY <1>4, TypeFacts, IdleIsTyped DEF End, CallState
<1>5. ~CommitFails(t)
  <2>1. ASSUME Leave(t, "fail") PROVE FALSE
    <3>1. call' = [call EXCEPT ![t] = [call[t] EXCEPT !.at = "fail", !.half = None,
                                                      !.doc = None, !.page = 0]]
      BY <2>1 DEF Leave
    <3>2. call'[t].answer = call[t].answer
      BY <1>1, <3>1, TypeFacts DEF CallState
    <3> QED BY <1>1, <3>2
  <2> QED BY <1>4, <2>1 DEF CommitFails, Raised
<1>6. Commit(t)
  BY <1>3, <1>5 DEF CallStep, Begin, ReadText, ReadMeta, Reading, Fetch, WriteText, WriteMeta,
                    WriteFails
<1>7. call[t].page # 0
  BY <1>4, <1>6 DEF Commit
<1>8. /\ Merged(t) \in Files /\ Merged(t) # Absent
      /\ Merged(t) = [content |-> call[t].doc.content, meta |-> call[t].doc.meta]
      /\ call[t].doc = Stored(call[t].page)
  BY <1>7, StagedIsDoc
<1>9. Merged(t).content = call[t].page /\ Merged(t).meta.of = call[t].page
      /\ Merged(t).meta \in Metadata
  BY <1>1, <1>8, StoredIsTyped
<1>10. files'["nested"] = Merged(t)
  BY <1>6, <1>8, NestedIsTyped DEF Commit
<1>11. Resolve(files') = "nested"
  BY <1>8, <1>10 DEF Resolve
<1>12. Readable(Merged(t).meta)
  BY <1>9, Marks DEF Readable
<1>13. Shown' = IF files'[Resolve(files')] = Absent THEN None
                ELSE [content |-> files'[Resolve(files')].content,
                      of |-> IF Readable(files'[Resolve(files')].meta)
                             THEN files'[Resolve(files')].meta.of ELSE None]
  BY DEF Shown
<1> QED BY <1>8, <1>9, <1>10, <1>11, <1>12, <1>13

\* What a call reports as stored is the page it fetched, text and metadata, as a
\* reader then gets it, also over what a kill or an error has torn
\* (CacheService._cache_document, FileSystemUnitOfWork.commit).
THEOREM StoredIsRead == Spec => StoredIsOnDisk
<1>1. IInv /\ [Next]_vars =>
        [\A t \in Tasks : call[t].at = "commit" /\ call'[t].answer = "stored" /\ ~swallowed
             => Shown' = [content |-> call[t].page, of |-> call[t].page]]_vars
  BY StoredStep
<1> QED BY <1>1, InvariantHolds, PTL DEF Spec, StoredIsOnDisk

-----------------------------------------------------------------------------
(* The store implements DocumentCell.                                      *)

\* Nothing is shown once both layouts are empty.
LEMMA NothingShows ==
    ASSUME files'["nested"] = Absent, files'["hashed"] = Absent
    PROVE  Shown' = None
<1>1. files'[Resolve(files')] = Absent
  BY DEF Resolve
<1> QED BY <1>1 DEF Shown

LEMMA CleanupEmpties ==
    ASSUME IInv, Cleanup, ~excused
    PROVE  Shown' = None
<1> DEFINE readable == {layout \in Layouts : Readable(files[layout].meta)}
<1>1. \/ Cardinality(readable) + orphans = 1 /\ files' = Deleted(files)
      \/ Cardinality(readable) + orphans # 1 /\ files' = Deleted(Deleted(files))
  BY DEF Cleanup
<1>2. /\ files \in [Layouts -> Files] /\ Deleted(files) \in [Layouts -> Files]
      /\ Deleted(files)["nested"] = Absent
      /\ Deleted(files)["hashed"] \in {files["hashed"], Absent}
      /\ files["nested"] = Absent => Deleted(files)["hashed"] = Absent
      /\ Deleted(Deleted(files))["nested"] = Absent
      /\ Deleted(Deleted(files))["hashed"] = Absent
  BY TypeFacts, DeletedFacts
<1>3. ASSUME files["nested"] # Absent, files["hashed"] # Absent
      PROVE  files' = Deleted(Deleted(files))
  <2>1. \A layout \in Layouts : Readable(files[layout].meta)
    BY <1>3 DEF IInv, DiskIsWhole, Whole, Layouts
  <2>2. readable = {"nested", "hashed"}
    BY <2>1 DEF Layouts
  <2>3. "nested" # "hashed"
    OBVIOUS
  <2>4. Cardinality(readable) = 2
    <3>1. IsFiniteSet({"hashed"}) /\ Cardinality({"hashed"}) = 1
      BY FS_Singleton
    <3>2. Cardinality({"hashed"} \cup {"nested"}) = Cardinality({"hashed"}) + 1
      BY <2>3, <3>1, FS_AddElement
    <3>3. readable = {"hashed"} \cup {"nested"}
      BY <2>2
    <3> HIDE DEF readable
    <3> QED BY <3>1, <3>2, <3>3
  <2>5. orphans \in Nat
    BY DEF IInv, OrphansCounted
  <2>6. Cardinality(readable) + orphans # 1
    BY <2>4, <2>5
  <2> QED BY <1>1, <2>6
<1>4. files'["nested"] = Absent /\ files'["hashed"] = Absent
  BY <1>1, <1>2, <1>3
<1> QED BY <1>4, NothingShows

\* After the cleanup of a blacklisted prefix a reader gets nothing for the URL
\* until a mishap: the copy of the old layout is deleted with the other one
\* (SyncScheduler.delete_blacklisted_caches, FileSystemRepository.delete).
THEOREM CleanupIsFinal == Spec => CleanupForgets
<1>1. IInv /\ [Next]_vars => [Cleanup /\ ~excused => Shown' = None]_vars
  BY CleanupEmpties
<1> QED BY <1>1, InvariantHolds, PTL DEF Spec, CleanupForgets

\* A commit that is no mishap replaces what is shown by a newer fetch, or by the
\* same one.
LEMMA CommitReplaces ==
    ASSUME IInv, NEW t \in Tasks, Commit(t), ~excused'
    PROVE  Cell!Replace \/ UNCHANGED <<Shown, excused>>
<1> DEFINE new == Merged(t)
<1>1. call[t].at = "commit" /\ excused' = (excused \/ Late(t))
      /\ files' = [files EXCEPT !["nested"] = new]
  BY DEF Commit
<1>2. ~excused /\ ~Late(t)
  BY <1>1, Zenon
<1>3. excused' = excused
  BY <1>1, <1>2, TypeFacts, Zenon
<1>4. /\ new \in Files /\ new # Absent /\ Whole(new, fetched) /\ new.content \in Fetches
      /\ call[t].page # 0 => /\ new.content = call[t].page
                             /\ Shown # None => new.content > Shown.content
      /\ call[t].page = 0 => Shown = [content |-> new.content, of |-> new.content]
  BY <1>1, <1>2, CommitIsWhole
<1>5. files'["nested"] = new
  BY <1>1, <1>4, NestedIsTyped
<1>6. Resolve(files') = "nested"
  BY <1>4, <1>5 DEF Resolve
<1>7. Shown' = [content |-> new.content, of |-> new.content]
  BY <1>4, <1>5, <1>6 DEF Shown, Whole
<1>8. CASE call[t].page # 0
  BY <1>2, <1>3, <1>4, <1>7, <1>8 DEF Cell!Replace, Cell!Fetches, Fetches
<1>9. CASE call[t].page = 0
  BY <1>3, <1>4, <1>7, <1>9
<1> QED BY <1>8, <1>9

LEMMA CellStarts == ASSUME Init PROVE Cell!Init
<1>1. IInv /\ ~excused /\ excused = FALSE
  BY InitSound DEF Init
<1>2. files["hashed"].content \in {None, 0} /\ files["nested"] = Absent
  BY <1>1 DEF IInv, DiskIsWhole, Init, Layouts
<1>3. Resolve(files) = "hashed"
  BY <1>2 DEF Resolve
<1>4. CASE files["hashed"] = Absent
  <2>1. Shown = None
    BY <1>1, <1>3, <1>4, ShownIsWhole
  <2> QED BY <1>1, <2>1 DEF Cell!Init
<1>5. CASE files["hashed"] # Absent
  <2>1. /\ Shown = [content |-> files["hashed"].content, of |-> files["hashed"].content]
        /\ files["hashed"].content \in Fetches
    BY <1>1, <1>3, <1>5, ShownIsWhole
  <2>2. files["hashed"].content = 0
    BY <1>2, <2>1, Marks
  <2> QED BY <1>1, <2>1, <2>2 DEF Cell!Init
<1> QED BY <1>4, <1>5

LEMMA CellSteps == IInv /\ [Next]_vars => [Cell!Next]_<<Shown, excused>>
<1> SUFFICES ASSUME IInv, [Next]_vars
             PROVE  Cell!Replace \/ Cell!Delete \/ Cell!Mishap \/ UNCHANGED <<Shown, excused>>
  BY DEF Cell!Next
<1>1. ASSUME UNCHANGED <<files, excused>>
      PROVE  UNCHANGED <<Shown, excused>>
  BY <1>1 DEF Shown, Resolve
<1>2. CASE excused'
  <2>1. excused' = TRUE
    BY <1>2, StepSound, Zenon DEF IInv, TypeOK
  <2> QED BY <2>1 DEF Cell!Mishap
<1>3. ASSUME NEW t \in Tasks, CallStep(t), ~excused'
      PROVE  Cell!Replace \/ UNCHANGED <<Shown, excused>>
  <2>1. CASE Commit(t)
    BY <1>3, <2>1, CommitReplaces
  <2>2. CASE CommitFails(t) \/ WriteFails(t)
    BY <1>3, <2>2 DEF CommitFails, WriteFails
  <2>3. CASE \/ Begin(t) \/ ReadText(t) \/ ReadMeta(t) \/ Fetch(t) \/ WriteText(t) \/ WriteMeta(t)
    <3>1. UNCHANGED <<files, excused>>
      BY <2>3 DEF Begin, ReadText, ReadMeta, Fetch, WriteText, WriteMeta, history
    <3> QED BY <1>1, <3>1
  <2> QED BY <1>3, <2>1, <2>2, <2>3 DEF CallStep
<1>4. CASE Cleanup /\ ~excused'
  <2>1. excused' = excused /\ ~excused
    BY <1>4 DEF Cleanup, history
  <2> QED BY <1>4, <2>1, CleanupEmpties DEF Cell!Delete
<1>5. CASE Kill /\ ~excused'
  <2>1. UNCHANGED <<files, excused>>
    BY <1>5 DEF Kill
  <2> QED BY <1>1, <2>1
<1>6. CASE Elapse \/ UNCHANGED vars
  BY <1>1, <1>6 DEF Elapse, vars, history
<1> QED BY <1>2, <1>3, <1>4, <1>5, <1>6 DEF Next, CallStep

\* The store of a document implements DocumentCell: whatever calls, kills and
\* errors of the disk come between its reads and writes, a reader gets one whole
\* fetch, replaced only by a newer one or deleted, until a mishap
\* (FileSystemUnitOfWork.commit, FileSystemRepository.get, add, delete).
THEOREM StoreIsACell == Spec => ReplacedAsOne
  BY CellStarts, CellSteps, InvariantHolds, PTL DEF Spec, ReplacedAsOne, Cell!Spec
=============================================================================
