--------------------------- MODULE DocFetcher_proofs ---------------------------
(***************************************************************************)
(* Proofs about DocFetcher, for any number of fetches, proxies and         *)
(* browsers: as long as no two fetches replace the browser at once, none   *)
(* is left running unseen; the types; and the good proxy is found.  At the *)
(* end, about what is fetched and for whom: the names of a URL (UrlPaths), *)
(* of whatever words and depth, and a deployment of any tenants            *)
(* (Deployment).                                                           *)
(***************************************************************************)
EXTENDS MCDocFetcher, FiniteSetTheorems, SequenceTheorems, TLAPS

\* The records of a fetch, whatever proxies they hold.
Shaped(f) == DOMAIN f = {"at", "left", "blocked", "held", "tries", "result"}

Shape == DOMAIN fetch = Tasks /\ \A t \in Tasks : Shaped(fetch[t])

\* A fetch between the old browser and the new one, or at work with a browser.
Replaces(f) == f.at \in {"close", "open"}
Browses(f) == f.at \in {"close", "open", "browse"}

\* While the fetcher is being entered there is no browser, and nobody has one.
NothingBeforeEnter ==
    /\ running \subseteq Browsers
    /\ ~made => browser = 0 /\ running = {} /\ \A t \in Tasks : fetch[t].at = "idle"
    /\ \A t \in Tasks : fetch[t].at = "enter" =>
          /\ made /\ browser = 0 /\ running = {}
          /\ \A u \in Tasks : ~Browses(fetch[u]) /\ (fetch[u].at = "enter" => u = t)

\* Until two fetches replace the browser at once, the one that does closes the
\* browser there is, opens the next when there is none, and no other runs.
OneReplaces ==
    ~raced =>
        /\ running \subseteq {browser}
        /\ \A t \in Tasks : /\ fetch[t].at = "close" => fetch[t].held = browser
                            /\ fetch[t].at = "open" => browser = 0
        /\ \A t, u \in Tasks : Replaces(fetch[t]) /\ Replaces(fetch[u]) => t = u

IInv == Shape /\ NothingBeforeEnter /\ OneReplaces

\* What the steps of a fetch lead to when the browser stays: it may take the
\* browser there is, to close it or to work with it.
Fits(f) == /\ Shaped(f) /\ f.at # "enter"
           /\ f.at = "close" => f.held = browser
           /\ f.at = "open" => browser = 0

LEMMA PassFits == ASSUME NEW stage \in Requests, NEW first
                  PROVE  Fits(Pass(stage, first)) /\ ~Browses(Pass(stage, first))
  BY DEF Requests, Pass, Idle, Fits, Shaped, Browses

LEMMA EndedFits == ASSUME NEW result
                   PROVE  Fits(Ended(result)) /\ ~Browses(Ended(result)) /\ Shaped(Ended(result))
  BY DEF Ended, Idle, Fits, Shaped, Browses

LEMMA FallbackFits == \A f \in Fallback : Fits(f) /\ ~Browses(f)
<1>1. Fits([Idle EXCEPT !.at = "fallback"]) /\ ~Browses([Idle EXCEPT !.at = "fallback"])
  BY DEF Idle, Fits, Shaped, Browses
<1> QED BY <1>1, EndedFits DEF Fallback

LEMMA TurnFits == ASSUME NEW f, Shaped(f) PROVE \A g \in Turn(f) : Fits(g)
<1>1. \A g \in Exhausted(f, Fallback) : Fits(g)
  BY EndedFits, FallbackFits DEF Exhausted
<1>2. Fits([f EXCEPT !.at = IF browser # 0 THEN "close" ELSE "open", !.held = browser])
  BY DEF Fits, Shaped
<1>3. Fits([f EXCEPT !.at = "browse", !.held = browser])
  BY DEF Fits, Shaped
<1>4. \A g \in Use(f) : Fits(g)
  BY <1>3, FallbackFits DEF Use
<1> QED BY <1>1, <1>2, <1>4 DEF Turn

LEMMA AfterStageFits ==
    ASSUME NEW stage \in Requests, NEW first
    PROVE  \A f \in AfterStage(stage, first) : Fits(f) /\ (browser = 0 => ~Browses(f))
<1>1. Shaped(Pass("browse", first))
  BY DEF Pass, Idle, Shaped
<1>2. \A f \in Turn(Pass("browse", first)) : Fits(f)
  BY <1>1, TurnFits
<1>3. {"mirror.txt", "static"} \subseteq Requests
  BY DEF Requests
<1> QED BY <1>2, <1>3, PassFits, FallbackFits DEF AfterStage

\* Where Cardinality does not see two fetches that replace, there are none.
LEMMA NotTwo ==
    ASSUME NEW S \in SUBSET Tasks, ~(Cardinality(S) > 1), NEW t \in S, NEW u \in S
    PROVE  t = u
<1> SUFFICES ASSUME t # u PROVE FALSE
  OBVIOUS
<1>1. IsFiniteSet(S) /\ Cardinality(S) \in Nat
  BY TasksAssumption, FS_Subset, FS_CardinalityType
<1>2. IsFiniteSet({t, u}) /\ Cardinality({t, u}) <= Cardinality(S)
  BY <1>1, FS_Subset
<1>3. Cardinality({t}) = 1 /\ IsFiniteSet({t})
  BY FS_Singleton
<1>4. {t, u} = {t} \cup {u}
  OBVIOUS
<1>5. Cardinality({t} \cup {u}) = 2
  BY <1>3, FS_AddElement
<1> QED BY <1>1, <1>2, <1>4, <1>5

\* A step of one fetch that leaves the browsers alone.
LEMMA BrowserStays ==
    ASSUME IInv, NEW t \in Tasks, NEW f, fetch' = [fetch EXCEPT ![t] = f], Fits(f),
           UNCHANGED <<made, browser>>, running' \subseteq running, made, ~raced' => ~raced,
           Browses(f) => browser # 0 \/ Browses(fetch[t]),
           ~raced' /\ Replaces(f) => \A u \in Tasks : Replaces(fetch[u]) => u = t
    PROVE  IInv'
<1>1. \A u \in Tasks : fetch'[u] = IF u = t THEN f ELSE fetch[u]
  BY DEF IInv, Shape
<1>2. Shape'
  BY <1>1 DEF IInv, Shape, Fits
<1>3. NothingBeforeEnter'
  BY <1>1 DEF IInv, NothingBeforeEnter, Fits
<1>4. OneReplaces'
  BY <1>1 DEF IInv, OneReplaces, Fits
<1> QED BY <1>2, <1>3, <1>4 DEF IInv

LEMMA RacesMarked ==
    ASSUME IInv, NEW t \in Tasks, NEW f, fetch' = [fetch EXCEPT ![t] = f], MarksRaces
    PROVE  /\ ~raced' => ~raced
           /\ ~raced' /\ Replaces(f) => \A u \in Tasks : Replaces(fetch[u]) => u = t
<1> DEFINE S == {u \in Tasks : fetch'[u].at \in {"close", "open"}}
<1>1. ~raced' => ~raced /\ ~(Cardinality(S) > 1)
  BY Zenon DEF MarksRaces
<1>2. \A u \in Tasks : fetch'[u] = IF u = t THEN f ELSE fetch[u]
  BY DEF IInv, Shape
<1>3. Replaces(f) => t \in S
  BY <1>2 DEF Replaces
<1>4. \A u \in Tasks : u # t /\ Replaces(fetch[u]) => u \in S
  BY <1>2 DEF Replaces
<1>5. S \in SUBSET Tasks
  OBVIOUS
<1> HIDE DEF S
<1>6. ~(Cardinality(S) > 1) => \A u, v \in S : u = v
  BY <1>5, NotTwo
<1> QED BY <1>1, <1>3, <1>4, <1>6

LEMMA BeginStep == ASSUME IInv, NEW t \in Tasks, Begin(t) PROVE IInv'
<1>1. CASE made
  <2>1. PICK f \in {Pass("mirror", active), Pass("static", active)} :
          fetch' = [fetch EXCEPT ![t] = f]
    BY <1>1 DEF Begin, Begins, Goes
  <2>2. Fits(f) /\ ~Browses(f)
    BY <2>1, PassFits DEF Requests
  <2> QED BY <1>1, <2>1, <2>2, BrowserStays DEF Begin, Browses, Replaces, shared, history
<1>2. CASE ~made
  <2> DEFINE f == Pass("enter", active)
  <2>1. fetch' = [fetch EXCEPT ![t] = f] /\ made' /\ UNCHANGED <<browser, running, raced>>
    BY <1>2 DEF Begin, Goes
  <2>2. Shaped(f) /\ f.at = "enter"
    BY DEF Pass, Idle, Shaped
  <2> HIDE DEF f
  <2>3. \A u \in Tasks : fetch'[u] = IF u = t THEN f ELSE fetch[u]
    BY <2>1 DEF IInv, Shape
  <2>4. \A u \in Tasks : fetch[u].at = "idle"
    BY <1>2 DEF IInv, NothingBeforeEnter
  <2>5. Shape'
    BY <2>1, <2>2, <2>3 DEF IInv, Shape
  <2>6. NothingBeforeEnter'
    BY <1>2, <2>1, <2>2, <2>3, <2>4 DEF IInv, NothingBeforeEnter, Browses
  <2>7. OneReplaces'
    BY <1>2, <2>1, <2>2, <2>3, <2>4 DEF IInv, NothingBeforeEnter, OneReplaces, Replaces
  <2> QED BY <2>5, <2>6, <2>7 DEF IInv
<1> QED BY <1>1, <1>2

\* The first browser opens: nobody had one.
LEMMA EnterOpens ==
    ASSUME IInv, NEW t \in Tasks, fetch[t].at = "enter", NEW b, Opened(t, b),
           Begins(t, active'), UNCHANGED <<made, raced>>
    PROVE  IInv'
<1>1. PICK f \in {Pass("mirror", active'), Pass("static", active')} :
        fetch' = [fetch EXCEPT ![t] = f]
  BY DEF Begins, Goes
<1>2. Fits(f) /\ ~Browses(f)
  BY <1>1, PassFits DEF Requests
<1>3. \A u \in Tasks : fetch'[u] = IF u = t THEN f ELSE fetch[u]
  BY <1>1 DEF IInv, Shape
<1>4. /\ made /\ running = {} /\ \A u \in Tasks : ~Browses(fetch[u])
      /\ \A u \in Tasks : fetch[u].at = "enter" => u = t
  BY DEF IInv, NothingBeforeEnter
<1>5. b \in Browsers /\ running' = {b} /\ browser' = b
  BY <1>4 DEF Opened
<1>6. Shape'
  BY <1>1, <1>2, <1>3 DEF IInv, Shape, Fits
<1>7. NothingBeforeEnter'
  BY <1>2, <1>3, <1>4, <1>5 DEF NothingBeforeEnter, Fits
<1>8. OneReplaces'
  BY <1>2, <1>3, <1>4, <1>5 DEF OneReplaces, Browses, Replaces
<1> QED BY <1>6, <1>7, <1>8 DEF IInv

\* The next browser is not there; the fetcher is tried over another proxy, or not.
LEMMA EnterFails ==
    ASSUME IInv, NEW t \in Tasks, fetch[t].at = "enter", NEW f, Shaped(f),
           f.at \in {"enter", "idle"}, fetch' = [fetch EXCEPT ![t] = f],
           UNCHANGED <<made, browser, running, raced>>
    PROVE  IInv'
<1>1. \A u \in Tasks : fetch'[u] = IF u = t THEN f ELSE fetch[u]
  BY DEF IInv, Shape
<1>2. Shape'
  BY <1>1 DEF IInv, Shape
<1>3. NothingBeforeEnter'
  BY <1>1 DEF IInv, NothingBeforeEnter, Browses
<1>4. OneReplaces'
  BY <1>1 DEF IInv, OneReplaces, Replaces
<1> QED BY <1>2, <1>3, <1>4 DEF IInv

LEMMA EnterStep == ASSUME IInv, NEW t \in Tasks, Enter(t) PROVE IInv'
<1>1. fetch[t].at = "enter" /\ UNCHANGED <<made, raced>>
  BY DEF Enter, history
<1>2. ASSUME NEW b \in Browsers, Opened(t, b), Begins(t, active') PROVE IInv'
  BY <1>1, <1>2, EnterOpens
<1>3. ASSUME Goes(t, IF Len(fetch[t].left) > 1
                     THEN {[fetch[t] EXCEPT !.left = Tail(@)]} ELSE {Ended("raised")}),
             UNCHANGED <<browser, running>>
      PROVE  IInv'
  <2> DEFINE g == [fetch[t] EXCEPT !.left = Tail(@)]
  <2>1. Shaped(g) /\ g.at = "enter"
    BY <1>1 DEF IInv, Shape, Shaped
  <2>2. Shaped(Ended("raised")) /\ Ended("raised").at = "idle"
    BY DEF Ended, Idle, Shaped
  <2>3. PICK f \in {g, Ended("raised")} : fetch' = [fetch EXCEPT ![t] = f]
    BY <1>3 DEF Goes
  <2> QED BY <1>1, <1>3, <2>1, <2>2, <2>3, EnterFails
<1> QED BY <1>2, <1>3 DEF Enter

LEMMA NextFits ==
    ASSUME NEW f, Shaped(f), NEW answer
    PROVE  Shaped(NextProxy(f, answer)) /\ NextProxy(f, answer).at = f.at
  BY DEF NextProxy, Shaped

LEMMA RequestStep == ASSUME IInv, NEW t \in Tasks, Request(t) PROVE IInv'
<1> DEFINE f == fetch[t]
<1>1. Shaped(f) /\ f.at \in Requests
  BY DEF IInv, Shape, Request
<1>2. made
  BY <1>1 DEF IInv, NothingBeforeEnter, Requests
<1>3. PICK answer :
        Goes(t, IF answer = "page" THEN {Ended("page")}
                ELSE IF answer = "other" THEN AfterStage(f.at, active')
                ELSE IF NextProxy(f, answer).left = << >>
                     THEN Exhausted(NextProxy(f, answer), AfterStage(f.at, active'))
                ELSE {NextProxy(f, answer)})
  BY DEF Request
<1>4. PICK g : /\ fetch' = [fetch EXCEPT ![t] = g]
               /\ \/ g \in {Ended("page"), Ended("blocked"), NextProxy(f, answer)}
                  \/ g \in AfterStage(f.at, active')
  BY <1>3 DEF Goes, Exhausted
<1>5. Fits(NextProxy(f, answer)) /\ ~Browses(NextProxy(f, answer))
  BY <1>1, NextFits DEF Requests, Fits, Browses
<1>6. Fits(g) /\ (browser = 0 => ~Browses(g))
  BY <1>1, <1>4, <1>5, EndedFits, AfterStageFits
<1>7. MarksRaces /\ UNCHANGED <<made, browser, running>>
  BY DEF Request
<1> QED BY <1>2, <1>4, <1>6, <1>7, RacesMarked, BrowserStays

\* With a fetch between two browsers nobody enters the fetcher.
LEMMA NobodyEnters ==
    ASSUME IInv, NEW t \in Tasks, Browses(fetch[t])
    PROVE  made /\ \A u \in Tasks : fetch[u].at # "enter"
  BY DEF IInv, NothingBeforeEnter, Browses

\* The old browser is closed.
LEMMA CloseCloses ==
    ASSUME IInv, NEW t \in Tasks, fetch[t].at = "close", browser' = 0,
           running' = running \ {fetch[t].held},
           Goes(t, {[fetch[t] EXCEPT !.at = "open", !.held = 0]}), ~raced' => ~raced,
           UNCHANGED made
    PROVE  IInv'
<1> DEFINE f == [fetch[t] EXCEPT !.at = "open", !.held = 0]
<1>1. fetch' = [fetch EXCEPT ![t] = f]
  BY DEF Goes
<1>2. Shaped(f) /\ f.at = "open"
  BY DEF IInv, Shape, Shaped
<1> HIDE DEF f
<1>3. \A u \in Tasks : fetch'[u] = IF u = t THEN f ELSE fetch[u]
  BY <1>1 DEF IInv, Shape
<1>4. made /\ \A u \in Tasks : fetch[u].at # "enter"
  BY NobodyEnters DEF Browses
<1>5. Shape'
  BY <1>1, <1>2, <1>3 DEF IInv, Shape
<1>6. NothingBeforeEnter'
  BY <1>1, <1>2, <1>3, <1>4 DEF IInv, NothingBeforeEnter
<1>7. OneReplaces'
  BY <1>1, <1>2, <1>3 DEF IInv, OneReplaces, Replaces
<1> QED BY <1>5, <1>6, <1>7 DEF IInv

\* A browser could not be opened or closed, and the fetch takes its next turn.
LEMMA Rotates ==
    ASSUME IInv, NEW t \in Tasks, Replaces(fetch[t]), MarksRaces,
           Goes(t, Turn(NextProxy(fetch[t], "error"))), UNCHANGED <<made, browser>>,
           running' \subseteq running
    PROVE  IInv'
<1>1. PICK f \in Turn(NextProxy(fetch[t], "error")) : fetch' = [fetch EXCEPT ![t] = f]
  BY DEF Goes
<1>2. Fits(f)
  BY <1>1, NextFits, TurnFits DEF IInv, Shape
<1>3. made /\ Browses(fetch[t])
  BY NobodyEnters DEF Browses, Replaces
<1> QED BY <1>1, <1>2, <1>3, RacesMarked, BrowserStays

LEMMA CloseStep == ASSUME IInv, NEW t \in Tasks, Close(t) PROVE IInv'
<1>1. fetch[t].at = "close" /\ MarksRaces /\ UNCHANGED made /\ (~raced' => ~raced)
  BY Zenon DEF Close, MarksRaces
<1>2. ASSUME running' = running \ {fetch[t].held}, browser' = 0,
             Goes(t, {[fetch[t] EXCEPT !.at = "open", !.held = 0]})
      PROVE  IInv'
  BY <1>1, <1>2, CloseCloses
<1>3. ASSUME running' \in {running, running \ {fetch[t].held}}, UNCHANGED browser,
             Goes(t, Turn(NextProxy(fetch[t], "error")))
      PROVE  IInv'
  <2>1. running' \subseteq running
    BY <1>3
  <2> QED BY <1>1, <1>3, <2>1, Rotates DEF Replaces
<1> QED BY <1>2, <1>3 DEF Close

\* The next browser opens when the old one is closed.
LEMMA OpenOpens ==
    ASSUME IInv, NEW t \in Tasks, fetch[t].at = "open", NEW b, Opened(t, b),
           Goes(t, {[fetch[t] EXCEPT !.at = "browse", !.held = b]}), ~raced' => ~raced,
           UNCHANGED made
    PROVE  IInv'
<1> DEFINE f == [fetch[t] EXCEPT !.at = "browse", !.held = b]
<1>1. fetch' = [fetch EXCEPT ![t] = f]
  BY DEF Goes
<1>2. Shaped(f) /\ f.at = "browse"
  BY DEF IInv, Shape, Shaped
<1> HIDE DEF f
<1>3. \A u \in Tasks : fetch'[u] = IF u = t THEN f ELSE fetch[u]
  BY <1>1 DEF IInv, Shape
<1>4. made /\ \A u \in Tasks : fetch[u].at # "enter"
  BY NobodyEnters DEF Browses
<1>5. b \in Browsers /\ running' = running \cup {b} /\ browser' = b
  BY DEF Opened
<1>6. Shape'
  BY <1>1, <1>2, <1>3 DEF IInv, Shape
<1>7. NothingBeforeEnter'
  BY <1>2, <1>3, <1>4, <1>5 DEF IInv, NothingBeforeEnter
<1>8. ~raced => running = {}
  BY DEF IInv, OneReplaces, NothingBeforeEnter, Browsers
<1>9. OneReplaces'
  BY <1>2, <1>3, <1>5, <1>8 DEF IInv, OneReplaces, Replaces
<1> QED BY <1>6, <1>7, <1>9 DEF IInv

LEMMA OpenStep == ASSUME IInv, NEW t \in Tasks, Open(t) PROVE IInv'
<1>1. fetch[t].at = "open" /\ MarksRaces /\ UNCHANGED made /\ (~raced' => ~raced)
  BY Zenon DEF Open, MarksRaces
<1>2. ASSUME NEW b \in Browsers, Opened(t, b),
             Goes(t, {[fetch[t] EXCEPT !.at = "browse", !.held = b]})
      PROVE  IInv'
  BY <1>1, <1>2, OpenOpens
<1>3. ASSUME Goes(t, Turn(NextProxy(fetch[t], "error"))), UNCHANGED <<browser, running>>
      PROVE  IInv'
  BY <1>1, <1>3, Rotates DEF Replaces
<1> QED BY <1>2, <1>3 DEF Open

LEMMA BrowseStep == ASSUME IInv, NEW t \in Tasks, Browse(t) PROVE IInv'
<1> DEFINE f == fetch[t]
<1>1. /\ f.at = "browse" /\ MarksRaces /\ UNCHANGED <<made, browser, running>>
      /\ \E answer : Goes(t, IF answer = "page" THEN {Ended("page")}
                             ELSE IF answer = "other" THEN Fallback
                             ELSE Turn(NextProxy(f, answer)))
  BY DEF Browse
<1>2. PICK answer, g : /\ fetch' = [fetch EXCEPT ![t] = g]
                       /\ g \in {Ended("page")} \cup Fallback \cup Turn(NextProxy(f, answer))
  BY <1>1 DEF Goes
<1>3. Fits(g)
  BY <1>2, EndedFits, FallbackFits, NextFits, TurnFits DEF IInv, Shape
<1>4. made /\ Browses(f)
  BY <1>1, NobodyEnters DEF Browses
<1> QED BY <1>1, <1>2, <1>3, <1>4, RacesMarked, BrowserStays

LEMMA AskStep == ASSUME IInv, NEW t \in Tasks, Ask(t) PROVE IInv'
<1> DEFINE again == [fetch[t] EXCEPT !.tries = @ + 1]
<1>1. fetch[t].at = "fallback" /\ UNCHANGED <<made, browser, running, raced>>
  BY DEF Ask, shared, history
<1>2. PICK f \in {Ended("page"), again, Ended("failed")} : fetch' = [fetch EXCEPT ![t] = f]
  BY DEF Ask, Goes
<1>3. Fits(again) /\ ~Browses(again)
  BY <1>1 DEF IInv, Shape, Shaped, Fits, Browses
<1>4. Fits(f) /\ ~Browses(f)
  BY <1>2, <1>3, EndedFits
<1>5. made
  BY <1>1 DEF IInv, NothingBeforeEnter
<1> QED BY <1>1, <1>2, <1>4, <1>5, BrowserStays DEF Browses, Replaces

\* As long as no two fetches replace the browser at once, every browser process
\* is the fetcher's browser or in a fetch's hands, for any number of fetches,
\* proxies and candidates that do not open (_activate_playwright_proxy).
THEOREM NoneIsLost == FairSpec => []NoBrowserIsLost
<1>1. Init => IInv
  BY DEF Init, Idle, IInv, Shape, Shaped, NothingBeforeEnter, OneReplaces, Replaces
<1>2. IInv /\ [Next]_vars => IInv'
  <2> SUFFICES ASSUME IInv, [Next]_vars PROVE IInv'
    OBVIOUS
  <2>1. ASSUME NEW t \in Tasks, Begin(t) \/ Step(t) PROVE IInv'
    BY <2>1, BeginStep, EnterStep, RequestStep, CloseStep, OpenStep, BrowseStep, AskStep
       DEF Step
  <2>2. CASE UNCHANGED vars
    BY <2>2 DEF vars, shared, history, IInv, Shape, NothingBeforeEnter, OneReplaces
  <2> QED BY <2>1, <2>2 DEF Next
<1>3. IInv => NoBrowserIsLost
  BY DEF IInv, OneReplaces, NoBrowserIsLost
<1> QED BY <1>1, <1>2, <1>3, PTL DEF FairSpec
-----------------------------------------------------------------------------
(* Types, and the round over the proxies.                                  *)

Results == {"none", "page", "blocked", "failed", "raised"}

FetchState == [at : Stages, left : Seq(Proxies), blocked : BOOLEAN, held : 0 .. MaxBrowsers,
               tries : 0 .. MaxRetries, result : Results]

\* The stages that work with the first of the candidates that are left.
Trying == Requests \cup {"enter", "close", "open", "browse"}

Supplied(f) == f \in FetchState /\ (f.at \in Trying => f.left # << >>)

\* The good proxy is among those that a fetch has left; a fetch that is over has
\* its page, or the start of the fetcher has ended it.
Ahead(f) == /\ f.result \notin {"blocked", "failed"}
            /\ f.at # "fallback"
            /\ f.at \notin {"idle", "enter"} => \E i \in 1 .. Len(f.left) : f.left[i] = good

\* So it is with every fetch that nothing has kept from the good proxy.
GoodIsAhead(f, kept) == good # Direct /\ kept = FALSE => Ahead(f)

\* Where _active_index stands.
Places == IF count = 0 THEN {0} ELSE Proxies

Setup == count \in Nat /\ good \in Proxies \cup {Direct}

SoundInv ==
    /\ TypeOK
    /\ \A t \in Tasks : Supplied(fetch[t]) /\ GoodIsAhead(fetch[t], misled[t])

\* The remainder at the ends of the round.
LEMMA Remainders ==
    ASSUME NEW n \in Nat \ {0}
    PROVE  /\ \A k \in 0 .. n - 1 : k % n = k /\ (k + n) % n = k
           /\ \A k \in Nat : k % n \in 0 .. n - 1
<1>1. ASSUME NEW k \in 0 .. n - 1 PROVE k % n = k
  OBVIOUS
<1>2. ASSUME NEW k \in 0 .. n - 1 PROVE (k + n) % n = k
  OBVIOUS
<1>3. ASSUME NEW k \in Nat PROVE k % n \in 0 .. n - 1
  OBVIOUS
<1> QED BY <1>1, <1>2, <1>3

\* Wherever the round begins, it comes past every proxy.
LEMMA CandidatesAreAll ==
    ASSUME Setup, NEW first \in Places
    PROVE  /\ Candidates(first) \in Seq(Proxies) /\ Candidates(first) # << >>
           /\ good # Direct => \E i \in 1 .. Len(Candidates(first)) : Candidates(first)[i] = good
<1>1. CASE count = 0
  BY <1>1 DEF Setup, Candidates, Proxies
<1>2. CASE count # 0
  <2>1. /\ count \in Nat \ {0} /\ first \in 0 .. count - 1 /\ Proxies = 0 .. count - 1
        /\ Candidates(first) = [i \in 1 .. count |-> (first + i - 1) % count]
    BY <1>2 DEF Setup, Places, Proxies, Candidates
  <2>2. ASSUME NEW i \in 1 .. count PROVE (first + i - 1) % count \in Proxies
    <3>1. first + i - 1 \in Nat
      BY <2>1
    <3> QED BY <2>1, <3>1, Remainders
  <2>3. Candidates(first) \in Seq(Proxies) /\ Len(Candidates(first)) = count
    BY <2>1, <2>2
  <2>4. ASSUME good # Direct
        PROVE  \E i \in 1 .. count : Candidates(first)[i] = good
    <3>1. good \in 0 .. count - 1
      BY <2>1, <2>4 DEF Setup
    <3>2. CASE good >= first
      <4>1. PICK i \in 1 .. count : first + i - 1 = good
        <5>1. good - first + 1 \in 1 .. count /\ first + (good - first + 1) - 1 = good
          BY <2>1, <3>1, <3>2
        <5> QED BY <5>1
      <4> QED BY <2>1, <3>1, <4>1, Remainders
    <3>3. CASE good < first
      <4>1. PICK i \in 1 .. count : first + i - 1 = good + count
        <5>1. good + count - first + 1 \in 1 .. count
              /\ first + (good + count - first + 1) - 1 = good + count
          BY <2>1, <3>1, <3>3
        <5> QED BY <5>1
      <4>2. (good + count) % count = good
        BY <2>1, <3>1, Remainders
      <4> QED BY <2>1, <4>1, <4>2
    <3> QED BY <2>1, <3>1, <3>2, <3>3
  <2>5. Candidates(first) # << >>
    BY <2>1, <2>3
  <2> QED BY <2>3, <2>4, <2>5
<1> QED BY <1>1, <1>2

LEMMA IdleIsTyped == Idle \in FetchState
<1> DEFINE zero == 0
           no == FALSE
           nothing == << >>
<1>1. zero \in 0 .. MaxBrowsers /\ zero \in 0 .. MaxRetries
  BY BoundsAssumption
<1>2. no \in BOOLEAN /\ "idle" \in Stages /\ "none" \in Results /\ nothing \in Seq(Proxies)
  BY DEF Stages, Results
<1>3. Idle = [at |-> "idle", left |-> nothing, blocked |-> no, held |-> zero, tries |-> zero,
             result |-> "none"]
  BY DEF Idle
<1> HIDE DEF zero, no, nothing
<1> QED BY <1>1, <1>2, <1>3 DEF FetchState

LEMMA PassIsSound ==
    ASSUME Setup, NEW stage \in Stages \ {"fallback"}, NEW first \in Places
    PROVE  Supplied(Pass(stage, first)) /\ (good # Direct => Ahead(Pass(stage, first)))
<1> DEFINE f == Pass(stage, first)
<1>1. f.at = stage /\ f.left = Candidates(first) /\ f.result = "none"
  BY DEF Pass, Idle
<1>2. f \in FetchState
  BY IdleIsTyped, CandidatesAreAll DEF Pass, FetchState
<1> HIDE DEF f
<1>3. Supplied(f)
  BY <1>1, <1>2, CandidatesAreAll DEF Supplied
<1>4. good # Direct => Ahead(f)
  BY <1>1, CandidatesAreAll DEF Ahead
<1> QED BY <1>3, <1>4 DEF f

LEMMA EndedIsSound ==
    ASSUME NEW result \in Results
    PROVE  /\ Supplied(Ended(result))
           /\ result \notin {"blocked", "failed"} => Ahead(Ended(result))
<1>1. Ended(result).at = "idle" /\ Ended(result).result = result
  BY DEF Ended, Idle
<1>2. Ended(result) \in FetchState
  BY IdleIsTyped DEF Ended, FetchState
<1> QED BY <1>1, <1>2 DEF Supplied, Ahead, Requests, Trying

LEMMA FallbackIsSound == \A f \in Fallback : Supplied(f)
<1> DEFINE f == [Idle EXCEPT !.at = "fallback"]
<1>1. "fallback" \in Stages
  BY DEF Stages
<1>2. f \in FetchState /\ f.at = "fallback"
  BY <1>1, IdleIsTyped DEF FetchState
<1> HIDE DEF f
<1>3. Supplied(f)
  BY <1>2 DEF Supplied, Requests, Trying
<1> QED BY <1>3, EndedIsSound DEF Fallback, Results, f

\* The next candidate.
LEMMA NextIsTyped ==
    ASSUME NEW f \in FetchState, f.left # << >>, NEW answer
    PROVE  /\ NextProxy(f, answer) \in FetchState
           /\ NextProxy(f, answer).left = Tail(f.left) /\ NextProxy(f, answer).at = f.at
           /\ NextProxy(f, answer).result = f.result
           /\ Head(f.left) \in Proxies
<1>1. f.left \in Seq(Proxies)
  BY DEF FetchState
<1>2. Tail(f.left) \in Seq(Proxies) /\ Head(f.left) \in Proxies
  BY <1>1
<1>3. (f.blocked \/ answer = "block") \in BOOLEAN
  OBVIOUS
<1> QED BY <1>2, <1>3 DEF NextProxy, FetchState

LEMMA LongTails ==
    ASSUME NEW S, NEW s \in Seq(S), Len(s) > 1
    PROVE  Tail(s) # << >>
<1>1. s # << >>
  OBVIOUS
<1>2. PICK n \in Nat : n = Len(s)
  OBVIOUS
<1>3. Len(Tail(s)) = n - 1
  BY <1>1, <1>2
<1>4. n - 1 # 0
  BY <1>2
<1> QED BY <1>3, <1>4

\* A proxy that is not the good one leaves the good one ahead.
LEMMA NextIsAhead ==
    ASSUME NEW f \in FetchState, f.left # << >>, NEW answer,
           f.at \notin {"idle", "enter", "fallback"}, Ahead(f), Head(f.left) # good
    PROVE  NextProxy(f, answer).left # << >> /\ Ahead(NextProxy(f, answer))
<1> DEFINE g == NextProxy(f, answer)
<1>1. g.left = Tail(f.left) /\ g.at = f.at /\ g.result = f.result /\ f.left \in Seq(Proxies)
  BY NextIsTyped DEF FetchState
<1>2. PICK i \in 1 .. Len(f.left) : f.left[i] = good
  BY DEF Ahead
<1>3. i # 1
  BY <1>1, <1>2
<1>4. /\ i - 1 \in 1 .. Len(Tail(f.left)) /\ Tail(f.left)[i - 1] = good
      /\ Tail(f.left) # << >>
  <2>1. Len(f.left) \in Nat /\ Len(Tail(f.left)) = Len(f.left) - 1
    BY <1>1
  <2>2. i - 1 \in 1 .. Len(Tail(f.left))
    BY <1>2, <1>3, <2>1
  <2>3. Tail(f.left)[i - 1] = f.left[i]
    BY <1>1, <1>2, <1>3, <2>1, <2>2
  <2>4. Len(f.left) > 1
    BY <2>1, <2>2
  <2>5. Tail(f.left) # << >>
    BY <1>1, <2>4, LongTails
  <2> QED BY <1>2, <2>2, <2>3, <2>5
<1> HIDE DEF g
<1>5. \E j \in 1 .. Len(g.left) : g.left[j] = good
  BY <1>1, <1>4
<1> QED BY <1>1, <1>4, <1>5 DEF Ahead, g

LEMMA TurnIsSound ==
    ASSUME TypeOK, NEW f \in FetchState, f.at \in Stages
    PROVE  \A g \in Turn(f) : Supplied(g)
<1>1. \A g \in Exhausted(f, Fallback) : Supplied(g)
  BY EndedIsSound, FallbackIsSound DEF Exhausted, Results
<1>2. ASSUME NEW stage \in Stages, f.left # << >>
      PROVE  Supplied([f EXCEPT !.at = stage, !.held = browser])
  BY <1>2 DEF TypeOK, Supplied, FetchState
<1>3. {"close", "open", "browse"} \subseteq Stages
  BY DEF Stages
<1>4. ASSUME f.left # << >>
      PROVE  /\ Supplied([f EXCEPT !.at = IF browser # 0 THEN "close" ELSE "open", !.held = browser])
             /\ Supplied([f EXCEPT !.at = "browse", !.held = browser])
  BY <1>2, <1>3, <1>4
<1> QED BY <1>1, <1>4, FallbackIsSound DEF Turn, Use

\* A turn at which the good proxy is ahead leads on to it, but at a candidate
\* that has lost its browser.
LEMMA TurnIsAhead ==
    ASSUME NEW f \in FetchState, Ahead(f), f.at \notin {"idle", "enter", "fallback"},
           ~Barren(f)
    PROVE  \A g \in Turn(f) : Ahead(g)
<1>1. f.left # << >>
  <2>1. f.left \in Seq(Proxies) /\ \E i \in 1 .. Len(f.left) : f.left[i] = good
    BY DEF FetchState, Ahead
  <2> QED BY <2>1
<1>2. ASSUME NEW stage \in {"close", "open", "browse"}
      PROVE  Ahead([f EXCEPT !.at = stage, !.held = browser])
  BY <1>2 DEF Ahead, FetchState
<1>3. CASE Head(f.left) # through
  BY <1>1, <1>2, <1>3 DEF Turn
<1>4. CASE Head(f.left) = through
  <2>1. Ready
    BY <1>1, <1>4 DEF Barren
  <2> QED BY <1>1, <1>2, <1>4, <2>1 DEF Turn, Use
<1> QED BY <1>3, <1>4

LEMMA AfterStageIsSound ==
    ASSUME TypeOK, Setup, NEW stage \in Requests, NEW first \in Places
    PROVE  /\ \A f \in AfterStage(stage, first) : Supplied(f)
           /\ good # Direct /\ ~(stage = "static" /\ (browser = 0 \/ Barren(Pass("browse", first))))
                => \A f \in AfterStage(stage, first) : Ahead(f)
<1>1. {"mirror.txt", "static", "browse"} \subseteq Stages \ {"fallback"}
  BY DEF Requests, Stages
<1>2. ASSUME NEW next \in {"mirror.txt", "static", "browse"}
      PROVE  Supplied(Pass(next, first)) /\ (good # Direct => Ahead(Pass(next, first)))
  BY <1>1, PassIsSound
<1> DEFINE f == Pass("browse", first)
<1>3. f \in FetchState /\ f.at = "browse"
  BY <1>2 DEF Supplied, Pass, Idle
<1>4. \A g \in Turn(f) : Supplied(g)
  BY <1>3, TurnIsSound DEF Stages
<1>5. good # Direct /\ ~Barren(f) => \A g \in Turn(f) : Ahead(g)
  BY <1>2, <1>3, TurnIsAhead
<1> HIDE DEF f
<1>6. CASE stage # "static"
  BY <1>2, <1>6 DEF AfterStage, Requests
<1>7. CASE stage = "static"
  BY <1>4, <1>5, <1>7, FallbackIsSound DEF AfterStage, f
<1> QED BY <1>6, <1>7

\* A step of one fetch, with what it leaves of the rest in its types.
LEMMA OneIsSound ==
    ASSUME SoundInv, NEW t \in Tasks, NEW f, fetch' = [fetch EXCEPT ![t] = f],
           NEW kept \in BOOLEAN, misled' = [misled EXCEPT ![t] = kept],
           Supplied(f), GoodIsAhead(f, kept), UNCHANGED setup,
           made' \in BOOLEAN, active' \in Places, browser' \in 0 .. MaxBrowsers,
           through' \in Proxies \cup {Direct}, running' \subseteq Browsers, raced' \in BOOLEAN
    PROVE  SoundInv'
<1>1. count' = count /\ good' = good /\ Proxies' = Proxies
  BY DEF setup, Proxies
<1>2. fetch \in [Tasks -> FetchState] /\ misled \in [Tasks -> BOOLEAN]
  BY DEF SoundInv, TypeOK, FetchState, Results
<1>3. fetch' \in [Tasks -> FetchState] /\ misled' \in [Tasks -> BOOLEAN]
  BY <1>2 DEF Supplied
<1>4. TypeOK'
  BY <1>1, <1>3 DEF SoundInv, TypeOK, FetchState, Results, Places
<1>5. \A u \in Tasks : /\ fetch'[u] = IF u = t THEN f ELSE fetch[u]
                      /\ misled'[u] = IF u = t THEN kept ELSE misled[u]
  BY <1>2
<1>6. \A u \in Tasks : Supplied(fetch'[u]) /\ GoodIsAhead(fetch'[u], misled'[u])
  BY <1>5 DEF SoundInv
<1>7. \A u \in Tasks : (Supplied(fetch[u]) /\ GoodIsAhead(fetch[u], misled[u]))'
  BY <1>1, <1>6 DEF Supplied, GoodIsAhead, Ahead, FetchState, Stages, Requests, Trying
<1> QED BY <1>4, <1>7 DEF SoundInv

\* The same where the step meets an obstacle or none.
LEMMA MetIsSound ==
    ASSUME SoundInv, NEW t \in Tasks, NEW obstacle, Meets(t, obstacle)
    PROVE  \E kept \in BOOLEAN : /\ misled' = [misled EXCEPT ![t] = kept]
                                 /\ good # Direct /\ kept = FALSE => misled[t] = FALSE /\ ~obstacle
<1> DEFINE kept == good # Direct /\ (misled[t] \/ obstacle)
<1>1. misled' = [misled EXCEPT ![t] = kept]
  BY DEF Meets
<1>2. kept \in BOOLEAN
  BY Zenon
<1>3. misled[t] \in BOOLEAN
  BY DEF SoundInv, TypeOK
<1>4. good # Direct /\ kept = FALSE => misled[t] = FALSE /\ ~obstacle
  BY <1>3, Zenon
<1> HIDE DEF kept
<1> QED BY <1>1, <1>2, <1>4

LEMMA KeptAsItIs ==
    ASSUME SoundInv, NEW t \in Tasks, UNCHANGED misled
    PROVE  misled[t] \in BOOLEAN /\ misled' = [misled EXCEPT ![t] = misled[t]]
  BY DEF SoundInv, TypeOK

\* The active proxy stays one of the round.
LEMMA ActiveIsTyped ==
    ASSUME TypeOK, NEW proxy \in Proxies
    PROVE  AfterSuccess(proxy) \in Places /\ AfterBlocked(proxy) \in Places
<1>1. count \in Nat /\ active \in Places
  BY BoundsAssumption DEF TypeOK, Places
<1>2. count # 0 => (proxy + 1) % count \in Places
  <2> SUFFICES ASSUME count # 0 PROVE (proxy + 1) % count \in Places
    OBVIOUS
  <2>1. count \in Nat \ {0} /\ proxy + 1 \in Nat /\ Places = 0 .. count - 1
    BY <1>1 DEF Proxies, Places
  <2> QED BY <2>1, Remainders
<1> QED BY <1>1, <1>2 DEF AfterSuccess, AfterBlocked, Places

\* What the lemmas on one fetch ask of the rest.
LEMMA SoundFacts ==
    ASSUME SoundInv
    PROVE  /\ TypeOK /\ Setup /\ active \in Places /\ MaxBrowsers \in Nat
           /\ \A t \in Tasks : /\ fetch[t] \in FetchState /\ Supplied(fetch[t])
                               /\ GoodIsAhead(fetch[t], misled[t])
           /\ browser \in 0 .. MaxBrowsers /\ through \in Proxies \cup {Direct}
           /\ running \subseteq Browsers /\ made \in BOOLEAN /\ raced \in BOOLEAN
  BY BoundsAssumption DEF SoundInv, TypeOK, Setup, Places, Supplied

LEMMA BeginIsSound == ASSUME SoundInv, NEW t \in Tasks, Begin(t) PROVE SoundInv'
<1>1. PICK f \in {Pass("mirror", active), Pass("static", active), Pass("enter", active)} :
        fetch' = [fetch EXCEPT ![t] = f]
  BY DEF Begin, Begins, Goes
<1>2. {"mirror", "static", "enter"} \subseteq Stages \ {"fallback"}
  BY DEF Stages, Requests
<1>3. Supplied(f) /\ GoodIsAhead(f, FALSE)
  BY <1>1, <1>2, SoundFacts, PassIsSound DEF GoodIsAhead
<1>4. /\ made' \in BOOLEAN /\ UNCHANGED <<setup, active, browser, through, running, raced>>
      /\ misled' = [misled EXCEPT ![t] = FALSE]
  BY DEF Begin
<1> QED BY <1>1, <1>3, <1>4, SoundFacts, OneIsSound DEF setup

LEMMA OpenedIsTyped ==
    ASSUME SoundInv, NEW t \in Tasks, fetch[t].at \in Trying, NEW b, Opened(t, b)
    PROVE  /\ b \in 0 .. MaxBrowsers /\ browser' \in 0 .. MaxBrowsers
           /\ through' \in Proxies \cup {Direct} /\ running' \subseteq Browsers
           /\ active' \in Places
<1>1. fetch[t] \in FetchState /\ fetch[t].left # << >>
  BY SoundFacts DEF Supplied
<1>2. Head(fetch[t].left) \in Proxies
  BY <1>1, NextIsTyped
<1>3. b \in Browsers /\ b \in 0 .. MaxBrowsers
  BY SoundFacts DEF Opened, Browsers
<1> QED BY <1>2, <1>3, SoundFacts, ActiveIsTyped DEF Opened

LEMMA EnterIsSound == ASSUME SoundInv, NEW t \in Tasks, Enter(t) PROVE SoundInv'
<1>1. fetch[t].at = "enter" /\ fetch[t].at \in Trying /\ UNCHANGED <<setup, made, raced, misled>>
  BY DEF Enter, Trying, history
<1>2. ASSUME NEW b \in Browsers, Opened(t, b), Begins(t, active') PROVE SoundInv'
  <2>1. PICK f \in {Pass("mirror", active'), Pass("static", active')} :
          fetch' = [fetch EXCEPT ![t] = f]
    BY <1>2 DEF Begins, Goes
  <2>2. {"mirror", "static"} \subseteq Stages \ {"fallback"}
    BY DEF Stages, Requests
  <2>3. active' \in Places
    BY <1>1, <1>2, OpenedIsTyped
  <2>4. Supplied(f) /\ GoodIsAhead(f, misled[t])
    BY <2>1, <2>2, <2>3, SoundFacts, PassIsSound DEF GoodIsAhead
  <2> QED BY <1>1, <1>2, <2>1, <2>4, SoundFacts, OpenedIsTyped, KeptAsItIs, OneIsSound
<1>3. ASSUME Goes(t, IF Len(fetch[t].left) > 1
                     THEN {[fetch[t] EXCEPT !.left = Tail(@)]} ELSE {Ended("raised")}),
             UNCHANGED <<active, browser, through, running>>
      PROVE  SoundInv'
  <2> DEFINE g == [fetch[t] EXCEPT !.left = Tail(@)]
  <2>1. fetch[t] \in FetchState /\ fetch[t].left # << >> /\ GoodIsAhead(fetch[t], misled[t])
    BY <1>1, SoundFacts DEF Supplied
  <2>2. fetch[t].left \in Seq(Proxies) /\ Tail(fetch[t].left) \in Seq(Proxies)
    BY <2>1 DEF FetchState
  <2>3. ASSUME Len(fetch[t].left) > 1 PROVE Tail(fetch[t].left) # << >>
    BY <2>2, <2>3, LongTails
  <2>4. g \in FetchState /\ g.left = Tail(fetch[t].left) /\ g.at = "enter"
        /\ g.result = fetch[t].result
    BY <1>1, <2>1, <2>2 DEF FetchState
  <2> HIDE DEF g
  <2>5. Len(fetch[t].left) > 1 => Supplied(g)
    BY <2>3, <2>4 DEF Supplied
  <2>6. GoodIsAhead(g, misled[t])
    BY <1>1, <2>1, <2>4 DEF GoodIsAhead, Ahead
  <2>7. Supplied(Ended("raised")) /\ GoodIsAhead(Ended("raised"), misled[t])
    BY EndedIsSound DEF Results, GoodIsAhead
  <2>8. PICK f : fetch' = [fetch EXCEPT ![t] = f] /\ Supplied(f) /\ GoodIsAhead(f, misled[t])
    BY <1>3, <2>5, <2>6, <2>7 DEF Goes, g
  <2> QED BY <1>1, <1>3, <2>8, SoundFacts, KeptAsItIs, OneIsSound
<1> QED BY <1>2, <1>3 DEF Enter

LEMMA RequestIsSound == ASSUME SoundInv, NEW t \in Tasks, Request(t) PROVE SoundInv'
<1> DEFINE f == fetch[t]
           proxy == Head(f.left)
<1>1. f.at \in Requests /\ f.at \in Trying /\ f.at \notin {"idle", "enter", "fallback"}
  BY DEF Request, Trying, Requests
<1>2. f \in FetchState /\ f.left # << >> /\ GoodIsAhead(f, misled[t]) /\ proxy \in Proxies
  BY <1>1, SoundFacts, NextIsTyped DEF Supplied
<1> DEFINE lost(first) == f.at = "static" /\ (browser = 0 \/ Barren(Pass("browse", first)))
<1>3. PICK answer \in Answers(f.at, proxy) :
        /\ active' = IF answer \in {"page", "other"} THEN AfterSuccess(proxy)
                     ELSE AfterBlocked(proxy)
        /\ Goes(t, IF answer = "page" THEN {Ended("page")}
                   ELSE IF answer = "other" THEN AfterStage(f.at, active')
                   ELSE IF NextProxy(f, answer).left = << >>
                        THEN Exhausted(NextProxy(f, answer), AfterStage(f.at, active'))
                   ELSE {NextProxy(f, answer)})
        /\ Meets(t, lost(active'))
  BY DEF Request
<1> DEFINE next == NextProxy(f, answer)
<1>4. /\ UNCHANGED <<setup, made, browser, through, running>>
      /\ raced' = (raced \/ Cardinality({u \in Tasks : fetch'[u].at \in {"close", "open"}}) > 1)
  BY Zenon DEF Request, MarksRaces
<1>5. raced' \in BOOLEAN
  BY <1>4
<1>6. active' \in Places
  BY <1>2, <1>3, SoundFacts, ActiveIsTyped
<1>7. next \in FetchState /\ next.at = f.at
  BY <1>2, NextIsTyped
<1>8. \A g \in AfterStage(f.at, active') : Supplied(g)
  BY <1>1, <1>6, SoundFacts, AfterStageIsSound
<1>9. /\ Supplied(Ended("page")) /\ Ahead(Ended("page")) /\ Supplied(Ended("blocked"))
  BY EndedIsSound DEF Results
<1>10. next.left # << >> => Supplied(next)
  BY <1>7 DEF Supplied
<1>11. PICK kept \in BOOLEAN : /\ misled' = [misled EXCEPT ![t] = kept]
                               /\ good # Direct /\ kept = FALSE => misled[t] = FALSE /\ ~lost(active')
  BY <1>3, MetIsSound
<1>12. ASSUME good # Direct, kept = FALSE, answer \notin {"page", "other"}
       PROVE  next.left # << >> /\ Ahead(next)
  <2>1. proxy # good
    BY <1>3, <1>12 DEF Answers
  <2>2. Ahead(f)
    BY <1>2, <1>11, <1>12 DEF GoodIsAhead
  <2> QED BY <1>1, <1>2, <2>1, <2>2, NextIsAhead
<1>13. ASSUME good # Direct, kept = FALSE PROVE \A g \in AfterStage(f.at, active') : Ahead(g)
  BY <1>1, <1>6, <1>11, <1>13, SoundFacts, AfterStageIsSound
<1> HIDE DEF next, f, proxy, lost
<1>14. PICK g : fetch' = [fetch EXCEPT ![t] = g] /\ Supplied(g) /\ GoodIsAhead(g, kept)
  <2>1. CASE answer = "page"
    BY <1>3, <1>9, <2>1 DEF Goes, GoodIsAhead
  <2>2. CASE answer = "other"
    BY <1>3, <1>8, <1>13, <2>2 DEF Goes, GoodIsAhead
  <2>3. CASE answer \notin {"page", "other"} /\ next.left = << >>
    BY <1>3, <1>8, <1>9, <1>12, <2>3 DEF Goes, Exhausted, GoodIsAhead, next
  <2>4. CASE answer \notin {"page", "other"} /\ next.left # << >>
    BY <1>3, <1>10, <1>12, <2>4 DEF Goes, GoodIsAhead, next
  <2> QED BY <2>1, <2>2, <2>3, <2>4
<1> QED BY <1>4, <1>5, <1>6, <1>11, <1>14, SoundFacts, OneIsSound

\* A fetch that takes its next turn, after a proxy that was not the good one or
\* with an obstacle that it met.
LEMMA TurnsAreSound ==
    ASSUME SoundInv, NEW t \in Tasks, NEW f, f = fetch[t],
           f.at \in {"close", "open", "browse"}, NEW answer,
           NEW g \in Turn(NextProxy(f, answer)), NEW kept,
           good # Direct /\ kept = FALSE => /\ misled[t] = FALSE /\ Head(f.left) # good
                                           /\ ~Barren(NextProxy(f, answer))
    PROVE  Supplied(g) /\ GoodIsAhead(g, kept)
<1>1. f \in FetchState /\ f.left # << >> /\ GoodIsAhead(f, misled[t])
  BY SoundFacts DEF Supplied, Trying
<1>2. NextProxy(f, answer) \in FetchState /\ NextProxy(f, answer).at = f.at
  BY <1>1, NextIsTyped
<1>3. Supplied(g)
  BY <1>2, SoundFacts, TurnIsSound DEF FetchState
<1>4. ASSUME good # Direct, kept = FALSE PROVE Ahead(g)
  <2>1. Ahead(NextProxy(f, answer))
    BY <1>1, <1>4, NextIsAhead DEF GoodIsAhead
  <2> QED BY <1>2, <1>4, <2>1, TurnIsAhead
<1> QED BY <1>3, <1>4 DEF GoodIsAhead

\* A browser that does not open or close: the candidate is passed over.
LEMMA RotatesSoundly ==
    ASSUME SoundInv, NEW t \in Tasks, fetch[t].at \in {"close", "open"},
           active' = AfterBlocked(Head(fetch[t].left)),
           Goes(t, Turn(NextProxy(fetch[t], "error"))),
           Meets(t, Head(fetch[t].left) = good \/ Barren(NextProxy(fetch[t], "error"))),
           UNCHANGED <<setup, made, browser, through>>, running' \subseteq Browsers,
           raced' \in BOOLEAN
    PROVE  SoundInv'
<1>1. PICK g \in Turn(NextProxy(fetch[t], "error")) : fetch' = [fetch EXCEPT ![t] = g]
  BY DEF Goes
<1>2. PICK kept \in BOOLEAN :
        /\ misled' = [misled EXCEPT ![t] = kept]
        /\ good # Direct /\ kept = FALSE
             => misled[t] = FALSE /\ ~(Head(fetch[t].left) = good \/ Barren(NextProxy(fetch[t], "error")))
  BY MetIsSound
<1>3. Supplied(g) /\ GoodIsAhead(g, kept)
  BY <1>1, <1>2, TurnsAreSound
<1>4. Head(fetch[t].left) \in Proxies
  BY SoundFacts, NextIsTyped DEF Supplied, Trying
<1>5. active' \in Places
  BY <1>4, SoundFacts, ActiveIsTyped
<1> QED BY <1>1, <1>2, <1>3, <1>5, SoundFacts, OneIsSound

LEMMA CloseIsSound == ASSUME SoundInv, NEW t \in Tasks, Close(t) PROVE SoundInv'
<1>1. /\ fetch[t].at = "close" /\ UNCHANGED <<setup, made, through>>
      /\ raced' = (raced \/ Cardinality({u \in Tasks : fetch'[u].at \in {"close", "open"}}) > 1)
  BY Zenon DEF Close, MarksRaces
<1>2. raced' \in BOOLEAN
  BY <1>1
<1>3. ASSUME running' = running \ {fetch[t].held}, browser' = 0, UNCHANGED <<active, misled>>,
             Goes(t, {[fetch[t] EXCEPT !.at = "open", !.held = 0]})
      PROVE  SoundInv'
  <2> DEFINE f == [fetch[t] EXCEPT !.at = "open", !.held = 0]
  <2>1. fetch' = [fetch EXCEPT ![t] = f]
    BY <1>3 DEF Goes
  <2>2. fetch[t] \in FetchState /\ fetch[t].left # << >> /\ "open" \in Stages
        /\ GoodIsAhead(fetch[t], misled[t])
    BY <1>1, SoundFacts DEF Supplied, Trying, Stages
  <2>3. f \in FetchState /\ f.left = fetch[t].left /\ f.at = "open" /\ f.result = fetch[t].result
    <3> DEFINE none == 0
    <3>1. none \in 0 .. MaxBrowsers
      BY SoundFacts
    <3> HIDE DEF none
    <3>2. [fetch[t] EXCEPT !.at = "open", !.held = none] \in FetchState
      BY <2>2, <3>1 DEF FetchState
    <3>3. f.left = fetch[t].left /\ f.at = "open" /\ f.result = fetch[t].result
      BY <2>2 DEF FetchState
    <3> QED BY <3>2, <3>3 DEF none
  <2> HIDE DEF f
  <2>4. Supplied(f)
    BY <2>2, <2>3 DEF Supplied
  <2>5. GoodIsAhead(f, misled[t])
    BY <1>1, <2>2, <2>3 DEF GoodIsAhead, Ahead
  <2>6. browser' \in 0 .. MaxBrowsers /\ running' \subseteq Browsers
    BY <1>3, SoundFacts
  <2> QED BY <1>1, <1>2, <1>3, <2>1, <2>4, <2>5, <2>6, SoundFacts, KeptAsItIs, OneIsSound
<1>4. ASSUME running' \in {running, running \ {fetch[t].held}}, UNCHANGED browser,
             active' = AfterBlocked(Head(fetch[t].left)),
             Goes(t, Turn(NextProxy(fetch[t], "error"))),
             Meets(t, Head(fetch[t].left) = good \/ Barren(NextProxy(fetch[t], "error")))
      PROVE  SoundInv'
  <2>1. running' \subseteq Browsers
    BY <1>4, SoundFacts
  <2> QED BY <1>1, <1>2, <1>4, <2>1, RotatesSoundly
<1> QED BY <1>3, <1>4 DEF Close

LEMMA OpenIsSound == ASSUME SoundInv, NEW t \in Tasks, Open(t) PROVE SoundInv'
<1>1. /\ fetch[t].at = "open" /\ fetch[t].at \in Trying /\ UNCHANGED <<setup, made>>
      /\ raced' = (raced \/ Cardinality({u \in Tasks : fetch'[u].at \in {"close", "open"}}) > 1)
  BY Zenon DEF Open, MarksRaces, Trying
<1>2. raced' \in BOOLEAN
  BY <1>1
<1>3. /\ fetch[t] \in FetchState /\ fetch[t].left # << >> /\ "browse" \in Stages
      /\ GoodIsAhead(fetch[t], misled[t])
  BY <1>1, SoundFacts DEF Supplied, Stages
<1>4. ASSUME NEW b \in Browsers, Opened(t, b), UNCHANGED misled,
             Goes(t, {[fetch[t] EXCEPT !.at = "browse", !.held = b]})
      PROVE  SoundInv'
  <2> DEFINE f == [fetch[t] EXCEPT !.at = "browse", !.held = b]
  <2>1. fetch' = [fetch EXCEPT ![t] = f]
    BY <1>4 DEF Goes
  <2>2. b \in 0 .. MaxBrowsers
    BY <1>1, <1>4, OpenedIsTyped
  <2>3. /\ f \in FetchState /\ f.left = fetch[t].left /\ f.at = "browse"
        /\ f.result = fetch[t].result
    BY <1>3, <2>2 DEF FetchState
  <2> HIDE DEF f
  <2>4. Supplied(f)
    BY <1>3, <2>3 DEF Supplied
  <2>5. GoodIsAhead(f, misled[t])
    BY <1>1, <1>3, <2>3 DEF GoodIsAhead, Ahead
  <2> QED BY <1>1, <1>2, <1>4, <2>1, <2>4, <2>5, SoundFacts, OpenedIsTyped, KeptAsItIs, OneIsSound
<1>5. ASSUME active' = AfterBlocked(Head(fetch[t].left)),
             Goes(t, Turn(NextProxy(fetch[t], "error"))), UNCHANGED <<browser, through, running>>,
             Meets(t, Head(fetch[t].left) = good \/ Barren(NextProxy(fetch[t], "error")))
      PROVE  SoundInv'
  BY <1>1, <1>2, <1>5, SoundFacts, RotatesSoundly
<1> QED BY <1>4, <1>5 DEF Open

LEMMA BrowseIsSound == ASSUME SoundInv, NEW t \in Tasks, Browse(t) PROVE SoundInv'
<1> DEFINE f == fetch[t]
           proxy == Head(f.left)
           obstacle(answer) ==
               \/ answer = "other" /\ proxy # good
               \/ answer \in {"block", "error"} /\ proxy = good
               \/ answer \in {"block", "error"} /\ Barren(NextProxy(f, answer))
<1>1. /\ f.at = "browse" /\ f.at \in Trying
      /\ UNCHANGED <<setup, made, browser, through, running>>
      /\ raced' = (raced \/ Cardinality({u \in Tasks : fetch'[u].at \in {"close", "open"}}) > 1)
  BY Zenon DEF Browse, MarksRaces, Trying
<1>2. raced' \in BOOLEAN
  BY <1>1
<1>3. f \in FetchState /\ f.left # << >> /\ proxy \in Proxies /\ GoodIsAhead(f, misled[t])
  BY <1>1, SoundFacts, NextIsTyped DEF Supplied
<1>4. PICK answer \in {"error"} \cup Answers("browse", proxy) :
        /\ active' \in {AfterSuccess(proxy), AfterBlocked(proxy), active}
        /\ Goes(t, IF answer = "page" THEN {Ended("page")}
                   ELSE IF answer = "other" THEN Fallback
                   ELSE Turn(NextProxy(f, answer)))
        /\ Meets(t, obstacle(answer))
  BY DEF Browse
<1>5. answer \in {"page", "block", "error", "other"}
      /\ (answer = "other" => good = Direct \/ proxy # good)
  BY <1>4 DEF Answers
<1>6. PICK kept \in BOOLEAN : /\ misled' = [misled EXCEPT ![t] = kept]
                              /\ good # Direct /\ kept = FALSE => misled[t] = FALSE /\ ~obstacle(answer)
  BY <1>4, MetIsSound
<1>7. PICK g : /\ fetch' = [fetch EXCEPT ![t] = g]
               /\ \/ answer = "page" /\ g = Ended("page")
                  \/ answer = "other" /\ g \in Fallback
                  \/ answer \in {"block", "error"} /\ g \in Turn(NextProxy(f, answer))
  BY <1>4, <1>5 DEF Goes
<1>8. Supplied(g) /\ GoodIsAhead(g, kept)
  <2>1. CASE answer = "page"
    BY <1>7, <2>1, EndedIsSound DEF Results, GoodIsAhead
  <2>2. CASE answer = "other"
    BY <1>5, <1>6, <1>7, <2>2, FallbackIsSound DEF GoodIsAhead
  <2>3. CASE answer \in {"block", "error"}
    BY <1>1, <1>6, <1>7, <2>3, TurnsAreSound
  <2> QED BY <1>5, <2>1, <2>2, <2>3
<1>9. active' \in Places
  BY <1>3, <1>4, SoundFacts, ActiveIsTyped
<1> QED BY <1>1, <1>2, <1>6, <1>7, <1>8, <1>9, SoundFacts, OneIsSound

LEMMA AskIsSound == ASSUME SoundInv, NEW t \in Tasks, Ask(t) PROVE SoundInv'
<1> DEFINE again == [fetch[t] EXCEPT !.tries = @ + 1]
<1>1. fetch[t].at = "fallback" /\ UNCHANGED <<setup, shared, raced, misled>>
  BY DEF Ask, history
<1>2. PICK g : /\ fetch' = [fetch EXCEPT ![t] = g]
               /\ \/ g \in {Ended("page"), Ended("failed")}
                  \/ g = again /\ fetch[t].tries < MaxRetries
  BY DEF Ask, Goes
<1>3. fetch[t] \in FetchState
  BY SoundFacts
<1>4. ASSUME fetch[t].tries < MaxRetries
      PROVE  again \in FetchState /\ again.at = "fallback"
  <2>1. fetch[t].tries + 1 \in 0 .. MaxRetries
    BY <1>3, <1>4, BoundsAssumption DEF FetchState
  <2> QED BY <1>1, <1>3, <2>1 DEF FetchState
<1> HIDE DEF again
<1>5. Supplied(g)
  BY <1>2, <1>4, EndedIsSound DEF Supplied, Trying, Requests, Results
<1>6. GoodIsAhead(g, misled[t])
  BY <1>1, SoundFacts DEF GoodIsAhead, Ahead
<1> QED BY <1>1, <1>2, <1>5, <1>6, SoundFacts, KeptAsItIs, OneIsSound DEF shared

LEMMA SoundStep == SoundInv /\ [Next]_vars => SoundInv'
<1> SUFFICES ASSUME SoundInv, [Next]_vars PROVE SoundInv'
  OBVIOUS
<1>1. ASSUME NEW t \in Tasks, Begin(t) \/ Step(t) PROVE SoundInv'
  BY <1>1, BeginIsSound, EnterIsSound, RequestIsSound, CloseIsSound, OpenIsSound,
     BrowseIsSound, AskIsSound DEF Step
<1>2. CASE UNCHANGED vars
  <2>1. UNCHANGED <<count, good, made, active, browser, through, running, fetch, raced, misled>>
    BY <1>2 DEF vars, shared, setup, history
  <2>2. TypeOK' <=> TypeOK
    BY <2>1 DEF TypeOK, Proxies
  <2>3. \A t \in Tasks : (Supplied(fetch[t]) /\ GoodIsAhead(fetch[t], misled[t]))'
    BY <2>1 DEF SoundInv, Supplied, GoodIsAhead, Ahead, FetchState, Proxies
  <2> QED BY <2>2, <2>3 DEF SoundInv
<1> QED BY <1>1, <1>2 DEF Next

LEMMA SoundStarts == Init => SoundInv
<1> SUFFICES ASSUME Init PROVE SoundInv
  OBVIOUS
<1>1. Idle \in FetchState /\ Idle.at = "idle" /\ Idle.result = "none"
  BY IdleIsTyped DEF Idle
<1>2. Supplied(Idle) /\ Ahead(Idle)
  BY <1>1 DEF Supplied, Ahead, Trying, Requests
<1>3. count \in Nat /\ 0 \in Places /\ 0 \in 0 .. MaxBrowsers
  BY BoundsAssumption DEF Init, Places, Proxies
<1>4. fetch = [t \in Tasks |-> Idle]
  BY DEF Init
<1>5. fetch \in [Tasks -> FetchState]
  BY <1>1, <1>4
<1>6. TypeOK
  BY <1>3, <1>5 DEF Init, TypeOK, FetchState, Results, Places
<1> QED BY <1>2, <1>4, <1>6 DEF SoundInv, GoodIsAhead

\* The types of the pool, the browser and the fetches: in particular the
\* active index stays inside the round, and a fetch that tries a proxy has one.
THEOREM TypeCorrect == FairSpec => []TypeOK
<1>1. SoundInv => TypeOK
  BY DEF SoundInv
<1> QED BY <1>1, SoundStarts, SoundStep, PTL DEF FairSpec

\* For any number of proxies, over one of which the site gives its pages, and any
\* fetches that turn the pool meanwhile: a fetch brings its page, unless another
\* proxy's answer or a browser that is lost, closed under it, not opened or not
\* closed has kept it from the good proxy's browser (fetch_page, candidates).
THEOREM GoodIsFound == FairSpec => []GoodProxyIsFound
<1>1. SoundInv => GoodProxyIsFound
  BY DEF SoundInv, GoodIsAhead, Ahead, GoodProxyIsFound
<1> QED BY <1>1, SoundStarts, SoundStep, PTL DEF FairSpec

-----------------------------------------------------------------------------
\* The names of a URL.
Names == Extensions \cup Words \cup {"index"}
PartOf == {Part(text) : text \in Names}

LEMMA Shapes ==
    ASSUME NEW url \in Urls
    PROVE  /\ url = [host |-> url.host, capital |-> url.capital, path |-> url.path,
                     slash |-> url.slash, query |-> url.query]
           /\ url.path \in Seq(Segments)
           /\ url.slash \in BOOLEAN /\ url.query \in SUBSET Parameters
<1>1. PICK n \in 0 .. Depth : url.path \in [1 .. n -> Segments]
  BY DEF Urls
<1> QED BY <1>1 DEF Urls

\* A file is named by the domain, the path and what is left of the query.
LEMMA SamePath ==
    ASSUME NEW url \in Urls, NEW other, NEW ignore \in BOOLEAN,
           other.path = url.path, other.host = url.host,
           DOMAIN other = DOMAIN url,
           ignore \/ other.query \ {"blank"} = url.query \ {"blank"}
    PROVE  MarkdownPath(other, ignore) = MarkdownPath(url, ignore)
<1> DEFINE cu == Canonical(url, ignore)
           co == Canonical(other, ignore)
<1>1. DOMAIN url = {"host", "capital", "path", "slash", "query"}
  BY DEF Urls
<1>2. /\ cu.path = url.path /\ co.path = url.path
      /\ cu.query = IF ignore THEN {} ELSE url.query \ {"blank"}
      /\ co.query = IF ignore THEN {} ELSE other.query \ {"blank"}
  BY <1>1 DEF Canonical
<1>3. co.query = cu.query
  BY <1>2
<1> HIDE DEF cu, co
<1>4. FileParts(co) = FileParts(cu)
  BY <1>2 DEF FileParts, IsRoot
<1> QED BY <1>3, <1>4 DEF MarkdownPath, cu, co

LEMMA RowsAreFiles == OneRowOneFile
<1> SUFFICES ASSUME NEW url \in Urls
             PROVE  MarkdownPath(CrawlKey(url), TRUE) = MarkdownPath(url, TRUE)
  BY DEF OneRowOneFile, IgnoredPath
<1>1. LET key == CrawlKey(url)
      IN  key.path = url.path /\ key.host = url.host /\ DOMAIN key = DOMAIN url
  BY Shapes DEF CrawlKey, Canonical, Urls
<1> QED BY <1>1, SamePath

LEMMA LayoutsDoAgree == LayoutsAgree
<1> SUFFICES ASSUME NEW url \in Urls
             PROVE  IgnoredPath(Hashed(url)) = IgnoredPath(url) /\ KeptPath(Hashed(url)) = KeptPath(url)
  BY DEF LayoutsAgree
<1> DEFINE other == Hashed(url)
           bare(u) == [u EXCEPT !.query = @ \ {"rg"}]
<1>1. /\ other.path = url.path /\ other.host = url.host /\ DOMAIN other = DOMAIN url
      /\ other.query = url.query \ {"blank", "rg"}
  BY Shapes DEF Hashed, Urls
<1>2. IgnoredPath(other) = IgnoredPath(url)
  BY <1>1, SamePath DEF IgnoredPath
<1>3. bare(url) \in Urls
  BY DEF Urls
<1>4. /\ bare(url).path = url.path /\ bare(url).host = url.host /\ DOMAIN bare(url) = DOMAIN url
      /\ bare(url).query = url.query \ {"rg"}
  BY DEF Urls
<1> HIDE DEF other
<1>5. DOMAIN url = {"host", "capital", "path", "slash", "query"}
  BY DEF Urls
<1>6. /\ bare(other).path = url.path /\ bare(other).host = url.host /\ DOMAIN bare(other) = DOMAIN url
      /\ bare(other).query = url.query \ {"blank", "rg"}
  BY <1>1, <1>5
<1>7. bare(other).query \ {"blank"} = bare(url).query \ {"blank"}
  BY <1>4, <1>6
<1> HIDE DEF bare
<1>8. MarkdownPath(bare(other), FALSE) = MarkdownPath(bare(url), FALSE)
  BY <1>3, <1>4, <1>6, <1>7, SamePath
<1>9. KeptPath(other) = KeptPath(url)
  BY <1>8 DEF KeptPath, bare
<1> QED BY <1>2, <1>9 DEF other

\* A file has a name of two parts or more, and ends in .md or .MD.
LEMMA PartsOfFile ==
    ASSUME NEW url, url.path \in Seq(Segments)
    PROVE  LET parts == FileParts(url)
           IN  /\ parts \in Seq(PartOf) /\ Len(parts) >= 2
               /\ parts[Len(parts)] \in {Part(".md"), Part(".MD")}
<1>0. /\ {Part(".md"), Part("index")} \subseteq PartOf
      /\ \A segment \in Segments : Part(segment.stem) \in PartOf /\ Part(segment.ext) \in PartOf
  BY DEF PartOf, Names, Extensions, Segments
<1>1. CASE IsRoot(url)
  <2>1. FileParts(url) = <<Part("index"), Part(".md")>>
    BY <1>1 DEF FileParts
  <2> QED BY <1>0, <2>1
<1>2. CASE ~IsRoot(url)
  <2> DEFINE last == Last(url.path)
             stem == <<Part(last.stem)>>
             ext == IF last.ext = "none" THEN << >> ELSE <<Part(last.ext)>>
             md == IF last.ext \in {".md", ".MD"} THEN << >> ELSE <<Part(".md")>>
             parts == FileParts(url)
  <2>1. last \in Segments
    BY <1>2 DEF IsRoot, Last
  <2>2. /\ stem \in Seq(PartOf) /\ Len(stem) = 1
        /\ ext \in Seq(PartOf) /\ Len(ext) \in {0, 1}
        /\ md \in Seq(PartOf) /\ Len(md) \in {0, 1}
    BY <1>0, <2>1
  <2>3. /\ Len(md) = 1 => md[1] = Part(".md")
        /\ Len(md) = 0 => /\ md = << >> /\ Len(ext) = 1
                         /\ ext[1] \in {Part(".md"), Part(".MD")}
    OBVIOUS
  <2>4. parts = (stem \o ext) \o md
    BY <1>2 DEF FileParts
  <2> HIDE DEF last, stem, ext, md, parts
  <2>5. /\ stem \o ext \in Seq(PartOf) /\ Len(stem \o ext) = 1 + Len(ext)
        /\ Len(ext) = 1 => (stem \o ext)[2] = ext[1]
    <3>0. stem \in Seq(PartOf) /\ ext \in Seq(PartOf)
      BY <2>2
    <3>1. stem \o ext \in Seq(PartOf) /\ Len(stem \o ext) = Len(stem) + Len(ext)
      BY <3>0, ConcatProperties
    <3>2. Len(ext) = 1 => 2 \in 1 .. Len(stem) + Len(ext)
      BY <2>2
    <3>3. \A i \in 1 .. Len(stem) + Len(ext) :
             (stem \o ext)[i] = IF i <= Len(stem) THEN stem[i] ELSE ext[i - Len(stem)]
      BY <2>2, ConcatProperties
    <3> QED BY <2>2, <3>1, <3>2, <3>3
  <2>6. /\ parts \in Seq(PartOf) /\ Len(parts) = 1 + Len(ext) + Len(md)
        /\ Len(md) = 1 => parts[Len(parts)] = md[1]
    BY <2>2, <2>4, <2>5, ConcatProperties
  <2>7. Len(md) = 0 => parts = stem \o ext
    BY <2>3, <2>4, <2>5, ConcatEmptySeq
  <2>8. parts \in Seq(PartOf) /\ Len(parts) >= 2 /\ parts[Len(parts)] \in {Part(".md"), Part(".MD")}
    BY <2>2, <2>3, <2>5, <2>6, <2>7
  <2> QED BY <2>8 DEF parts
<1> QED BY <1>1, <1>2

LEMMA MetadataDoesFit == MetadataIsOwn
<1> SUFFICES ASSUME NEW ignore \in BOOLEAN, NEW url \in Urls,
                    EndsIn(MarkdownPath(url, ignore), ".md")
             PROVE  TextOf(MetadataPath(MarkdownPath(url, ignore))) = MarkdownPath(url, ignore)
  BY DEF MetadataIsOwn
<1> DEFINE file == MarkdownPath(url, ignore)
           canonical == Canonical(url, ignore)
           parts == FileParts(canonical)
           k == IF Last(parts).text = ".md" THEN Len(parts) - 1 ELSE Len(parts)
           name == Suffixed(parts, canonical.query)
           n == Len(parts)
<1>1. canonical.path \in Seq(Segments)
  BY Shapes DEF Canonical, Urls
<1>2. /\ parts \in Seq(PartOf) /\ n >= 2 /\ n \in Nat
      /\ parts[n] \in {Part(".md"), Part(".MD")}
  BY <1>1, PartsOfFile
<1>3. name = [parts EXCEPT ![k].query = canonical.query]
  BY DEF Suffixed
<1>4. file.name = name
  BY DEF MarkdownPath, Truncated
<1>5. \E host, below : file = [host |-> host, below |-> below, name |-> name]
  BY DEF MarkdownPath, Truncated
<1> HIDE DEF name, file, canonical, parts
<1>6. k \in 1 .. n
  BY <1>2 DEF Last
<1>7. Last(parts) = parts[n]
  BY DEF Last
<1> HIDE DEF k, n
<1> DEFINE new == [parts[k] EXCEPT !.query = canonical.query]
<1>8. name = [parts EXCEPT ![k] = new]
  BY <1>3
<1>9. new.text = parts[k].text
  BY <1>2, <1>6 DEF PartOf, Part, n
<1> HIDE DEF new
<1>10. /\ DOMAIN name = 1 .. n /\ Len(name) = n
       /\ \A i \in 1 .. n : name[i] = IF i = k THEN new ELSE parts[i]
  BY <1>2, <1>6, <1>8 DEF n
<1>11. name[n].text = ".md"
  BY <1>4, <1>10 DEF EndsIn, Last, file
<1>12. parts[n].text = ".md"
  BY <1>2, <1>9, <1>10, <1>11
<1>13. k = n - 1 /\ parts[n] = Part(".md")
  <2>1. Last(parts).text = ".md"
    BY <1>7, <1>12
  <2>2. k = n - 1
    BY <2>1 DEF k, n
  <2>3. Part(".MD").text = ".MD"
    BY DEF Part
  <2>4. parts[n] = Part(".md")
    BY <1>2, <1>12, <2>3
  <2> QED BY <2>2, <2>4
<1>14. name[n] = Part(".md")
  BY <1>2, <1>10, <1>13
<1> DEFINE S == {name[i] : i \in 1 .. n}
           front == SubSeq(name, 1, n - 1)
           meta == Append(front, Part(".meta.json"))
<1>15. name \in Seq(S)
  <2>1. name \in [1 .. n -> S]
    BY <1>2, <1>3, <1>10
  <2> QED BY <1>2, <2>1
<1>16. front \in Seq(S) /\ Len(front) = n - 1 /\ \A i \in 1 .. n - 1 : front[i] = name[i]
  BY <1>2, <1>10, <1>15, SubSeqProperties
<1>17. Front(name) = front
  BY <1>10 DEF Front
<1> HIDE DEF front
<1>18. Len(meta) = n /\ \A i \in 1 .. n - 1 : meta[i] = front[i]
  BY <1>2, <1>16
<1> HIDE DEF meta
<1>19. SubSeq(meta, 1, n - 1) = front
  <2>1. \A i \in 1 .. n - 1 : meta[i] \in S
    BY <1>16, <1>18
  <2>2. SubSeq(meta, 1, n - 1) \in Seq(S) /\ Len(SubSeq(meta, 1, n - 1)) = n - 1
        /\ \A i \in 1 .. n - 1 : SubSeq(meta, 1, n - 1)[i] = meta[i]
    BY <1>2, <2>1, SubSeqProperties
  <2> QED BY <1>16, <1>18, <2>2, SeqEqual
<1>20. Front(meta) = front
  BY <1>18, <1>19 DEF Front
<1>21. Append(front, Part(".md")) = name
  <2>1. name[n] \in S
    BY <1>2
  <2>2. /\ Append(front, name[n]) \in Seq(S) /\ Len(Append(front, name[n])) = n
        /\ \A i \in 1 .. n : Append(front, name[n])[i] = name[i]
    BY <1>2, <1>16, <2>1
  <2> QED BY <1>10, <1>14, <1>15, <2>2, SeqEqual
<1>22. PICK host, below : file = [host |-> host, below |-> below, name |-> name]
  BY <1>5
<1>23. MetadataPath(file) = [host |-> host, below |-> below, name |-> meta]
  BY <1>17, <1>22 DEF MetadataPath, meta
<1>24. TextOf(MetadataPath(file)) = [host |-> host, below |-> below, name |-> name]
  BY <1>20, <1>21, <1>23 DEF TextOf
<1> QED BY <1>22, <1>24 DEF file

LEMMA MirrorsDoAgree == MirrorsAgree
<1> SUFFICES ASSUME NEW url \in Urls, NEW mirror \in Mirror(url, TRUE)
             PROVE  /\ Mirror(mirror, TRUE) = {mirror}
                    /\ Head(CandidateUrls(url)) = mirror /\ Head(CandidateUrls(mirror)) = mirror
                    /\ CandidateUrls(url) # << >>
  BY DEF MirrorsAgree
<1> DEFINE n == Len(url.path)
           last == [url.path[n] EXCEPT !.ext = ".md"]
<1>1. /\ url.path \in Seq(Segments) /\ n \in Nat /\ n # 0
      /\ Last(url.path).ext \in {"none", ".html", ".md"}
      /\ mirror = [WithSuffix(url) EXCEPT !.query = @]
  BY Shapes DEF Mirror, IsRoot, Strippable
<1>2. url.path[n] \in Segments
  BY <1>1
<1>3. WithSuffix(url) = [url EXCEPT !.path = [@ EXCEPT ![n] = last], !.slash = FALSE]
  BY DEF WithSuffix
<1>4. last.ext = ".md" /\ [last EXCEPT !.ext = ".md"] = last
  BY <1>2 DEF Segments
<1>5. DOMAIN url = {"host", "capital", "path", "slash", "query"}
  BY DEF Urls
<1> DEFINE path == [url.path EXCEPT ![n] = last]
<1>6. /\ mirror = WithSuffix(url) /\ mirror.path = path /\ mirror.slash = FALSE
      /\ DOMAIN mirror = DOMAIN url
  BY <1>1, <1>3, <1>5
<1> HIDE DEF last
<1>7. last \in Segments
  BY <1>2 DEF last, Segments, Extensions
<1>8. path \in Seq(Segments) /\ Len(path) = n /\ path[n] = last /\ [path EXCEPT ![n] = last] = path
  BY <1>1, <1>7, ExceptSeq
<1> HIDE DEF path, n
<1>9. WithSuffix(mirror) = mirror
  <2>1. WithSuffix(mirror) = [mirror EXCEPT !.path = [path EXCEPT ![n] = [path[n] EXCEPT !.ext = ".md"]], !.slash = FALSE]
    BY <1>6, <1>8 DEF WithSuffix
  <2>2. WithSuffix(mirror) = [mirror EXCEPT !.path = path, !.slash = FALSE]
    BY <1>4, <1>8, <2>1
  <2>3. mirror = [host |-> url.host, capital |-> url.capital, path |-> path,
                  slash |-> FALSE, query |-> url.query]
    BY <1>3, <1>5, <1>6, Shapes DEF path, n
  <2> QED BY <2>2, <2>3
<1>10. /\ ~IsRoot(mirror) /\ Last(mirror.path).ext = ".md"
       /\ ~IsRoot(url) /\ Last(url.path).ext \in Strippable \cup {".md"}
  BY <1>1, <1>4, <1>6, <1>8 DEF IsRoot, Last, Strippable, n
<1>11. Mirror(mirror, TRUE) = {mirror}
  BY <1>9, <1>10 DEF Mirror
<1>12. \E other : CandidateUrls(url) = <<mirror, other>>
  BY <1>6, <1>10 DEF CandidateUrls
<1>13. \E other : CandidateUrls(mirror) = <<mirror, other>>
  BY <1>9, <1>10 DEF CandidateUrls
<1>14. \A first, second : Head(<<first, second>>) = first /\ <<first, second>> # << >>
  OBVIOUS
<1> QED BY <1>11, <1>12, <1>13, <1>14

\* The names the parts of the program give one page are names of one page,
\* whatever the words, domains and depth of its URLs.
LEMMA AllNamesAgree == NamesAreOne
  BY RowsAreFiles, LayoutsDoAgree, MetadataDoesFit, MirrorsDoAgree DEF NamesAreOne

\* One row in the crawl database, or one file of the hashed layout, means one
\* file of the nested layout, for any two URLs.
THEOREM OneNameOnePage ==
    ASSUME NEW url \in Urls, NEW other \in Urls
    PROVE  /\ CrawlKey(url) = CrawlKey(other) => IgnoredPath(url) = IgnoredPath(other)
           /\ Hashed(url) = Hashed(other) => /\ IgnoredPath(url) = IgnoredPath(other)
                                             /\ KeptPath(url) = KeptPath(other)
<1>1. IgnoredPath(CrawlKey(url)) = IgnoredPath(url) /\ IgnoredPath(CrawlKey(other)) = IgnoredPath(other)
  BY RowsAreFiles DEF OneRowOneFile
<1>2. /\ IgnoredPath(Hashed(url)) = IgnoredPath(url) /\ KeptPath(Hashed(url)) = KeptPath(url)
      /\ IgnoredPath(Hashed(other)) = IgnoredPath(other) /\ KeptPath(Hashed(other)) = KeptPath(other)
  BY LayoutsDoAgree DEF LayoutsAgree
<1> QED BY <1>1, <1>2

\* The names that the crawl database, both layouts, the metadata and the mirrors
\* give one page are names of one page (path_builder.py, url_translator.py).
THEOREM NamesDoAgree == FairSpec => []NamesAgree
<1>1. NamesAgree
  BY AllNamesAgree DEF NamesAgree
<1> QED BY <1>1, PTL

-----------------------------------------------------------------------------
\* Deployments of any tenants (deployment_config.py, tenant.py, app_builder.py).

\* A deployment is built as each of its tenants is built alone.
THEOREM BuiltAsAlone ==
    ASSUME NEW tenants, DOMAIN tenants # {}, NEW infra \in Infrastructures, NEW env \in Environments
    PROVE  LET alone(n) == Build(Alone(tenants[n]), infra, env)
           IN  /\ Build(tenants, infra, env) = "serves" <=> \A n \in DOMAIN tenants : alone(n) = "serves"
               /\ Build(tenants, infra, env) = "nothing" <=> \E n \in DOMAIN tenants : alone(n) = "nothing"
<1> DEFINE given == [infra EXCEPT !.mode = IF env.mode = "none" THEN @ ELSE env.mode]
           final == Overridden(infra, env)
           fits == AcceptedInfra(given)
           alone(n) == Build(Alone(tenants[n]), infra, env)
<1>1. ASSUME NEW many
      PROVE  /\ Build(many, infra, env) = "serves"
                  <=> /\ env.mode # "odd" /\ fits
                      /\ \A n \in DOMAIN many : AcceptedTenant(many[n]) /\ Builds(many[n], final, env)
             /\ Build(many, infra, env) = "nothing"
                  <=> env.mode # "odd" /\ ~(fits /\ \A n \in DOMAIN many : AcceptedTenant(many[n]))
  BY DEF Build, Loaded
<1>2. ASSUME NEW n \in DOMAIN tenants
      PROVE  DOMAIN Alone(tenants[n]) = {"one"} /\ Alone(tenants[n])["one"] = tenants[n]
  BY DEF Alone
<1> HIDE DEF fits, final
<1>3. ASSUME NEW n \in DOMAIN tenants
      PROVE  /\ alone(n) = "serves"
                  <=> /\ env.mode # "odd" /\ fits
                      /\ AcceptedTenant(tenants[n]) /\ Builds(tenants[n], final, env)
             /\ alone(n) = "nothing"
                  <=> env.mode # "odd" /\ ~(fits /\ AcceptedTenant(tenants[n]))
  BY <1>1, <1>2
<1> HIDE DEF alone
<1>4. Build(tenants, infra, env) = "serves" <=> \A n \in DOMAIN tenants : alone(n) = "serves"
  BY <1>1, <1>3
<1>5. Build(tenants, infra, env) = "nothing" <=> \E n \in DOMAIN tenants : alone(n) = "nothing"
  BY <1>1, <1>3
<1> QED BY <1>4, <1>5 DEF alone

\* Whoever else is deployed, a request is answered as if its tenant were alone,
\* or as if it named nobody.
THEOREM AnsweredAsAlone ==
    ASSUME NEW tenants, NEW infra, NEW op, NEW name, NEW s, NEW limit, NEW works, NEW query
    PROVE  /\ name \in DOMAIN tenants =>
                /\ Answer(tenants, infra, op, name, s, limit, works)
                      = Answer(Alone(tenants[name]), infra, op, "one", s, limit, works)
                /\ Viewed(tenants, infra, op, name, query)
                      = Viewed(Alone(tenants[name]), infra, op, "one", query)
           /\ name \notin DOMAIN tenants =>
                \A t : /\ Answer(tenants, infra, op, name, s, limit, works)
                             = Answer(Alone(t), infra, op, "two", s, limit, works)
                       /\ Viewed(tenants, infra, op, name, query)
                             = Viewed(Alone(t), infra, op, "two", query)
<1>1. ASSUME NEW t
      PROVE  DOMAIN Alone(t) = {"one"} /\ Alone(t)["one"] = t
  BY DEF Alone
<1>2. ASSUME NEW many, NEW other, name \in DOMAIN tenants, other \in DOMAIN many,
             many[other] = tenants[name]
      PROVE  /\ Answer(tenants, infra, op, name, s, limit, works)
                   = Answer(many, infra, op, other, s, limit, works)
             /\ name \in Shown(tenants) <=> other \in Shown(many)
  <2>1. CASE op \in Changing /\ infra.mode # "online"
    BY <1>2, <2>1 DEF Answer, Shown
  <2>2. CASE ~(op \in Changing /\ infra.mode # "online")
    <3> DEFINE answer(t) == CASE op = "sync" -> Triggered(t, infra, s, works)
                              [] op = "retry" -> Retried(t, s, limit, works)
                              [] op = "purge" -> <<IF t.source # "git" THEN 200 ELSE 500, 0>>
                              [] op = "index" -> <<IF works THEN 200 ELSE 500, 0>>
                              [] op = "status" -> <<200, 0>>
    <3>1. Answer(tenants, infra, op, name, s, limit, works) = answer(tenants[name])
      BY <1>2, <2>2 DEF Answer
    <3>2. Answer(many, infra, op, other, s, limit, works) = answer(many[other])
      BY <1>2, <2>2 DEF Answer
    <3> HIDE DEF answer
    <3> QED BY <1>2, <3>1, <3>2 DEF Shown
  <2> QED BY <2>1, <2>2
<1>3. ASSUME name \notin DOMAIN tenants, NEW t
      PROVE  /\ Answer(tenants, infra, op, name, s, limit, works)
                   = Answer(Alone(t), infra, op, "two", s, limit, works)
             /\ name \notin Shown(tenants) /\ "two" \notin Shown(Alone(t))
  BY <1>1, <1>3 DEF Answer, Shown
<1>4. ASSUME NEW many, NEW other, name \in Shown(tenants) <=> other \in Shown(many)
      PROVE  Viewed(tenants, infra, op, name, query) = Viewed(many, infra, op, other, query)
  <2> DEFINE view == CASE op = "page" -> 200
                       [] op = "events" -> IF Taken(query.days) /\ Taken(query.limit) THEN 200 ELSE 400
                       [] op = "logs" -> IF query.type # "unknown" /\ Taken(query.limit) THEN 200 ELSE 400
             off == 503
             fine == 200
             missing == 404
  <2>1. Viewed(tenants, infra, op, name, query)
          = IF infra.mode # "online" THEN off ELSE IF op = "dashboard" THEN fine
            ELSE IF name \notin Shown(tenants) THEN missing ELSE view
    BY DEF Viewed
  <2>2. Viewed(many, infra, op, other, query)
          = IF infra.mode # "online" THEN off ELSE IF op = "dashboard" THEN fine
            ELSE IF other \notin Shown(many) THEN missing ELSE view
    BY DEF Viewed
  <2> HIDE DEF view, off, fine, missing
  <2>3. CASE name \in Shown(tenants)
    BY <1>4, <2>1, <2>2, <2>3
  <2>4. CASE name \notin Shown(tenants)
    BY <1>4, <2>1, <2>2, <2>4
  <2> QED BY <2>3, <2>4
<1>5. ASSUME name \in DOMAIN tenants
      PROVE  LET one == Alone(tenants[name])
             IN  "one" \in DOMAIN one /\ one["one"] = tenants[name]
  BY <1>1
<1>6. ASSUME name \in DOMAIN tenants
      PROVE  /\ Answer(tenants, infra, op, name, s, limit, works)
                   = Answer(Alone(tenants[name]), infra, op, "one", s, limit, works)
             /\ Viewed(tenants, infra, op, name, query)
                   = Viewed(Alone(tenants[name]), infra, op, "one", query)
  BY <1>2, <1>4, <1>5, <1>6
<1> QED BY <1>3, <1>4, <1>6

\* Every deployment of accepted tenants with directories is built, whatever
\* their sources and modes, as long as the environment is sound.
THEOREM AcceptedAreBuilt ==
    ASSUME NEW names, NEW tenants \in [names -> Payloads], NEW infra \in Quiet, NEW env \in Sound,
           \A n \in names : AcceptedTenant(tenants[n]) /\ tenants[n].root # "none"
    PROVE  Build(tenants, infra, env) = "serves"
<1>1. infra \in Infrastructures /\ ~infra.fallback /\ infra.endpoint = "none" /\ infra.url = "none"
  BY DEF Quiet
<1>2. env.limits /\ env.mode = "none"
  BY DEF Sound
<1>3. [infra EXCEPT !.mode = IF env.mode = "none" THEN @ ELSE env.mode] = infra
  BY <1>1, <1>2 DEF Infrastructures
<1>4. AcceptedInfra(infra) /\ Overridden(infra, env) = infra
  BY <1>1, <1>3 DEF AcceptedInfra, Overridden, WithFallback, Given
<1>5. ASSUME NEW t \in Payloads, AcceptedTenant(t), t.root # "none"
      PROVE  Builds(t, infra, env)
  BY <1>1, <1>2, <1>5 DEF Builds, SettingsFit, Syncs, AcceptedTenant, Normalized, Given
<1>6. Loaded(tenants, infra, env) = "accepted"
  BY <1>2, <1>3, <1>4 DEF Loaded
<1> QED BY <1>4, <1>5, <1>6 DEF Build

\* Offline no tenant starts anything by itself, and a request that would change
\* something is refused; whatever a request begins, it is a cycle or an export
\* of the tenant it names, which can be initialized and is on the dashboard; no
\* second cycle begins while one runs, and none for a tenant that only has files.
THEOREM ModesAreKeptByAll ==
    ASSUME NEW names, NEW tenants \in [names -> {t \in Payloads : AcceptedTenant(t)}],
           NEW infra \in Infrastructures, NEW works \in BOOLEAN, NEW name,
           NEW op \in Changing \cup {"status"}, NEW limit \in Numbers,
           NEW s \in [ready : BOOLEAN, busy : BOOLEAN],
           name \in names /\ s.ready => CanInitialize(tenants[name], infra)
    PROVE  LET answer == Answer(tenants, infra, op, name, s, limit, works)
           IN  /\ infra.mode = "offline" =>
                     /\ op # "status" => answer = <<503, 0>>
                     /\ \A n \in names : ~Runs(tenants[n], infra, works)
               /\ answer[2] > 0 =>
                     /\ op \in {"sync", "retry"} /\ name \in names
                     /\ tenants[name].source # "filesystem" /\ CanInitialize(tenants[name], infra)
                     /\ tenants[name].source = "online" => answer[2] = 1 /\ ~(s.ready /\ s.busy)
                     /\ \A query : Taken(query.days) /\ Taken(query.limit) =>
                           Viewed(tenants, infra, "events", name, query) = 200
<1> DEFINE answer == Answer(tenants, infra, op, name, s, limit, works)
           begun == answer[2]
           t == tenants[name]
<1>1. infra.mode \in {"online", "offline"} /\ op \in {"sync", "retry", "purge", "index", "status"}
  BY DEF Infrastructures, Changing
<1>2. ASSUME infra.mode = "offline"
      PROVE  /\ op # "status" => answer = <<503, 0>>
             /\ \A n \in names : ~Runs(tenants[n], infra, works)
  BY <1>1, <1>2 DEF Answer, Changing, Runs, CanInitialize, Enabled
<1>3. CASE op \in Changing /\ infra.mode # "online"
  <2>1. answer = <<503, 0>>
    BY <1>3 DEF Answer
  <2>2. ~(begun > 0)
    BY <2>1
  <2> QED BY <1>2, <2>2
<1>4. CASE name \notin names /\ ~(op \in Changing /\ infra.mode # "online")
  <2>1. answer = <<404, 0>>
    BY <1>4 DEF Answer
  <2>2. ~(begun > 0)
    BY <2>1
  <2> QED BY <1>2, <2>2
<1>5. CASE name \in names /\ ~(op \in Changing /\ infra.mode # "online")
  <2>1. t \in Payloads /\ t.source \in {"online", "filesystem", "git"}
    BY <1>5 DEF Payloads
  <2>2. name \in DOMAIN tenants /\ (s.ready => CanInitialize(t, infra))
    BY <1>5
  <2>3. CASE op \in {"purge", "index", "status"}
    <3>1. \E status : answer = <<status, 0>>
      BY <1>5, <2>2, <2>3 DEF Answer
    <3>2. ~(begun > 0)
      BY <3>1
    <3> QED BY <1>2, <3>2
  <2>4. CASE op = "sync"
    <3>1. answer = Triggered(t, infra, s, works)
      BY <1>5, <2>2, <2>4 DEF Answer
    <3> HIDE DEF answer, t
    <3>2. begun > 0 => CanInitialize(t, infra) /\ (t.source = "git" \/ (~s.busy /\ begun = 1))
      BY <2>2, <3>1 DEF Triggered
    <3> QED BY <1>2, <1>5, <2>1, <2>4, <3>2 DEF CanInitialize, Enabled, Viewed, Shown, OnDashboard, t, answer
  <2>5. CASE op = "retry"
    <3>1. answer = Retried(t, s, limit, works)
      BY <1>5, <2>2, <2>5 DEF Answer
    <3> HIDE DEF answer, t
    <3>2. begun > 0 => CanInitialize(t, infra) /\ t.source # "git" /\ ~s.busy /\ begun = 1
      BY <2>2, <3>1 DEF Retried
    <3> QED BY <1>2, <1>5, <2>1, <2>5, <3>2 DEF CanInitialize, Enabled, Viewed, Shown, OnDashboard, t, answer
  <2> QED BY <1>1, <2>3, <2>4, <2>5
<1> QED BY <1>3, <1>4, <1>5

\* A server that runs has either no fallback or one that answered, the one that
\* was asked for, however many tenants it serves.
THEOREM FallbackAnswersAll ==
    ASSUME NEW tenants, NEW infra \in Infrastructures, NEW env \in Environments,
           Build(tenants, infra, env) = "serves",
           \E n \in DOMAIN tenants : tenants[n].source # "git"
    PROVE  LET final == Overridden(infra, env)
           IN  /\ final.fallback => final.endpoint \in env.reachable
               /\ Given(infra.url) => final.fallback /\ final.endpoint = infra.url
               /\ infra.fallback => final.endpoint = infra.endpoint
               /\ final.mode \in {"online", "offline"}
<1> DEFINE given == [infra EXCEPT !.mode = IF env.mode = "none" THEN @ ELSE env.mode]
           final == Overridden(infra, env)
<1>1. env.mode # "odd" /\ AcceptedInfra(given) /\ \A n \in DOMAIN tenants : Builds(tenants[n], final, env)
  BY DEF Build, Loaded
<1>2. /\ given \in Infrastructures /\ given.url = infra.url /\ given.fallback = infra.fallback
      /\ given.endpoint = infra.endpoint
  BY <1>1 DEF Infrastructures, Environments
<1>3. final = WithFallback(given)
  BY DEF Overridden
<1> HIDE DEF given, final
<1>4. final.fallback => final.endpoint \in env.reachable
  BY <1>1 DEF Builds, SettingsFit
<1>5. CASE ~Given(given.url)
  BY <1>2, <1>3, <1>4, <1>5 DEF WithFallback, Infrastructures, final
<1>6. CASE Given(given.url)
  <2>1. final = [given EXCEPT !.fallback = TRUE, !.endpoint = IF Given(@) THEN @ ELSE given.url]
    BY <1>3, <1>6 DEF WithFallback
  <2>2. final.fallback /\ final.mode = given.mode
        /\ final.endpoint = IF Given(given.endpoint) THEN given.endpoint ELSE given.url
    BY <1>2, <2>1 DEF Infrastructures
  <2> QED BY <1>1, <1>2, <1>4, <1>6, <2>2 DEF AcceptedInfra, Infrastructures, final
<1> QED BY <1>5, <1>6

-----------------------------------------------------------------------------
\* What the properties of Deployment say.
LEMMA AcceptedIsAlwaysBuilt == AcceptedIsBuilt
<1> SUFFICES ASSUME NEW t \in Payloads, NEW infra \in Quiet, NEW env \in Sound,
                    AcceptedTenant(t), t.root # "none"
             PROVE  Build(Alone(t), infra, env) = "serves"
  BY DEF AcceptedIsBuilt
<1>1. Alone(t) \in [{"one"} -> Payloads] /\ \A n \in {"one"} : Alone(t)[n] = t
  BY DEF Alone
<1> QED BY <1>1, AcceptedAreBuilt

LEMMA FallbackAlwaysAnswers == FallbackAnswers
<1> SUFFICES ASSUME NEW infra \in Infrastructures, NEW env \in Environments,
                    Build(Alone(PlainTenant), infra, env) = "serves"
             PROVE  LET final == Overridden(infra, env)
                    IN  /\ final.fallback => final.endpoint \in env.reachable
                        /\ Given(infra.url) => final.fallback /\ final.endpoint = infra.url
                        /\ infra.fallback => final.endpoint = infra.endpoint
                        /\ final.mode \in {"online", "offline"}
  BY DEF FallbackAnswers
<1>1. "one" \in DOMAIN Alone(PlainTenant) /\ Alone(PlainTenant)["one"].source # "git"
  BY DEF Alone, PlainTenant
<1> QED BY <1>1, FallbackAnswersAll

LEMMA PlacesDoAgree == PlacesAgree
<1> SUFFICES ASSUME NEW t \in Payloads, NEW infra \in Quiet, NEW env \in Sound
             PROVE  /\ t.root = "plain" => ScheduledIn(t) = SearchedIn(t) /\ SearchedIn(t) = UnlockedIn(t)
                    /\ ArticleProxies(t, infra, env) = "pool" => t.proxies # "own" /\ env.proxies = "pool"
                    /\ t.proxies = "own" => ArticleProxies(t, infra, env) = "own"
  BY DEF PlacesAgree
<1>1. infra.proxies \in {"empty", "shared"} /\ env.proxies \in {"empty", "pool"}
      /\ t.proxies \in {"none", "empty", "own"}
  BY DEF Quiet, Infrastructures, Sound, Environments, Payloads
<1>2. t.root = "plain" => ScheduledIn(t) = SearchedIn(t) /\ SearchedIn(t) = UnlockedIn(t)
  BY DEF ScheduledIn, SearchedIn, UnlockedIn
<1>3. /\ ArticleProxies(t, infra, env) = "pool" => t.proxies # "own" /\ env.proxies = "pool"
      /\ t.proxies = "own" => ArticleProxies(t, infra, env) = "own"
  BY <1>1 DEF ArticleProxies
<1> QED BY <1>2, <1>3

\* What a request about one tenant may begin.
LEMMA BeginsAlone ==
    ASSUME NEW t \in Payloads, NEW infra \in Infrastructures, NEW works \in BOOLEAN,
           NEW op \in Changing \cup {"status"}, NEW limit \in Numbers,
           NEW s \in [ready : BOOLEAN, busy : BOOLEAN]
    PROVE  LET answer == Answer(Alone(t), infra, op, "one", s, limit, works)
           IN  /\ t.source = "online" => answer[2] <= 1 /\ (s.ready /\ s.busy => answer[2] = 0)
               /\ t.source = "filesystem" /\ (s.ready => CanInitialize(t, infra)) => answer[2] = 0
               /\ answer[2] > 0 /\ (s.ready => CanInitialize(t, infra)) =>
                     op \in {"sync", "retry"} /\ CanInitialize(t, infra) /\ t.source # "filesystem"
               /\ Answer(Alone(t), infra, op, "two", s, limit, works)[2] = 0
<1> DEFINE answer == Answer(Alone(t), infra, op, "one", s, limit, works)
<1>1. DOMAIN Alone(t) = {"one"} /\ Alone(t)["one"] = t
  BY DEF Alone
<1>2. Answer(Alone(t), infra, op, "two", s, limit, works)[2] = 0
  BY <1>1 DEF Answer
<1>3. op \in {"sync", "retry", "purge", "index", "status"}
  BY DEF Changing
<1>4. CASE \E status : answer = <<status, 0>>
  <2>1. answer[2] = 0
    BY <1>4
  <2> QED BY <1>2, <2>1
<1>5. CASE ~(op \in Changing /\ infra.mode # "online") /\ op = "sync"
  <2>1. answer = Triggered(t, infra, s, works)
    BY <1>1, <1>5 DEF Answer
  <2> HIDE DEF answer
  <2>2. t.source = "online" => answer[2] \in {0, 1} /\ (s.ready /\ s.busy => answer[2] = 0)
    BY <2>1 DEF Triggered
  <2>3. answer[2] > 0 => s.ready \/ CanInitialize(t, infra)
    BY <2>1 DEF Triggered
  <2>4. CanInitialize(t, infra) => t.source # "filesystem"
    BY DEF CanInitialize, Enabled
  <2>5. answer[2] \in {0, 1, 2}
    BY <2>1 DEF Triggered
  <2> QED BY <1>2, <1>5, <2>2, <2>3, <2>4, <2>5 DEF answer
<1>6. CASE ~(op \in Changing /\ infra.mode # "online") /\ op = "retry"
  <2>1. answer = Retried(t, s, limit, works)
    BY <1>1, <1>6 DEF Answer
  <2> HIDE DEF answer
  <2>2. answer[2] \in {0, 1} /\ (s.busy => answer[2] = 0) /\ (answer[2] > 0 => s.ready)
    BY <2>1 DEF Retried
  <2>3. CanInitialize(t, infra) => t.source # "filesystem"
    BY DEF CanInitialize, Enabled
  <2> QED BY <1>2, <1>6, <2>2, <2>3 DEF answer
<1>7. CASE op \in Changing /\ infra.mode # "online"
  <2>1. answer = <<503, 0>>
    BY <1>7 DEF Answer
  <2> QED BY <1>4, <2>1
<1>8. CASE ~(op \in Changing /\ infra.mode # "online") /\ op \in {"purge", "index", "status"}
  <2>1. \E status : answer = <<status, 0>>
    BY <1>1, <1>8 DEF Answer
  <2> QED BY <1>4, <2>1
<1> QED BY <1>3, <1>5, <1>6, <1>7, <1>8

LEMMA ModesAreAlwaysKept == ModesAreKept
<1> SUFFICES ASSUME NEW t \in Payloads, NEW infra \in Quiet, NEW works \in BOOLEAN,
                    NEW op \in Changing \cup {"status"}, NEW limit \in Numbers,
                    NEW s \in [ready : BOOLEAN, busy : BOOLEAN],
                    AcceptedTenant(t), s.ready => CanInitialize(t, infra)
             PROVE  LET answer == Answer(Alone(t), infra, op, "one", s, limit, works)
                    IN  /\ infra.mode = "offline" => ~Runs(t, infra, works) /\ (op # "status" => answer = <<503, 0>>)
                        /\ infra.mode = "online" /\ Autostarts(t) => CanInitialize(t, infra)
                        /\ FollowsCron(t, infra, works) <=> /\ infra.mode = "online" /\ works
                                                            /\ t.schedule = "cron" /\ t.source # "filesystem"
                        /\ t.source = "online" => answer[2] <= 1 /\ (s.ready /\ s.busy => answer[2] = 0)
                        /\ t.source = "filesystem" => answer[2] = 0
                        /\ answer[2] > 0 => op \in {"sync", "retry"} /\ CanInitialize(t, infra)
                        /\ Answer(Alone(t), infra, op, "two", s, limit, works)[2] = 0
  BY DEF ModesAreKept
<1> DEFINE answer == Answer(Alone(t), infra, op, "one", s, limit, works)
<1>1. infra \in Infrastructures /\ infra.mode \in {"online", "offline"}
  BY DEF Quiet, Infrastructures
<1>2. infra.mode = "offline" => ~Runs(t, infra, works) /\ (op # "status" => answer = <<503, 0>>)
  BY DEF Answer, Runs, CanInitialize, Enabled
<1>3. t.source \in {"online", "filesystem", "git"} /\ t.schedule \in {"none", "empty", "cron", "bad"}
  BY DEF Payloads
<1>4. t.source = "online" => Given(t.urls)
  BY DEF AcceptedTenant, Normalized, Given
<1>5. infra.mode = "online" /\ Autostarts(t) => CanInitialize(t, infra)
  BY <1>4 DEF Autostarts, CanInitialize, Enabled
<1>6. FollowsCron(t, infra, works) <=> /\ infra.mode = "online" /\ works
                                       /\ t.schedule = "cron" /\ t.source # "filesystem"
  BY <1>1, <1>3, <1>4 DEF FollowsCron, Runs, Autostarts, CanInitialize, Enabled
<1> HIDE DEF answer
<1> QED BY <1>1, <1>2, <1>5, <1>6, BeginsAlone DEF answer

LEMMA BegunIsAlwaysShown == BegunIsShown
<1> SUFFICES ASSUME NEW t \in Payloads, NEW infra \in Quiet, NEW works \in BOOLEAN, NEW limit \in Numbers,
                    NEW s \in [ready : BOOLEAN, busy : BOOLEAN], AcceptedTenant(t)
             PROVE  LET plain == [days |-> "absent", type |-> "absent", limit |-> "absent"]
                        sees(op) == Viewed(Alone(t), infra, op, "one", plain)
                    IN  /\ infra.mode = "online" =>
                              \A op \in {"page", "events", "logs"} :
                                 sees(op) = IF "one" \in Shown(Alone(t)) THEN 200 ELSE 404
                        /\ (s.ready => CanInitialize(t, infra)) =>
                              \A op \in Changing : Answer(Alone(t), infra, op, "one", s, limit, works)[2] > 0 =>
                                 sees("events") = 200
  BY DEF BegunIsShown
<1> DEFINE plain == [days |-> "absent", type |-> "absent", limit |-> "absent"]
           sees(op) == Viewed(Alone(t), infra, op, "one", plain)
<1>1. ASSUME infra.mode = "online", NEW op \in {"page", "events", "logs"}
      PROVE  sees(op) = IF "one" \in Shown(Alone(t)) THEN 200 ELSE 404
  BY <1>1 DEF Viewed, Taken
<1>2. ASSUME s.ready => CanInitialize(t, infra), NEW op \in Changing,
             Answer(Alone(t), infra, op, "one", s, limit, works)[2] > 0
      PROVE  sees("events") = 200
  <2>1. infra \in Infrastructures
    BY DEF Quiet
  <2>2. CanInitialize(t, infra) /\ t.source # "filesystem"
    BY <1>2, <2>1, BeginsAlone
  <2>3. infra.mode = "online" /\ "one" \in Shown(Alone(t))
    BY <2>2 DEF CanInitialize, Enabled, Shown, OnDashboard, Alone
  <2> QED BY <1>1, <2>3
<1> QED BY <1>1, <1>2

-----------------------------------------------------------------------------
\* Codenames of names of any length, by induction on it.
\* Induction over a bounded interval, as a fact about a set of numbers.
LEMMA UpTo ==
    ASSUME NEW n \in Nat, NEW S, 0 \in S, \A k \in 0 .. n - 1 : k \in S => k + 1 \in S
    PROVE  0 .. n \subseteq S
<1> DEFINE T == (0 .. n) \ S
           R == OpToRel(<, Nat)
<1> SUFFICES ASSUME T # {} PROVE FALSE
  OBVIOUS
<1>1. PICK x \in T : \A y \in T : <<y, x>> \notin R
  <2>1. T \subseteq Nat
    OBVIOUS
  <2>2. IsWellFoundedOn(R, Nat)
    BY NatLessThanWellFounded
  <2> HIDE DEF T, R
  <2> QED BY <2>1, <2>2, WFMin
<1>2. x \in Nat /\ x # 0 /\ x \in 0 .. n
  OBVIOUS
<1>3. x - 1 \in 0 .. n - 1 /\ (x - 1) + 1 = x
  BY <1>2
<1>4. x - 1 \notin S
  BY <1>3
<1>5. <<x - 1, x>> \in R
  BY <1>2 DEF OpToRel
<1> HIDE DEF R
<1> QED BY <1>1, <1>3, <1>4, <1>5

\* What is made of a name, character by character (_derive_env_tenant_codename).
Slugs == Seq({"l", "d", "-"})
Joined(slug, c) == IF c # "o" THEN Append(slug, c)
                   ELSE IF slug = << >> \/ Last(slug) = "-" THEN slug ELSE Append(slug, "-")
IsJoining(f, name, n) ==
    f = [k \in 0 .. n |-> IF k = 0 THEN << >> ELSE Joined(f[k - 1], name[k])]

LEMMA JoiningExists ==
    ASSUME NEW n \in Nat, NEW name
    PROVE  \E f : IsJoining(f, name, n)
<1> DEFINE Has(k) == \E f : IsJoining(f, name, k)
           S == {k \in 0 .. n : Has(k)}
<1>1. Has(0)
  <2> DEFINE f == [k \in 0 .. 0 |-> << >>]
  <2>1. f = [k \in 0 .. 0 |-> IF k = 0 THEN << >> ELSE Joined(f[k - 1], name[k])]
    <3>1. \A k \in 0 .. 0 : k = 0
      OBVIOUS
    <3> QED BY <3>1
  <2> HIDE DEF f
  <2>2. IsJoining(f, name, 0)
    BY <2>1 DEF IsJoining
  <2> QED BY <2>2
<1>2. ASSUME NEW k \in 0 .. n - 1, Has(k) PROVE Has(k + 1)
  <2>1. PICK f : IsJoining(f, name, k)
    BY <1>2
  <2>2. \A i \in 0 .. k : f[i] = IF i = 0 THEN << >> ELSE Joined(f[i - 1], name[i])
    BY <2>1 DEF IsJoining
  <2> DEFINE g == [i \in 0 .. k + 1 |-> IF i = k + 1 THEN Joined(f[k], name[k + 1]) ELSE f[i]]
  <2>3. ASSUME NEW i \in 0 .. k + 1
        PROVE  g[i] = IF i = 0 THEN << >> ELSE Joined(g[i - 1], name[i])
    <3>1. CASE i = k + 1
      <4>1. i # 0 /\ i - 1 = k /\ k \in 0 .. k + 1 /\ k # k + 1
        BY <3>1
      <4>2. g[i - 1] = f[k] /\ g[i] = Joined(f[k], name[i])
        BY <3>1, <4>1
      <4> HIDE DEF g
      <4> QED BY <4>1, <4>2
    <3>2. CASE i # k + 1 /\ i # 0
      <4>1. i - 1 \in 0 .. k + 1 /\ i - 1 # k + 1 /\ i \in 0 .. k
        BY <3>2
      <4>2. g[i] = f[i] /\ g[i - 1] = f[i - 1]
        BY <3>2, <4>1
      <4> HIDE DEF g
      <4> QED BY <2>2, <3>2, <4>1, <4>2
    <3>3. CASE i # k + 1 /\ i = 0
      <4>1. g[i] = f[0] /\ 0 \in 0 .. k
        BY <3>3
      <4> HIDE DEF g
      <4> QED BY <2>2, <3>3, <4>1
    <3> QED BY <3>1, <3>2, <3>3
  <2>4. g = [i \in 0 .. k + 1 |-> g[i]]
    OBVIOUS
  <2> HIDE DEF g
  <2>5. IsJoining(g, name, k + 1)
    BY <2>3, <2>4 DEF IsJoining
  <2> QED BY <2>5
<1>3. Has(n)
  <2> HIDE DEF Has
  <2>1. 0 \in S
    BY <1>1
  <2>2. \A k \in 0 .. n - 1 : k \in S => k + 1 \in S
    BY <1>2
  <2> HIDE DEF S
  <2>3. 0 .. n \subseteq S
    BY <2>1, <2>2, UpTo
  <2>4. n \in S
    BY <2>3
  <2> QED BY <2>4 DEF S
<1> QED BY <1>3

LEMMA DashedIsTyped ==
    ASSUME NEW n \in Nat, NEW name \in [1 .. n -> {"l", "d", "o"}]
    PROVE  Dashed(name) \in Slugs
<1> DEFINE f == CHOOSE g : IsJoining(g, name, n)
<1>1. Len(name) = n
  OBVIOUS
<1>2. IsJoining(f, name, n)
  BY JoiningExists
<1>3. Dashed(name) = f[n]
  BY <1>1 DEF Dashed, IsJoining, Joined
<1> DEFINE Has(k) == f[k] \in Slugs
           S == {k \in 0 .. n : Has(k)}
<1> HIDE DEF f
<1>4. Has(0)
  BY <1>2 DEF IsJoining, Slugs
<1>5. ASSUME NEW k \in 0 .. n - 1, Has(k) PROVE Has(k + 1)
  <2>1. k + 1 \in 1 .. n /\ k + 1 \in 0 .. n /\ (k + 1) - 1 = k /\ k + 1 # 0
    OBVIOUS
  <2>2. f[k + 1] = Joined(f[k], name[k + 1])
    BY <1>2, <2>1 DEF IsJoining
  <2>3. name[k + 1] \in {"l", "d", "o"}
    BY <2>1
  <2>4. Joined(f[k], name[k + 1]) \in Slugs
    BY <1>5, <2>3 DEF Joined, Slugs
  <2> QED BY <2>2, <2>4
<1>6. Has(n)
  <2> HIDE DEF Has
  <2>1. 0 \in S
    BY <1>4
  <2>2. \A k \in 0 .. n - 1 : k \in S => k + 1 \in S
    BY <1>5
  <2> HIDE DEF S
  <2>3. 0 .. n \subseteq S
    BY <2>1, <2>2, UpTo
  <2>4. n \in S
    BY <2>3
  <2> QED BY <2>4 DEF S
<1> QED BY <1>3, <1>6

\* However long a name, its codename is one that the configuration accepts
\* (_derive_env_tenant_codename, TenantConfig.codename).
THEOREM CodenamesAreAccepted ==
    ASSUME NEW n \in Nat, NEW name \in [1 .. n -> {"l", "d", "o"}]
    PROVE  AcceptedCodename(DerivedCodename(name))
<1> DEFINE dashed == Dashed(name)
           slug == IF dashed # << >> /\ Last(dashed) = "-" THEN Front(dashed) ELSE dashed
           docs == <<"l", "l", "l", "l">>
           full == IF slug = << >> THEN docs
                   ELSE IF slug[1] # "l" THEN docs \o <<"-">> \o slug
                   ELSE IF Len(slug) = 1 THEN Append(slug, "l") ELSE slug
           size == IF Len(full) < NameSize THEN Len(full) ELSE NameSize
<1>1. dashed \in Slugs
  BY DashedIsTyped
<1>2. slug \in Slugs
  <2> HIDE DEF dashed
  <2>1. CASE dashed # << >> /\ Last(dashed) = "-"
    <3>1. Len(dashed) - 1 \in Nat /\ Front(dashed) = SubSeq(dashed, 1, Len(dashed) - 1)
      BY <1>1, <2>1 DEF Front, Slugs
    <3>2. Front(dashed) \in Slugs
      BY <1>1, <3>1 DEF Slugs
    <3> QED BY <2>1, <3>2
  <2> QED BY <1>1, <2>1
<1> HIDE DEF slug
<1>3. full \in Slugs /\ Len(full) >= 2 /\ full[1] = "l"
  <2>1. CASE slug = << >>
    <3>1. full = docs
      BY <2>1
    <3> HIDE DEF full
    <3> QED BY <3>1 DEF Slugs
  <2>2. CASE slug # << >> /\ slug[1] # "l"
    <3>1. full = docs \o <<"-">> \o slug
      BY <2>2
    <3>2. docs \o <<"-">> \in Slugs /\ Len(docs \o <<"-">>) = 5 /\ (docs \o <<"-">>)[1] = "l"
      BY DEF Slugs
    <3> DEFINE head == docs \o <<"-">>
    <3> HIDE DEF full, head
    <3>3. head \o slug \in Slugs /\ Len(head \o slug) >= 5 /\ (head \o slug)[1] = "l"
      BY <1>2, <3>2 DEF Slugs, head
    <3> QED BY <3>1, <3>3 DEF head
  <2>3. CASE slug # << >> /\ slug[1] = "l"
    <3>1. Len(slug) >= 1
      BY <1>2, <2>3 DEF Slugs
    <3>2. CASE Len(slug) = 1
      <4>1. full = Append(slug, "l")
        BY <2>3, <3>2
      <4> HIDE DEF full
      <4> QED BY <1>2, <2>3, <3>2, <4>1 DEF Slugs
    <3>3. CASE Len(slug) # 1
      <4>1. full = slug
        BY <2>3, <3>3
      <4> HIDE DEF full
      <4> QED BY <1>2, <2>3, <3>1, <3>3, <4>1 DEF Slugs
    <3> QED BY <3>2, <3>3
  <2> QED BY <2>1, <2>2, <2>3
<1>4. DerivedCodename(name) = SubSeq(full, 1, size)
  BY DEF DerivedCodename, slug
<1> HIDE DEF full
<1>5. size \in 2 .. NameSize /\ size <= Len(full)
  BY <1>3, NameSizeAssumption DEF Slugs
<1> HIDE DEF size
<1> DEFINE code == SubSeq(full, 1, size)
<1>6. Len(code) = size /\ \A i \in 1 .. size : code[i] = full[i]
  BY <1>3, <1>5 DEF Slugs
<1>7. DOMAIN code = 1 .. size
  BY <1>3, <1>5, <1>6 DEF Slugs
<1>8. \A i \in 1 .. size : full[i] \in {"l", "d", "-"}
  BY <1>3, <1>5 DEF Slugs
<1> HIDE DEF code
<1>9. AcceptedCodename(code)
  BY <1>3, <1>5, <1>6, <1>7, <1>8 DEF AcceptedCodename
<1> QED BY <1>4, <1>9 DEF code

LEMMA NamesDoMakeCodenames == NamesMakeCodenames
<1>1. ASSUME NEW n \in 0 .. NameSize + 1, NEW name \in [1 .. n -> {"l", "d", "o"}]
      PROVE  AcceptedCodename(DerivedCodename(name))
  BY NameSizeAssumption, n \in Nat, CodenamesAreAccepted
<1>2. \A urls \in {"none", "blank", "some"} : Normalized(urls) => AcceptedTenant(EnvTenant(urls))
  BY DEF Normalized, AcceptedTenant, EnvTenant
<1> QED BY <1>1, <1>2 DEF NamesMakeCodenames

\* What the configuration accepts is built and served (deployment_config.py,
\* tenant.py, app_builder.py).
THEOREM AcceptedIsAlwaysServed == FairSpec => []DeploymentIsServed
<1>1. DeploymentIsServed
  BY AcceptedIsAlwaysBuilt, FallbackAlwaysAnswers, ModesAreAlwaysKept, BegunIsAlwaysShown,
     PlacesDoAgree, NamesDoMakeCodenames DEF DeploymentIsServed, AcceptedIsServed
<1> QED BY <1>1, PTL
=============================================================================
