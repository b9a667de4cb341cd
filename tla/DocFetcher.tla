------------------------------ MODULE DocFetcher ------------------------------
(* AsyncDocFetcher: the fetches of a tenant share one ProxyPool and one       *)
(* Playwright browser, which is closed and replaced when a fetch rotates to   *)
(* another proxy.  A fetch tries the markdown mirrors of its URL, the HTML    *)
(* over aiohttp, the browser and the fallback service, in this order; every   *)
(* request is awaited, and other fetches run meanwhile.                       *)
EXTENDS Naturals, Sequences, FiniteSets

CONSTANTS Tasks,        \* fetches in flight at most
          ProxyCounts,  \* the numbers of configured proxies to look at
          MaxRetries,   \* fallback_max_retries
          MaxBrowsers,  \* bound: browsers open at once, lost ones included
          Direct        \* no proxy

ASSUME BoundsAssumption == /\ ProxyCounts \subseteq Nat
                           /\ MaxRetries \in Nat /\ MaxBrowsers \in Nat
ASSUME DirectAssumption == Direct \notin Nat
ASSUME TasksAssumption == IsFiniteSet(Tasks)

VARIABLES count,    \* how many proxies are configured: 0 .. count - 1
          good,     \* the proxy over which the site gives its pages, Direct: none
          made,     \* CacheService._fetcher is not None
          active,   \* _active_index of the pool
          browser,  \* playwright_fetcher, 0: None
          through,  \* _active_proxy: what the last browser was opened with
          running,  \* the browsers whose process runs
          fetch,    \* what each fetch does
          raced,    \* history: two fetches replaced the browser at once
          misled    \* history: what kept each fetch from the good proxy's browser

setup == <<count, good>>
shared == <<made, active, browser, through, running>>
history == <<raced, misled>>
vars == <<setup, shared, fetch, history>>

Browsers == 1 .. MaxBrowsers
Proxies == IF count = 0 THEN {Direct} ELSE 0 .. count - 1

Requests == {"mirror", "mirror.txt", "static"}
Stages == {"idle", "enter"} \cup Requests \cup {"close", "open", "browse", "fallback"}

Idle == [at |-> "idle", left |-> << >>, blocked |-> FALSE, held |-> 0, tries |-> 0,
         result |-> "none"]

\* Type invariant.
TypeOK ==
    /\ count \in ProxyCounts /\ good \in Proxies \cup {Direct}
    /\ made \in BOOLEAN
    /\ active \in IF count = 0 THEN {0} ELSE Proxies
    /\ browser \in 0 .. MaxBrowsers /\ through \in Proxies \cup {Direct}
    /\ running \subseteq Browsers
    /\ fetch \in [Tasks -> [at : Stages,
                            left : Seq(Proxies),  \* candidates, the present one first
                            blocked : BOOLEAN,    \* blocked_response_seen
                            held : 0 .. MaxBrowsers,
                            tries : 0 .. MaxRetries,
                            result : {"none", "page", "blocked", "failed", "raised"}]]
    /\ raced \in BOOLEAN /\ misled \in [Tasks -> BOOLEAN]

Init == /\ count \in ProxyCounts
        /\ good \in Proxies \cup {Direct}
        /\ made = FALSE
        /\ active = 0
        /\ browser = 0 /\ through = Direct
        /\ running = {}
        /\ fetch = [t \in Tasks |-> Idle]
        /\ raced = FALSE /\ misled = [t \in Tasks |-> FALSE]

(***************************************************************************)
(* ProxyPool.                                                              *)
(***************************************************************************)
\* Faulty: the last proxy of the round is left out.
CandidatesShort(from) == IF count = 0 THEN <<Direct>>
                         ELSE [i \in 1 .. count - 1 |-> (from + i - 1) % count]

\* candidates: the active proxy, then the others round.
Candidates(from) == IF count = 0 THEN <<Direct>>
                    ELSE [i \in 1 .. count |-> (from + i - 1) % count]

AfterSuccess(proxy) == IF count = 0 THEN active ELSE proxy

AfterBlocked(proxy) == IF count # 0 /\ active = proxy THEN (proxy + 1) % count ELSE active

(***************************************************************************)
(* The course of a fetch, as the records it goes through.                  *)
(***************************************************************************)
Ended(result) == [Idle EXCEPT !.result = result]

\* A pass over the candidates begins, the active one first.
Pass(stage, first) == [Idle EXCEPT !.at = stage, !.left = Candidates(first)]

Fallback == {[Idle EXCEPT !.at = "fallback"], Ended("failed")}  \* not for assets, may be off

\* Every proxy has been tried: FetchBlockedError ends the fetch, a pass without
\* an answer hands over to what comes next.
Exhausted(f, next) == IF f.blocked /\ count > 0 THEN {Ended("blocked")} ELSE next

\* The browser that the fetcher holds has a context to fetch with: it has not
\* been closed, or half closed, and no fetch is closing it.
Ready == /\ browser \in running
         /\ \A t \in Tasks : fetch[t].at = "close" => fetch[t].held # browser

\* With the browser that is there: fetch, or give up when it is of no use.
Use(f) == (IF browser = 0 THEN {} ELSE {[f EXCEPT !.at = "browse", !.held = browser]})
          \cup (IF Ready THEN {} ELSE Fallback)

\* Faulty: the browser of the old proxy is not closed.
TurnOpens(f) ==
    IF f.left = << >> THEN Exhausted(f, Fallback)
    ELSE IF Head(f.left) # through THEN {[f EXCEPT !.at = "open", !.held = browser]}
         ELSE Use(f)

\* The loop of _fetch_and_extract at its next candidate: rotate to another proxy,
\* or go on with the browser.
Turn(f) ==
    IF f.left = << >> THEN Exhausted(f, Fallback)
    ELSE IF Head(f.left) # through
         THEN {[f EXCEPT !.at = IF browser # 0 THEN "close" ELSE "open", !.held = browser]}
         ELSE Use(f)

\* The next candidate is the one the last browser was opened with, and that
\* browser is of no use: none is opened for it.
Barren(f) == f.left # << >> /\ Head(f.left) = through /\ ~Ready

AfterStage(stage, first) ==
    IF stage = "mirror" THEN {Pass("mirror.txt", first), Pass("static", first)}
    ELSE IF stage = "mirror.txt" THEN {Pass("static", first)}
    ELSE IF browser = 0 THEN Fallback ELSE Turn(Pass("browse", first))

Goes(t, records) == \E f \in records : fetch' = [fetch EXCEPT ![t] = f]

(***************************************************************************)
(* Steps.                                                                  *)
(***************************************************************************)
\* Whether something keeps fetch t from the good proxy.
Meets(t, obstacle) == misled' = [misled EXCEPT ![t] = good # Direct /\ (@ \/ obstacle)]

\* Two fetches are between the old browser and the new one.
MarksRaces == raced' = (raced \/ Cardinality({t \in Tasks : fetch'[t].at \in {"close", "open"}}) > 1)

\* fetch_page begins: with the mirrors when the tenant has a suffix for them.
Begins(t, first) == Goes(t, {Pass("mirror", first), Pass("static", first)})

\* ensure_ready: the first fetch makes the fetcher and enters it; others see it
\* made and go on, with the browser or without.
Begin(t) ==
    /\ fetch[t].at = "idle"
    /\ made' = TRUE
    /\ IF made THEN Begins(t, active) ELSE Goes(t, {Pass("enter", active)})
    /\ misled' = [misled EXCEPT ![t] = FALSE]
    /\ UNCHANGED <<setup, active, browser, through, running, raced>>

\* _activate_playwright_proxy has opened a browser; it becomes the one of all.
Opened(t, b) ==
    /\ b \in Browsers \ (running \cup {fetch[u].held : u \in Tasks})
    /\ running' = running \cup {b}
    /\ browser' = b
    /\ through' = Head(fetch[t].left)
    /\ active' = AfterSuccess(Head(fetch[t].left))

\* __aenter__: one candidate after the other; when none opens it raises, and
\* _fetcher stays.
Enter(t) ==
    /\ fetch[t].at = "enter"
    /\ \/ /\ \E b \in Browsers : Opened(t, b)
          /\ Begins(t, active')
       \/ /\ Goes(t, IF Len(fetch[t].left) > 1
                     THEN {[fetch[t] EXCEPT !.left = Tail(@)]} ELSE {Ended("raised")})
          /\ UNCHANGED <<active, browser, through, running>>
    /\ UNCHANGED <<setup, made, history>>

\* A response over a proxy, as the loops tell them apart: a page; a block, by
\* its status or its body; an exception; anything else (another status, a page
\* too thin to extract), which ends the pass.  Over the good proxy the browser
\* gets the page; a mirror may be missing and the bare HTML thin.
Answers(stage, proxy) ==
    IF good = Direct \/ proxy # good THEN {"page", "block", "error", "other"}
    ELSE IF stage = "browse" THEN {"page"} ELSE {"page", "other"}

NextProxy(f, answer) == [f EXCEPT !.left = Tail(@), !.blocked = @ \/ answer = "block"]

Request(t) ==
    LET f == fetch[t]
        proxy == Head(f.left)
    IN /\ f.at \in Requests
       /\ \E answer \in Answers(f.at, proxy) :
          LET next == NextProxy(f, answer) IN
          /\ active' = IF answer \in {"page", "other"} THEN AfterSuccess(proxy)
                       ELSE AfterBlocked(proxy)
          /\ Goes(t, IF answer = "page" THEN {Ended("page")}
                     ELSE IF answer = "other" THEN AfterStage(f.at, active')
                     ELSE IF next.left = << >> THEN Exhausted(next, AfterStage(f.at, active'))
                     ELSE {next})
          /\ Meets(t, f.at = "static" /\ (browser = 0 \/ Barren(Pass("browse", active'))))
       /\ MarksRaces
       /\ UNCHANGED <<setup, made, browser, through, running>>

\* The old browser has been closed, and playwright_fetcher is set to None; or
\* closing it fails, the candidate is passed over and playwright_fetcher stays,
\* with a browser that may or may not run.
Close(t) ==
    LET f == fetch[t]
        next == NextProxy(f, "error")
    IN /\ f.at = "close"
       /\ \/ /\ running' = running \ {f.held}
             /\ browser' = 0
             /\ Goes(t, {[f EXCEPT !.at = "open", !.held = 0]})
             /\ UNCHANGED <<active, misled>>
          \/ /\ running' \in {running, running \ {f.held}}
             /\ active' = AfterBlocked(Head(f.left))
             /\ Goes(t, Turn(next))
             /\ Meets(t, Head(f.left) = good \/ Barren(next))
             /\ UNCHANGED browser
       /\ MarksRaces
       /\ UNCHANGED <<setup, made, through>>

\* A browser for the next proxy opens or does not.
Open(t) ==
    LET f == fetch[t]
        next == NextProxy(f, "error")
    IN /\ f.at = "open"
       /\ \/ /\ \E b \in Browsers : /\ Opened(t, b)
                                   /\ Goes(t, {[f EXCEPT !.at = "browse", !.held = b]})
             /\ UNCHANGED misled
          \/ /\ active' = AfterBlocked(Head(f.left))
             /\ Goes(t, Turn(next))
             /\ Meets(t, Head(f.left) = good \/ Barren(next))
             /\ UNCHANGED <<browser, through, running>>
       /\ MarksRaces
       /\ UNCHANGED <<setup, made>>

\* A browser that another fetch has closed answers with an exception.
Browse(t) ==
    LET f == fetch[t]
        proxy == Head(f.left)
    IN /\ f.at = "browse"
       /\ \E answer \in IF f.held \in running THEN Answers("browse", proxy) ELSE {"error"} :
          /\ active' \in IF answer = "page" THEN {AfterSuccess(proxy)}
                         ELSE IF answer = "other" THEN {active, AfterSuccess(proxy)}
                         ELSE {AfterBlocked(proxy)}
          /\ Goes(t, IF answer = "page" THEN {Ended("page")}
                     ELSE IF answer = "other" THEN Fallback
                     ELSE Turn(NextProxy(f, answer)))
          /\ Meets(t, \/ answer = "other" /\ proxy # good
                      \/ answer \in {"block", "error"} /\ proxy = good
                      \/ answer \in {"block", "error"} /\ Barren(NextProxy(f, answer)))
       /\ MarksRaces
       /\ UNCHANGED <<setup, made, browser, through, running>>

\* Faulty: when the attempts are used up they begin again.
AskAgain(t) ==
    /\ fetch[t].at = "fallback"
    /\ Goes(t, {Ended("page"), [fetch[t] EXCEPT !.tries = (@ + 1) % (MaxRetries + 1)]})
    /\ UNCHANGED <<setup, shared, history>>

\* An attempt at the fallback service: a page, or after a pause the next one.
Ask(t) ==
    /\ fetch[t].at = "fallback"
    /\ Goes(t, {Ended("page"),
                IF fetch[t].tries < MaxRetries THEN [fetch[t] EXCEPT !.tries = @ + 1]
                ELSE Ended("failed")})
    /\ UNCHANGED <<setup, shared, history>>

Step(t) == Enter(t) \/ Request(t) \/ Close(t) \/ Open(t) \/ Browse(t) \/ Ask(t)

Next == \E t \in Tasks : Begin(t) \/ Step(t)

\* Every request of a fetch has a timeout, so a fetch goes on; no page need ever
\* be asked for.
FairSpec == /\ Init /\ [][Next]_vars
            /\ \A t \in Tasks : WF_vars(Step(t))

(***************************************************************************)
(* Properties.                                                             *)
(***************************************************************************)
\* When the site gives its pages over one proxy, whichever it is and wherever
\* the round begins, a fetch brings the page, also while other fetches turn the
\* pool, unless it was kept from the good proxy's browser (fetch_page,
\* candidates): another proxy answered the browser with a status that is not
\* retried or a page that cannot be extracted; the browser was gone, or closed
\* under the fetch by another one; it could not be opened or closed.
GoodProxyIsFound ==
    good # Direct => \A t \in Tasks : fetch[t].result \in {"blocked", "failed"} => misled[t]

\* Browsers that run are the one that fetches use, or one that a fetch is about
\* to close or works with: none is left running unseen, unless two fetches have
\* replaced the browser at once (_activate_playwright_proxy).
NoBrowserIsLost ==
    ~raced => running \subseteq {browser} \cup {fetch[t].held : t \in Tasks}

\* Every fetch ends, through blocks, failing proxies, browsers that close under
\* it and a fallback service that does not answer.
FetchesEnd == \A t \in Tasks : fetch[t].at # "idle" ~> fetch[t].at = "idle"
=============================================================================
