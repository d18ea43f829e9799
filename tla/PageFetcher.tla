----------------------------- MODULE PageFetcher -----------------------------
(***************************************************************************)
(* Fetching a page of a Source, backend/apps/source_extraction/fetching.py: *)
(* robots.txt, redirects, deadlines and rendering in a browser.             *)
(*                                                                         *)
(* A fetch is done by the thread that asked for it ("main"); while it      *)
(* renders, the browser's thread loads the resources of the page by the    *)
(* same _fetch_url.  A lookup, a request and a rendering are each run by a *)
(* thread of their own under a semaphore: the one who waits for it gives   *)
(* up at the deadline, the thread goes on and frees its slot when it ends. *)
(* So a page that was given up may still load resources, next to the       *)
(* fetches of the pages after it.                                          *)
(*                                                                         *)
(* Deadlines may pass whenever somebody waits; the pause between requests  *)
(* (_pace_fetch) is part of the step that takes the connection's slot.     *)
(***************************************************************************)
EXTENDS Naturals, FiniteSets

CONSTANTS
    Url,            \* the pages that links lead to
    Origin,         \* scheme and host; each stands for its robots.txt, too
    Browser,        \* threads that render
    Concurrency,    \* MAX_CONCURRENCY
    MaxRedirects,   \* MAX_REDIRECTS
    MaxResources,   \* MAX_BROWSER_RESOURCES
    None

ASSUME FetcherAssumption ==
    /\ Concurrency \in Nat \ {0} /\ MaxRedirects \in Nat /\ MaxResources \in Nat
    /\ IsFiniteSet(Url) /\ IsFiniteSet(Browser)
    /\ None \notin Url \cup Origin \cup Browser
    /\ Url \cap Origin = {} /\ "main" \notin Browser

VARIABLES
    site,       \* the web site: what it answers (it stays the same)
    robots,     \* _robots_by_origin: the origins whose robots.txt is known
    slots,      \* what is left of the semaphore of each kind of operation
    alive,      \* the threads of each kind that run
    main,       \* the fetch under way
    work,       \* the _fetch_url that main and the browsers are in
    browser     \* what each browser has loaded, and was told

fetcher == <<robots, slots, alive, main, work, browser>>

Kind == {"resolver", "connection", "browser"}
Worker == {"main"} \cup Browser
NoRequest == [step |-> "idle", at |-> None, hops |-> 0, ok |-> FALSE]
NoFetch == [stage |-> "idle", url |-> None, target |-> None, hops |-> 0, again |-> FALSE,
            render |-> FALSE, got |-> None, body |-> None]
NewBrowser == [live |-> FALSE, expired |-> FALSE, requested |-> 0, reported |-> None]

(* A SourcePageFetcher is made for each task.                               *)
NewFetcher ==
    /\ robots = {}
    /\ slots = [k \in Kind |-> Concurrency] /\ alive = [k \in Kind |-> 0]
    /\ main = NoFetch
    /\ work = [p \in Worker |-> NoRequest] /\ browser = [b \in Browser |-> NewBrowser]

ReplaceFetcher ==
    /\ robots' = {}
    /\ slots' = [k \in Kind |-> Concurrency] /\ alive' = [k \in Kind |-> 0]
    /\ main' = NoFetch
    /\ work' = [p \in Worker |-> NoRequest] /\ browser' = [b \in Browser |-> NewBrowser]

-----------------------------------------------------------------------------
(* What the site answers: its robots.txt names the URLs that it allows,     *)
(* says 404, or refuses.  Pages of another host are not approved.           *)

Approved(u) == u \notin site.foreign
RobotsAllow(u) ==
    CASE site.policy[site.origin[u]] = "rules"   -> u \notin site.disallowed
      [] site.policy[site.origin[u]] = "missing" -> TRUE
      [] site.policy[site.origin[u]] = "refused" -> FALSE
Redirect(u) == IF u \in Url THEN site.redirect[u] ELSE None
Bodies(u) == IF u \in site.shell THEN {"shell", "html"} ELSE {"html"}

-----------------------------------------------------------------------------
(* _run_with_deadline.                                                      *)

Takes(k) ==
    /\ slots[k] > 0
    /\ slots' = [slots EXCEPT ![k] = @ - 1]
    /\ alive' = [alive EXCEPT ![k] = @ + 1]

Ends(k) ==
    /\ slots' = [slots EXCEPT ![k] = @ + 1]
    /\ alive' = [alive EXCEPT ![k] = @ - 1]

\* Mutant: the one who gives up frees the slot.
GivesUpReleasing(k) ==
    slots' = [slots EXCEPT ![k] = @ + 1] /\ UNCHANGED alive

GivesUp(k) == UNCHANGED <<slots, alive>>

Awaited(k) ==
    CASE k = "resolver"   -> Cardinality({p \in Worker : work[p].step = "resolving"})
      [] k = "connection" -> Cardinality({p \in Worker : work[p].step = "connecting"})
      [] k = "browser"    -> Cardinality({b \in Browser : browser[b].live})

(* A lookup or a request that nobody waits for any more comes to its end.   *)
LingeringEnds(k) ==
    /\ k # "browser" /\ alive[k] > Awaited(k)
    /\ Ends(k)
    /\ UNCHANGED <<site, robots, main, work, browser>>

-----------------------------------------------------------------------------
(* _fetch_url.                                                              *)

Hop(u, n) == [step |-> "resolve", at |-> u, hops |-> n, ok |-> FALSE]
Ended(p, ok) == work' = [work EXCEPT ![p] = [step |-> "done", at |-> @.at, hops |-> @.hops, ok |-> ok]]

Resolve(p) ==
    /\ work[p].step = "resolve" /\ Takes("resolver")
    /\ work' = [work EXCEPT ![p].step = "resolving"]
    /\ UNCHANGED <<site, robots, main, browser>>

Resolved(p) ==
    /\ work[p].step = "resolving" /\ Ends("resolver")
    /\ work' = [work EXCEPT ![p].step = "connect"]
    /\ UNCHANGED <<site, robots, main, browser>>

Connect(p) ==
    /\ work[p].step = "connect" /\ Takes("connection")
    /\ work' = [work EXCEPT ![p].step = "connecting"]
    /\ UNCHANGED <<site, robots, main, browser>>

\* Mutant: nobody stops waiting for a slot.
FailWithSlot(p) ==
    /\ \/ work[p].step = "resolving" /\ (Ends("resolver") \/ GivesUp("resolver"))
       \/ work[p].step = "connecting" /\ (Ends("connection") \/ GivesUp("connection"))
    /\ Ended(p, FALSE)
    /\ UNCHANGED <<site, robots, main, browser>>

(* The lookup or the request fails, or a deadline passes: before a slot is  *)
(* free, or while the thread runs on.                                       *)
Fail(p) ==
    /\ \/ work[p].step \in {"resolve", "connect"} /\ UNCHANGED <<slots, alive>>
       \/ work[p].step = "resolving" /\ (Ends("resolver") \/ GivesUp("resolver"))
       \/ work[p].step = "connecting" /\ (Ends("connection") \/ GivesUp("connection"))
    /\ Ended(p, FALSE)
    /\ UNCHANGED <<site, robots, main, browser>>

(* Only the redirects of a page are guarded by robots.txt: not those of     *)
(* robots.txt itself, nor of resources.                                     *)
Guarded(p) == p = "main" /\ main.stage = "page"

Answered(p) ==
    /\ work[p].step = "connecting" /\ Ends("connection")
    /\ LET to == Redirect(work[p].at) IN
       \/ to = None /\ Ended(p, TRUE) /\ UNCHANGED main
       \/ /\ to # None /\ (work[p].hops = MaxRedirects \/ ~Approved(to))
          /\ Ended(p, FALSE) /\ UNCHANGED main
       \/ /\ to # None /\ work[p].hops < MaxRedirects /\ Approved(to)
          /\ IF Guarded(p)
             THEN /\ main' = [main EXCEPT !.stage = "ask", !.target = to,
                                          !.hops = work[p].hops + 1, !.again = FALSE]
                  /\ work' = [work EXCEPT ![p] = NoRequest]
             ELSE work' = [work EXCEPT ![p] = Hop(to, work[p].hops + 1)] /\ UNCHANGED main
    /\ UNCHANGED <<site, robots, browser>>

-----------------------------------------------------------------------------
(* fetch: one URL, as every caller asks for.                                *)

Finished(u, body) ==
    main' = [main EXCEPT !.stage = "done", !.got = u, !.body = body]

Asking(u, render) ==
    IF Approved(u)
    THEN main' = [stage |-> "ask", url |-> u, target |-> u, hops |-> 0, again |-> TRUE,
                  render |-> render, got |-> None, body |-> None]
    ELSE main' = [NoFetch EXCEPT !.stage = "done", !.url = u]

(* robots_for finds the origin known, _robots_decision.                     *)
Decide ==
    /\ main.stage = "ask" /\ site.origin[main.target] \in robots
    /\ IF RobotsAllow(main.target)
       THEN /\ main' = [main EXCEPT !.stage = "page"]
            /\ work' = [work EXCEPT !["main"] = Hop(main.target, main.hops)]
       ELSE Finished(None, None) /\ UNCHANGED work
    /\ UNCHANGED <<site, robots, slots, alive, browser>>

AskRobots ==
    /\ main.stage = "ask" /\ site.origin[main.target] \notin robots
    /\ main' = [main EXCEPT !.stage = "asking"]
    /\ work' = [work EXCEPT !["main"] = Hop(site.origin[main.target], 0)]
    /\ UNCHANGED <<site, robots, slots, alive, browser>>

(* A failure is not kept: fetch asks for robots.txt once more before it     *)
(* decides, guard_redirect does not.                                        *)
RobotsAnswered ==
    /\ main.stage = "asking" /\ work["main"].step = "done"
    /\ IF work["main"].ok
       THEN robots' = robots \cup {work["main"].at} /\ main' = [main EXCEPT !.stage = "ask"]
       ELSE /\ UNCHANGED robots
            /\ IF main.again THEN main' = [main EXCEPT !.stage = "ask", !.again = FALSE]
               ELSE Finished(None, None)
    /\ work' = [work EXCEPT !["main"] = NoRequest]
    /\ UNCHANGED <<site, slots, alive, browser>>

PageAnswered ==
    /\ main.stage = "page" /\ work["main"].step = "done"
    /\ IF ~work["main"].ok THEN Finished(None, None)
       ELSE \E body \in Bodies(work["main"].at) :
                main' = [main EXCEPT !.stage = IF main.render THEN "render" ELSE "done",
                                     !.got = work["main"].at, !.body = body]
    /\ work' = [work EXCEPT !["main"] = NoRequest]
    /\ UNCHANGED <<site, robots, slots, alive, browser>>

-----------------------------------------------------------------------------
(* _render.  main.target is the browser from here on.                       *)

WaitsFor(b) == main.stage \in {"rendering", "expiring", "closing"} /\ main.target = b

StartRender(b) ==
    /\ main.stage = "render" /\ ~browser[b].live
    /\ Takes("browser")
    /\ browser' = [browser EXCEPT ![b] = [NewBrowser EXCEPT !.live = TRUE]]
    /\ main' = [main EXCEPT !.stage = "rendering", !.target = b]
    /\ UNCHANGED <<site, robots, work>>

NoSlotToRender ==
    /\ main.stage = "render" /\ Finished(None, None)
    /\ UNCHANGED <<site, robots, slots, alive, work, browser>>

(* load_resource, under the evidence lock.                                  *)
LoadResource(b, u) ==
    /\ browser[b].live /\ work[b].step = "idle"
    /\ ~browser[b].expired /\ browser[b].requested < MaxResources
    /\ browser' = [browser EXCEPT ![b].requested = @ + 1]
    /\ work' = IF Approved(u) THEN [work EXCEPT ![b] = Hop(u, 0)] ELSE work
    /\ UNCHANGED <<site, robots, slots, alive, main>>

ResourceLoaded(b) ==
    /\ work[b].step = "done" /\ work' = [work EXCEPT ![b] = NoRequest]
    /\ UNCHANGED <<site, robots, slots, alive, main, browser>>

(* A rendering that is a JavaScript shell does not replace a page that is   *)
(* not; a larger one than MAX_RESPONSE_BYTES is refused.                    *)
Rendered(b) ==
    /\ main.stage = "rendering" /\ main.target = b /\ work[b].step = "idle"
    /\ Ends("browser")
    /\ browser' = [browser EXCEPT ![b].live = FALSE, ![b].reported = browser[b].requested]
    /\ \/ Finished(None, None)
       \/ Finished(main.got, "html")
       \/ Finished(main.got, main.body)
    /\ UNCHANGED <<site, robots, work>>

(* The rendering breaks, or its deadline passes and the thread goes on.     *)
GiveUpRendering(b) ==
    /\ main.stage = "rendering" /\ main.target = b
    /\ main' = [main EXCEPT !.stage = "expiring"]
    /\ \/ /\ work[b].step = "idle" /\ Ends("browser")
          /\ browser' = [browser EXCEPT ![b].live = FALSE]
       \/ GivesUp("browser") /\ UNCHANGED browser
    /\ UNCHANGED <<site, robots, work>>

(* render_expired.set()                                                     *)
ExpireRender ==
    /\ main.stage = "expiring"
    /\ browser' = [browser EXCEPT ![main.target].expired = TRUE]
    /\ main' = [main EXCEPT !.stage = "closing"]
    /\ UNCHANGED <<site, robots, slots, alive, work>>

(* browser_evidence, then the record of the failure is returned.            *)
CloseRender ==
    /\ main.stage = "closing"
    /\ browser' = [browser EXCEPT ![main.target].reported =
                                      IF @ = None THEN browser[main.target].requested ELSE @]
    /\ Finished(None, None)
    /\ UNCHANGED <<site, robots, slots, alive, work>>

AbandonedEnds(b) ==
    /\ browser[b].live /\ ~WaitsFor(b) /\ work[b].step = "idle"
    /\ Ends("browser")
    /\ browser' = [browser EXCEPT ![b].live = FALSE]
    /\ UNCHANGED <<site, robots, main, work>>

-----------------------------------------------------------------------------
FetchUrl(p) == Resolve(p) \/ Resolved(p) \/ Connect(p) \/ Fail(p) \/ Answered(p)
Fetch ==
    \/ FetchUrl("main")
    \/ Decide \/ AskRobots \/ RobotsAnswered \/ PageAnswered
    \/ NoSlotToRender \/ ExpireRender \/ CloseRender
    \/ \E b \in Browser : StartRender(b) \/ Rendered(b) \/ GiveUpRendering(b)
Background ==
    \/ \E k \in Kind : LingeringEnds(k)
    \/ \E b \in Browser :
           FetchUrl(b) \/ ResourceLoaded(b) \/ AbandonedEnds(b) \/ \E u \in Url : LoadResource(b, u)

-----------------------------------------------------------------------------
(* Properties.                                                              *)

\* The call of fetch, a request with its redirects, and a document that is rendered.
FetchRecord ==
    [stage : {"idle", "ask", "asking", "page", "render", "rendering", "expiring", "closing",
              "done"},
     url : Url \cup {None}, target : Url \cup Browser \cup {None}, hops : 0..MaxRedirects,
     again : BOOLEAN, render : BOOLEAN, got : Url \cup {None}, body : {"html", "shell", None}]
NetworkRequest ==
    [step : {"idle", "resolve", "resolving", "connect", "connecting", "done"},
     at : Url \cup Origin \cup {None}, hops : 0..MaxRedirects, ok : BOOLEAN]
BrowserDocument ==
    [live : BOOLEAN, expired : BOOLEAN, requested : 0..MaxResources,
     reported : 0..MaxResources \cup {None}]

FetcherTypeOK ==
    /\ robots \subseteq Origin
    /\ slots \in [Kind -> Nat] /\ alive \in [Kind -> Nat]
    /\ main \in FetchRecord
    /\ work \in [Worker -> NetworkRequest]
    /\ browser \in [Browser -> BrowserDocument]

(* However many lookups, requests and renderings were given up, never more  *)
(* than MAX_CONCURRENCY threads of a kind run, and every slot comes back.   *)
ThreadsAreBounded ==
    \A k \in Kind : slots[k] + alive[k] = Concurrency /\ Awaited(k) <= alive[k]

(* A page of the crawl is requested only when the robots.txt of its origin  *)
(* was read and allows it: after a redirect to another origin, too.         *)
RobotsAreHeeded ==
    main.stage = "page" /\ work["main"].step \in {"connecting", "done"} /\ work["main"].at \in Url
        => site.origin[work["main"].at] \in robots /\ RobotsAllow(work["main"].at)

(* The evidence of a rendering that was returned names all that the browser *)
(* loaded: what goes on after the deadline gets nothing more.               *)
EvidenceIsComplete ==
    \A b \in Browser :
        browser[b].reported # None => browser[b].requested = browser[b].reported

(* Threads that nobody waits for take no more than their share, ask for         *)
(* nothing forbidden and add nothing to a result that was returned.             *)
FetchingIsSound ==
    FetcherTypeOK /\ ThreadsAreBounded /\ RobotsAreHeeded /\ EvidenceIsComplete
=============================================================================
