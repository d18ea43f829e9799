----------------------------- MODULE SourceCrawl -----------------------------
(***************************************************************************)
(* The crawl of a Source for an extraction: discover of ExtractionContract *)
(* (backend/apps/source_extraction/contract.py) with the links of          *)
(* discovery.py, one time slice after another from a checkpoint, as        *)
(* run_extraction (source_proposals/source_processing/extraction.py) calls *)
(* it through its AssignedSourceFetcher.                                    *)
(*                                                                         *)
(* Meanwhile an Operator excludes URLs or ends the authorization, a worker *)
(* is lost and its slice is done again.  crawl is what the worker holds    *)
(* and what a checkpoint keeps of it; details and seen are counted anew    *)
(* from the pages when a slice starts.  A link is worth following at all   *)
(* ("good", a score of 4 or more), from an index only ("weak", 0 to 3), or *)
(* not ("poor").                                                           *)
(***************************************************************************)
EXTENDS PageFetcher, Sequences, SequencesExt

CONSTANTS
    Seed,
    MaxPages,      \* max_pages of the request
    TargetDetails, \* target_detail_pages of the request
    MaxDepth,
    MaxAttempts    \* MAX_ATTEMPTS of the run

\* What is known of an address before it is visited
FrontierEntry ==
    [url : Url, score : {"seed", "good", "weak", "poor"}, depth : 0..MaxDepth,
     hint : {"index", "listing", None}]

ASSUME CrawlAssumption ==
    /\ Seed \in Url /\ MaxDepth \in Nat /\ MaxAttempts \in Nat \ {0}
    /\ None \notin FrontierEntry \cup {"http", "render", "retry"}
    /\ MaxPages \in Nat \ {0} /\ TargetDetails \in 1..MaxPages

VARIABLES
    excluded,     \* the URLs that the SourceExclusions match
    authorized,   \* the assignment is active and the Source not restricted
    mode,         \* of the run: queued, running, paused, stopped, cancelled, failed
    stop,         \* discovery_stop_reason
    attempts,
    saved,        \* discovery_checkpoint
    crawl,        \* frontier, visited, pages, ... of the slice
    details, seen,
    fresh,        \* the slice has not begun with a page yet
    item,         \* the entry of the frontier that is being fetched
    phase         \* which of the fetches of _fetch: http, render, retry

crawlvars == <<excluded, authorized, mode, stop, attempts, saved, crawl, details, seen, fresh,
               item, phase>>
vars == <<site, fetcher, crawlvars>>

Entry(u, score, depth, hint) == [url |-> u, score |-> score, depth |-> depth, hint |-> hint]
NewCrawl ==
    [frontier |-> <<Entry(Seed, "seed", 0, None)>>, visited |-> {}, pages |-> <<>>,
     limited |-> FALSE, attempted |-> {}, skipped |-> {}, aliases |-> {}]

(* What a web site may answer: the kinds of its pages, the links on them    *)
(* and where they lead, its robots.txt and its redirects.                   *)
PageKind == {"listing", "index", "other", "irrelevant"}
Anchor == [to : Url, score : {"good", "weak", "poor"}, next : BOOLEAN, listing : BOOLEAN]
Website ==
    [origin : [Url -> Origin], policy : [Origin -> {"rules", "missing", "refused"}],
     disallowed : SUBSET Url, foreign : SUBSET Url, shell : SUBSET Url, gone : SUBSET Url,
     redirect : [Url -> Url \cup {None}], kind : [Url -> PageKind], links : [Url -> SUBSET Anchor]]

Init ==
    /\ site \in Website
    /\ NewFetcher
    /\ excluded = {} /\ authorized = TRUE
    /\ mode = "queued" /\ stop = None /\ attempts = 1
    /\ saved = NewCrawl /\ crawl = NewCrawl
    /\ details = 0 /\ seen = {} /\ fresh = TRUE
    /\ item = None /\ phase = None

-----------------------------------------------------------------------------
(* Pages and links.                                                         *)

Pages(c) == ToSet(c.pages)
IsDetail(page) == page.kind = "listing"
CountDetails(c) == Cardinality({i \in DOMAIN c.pages : IsDetail(c.pages[i])})
FinalUrls(c) == {page.url : page \in {q \in Pages(c) : q.html}}

(* classify_page, and what the index says of its links                      *)
Classify(u, hint) ==
    CASE u \in site.gone -> "error"
      [] u \notin site.gone /\ hint = "index" -> "index"
      [] u \notin site.gone /\ hint = "listing" /\ site.kind[u] = "irrelevant" -> "listing"
      [] OTHER -> site.kind[u]

LeadsOn(page) == page.kind \notin {"listing", "error"}
FollowedFrom(page, link) ==
    link.next \/ link.score = "good" \/ (link.score = "weak" /\ page.kind = "index")
DepthOf(page, link) == IF link.next THEN page.depth ELSE page.depth + 1

Hint(page, link) ==
    CASE page.kind = "index" /\ link.next -> "index"
      [] page.kind = "index" /\ ~link.next /\ link.listing -> "listing"
      [] OTHER -> None

(* extract_candidate_links, those that discover takes                       *)
Candidates(page, visited) ==
    {link \in site.links[page.url] :
        FollowedFrom(page, link) /\ Approved(link.to) /\ link.to \notin visited}

Rank(score) == CASE score = "seed" -> 3 [] score = "good" -> 2 [] score = "weak" -> 1 [] score = "poor" -> 0

Pushed(page, visited) ==
    LET near == {link \in Candidates(page, visited) : DepthOf(page, link) <= MaxDepth}
        entries == {Entry(l.to, l.score, DepthOf(page, l), Hint(page, l)) : l \in near}
    IN  SetToSeq(entries)

(* The best score, and among equals the first that was pushed               *)
Best(frontier) ==
    CHOOSE i \in DOMAIN frontier : \A j \in DOMAIN frontier :
        \/ Rank(frontier[i].score) > Rank(frontier[j].score)
        \/ frontier[i].score = frontier[j].score /\ i <= j

-----------------------------------------------------------------------------
(* A slice of the crawl.                                                    *)

Restore(c) == crawl' = c /\ details' = CountDetails(c) /\ seen' = FinalUrls(c)

StartSlice ==
    /\ mode = "queued"
    /\ IF authorized
       THEN mode' = "running" /\ Restore(saved) /\ ReplaceFetcher /\ fresh' = TRUE
       ELSE mode' = "cancelled" /\ UNCHANGED <<fetcher, crawl, details, seen, fresh>>
    /\ UNCHANGED <<site, excluded, authorized, stop, attempts, saved, item, phase>>

GoesOn ==
    /\ crawl.frontier # <<>>
    /\ Cardinality(crawl.visited) < MaxPages /\ details < TargetDetails

(* The deadline of 420 s does not pass before the first page.               *)
Pause ==
    /\ mode = "running" /\ item = None /\ GoesOn /\ ~fresh
    /\ mode' = "paused"
    /\ UNCHANGED <<site, fetcher, excluded, authorized, stop, attempts, saved, crawl, details,
                   seen, fresh, item, phase>>

Known(u) == u \in crawl.visited \/ u \in seen

Pop ==
    /\ mode = "running" /\ item = None /\ GoesOn
    /\ LET i == Best(crawl.frontier)
           e == crawl.frontier[i]
       IN  IF Known(e.url)
           THEN /\ crawl' = [crawl EXCEPT !.frontier = RemoveAt(@, i)]
                /\ UNCHANGED <<item, phase>>
           ELSE /\ crawl' = [crawl EXCEPT !.frontier = RemoveAt(@, i),
                                          !.visited = @ \cup {e.url}]
                /\ item' = e /\ phase' = "http"
    /\ fresh' = FALSE
    /\ UNCHANGED <<site, fetcher, excluded, authorized, mode, stop, attempts, saved, details, seen>>

(* The end of the loop, and its stop_reason                                 *)
Stop ==
    /\ mode = "running" /\ item = None /\ ~GoesOn
    /\ mode' = "stopped"
    /\ stop' = CASE details >= TargetDetails -> "target_reached"
                 [] details < TargetDetails /\ Cardinality(crawl.visited) >= MaxPages -> "page_limit"
                 [] OTHER -> IF crawl.limited THEN "depth_limit" ELSE "frontier_exhausted"
    /\ UNCHANGED <<site, fetcher, excluded, authorized, attempts, saved, crawl, details, seen,
                   fresh, item, phase>>

-----------------------------------------------------------------------------
(* Fetching the page of an entry.                                           *)

FailedPage == [url |-> item.url, kind |-> "error", depth |-> item.depth, html |-> FALSE]

WithFailure(c) == [c EXCEPT !.pages = Append(@, FailedPage)]
Recorded ==
    item' = None /\ phase' = None

(* AssignedSourceFetcher.fetch, up to the fetch itself.  The answers of a   *)
(* rendering or a retry that is excluded end in a failure, too.             *)
Request ==
    /\ mode = "running" /\ item # None /\ main.stage = "idle"
    /\ \/ /\ ~authorized
          /\ mode' = "cancelled" /\ Recorded
          /\ UNCHANGED <<fetcher, crawl>>
       \/ /\ authorized /\ item.url \in excluded
          /\ crawl' = WithFailure([crawl EXCEPT !.skipped = @ \cup {item.url}])
          /\ Recorded
          /\ UNCHANGED <<fetcher, mode>>
       \/ /\ authorized /\ item.url \notin excluded
          /\ crawl' = [crawl EXCEPT !.attempted = @ \cup {item.url}]
          /\ Asking(item.url, phase = "render")
          /\ UNCHANGED <<mode, item, phase, robots, slots, alive, work, browser>>
    /\ UNCHANGED <<site, excluded, authorized, stop, attempts, saved, details, seen, fresh>>

(* A page that counts: classified, kept, its links pushed.                  *)
AddPage(c, u) ==
    IF u \in seen THEN crawl' = c /\ UNCHANGED <<details, seen>>
    ELSE LET page == [url |-> u, kind |-> Classify(u, item.hint), depth |-> item.depth, html |-> TRUE]
             pushed == IF LeadsOn(page) THEN Pushed(page, c.visited) ELSE <<>>
             far == LeadsOn(page) /\ \E link \in Candidates(page, c.visited) : DepthOf(page, link) > MaxDepth
         IN  /\ crawl' = [c EXCEPT !.pages = Append(@, page),
                                   !.frontier = @ \o pushed,
                                   !.limited = @ \/ far]
             /\ details' = details + IF IsDetail(page) THEN 1 ELSE 0
             /\ seen' = seen \cup {u}

(* What was excluded while it was fetched, unless the answer was a failure  *)
Barred(u) == u \notin site.gone /\ (item.url \in excluded \/ u \in excluded)

(* The answer, as AssignedSourceFetcher passes it on and _fetch takes it:   *)
(* a JavaScript shell is rendered, and what remains one is tried once more. *)
Receive ==
    /\ mode = "running" /\ item # None /\ main.stage = "done"
    /\ LET u == main.got
           met == IF u = None THEN crawl
                  ELSE [crawl EXCEPT !.aliases = @ \cup {<<u, item.url>>}]
       IN \/ /\ u = None
             /\ crawl' = WithFailure(crawl) /\ Recorded
             /\ UNCHANGED <<details, seen>>
          \/ /\ u # None /\ Barred(u)
             /\ crawl' = WithFailure(
                    [met EXCEPT !.attempted = @ \ {item.url},
                                !.skipped = @ \cup (IF item.url \in excluded THEN {item.url} ELSE {u})])
             /\ Recorded
             /\ UNCHANGED <<details, seen>>
          \/ /\ u # None /\ ~Barred(u) /\ main.body = "html"
             /\ AddPage(met, u) /\ Recorded
          \/ /\ u # None /\ ~Barred(u) /\ main.body = "shell"
             /\ IF phase = "retry"
                THEN crawl' = WithFailure(met) /\ Recorded
                ELSE crawl' = met /\ phase' = (IF phase = "http" THEN "render" ELSE "retry")
                     /\ UNCHANGED item
             /\ UNCHANGED <<details, seen>>
    /\ main' = NoFetch
    /\ UNCHANGED <<site, robots, slots, alive, work, browser, excluded, authorized, mode, stop,
                   attempts, saved, fresh>>

-----------------------------------------------------------------------------
(* Between the slices.                                                      *)

\* Mutant: the checkpoint keeps no frontier.
CheckpointPagesOnly == [crawl EXCEPT !.frontier = <<>>]
Checkpoint == crawl

(* The checkpoint is kept in one transaction, and a task for the next slice *)
(* sent when it commits.                                                    *)
Save ==
    /\ mode = "paused"
    /\ IF authorized THEN saved' = Checkpoint /\ mode' = "queued"
       ELSE mode' = "cancelled" /\ UNCHANGED saved
    /\ UNCHANGED <<site, fetcher, excluded, authorized, stop, attempts, crawl, details, seen,
                   fresh, item, phase>>

(* The worker is lost; the delivery that follows counts as an attempt.      *)
Crash ==
    /\ mode \in {"running", "paused"}
    /\ IF attempts < MaxAttempts
       THEN mode' = "queued" /\ attempts' = attempts + 1
       ELSE mode' = "failed" /\ UNCHANGED attempts
    /\ Recorded
    /\ crawl' = saved /\ details' = 0 /\ seen' = {} /\ fresh' = TRUE
    /\ ReplaceFetcher
    /\ UNCHANGED <<site, excluded, authorized, stop, saved>>

Exclude(u) ==
    /\ u \notin excluded /\ excluded' = excluded \cup {u}
    /\ UNCHANGED <<site, fetcher, authorized, mode, stop, attempts, saved, crawl, details, seen,
                   fresh, item, phase>>

Readmit(u) ==
    /\ u \in excluded /\ excluded' = excluded \ {u}
    /\ UNCHANGED <<site, fetcher, authorized, mode, stop, attempts, saved, crawl, details, seen,
                   fresh, item, phase>>

EndAuthorization ==
    /\ authorized /\ authorized' = FALSE
    /\ UNCHANGED <<site, fetcher, excluded, mode, stop, attempts, saved, crawl, details, seen,
                   fresh, item, phase>>

-----------------------------------------------------------------------------
Crawling == mode = "running"
FetchStep == Crawling /\ Fetch /\ UNCHANGED crawlvars
BackgroundStep == Crawling /\ Background /\ UNCHANGED crawlvars
CrawlStep == StartSlice \/ Pop \/ Request \/ Receive \/ Stop \/ Save

Next ==
    \/ FetchStep \/ BackgroundStep
    \/ StartSlice \/ Pause \/ Pop \/ Request \/ Receive \/ Stop \/ Save
    \/ Crash \/ EndAuthorization \/ \E u \in Url : Exclude(u) \/ Readmit(u)

Spec == Init /\ [][Next]_vars

(* The task goes on, and its deadlines pass; nothing is asked of the        *)
(* threads that it waits for.                                               *)
Fairness ==
    /\ WF_vars(CrawlStep)
    /\ WF_vars(FetchStep)

-----------------------------------------------------------------------------
(* Properties.                                                              *)

\* What a slice holds and a checkpoint keeps
CrawlPage == [url : Url, kind : PageKind \cup {"error"}, depth : 0..MaxDepth, html : BOOLEAN]
CrawlRecord ==
    [frontier : Seq(FrontierEntry), visited : SUBSET Url, pages : Seq(CrawlPage),
     limited : BOOLEAN, attempted : SUBSET Url, skipped : SUBSET Url, aliases : SUBSET (Url \X Url)]

CrawlTypeOK ==
    /\ excluded \subseteq Url /\ authorized \in BOOLEAN
    /\ mode \in {"queued", "running", "paused", "stopped", "cancelled", "failed"}
    /\ stop \in {None, "target_reached", "page_limit", "depth_limit", "frontier_exhausted"}
    /\ attempts \in 1..MaxAttempts
    /\ {saved, crawl} \subseteq CrawlRecord
    /\ \A c \in {saved, crawl} : c.attempted \subseteq c.visited
    /\ seen \subseteq Url /\ details \in 0..TargetDetails /\ fresh \in BOOLEAN
    /\ item \in FrontierEntry \cup {None} /\ phase \in {None, "http", "render", "retry"}
    /\ item = None <=> phase = None

TypeOK == FetcherTypeOK /\ CrawlTypeOK

(* No slice, pause, crash, redirect or alias makes the crawl keep an        *)
(* address twice, go past the pages or the listings that the Operator       *)
(* allowed, or lose count of them.                                          *)
PagesAreDistinct ==
    /\ \A c \in {saved, crawl} :
           /\ \A i, j \in DOMAIN c.pages :
                  c.pages[i].url = c.pages[j].url /\ c.pages[i].html = c.pages[j].html => i = j
           /\ Cardinality(c.visited) <= MaxPages /\ Len(c.pages) <= Cardinality(c.visited)
           /\ CountDetails(c) <= TargetDetails
    /\ mode = "running" => details = CountDetails(crawl) /\ seen = FinalUrls(crawl)

(* Every link worth following of every page kept is visited, to be visited  *)
(* or beyond the depth limit, through all checkpoints: a crawl that ends    *)
(* because its frontier is exhausted has reached everything it can.         *)
NothingIsForgotten ==
    \A c \in {saved, crawl} : \A page \in {q \in Pages(c) : q.html /\ LeadsOn(q)} :
        \A link \in Candidates(page, c.visited) :
            \/ link.to \in FinalUrls(c)
            \/ \E e \in ToSet(c.frontier) : e.url = link.to
            \/ ~link.next /\ page.depth = MaxDepth /\ c.limited

(* The content of a URL that is excluded when its answer arrives, or whose  *)
(* redirect led to one that is, does not enter the crawl.                   *)
ExcludedStaysOut ==
    [][\A i \in DOMAIN crawl'.pages \ DOMAIN crawl.pages :
          mode = "running" /\ crawl'.pages[i].kind # "error" =>
              crawl'.pages[i].url \notin excluded /\ item.url \notin excluded]_vars

(* Each address that led to a page is known as an alias of it, whatever     *)
(* slice it was met in: when the page is gone, its Listing is found by it.  *)
AliasesAreKept ==
    \A c \in {saved, crawl} : \A u \in FinalUrls(c) : \E v \in c.visited : <<u, v>> \in c.aliases

(* Every crawl comes to an end, whatever lookups, requests and renderings   *)
(* never return.                                                            *)
CrawlEnds == <>[](mode \in {"stopped", "cancelled", "failed"})

(* A crawl has what it should and nothing else, through slices, pauses and      *)
(* crashes: every page once, every link, every alias, and nothing excluded.     *)
CrawlIsComplete ==
    /\ [](TypeOK /\ PagesAreDistinct /\ NothingIsForgotten /\ AliasesAreKept)
    /\ ExcludedStaysOut
=============================================================================
