---------------------------- MODULE MCSourceCrawl ----------------------------
(* Instances of SourceCrawl: what sites answer and what may happen to them. *)
EXTENDS SourceCrawl, TLC

CONSTANTS s, a, b, c, d, o1, o2, b1, b2
VARIABLE bound
mcvars == <<vars, bound>>

Link(u, score, next, listing) == [to |-> u, score |-> score, next |-> next, listing |-> listing]
Good(u) == Link(u, "good", FALSE, FALSE)
Weak(u) == Link(u, "weak", FALSE, FALSE)
NextPage(u) == Link(u, "poor", TRUE, FALSE)
Card(u) == Link(u, "good", FALSE, TRUE)

Plain ==
    [origin |-> [u \in Url |-> o1], policy |-> [o \in Origin |-> "missing"],
     disallowed |-> {}, foreign |-> {}, shell |-> {}, gone |-> {},
     redirect |-> [u \in Url |-> None],
     kind |-> [u \in Url |-> "listing"], links |-> [u \in Url |-> {}]]

\* Two index pages that continue each other; b's listing is an alias of a.
Catalogue ==
    [Plain EXCEPT !.kind = (s :> "index" @@ b :> "irrelevant" @@ a :> "irrelevant" @@ c :> "listing"
                             @@ d :> "other"),
                  !.links = (s :> {Card(a), NextPage(b), Good(d)} @@ b :> {Card(c), NextPage(s)}
                             @@ a :> {} @@ c :> {} @@ d :> {Good(c)}),
                  !.redirect[c] = a]

\* Pages on two origins, each with its robots.txt, and redirects between them
\* and away from the Source.
Redirects(policy) ==
    [Plain EXCEPT !.kind = (s :> "other" @@ a :> "other" @@ b :> "listing" @@ c :> "listing" @@ d :> "other"),
                  !.links = (s :> {Good(a), Good(b), Weak(c), Good(d)} @@ a :> {Good(c)} @@ b :> {}
                             @@ c :> {} @@ d :> {Good(s)}),
                  !.origin[c] = o2,
                  !.policy = (o1 :> "rules" @@ o2 :> policy),
                  !.disallowed = {a},
                  !.redirect = (s :> None @@ a :> None @@ b :> c @@ c :> None @@ d :> b)]

\* Pages that are built by scripts, and one that is gone.
Scripts ==
    [Plain EXCEPT !.kind = (s :> "other" @@ a :> "listing" @@ b :> "listing" @@ c :> "listing" @@ d :> "listing"),
                  !.links = (s :> {Good(a), Good(b), Good(c), Good(d)} @@ a :> {} @@ b :> {} @@ c :> {} @@ d :> {}),
                  !.shell = {a, c}, !.gone = {b}, !.foreign = {d}]

Bound(pages, slices, crash, exclude, threads) ==
    [site |-> pages, slices |-> slices, crash |-> crash, exclude |-> exclude, threads |-> threads]
Bounds ==
    {Bound(Catalogue, TRUE, TRUE, {a, c}, 0), Bound(Catalogue, FALSE, FALSE, {}, 2),
     Bound(Redirects("missing"), TRUE, TRUE, {c}, 0), Bound(Redirects("refused"), TRUE, FALSE, {}, 1),
     Bound(Scripts, TRUE, FALSE, {}, 0), Bound(Scripts, FALSE, FALSE, {}, 1)}

Lingering == alive["resolver"] - Awaited("resolver") + alive["connection"] - Awaited("connection")

Within ==
    /\ bound.slices \/ mode' # "paused"
    /\ bound.crash \/ (attempts' = attempts /\ mode' # "failed")
    /\ excluded' \subseteq bound.exclude
    /\ Lingering' <= bound.threads

MCInit == bound \in Bounds /\ site = bound.site /\ Init

MCSpec == MCInit /\ [][Next /\ Within /\ UNCHANGED bound]_mcvars /\ Fairness
=============================================================================
