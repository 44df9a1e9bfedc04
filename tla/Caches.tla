------------------------------ MODULE Caches ------------------------------
(***************************************************************************)
(* What the web client keeps for a time without the server: the trust list *)
(* (getTrustListCached, verify-pwa/src/lib/api.js) and the catalogue of    *)
(* formats (getFormatsCached, lib/attach.js).  Both are kept in            *)
(* localStorage, the catalogue in memory as well, and below both may stand *)
(* a service worker that answers from a cache of its own and fetches the   *)
(* resource again behind the answer (vite.config.js, StaleWhileRevalidate, *)
(* modelled from Workbox's contract).  One of the two resources is looked  *)
(* at per behaviour; the server's copy of it is a number that grows.       *)
(***************************************************************************)
EXTENDS WebServer

CONSTANT MaxVersion  \* how often the server's copy changes

ASSUME MaxVersionAssumption == MaxVersion \in Nat

Resources == {"trust", "formats"}

VARIABLE cache
\*  what      the resource
\*  worker    a service worker is installed
\*  served    the version the server has
\*  online    the server can be reached
\*  behind    the service worker's copy
\*  fetches   what the service worker has read and not stored yet
\*  calls     getTrustListCached or getFormatsCached that wait for their fetch
\*  memory    the copy of this session, formats only
\*  saved     the copy in localStorage
\*  answers   what the callers were given, in order (of the model)
\*  crossed   two fetches were under way at once (of the model)

Start(what, worker) ==
    [what |-> what, worker |-> worker, served |-> 1, online |-> TRUE, behind |-> 0,
     fetches |-> << >>, calls |-> 0, memory |-> 0, saved |-> 0, answers |-> << >>,
     crossed |-> FALSE]

\* The caller gets v.  The last two answers are all the property looks at.
Given(c, v) == [c EXCEPT !.answers = IF Len(@) < 2 THEN Append(@, v) ELSE <<@[2], v>>]

-----------------------------------------------------------------------------

Published ==
    /\ cache.served < MaxVersion
    /\ cache' = [cache EXCEPT !.served = @ + 1]
    /\ UNCHANGED <<docs, observations, org, clicks>>

Connection ==
    /\ cache' = [cache EXCEPT !.online = ~@]
    /\ UNCHANGED <<docs, observations, org, clicks>>

\* A page that needs the resource asks; the catalogue may be in memory.
Want ==
    /\ Click
    /\ cache.calls < MaxCalls
    /\ cache' = IF cache.memory # 0 THEN Given(cache, cache.memory)
                ELSE [cache EXCEPT !.calls = @ + 1, !.crossed = @ \/ cache.calls > 0]
    /\ UNCHANGED <<docs, observations, org>>

\* The service worker answers from its copy and fetches behind the answer.
Behind(c) ==
    IF c.online /\ Len(c.fetches) < MaxCalls
    THEN [c EXCEPT !.fetches = Append(@, c.served), !.crossed = @ \/ c.fetches # << >>]
    ELSE c

\* Mutant: what was fetched is not kept.
Forgotten(c, v) == Given([c EXCEPT !.memory = IF c.what = "formats" THEN v ELSE 0], v)

Stored(c, v) ==
    Given([c EXCEPT !.saved = v, !.memory = IF c.what = "formats" THEN v ELSE 0], v)

Fetched ==
    /\ cache.calls > 0
    /\ LET c == [cache EXCEPT !.calls = @ - 1]
       IN  CASE c.worker /\ c.behind # 0       -> cache' = Stored(Behind(c), c.behind)
             [] ~(c.worker /\ c.behind # 0) /\ c.online ->
                  cache' = Stored(IF c.worker THEN [c EXCEPT !.behind = c.served] ELSE c, c.served)
             [] ~(c.worker /\ c.behind # 0) /\ ~c.online ->
                  cache' = Given([c EXCEPT !.memory = IF c.what = "formats" THEN c.saved ELSE 0],
                                 c.saved)
    /\ UNCHANGED <<docs, observations, org, clicks>>

\* The key page and the help page show the resource as well; the former does not
\* go through getTrustListCached.
Shown ==
    /\ Click
    /\ cache.what = "trust" /\ cache.worker
    /\ cache' = IF cache.behind # 0 THEN Behind(cache)
                ELSE IF cache.online THEN [cache EXCEPT !.behind = cache.served] ELSE cache
    /\ UNCHANGED <<docs, observations, org>>

Refetched ==
    /\ \E i \in DOMAIN cache.fetches :
          cache' = [cache EXCEPT !.behind = cache.fetches[i], !.fetches = RemoveAt(@, i)]
    /\ UNCHANGED <<docs, observations, org, clicks>>

\* The page is loaded again: what is in memory goes, what is stored stays.
Reload ==
    /\ cache.calls = 0
    /\ clicks' = 0
    /\ cache' = [cache EXCEPT !.memory = 0]
    /\ UNCHANGED <<docs, observations, org>>

CachesNext ==
    Published \/ Connection \/ Want \/ Fetched \/ Shown \/ Refetched \/ Reload

-----------------------------------------------------------------------------

\* Who was given a trust list or a catalogue once is given one from then on,
\* with or without the server, and none older than the one before, unless two
\* fetches crossed (api.js:98-99: "kept twice, in the service worker's cache and
\* in localStorage").
CachesKeep ==
    LET n == Len(cache.answers)
    IN  n = 2 =>
          /\ cache.answers[1] # 0 => cache.answers[2] # 0
          /\ ~cache.crossed => cache.answers[2] >= cache.answers[1]

-----------------------------------------------------------------------------
(* The inductive invariant *)

Copies ==
    [what : Resources, worker : BOOLEAN, served : Nat, online : BOOLEAN, behind : Nat,
     fetches : Seq(Nat), calls : Nat, memory : Nat, saved : Nat, answers : Seq(Nat),
     crossed : BOOLEAN]

\* Nobody holds what was never published, and fetches are made behind an answer.
CopiesAreOld(c) ==
    /\ c.saved <= c.served /\ c.behind <= c.served /\ c.served >= 1
    /\ \A i \in DOMAIN c.fetches : c.fetches[i] \in 1..c.served
    /\ c.behind = 0 => c.fetches = << >>

\* The copy in memory is the one in localStorage, and a service worker that has
\* let it through has one too.
CopiesAgree(c) ==
    /\ c.memory \in {0, c.saved}
    /\ c.worker /\ c.saved # 0 => c.behind # 0

\* As long as no two fetches cross, copies are the newer the closer to the server.
CopiesInOrder(c) ==
    ~c.crossed =>
        /\ c.worker => c.saved <= c.behind
        /\ Len(c.fetches) <= 1
        /\ \A i \in DOMAIN c.fetches : c.behind <= c.fetches[i]

CopiesFit(c) == c \in Copies /\ CopiesAreOld(c) /\ CopiesAgree(c) /\ CopiesInOrder(c)

\* What the last caller was given is in localStorage.
CacheInv ==
    /\ CopiesFit(cache)
    /\ Len(cache.answers) <= 2
    /\ cache.answers # << >> => Last(cache.answers) = cache.saved
    /\ CachesKeep
=============================================================================
