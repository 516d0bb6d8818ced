--------------------------- MODULE ServiceWorker ---------------------------
(***************************************************************************)
(* The web app's service worker (public/sw.js) and its registration        *)
(* (components/pwa-register.tsx): a precache on install, network first for *)
(* navigations, the cached copy first for static files, and writes to the  *)
(* cache that nobody waits for, so that they may come late or never.       *)
(*                                                                         *)
(* What a URL serves is the site's version when the server answers; the    *)
(* display image of an event is one of the URLs that end in .png. Bounds:  *)
(* MaxVersion changes of the site, Requests at a time, of the Fetches.     *)
(***************************************************************************)
EXTENDS Naturals

CONSTANTS Requests, MaxVersion, Fetches, None

Urls == {"/", "/offline", "/events/1", "/events/1/display.png", "/data"}
PRECACHE_ASSETS == {"/", "/offline"}
Versions == 0..MaxVersion

FetchesAssumption ==
  MaxVersion \in Nat /\ Fetches \subseteq [url : Urls, navigate : BOOLEAN]

VARIABLES
  worker,   \* "none", "installing" or "active"
  latest,   \* the version the server serves
  cache,    \* the version cached for a URL
  request,  \* fetch events being handled
  answer    \* the last response given to the page

vars == <<worker, latest, cache, request, answer>>

Idle == [pc |-> "idle", url |-> None, navigate |-> FALSE, got |-> None]

\* What a page asked for, what it was given and whether the fetch had failed.
Given(r, content, version, failed) ==
  [url |-> request[r].url, navigate |-> request[r].navigate,
   content |-> content, version |-> version, failed |-> failed]
NoAnswer == [url |-> None, navigate |-> FALSE, content |-> None, version |-> None, failed |-> FALSE]

TypeOK ==
  /\ worker \in {"none", "installing", "active"} /\ latest \in Versions
  /\ cache \in [Urls -> Versions \cup {None}]
  /\ request \in [Requests -> [pc : {"idle", "network", "revalidate", "failed", "put"},
                               url : Urls \cup {None}, navigate : BOOLEAN,
                               got : Versions \cup {None}]]
  /\ answer \in [url : Urls \cup {None}, navigate : BOOLEAN,
                 content : Urls \cup {"text", "error", None},
                 version : Versions \cup {None}, failed : BOOLEAN]

Init ==
  /\ worker = "none" /\ latest = 0 /\ cache = [u \in Urls |-> None]
  /\ request = [r \in Requests |-> Idle] /\ answer = NoAnswer

----------------------------------------------------------------------------
(* Registration and installation.                                          *)

registerServiceWorker ==
  /\ worker = "none" /\ worker' = "installing"
  /\ UNCHANGED <<latest, cache, request, answer>>

\* addAll stores every asset or none; the failure is caught, and the worker
\* skips waiting, drops other caches and claims the open pages all the same.
Install ==
  /\ worker = "installing" /\ worker' = "active"
  /\ \/ cache' = [u \in Urls |-> IF u \in PRECACHE_ASSETS THEN latest ELSE cache[u]]
     \/ UNCHANGED cache
  /\ UNCHANGED <<latest, request, answer>>

\* A development build unregisters every worker and deletes every cache.
clearDevServiceWorkers ==
  /\ worker = "active" /\ worker' = "none" /\ cache' = [u \in Urls |-> None]
  /\ UNCHANGED <<latest, request, answer>>

----------------------------------------------------------------------------
(* The fetch handler.                                                      *)

Static(u) == u = "/events/1/display.png"

\* Mutant: any request takes the cached copy first.
CachedFirst_Always(u, navigate) == cache[u] # None

CachedFirst(u, navigate) == ~navigate /\ Static(u) /\ cache[u] # None

Goto(r, pc) == request' = [request EXCEPT ![r].pc = pc]

Start(r, u, navigate) ==
  LET started(pc) ==
        request' = [request EXCEPT ![r] = [pc |-> pc, url |-> u, navigate |-> navigate, got |-> None]]
  IN
  /\ worker = "active" /\ request[r].pc = "idle"
  /\ \/ /\ CachedFirst(u, navigate) /\ started("revalidate")
        /\ answer' = [url |-> u, navigate |-> navigate, content |-> u,
                      version |-> cache[u], failed |-> FALSE]
     \/ ~CachedFirst(u, navigate) /\ started("network") /\ UNCHANGED answer
  /\ UNCHANGED <<worker, latest, cache>>

\* Plain data is never stored; the rest is when the status is 200.
Stored(u, navigate) == navigate \/ Static(u)

\* The server answers with 200. What was answered from the cache is not
\* answered again.
Succeed(r) ==
  LET q == request[r] IN
  /\ q.pc \in {"network", "revalidate"}
  /\ request' = [request EXCEPT ![r] =
       IF Stored(q.url, q.navigate) THEN [q EXCEPT !.pc = "put", !.got = latest] ELSE Idle]
  /\ answer' = IF q.pc = "network" THEN Given(r, q.url, latest, FALSE) ELSE answer
  /\ UNCHANGED <<worker, latest, cache>>

\* The server answers with another status, which is passed on and not stored.
Refuse(r) ==
  LET q == request[r] IN
  /\ q.pc \in {"network", "revalidate"} /\ request' = [request EXCEPT ![r] = Idle]
  /\ answer' = IF q.pc = "network" THEN Given(r, "error", None, FALSE) ELSE answer
  /\ UNCHANGED <<worker, latest, cache>>

\* There is no answer. A static file that was not cached fails; a navigation and
\* plain data turn to the cache.
Fail(r) ==
  LET q == request[r] IN
  /\ q.pc \in {"network", "revalidate"}
  /\ \/ /\ q.pc = "network" /\ (q.navigate \/ ~Static(q.url))
        /\ Goto(r, "failed") /\ UNCHANGED answer
     \/ /\ q.pc = "revalidate" \/ (~q.navigate /\ Static(q.url))
        /\ request' = [request EXCEPT ![r] = Idle]
        /\ answer' = IF q.pc = "network" THEN Given(r, "error", None, TRUE) ELSE answer
  /\ UNCHANGED <<worker, latest, cache>>

\* The copy of the page itself, the offline page, the home page, a line of text.
Fallback(r) ==
  LET own == request[r].url
      page == request[r].navigate
  IN
  CASE cache[own] # None -> Given(r, own, cache[own], TRUE)
    [] cache[own] = None /\ page /\ cache["/offline"] # None ->
         Given(r, "/offline", cache["/offline"], TRUE)
    [] cache[own] = None /\ page /\ cache["/offline"] = None /\ cache["/"] # None ->
         Given(r, "/", cache["/"], TRUE)
    [] OTHER -> Given(r, IF page THEN "text" ELSE "error", None, TRUE)

AnswerFromCache(r) ==
  /\ request[r].pc = "failed" /\ answer' = Fallback(r)
  /\ request' = [request EXCEPT ![r] = Idle] /\ UNCHANGED <<worker, latest, cache>>

\* Mutant: a copy is stored only where there is none.
Put_Once(r) ==
  LET q == request[r] IN
  /\ q.pc = "put" /\ request' = [request EXCEPT ![r] = Idle]
  /\ cache' = IF cache[q.url] = None THEN [cache EXCEPT ![q.url] = q.got] ELSE cache
  /\ UNCHANGED <<worker, latest, answer>>

\* The write that was left to itself is done.
Put(r) ==
  LET q == request[r] IN
  /\ q.pc = "put" /\ request' = [request EXCEPT ![r] = Idle]
  /\ cache' = [cache EXCEPT ![q.url] = q.got]
  /\ UNCHANGED <<worker, latest, answer>>

\* It is lost: the browser stops the worker or storage is full.
LosePut(r) ==
  /\ request[r].pc = "put" /\ request' = [request EXCEPT ![r] = Idle]
  /\ UNCHANGED <<worker, latest, cache, answer>>

SiteChanges ==
  /\ latest < MaxVersion /\ latest' = latest + 1
  /\ UNCHANGED <<worker, cache, request, answer>>

Next ==
  \/ registerServiceWorker \/ Install \/ clearDevServiceWorkers \/ SiteChanges
  \/ \E r \in Requests :
       \/ \E f \in Fetches : Start(r, f.url, f.navigate)
       \/ Succeed(r) \/ Refuse(r) \/ Fail(r) \/ AnswerFromCache(r) \/ Put(r) \/ LosePut(r)

\* A write that is under way ends, done or lost.
Fairness == \A r \in Requests : WF_vars(Put(r) \/ LosePut(r))

Spec == Init /\ [][Next]_vars /\ Fairness

----------------------------------------------------------------------------

\* A navigation that reached the server is answered by the server, whatever
\* older copies other requests are writing at the same time.
NavigationIsFresh ==
  [][answer' # answer /\ answer'.navigate /\ ~answer'.failed /\ answer'.content # "error" =>
       answer'.version = latest]_vars

\* Late writes drain: once the site has stopped changing and the display image
\* goes on being stored, no older copy of it comes back.
StaleCopiesDrain ==
  LET u == "/events/1/display.png"
      stored == \E r \in Requests : request[r].url = u /\ Put(r)
  IN  []<><<stored>>_vars => <>[](cache[u] \in {None, latest})

=============================================================================
