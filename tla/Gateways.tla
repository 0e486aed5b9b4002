----------------------------- MODULE Gateways ------------------------------
(***************************************************************************)
(* The three services that tools reach the outside through: the web        *)
(* gateway (af-web-gateway), the VirusTotal gateway (af-re-vt) and the     *)
(* email tools (af-email).  Each is one process, whose tasks serve         *)
(* requests at the same time and share a global rate limiter, a map of     *)
(* limiters per user, the rules of a project and a cache.                  *)
(*                                                                         *)
(* A request is a route of stages.  It stops at the first that refuses.    *)
(***************************************************************************)
EXTENDS Integers, Sequences, FiniteSets, FiniteSetsExt, RateLimit

CONSTANTS
  Requests,     \* bound: one task each
  Users, NoUser, Nothing,
  Shared,       \* the global limiter
  Pages,        \* URLs, hashes or recipients
  Asks,         \* of a request: whose it may be, of which kind and for which page
  Addresses,    \* what names resolve to
  Barred,       \* private addresses and those of blocked countries
  Rules,        \* of a project: one set of rules [effect, on, what] after another
  GlobalRpm, UserRpm,
  MaxUsers,     \* of the map of limiters, per service
  ShortWait,    \* how long an acquire may take: of a user's limiter, and in email
  LongWait,     \* of the global limiter of the gateways
  MaxRedirects, CacheTtl, LimiterTtl

Services == {"web", "vt", "email"}

ASSUME GatewayConstants ==
  /\ Shared \notin Requests \cup Users \cup {NoUser, Nothing}
  /\ NoUser \notin Users /\ Nothing \notin Requests
  /\ Asks \in [Requests -> SUBSET [owner : Users \cup {NoUser}, kind : STRING, page : Pages]]
  /\ Barred \subseteq Addresses
  /\ Rules # <<>>
  /\ Rules \in Seq(SUBSET [effect : {"block", "allow"}, on : {"url", "ip"}, what : Pages \cup Addresses])
  /\ {GlobalRpm, UserRpm, ShortWait, LongWait, MaxRedirects, CacheTtl, LimiterTtl} \subseteq Nat
  /\ Capacity(GlobalRpm) <= Minute /\ Capacity(UserRpm) <= Minute
  /\ MaxUsers \in [Services -> Nat]
  /\ LimiterTtl >= Minute + ShortWait

VARIABLES
  service,
  edits,    \* of the project's rules
  state,    \* of a request: "new", "served", "done"
  todo,     \* the stages it has still to pass; its first one is where it is
  request,  \* its locals, see Locals
  bucket,   \* of a limiter: Shared, or the request that has created it
  entry,    \* the map of limiters, user by user
  idle,     \* how long ago a user's was taken: the email tools keep the time
  cache,    \* of a page: what was fetched, and how long ago
  \* History:
  debt,     \* what has been granted and not been paid for by time, in units of time
  evicted   \* users whose limiter was thrown out of a full map

project == <<service, edits>>
limits  == <<bucket, entry, idle, debt, evicted>>
gatewayVars == <<project, state, todo, request, limits, cache>>

(* The locals of a handler: whose request it is and what it asks for; the    *)
(* rules it has loaded; whom its calls reach, at which addresses, after how  *)
(* many redirects; the limiter of its user; how long until its acquire has   *)
(* to end, and until it wakes; what it will answer.                          *)
Locals(owner, kind, asked) ==
  [owner |-> owner, kind |-> kind, asked |-> asked, rules |-> {},
   target |-> IF kind \in {"fetch", "send"} THEN {asked} ELSE {},
   addresses |-> {}, hops |-> 0, limiter |-> Nothing, left |-> 0, sleep |-> 0,
   answer |-> Nothing]

NoLocals == Locals(NoUser, "none", Nothing)

(* The stages of a request, in the order of its handler. *)
Route(kind, known) ==
  CASE kind = "fetch" /\ known ->
         <<"enter", "user", "rules", "cache", "resolve", "global", "call", "put">>
    [] kind = "fetch" /\ ~known -> <<"rules", "cache", "resolve", "global", "call", "put">>
    [] kind = "search" /\ known -> <<"enter", "user", "global", "call">>
    [] kind = "search" /\ ~known -> <<"global", "call">>
    [] kind = "report" /\ known -> <<"enter", "user", "cache", "global", "call", "put">>
    [] kind = "report" /\ ~known -> <<"cache", "global", "call", "put">>
    [] kind = "send" /\ known ->
         <<"global", "enter", "user", "rules", "credentials", "call">>
    [] kind = "send" /\ ~known -> <<"global", "rules", "credentials", "call">>
    [] kind = "reply" /\ known ->
         <<"global", "enter", "user", "credentials", "parent", "rules", "call">>
    [] kind = "reply" /\ ~known -> <<"global", "credentials", "parent", "rules", "call">>
    [] kind = "read" -> <<"credentials", "call">>

Kinds == [web |-> {"fetch", "search"}, vt |-> {"report"}, email |-> {"send", "reply", "read"}]

Rpm(l) == IF l = Shared THEN GlobalRpm ELSE UserRpm

GatewaysInit ==
  /\ service \in Services /\ edits = 0
  /\ state = [r \in Requests |-> "new"] /\ todo = [r \in Requests |-> <<>>]
  /\ request = [r \in Requests |-> NoLocals]
  /\ bucket = [l \in Requests \cup {Shared} |-> FullBucket(Rpm(l))]
  /\ entry = [u \in Users |-> Nothing] /\ idle = [u \in Users |-> 0]
  /\ cache = [p \in Pages |-> Nothing]
  /\ debt = [l \in Users \cup {Shared} |-> 0] /\ evicted = {}

-----------------------------------------------------------------------------
(* Rules.  A block rule wins; if there are allow rules one must match.       *)

Matches(rule, page, addresses) ==
  IF rule.on = "url" THEN rule.what = page ELSE rule.what \in addresses

Blocked(page, addresses, among) ==
  LET Hit(effect) == {rule \in among : rule.effect = effect /\ Matches(rule, page, addresses)}
  IN  \/ Hit("block") # {}
      \/ Hit("allow") = {} /\ \E rule \in among : rule.effect = "allow"

(* Of the project, in the database. *)
CurrentRules == Rules[edits + 1]

(* Every address a name resolves to must pass. *)
Valid(page, addresses, among) ==
  addresses # {} /\ addresses \cap Barred = {} /\ ~Blocked(page, addresses, among)

-----------------------------------------------------------------------------
(* Stages. *)

At(r, stage) == todo[r] # <<>> /\ Head(todo[r]) = stage

Timeout(stage) ==
  CASE stage = "user"   -> ShortWait
    [] stage = "global" -> IF service = "email" THEN ShortWait ELSE LongWait
    [] OTHER            -> 0

(* On to other stages with these locals; a timeout begins. *)
Continue(r, stages, locals) ==
  /\ todo' = [todo EXCEPT ![r] = stages]
  /\ request' = [request EXCEPT ![r] = [locals EXCEPT !.left = Timeout(Head(stages)), !.sleep = 0]]
  /\ UNCHANGED state

Pass(r, locals) == Continue(r, Tail(todo[r]), locals)

End(r) ==
  /\ state' = [state EXCEPT ![r] = "done"]
  /\ todo' = [todo EXCEPT ![r] = <<>>]
  /\ request' = [request EXCEPT ![r] = NoLocals]

Start(r) ==
  /\ state[r] = "new" /\ state' = [state EXCEPT ![r] = "served"]
  /\ \E ask \in {ask \in Asks[r] : ask.kind \in Kinds[service]} :
       LET stages == Route(ask.kind, ask.owner # NoUser) IN
       /\ todo' = [todo EXCEPT ![r] = stages]
       /\ request' = [request EXCEPT ![r] = [Locals(ask.owner, ask.kind, ask.page) EXCEPT
                                               !.left = Timeout(Head(stages))]]
  /\ UNCHANGED <<project, limits, cache>>

(* Rules or credentials that cannot be loaded, a name that does not resolve, *)
(* a redirect that is refused, a call that fails, a user without a UUID.     *)
Fail(r) ==
  /\ \/ \E stage \in {"rules", "resolve", "credentials", "parent", "call"} : At(r, stage)
     \/ At(r, "enter") /\ service = "vt"
  /\ End(r)
  /\ UNCHANGED <<project, limits, cache>>

Tracked == {u \in Users : entry[u] # Nothing}

(* Whom a full map loses: an arbitrary half of its users, nobody, or those   *)
(* that have not been heard of for long.                                     *)
Outs ==
  CASE service = "web"   -> IF Cardinality(Tracked) >= MaxUsers.web
                            THEN kSubset(Cardinality(Tracked) \div 2, Tracked) ELSE {{}}
    [] service = "vt"    -> {{}}
    [] service = "email" -> {IF Cardinality(Tracked) > MaxUsers.email
                             THEN {u \in Tracked : idle[u] >= LimiterTtl} ELSE {}}

(* A mutant of Limiter: a new one for every request. *)
NewLimiter(u, out, r) == r

Limiter(u, out, r) == IF u \in out \/ entry[u] = Nothing THEN r ELSE entry[u]

Enter(r) ==
  LET u == request[r].owner IN
  /\ At(r, "enter") /\ u # NoUser
  /\ service = "vt" => u \in Tracked \/ Cardinality(Tracked) < MaxUsers.vt
  /\ \E out \in Outs :
       /\ entry' = [v \in Users |-> IF v = u THEN Limiter(u, out, r)
                                    ELSE IF v \in out THEN Nothing ELSE entry[v]]
       /\ evicted' = IF service = "web" THEN evicted \cup out ELSE evicted
  /\ bucket' = IF entry'[u] = r THEN [bucket EXCEPT ![r] = FullBucket(UserRpm)] ELSE bucket
  /\ idle' = [idle EXCEPT ![u] = 0]
  /\ Pass(r, [request[r] EXCEPT !.limiter = entry'[u]])
  /\ UNCHANGED <<project, debt, cache>>

(* The VirusTotal gateway has no room for another user. *)
NoRoom(r) ==
  /\ At(r, "enter") /\ service = "vt"
  /\ request[r].owner \notin Tracked /\ Cardinality(Tracked) >= MaxUsers.vt
  /\ End(r)
  /\ UNCHANGED <<project, limits, cache>>

Acquiring(r) == (At(r, "user") \/ At(r, "global")) /\ request[r].sleep = 0
Wanted(r)    == IF At(r, "user") THEN request[r].limiter ELSE Shared
Payer(r)     == IF At(r, "user") THEN request[r].owner ELSE Shared

Acquire(r) ==
  /\ Acquiring(r) /\ bucket[Wanted(r)].tokens > 0
  /\ bucket' = [bucket EXCEPT ![Wanted(r)] = Spent(@)]
  /\ debt' = [debt EXCEPT ![Payer(r)] = @ + PerToken(Rpm(Payer(r)))]
  /\ Pass(r, request[r])
  /\ UNCHANGED <<project, entry, idle, evicted, cache>>

(* The next token may be a moment away; two limiters sleep a whole interval, *)
(* if that is not past their deadline.                                       *)
Nap(r) ==
  LET interval == PerToken(Rpm(Payer(r))) IN
  IF service = "vt" THEN interval - bucket[Wanted(r)].since
  ELSE Min({interval, request[r].left})

(* VirusTotal's does not wait for a token that would come too late. *)
TooLate(r) == IF service = "vt" THEN Nap(r) > request[r].left ELSE request[r].left = 0

Wait(r) ==
  /\ Acquiring(r) /\ bucket[Wanted(r)].tokens = 0 /\ ~TooLate(r)
  /\ request' = [request EXCEPT ![r].sleep = Nap(r)]
  /\ UNCHANGED <<project, state, todo, limits, cache>>

RateLimited(r) ==
  /\ Acquiring(r) /\ bucket[Wanted(r)].tokens = 0 /\ TooLate(r)
  /\ End(r)
  /\ UNCHANGED <<project, limits, cache>>

(* The rules are loaded once; every target must pass them. *)
CheckRules(r) ==
  /\ At(r, "rules")
  /\ IF \E p \in request[r].target : Blocked(p, {}, CurrentRules) THEN End(r)
     ELSE Pass(r, [request[r] EXCEPT !.rules = CurrentRules])
  /\ UNCHANGED <<project, limits, cache>>

(* A mutant of Fresh: rows count until a tick removes them. *)
Stored(row) == row # Nothing

Fresh(row) == row # Nothing /\ row.age < CacheTtl

(* An error of the database counts as a miss. *)
CheckCache(r) ==
  LET row == cache[request[r].asked] IN
  /\ At(r, "cache")
  /\ \/ Pass(r, request[r])
     \/ Fresh(row) /\ Continue(r, <<"answer">>, [request[r] EXCEPT !.answer = row])
  /\ UNCHANGED <<project, limits, cache>>

Resolve(r) ==
  /\ At(r, "resolve")
  /\ \E addresses \in SUBSET Addresses :
       /\ \A p \in request[r].target : Valid(p, addresses, request[r].rules)
       /\ Pass(r, [request[r] EXCEPT !.addresses = addresses])
  /\ UNCHANGED <<project, limits, cache>>

(* Only users have credentials; a dry run ends here. *)
LoadCredentials(r) ==
  /\ At(r, "credentials") /\ request[r].owner # NoUser
  /\ Pass(r, request[r]) \/ (request[r].kind = "send" /\ End(r))
  /\ UNCHANGED <<project, limits, cache>>

(* A mutant of Redirect: where the redirect leads is not looked at again. *)
RedirectUnchecked(r) ==
  /\ At(r, "call") /\ request[r].kind = "fetch" /\ request[r].hops < MaxRedirects
  /\ \E p \in Pages :
       request' = [request EXCEPT ![r].target = {p}, ![r].hops = @ + 1]
  /\ UNCHANGED <<project, state, todo, limits, cache>>

(* The next call is made only if the page and its addresses pass. *)
Redirect(r) ==
  /\ At(r, "call") /\ request[r].kind = "fetch" /\ request[r].hops < MaxRedirects
  /\ \E p \in Pages, addresses \in SUBSET Addresses :
       /\ ~Blocked(p, {}, request[r].rules) /\ Valid(p, addresses, request[r].rules)
       /\ request' = [request EXCEPT ![r].target = {p}, ![r].addresses = addresses,
                                     ![r].hops = @ + 1]
  /\ UNCHANGED <<project, state, todo, limits, cache>>

(* What a call returns, to whom, and under which rules it was made. *)
Fetched(r) ==
  [kind |-> request[r].kind, asked |-> request[r].asked, page |-> request[r].target,
   rules |-> request[r].rules, age |-> 0]

(* A page with an error status, or a report that does not exist, is answered *)
(* and not cached.                                                           *)
Respond(r) ==
  /\ At(r, "call")
  /\ \/ Tail(todo[r]) # <<>> /\ Pass(r, [request[r] EXCEPT !.answer = Fetched(r)])
     \/ End(r)
  /\ UNCHANGED <<project, limits, cache>>

(* The message that is replied to says who gets the reply. *)
ReadParent(r) ==
  /\ At(r, "parent")
  /\ \E to \in SUBSET Pages \ {{}} : Pass(r, [request[r] EXCEPT !.target = to])
  /\ UNCHANGED <<project, limits, cache>>

(* The key is what was asked for; a failure is only logged. *)
Put(r) ==
  /\ At(r, "put")
  /\ cache' \in {cache, [cache EXCEPT ![request[r].asked] = request[r].answer]}
  /\ End(r)
  /\ UNCHANGED <<project, limits>>

(* The connection gets what the cache had. *)
AnswerCached(r) ==
  /\ At(r, "answer") /\ End(r)
  /\ UNCHANGED <<project, limits, cache>>

-----------------------------------------------------------------------------
(* The rules of the project are edited, a tick purges the cache; nothing does *)
(* so for VirusTotal's.                                                      *)
Edit ==
  /\ edits + 1 < Len(Rules) /\ edits' = edits + 1
  /\ UNCHANGED <<service, state, todo, request, limits, cache>>

Purge ==
  /\ service = "web"
  /\ cache' = [p \in Pages |-> IF Fresh(cache[p]) THEN cache[p] ELSE Nothing]
  /\ UNCHANGED <<project, state, todo, request, limits>>

InUse(l) == l = Shared \/ (\E u \in Users : entry[u] = l) \/ (\E r \in Requests : request[r].limiter = l)

(* Time passes while requests sleep or wait for others: a task that can go   *)
(* on is not delayed by as much as a limiter's interval.  (A task of the     *)
(* email tools that stood still for LimiterTtl between taking a limiter and  *)
(* using it would use one that has been pruned.)                             *)
Waiting(r) ==
  state[r] # "served" \/ request[r].sleep > 0 \/ At(r, "resolve") \/ At(r, "call") \/ At(r, "parent")

Tick ==
  /\ \A r \in Requests : Waiting(r)
  /\ bucket' = [l \in DOMAIN bucket |-> IF InUse(l) THEN Aged(bucket[l], Rpm(l)) ELSE FullBucket(Rpm(l))]
  /\ request' = [r \in Requests |-> [request[r] EXCEPT !.left = Max({0, @ - 1}),
                                                       !.sleep = Max({0, @ - 1})]]
  /\ idle' = [u \in Users |-> IF service = "email" /\ u \in Tracked THEN Min({LimiterTtl, idle[u] + 1}) ELSE 0]
  /\ debt' = [l \in DOMAIN debt |-> IF l \in evicted THEN 0 ELSE Max({0, debt[l] - 1})]
  /\ cache' = [p \in Pages |-> IF cache[p] = Nothing THEN Nothing
                               ELSE [cache[p] EXCEPT !.age = Min({CacheTtl, @ + 1})]]
  /\ UNCHANGED <<project, state, todo, entry, evicted>>

RequestStep(r) ==
  \/ Start(r) \/ Fail(r) \/ Enter(r) \/ NoRoom(r) \/ Acquire(r) \/ Wait(r) \/ RateLimited(r)
  \/ CheckRules(r) \/ CheckCache(r) \/ Resolve(r) \/ LoadCredentials(r) \/ Redirect(r)
  \/ Respond(r) \/ ReadParent(r) \/ Put(r) \/ AnswerCached(r)

GatewaysNext == (\E r \in Requests : RequestStep(r)) \/ Edit \/ Purge \/ Tick

GatewaysSpec == GatewaysInit /\ [][GatewaysNext]_gatewayVars

-----------------------------------------------------------------------------
(* A call that is under way reaches only what the rules the request has      *)
(* loaded allow: through redirects, whose every hop is another page with     *)
(* other addresses, and for a reply, whose recipients are known only after   *)
(* the message it answers was read.                                          *)
CallsVetted ==
  \A r \in Requests : At(r, "call") =>
    \A p \in request[r].target :
      /\ ~Blocked(p, {}, request[r].rules)
      /\ request[r].kind = "fetch" =>
           Valid(p, request[r].addresses, request[r].rules) /\ request[r].hops <= MaxRedirects

(* What a request is answered was fetched by itself, or, for the same        *)
(* question and less than the cache's TTL ago, by another request: from a    *)
(* page allowed by the rules that the one which fetched it had loaded.       *)
AnswersExplained ==
  \A r \in Requests : request[r].answer # Nothing =>
    LET answer == request[r].answer IN
    /\ answer.kind = request[r].kind /\ answer.asked = request[r].asked
    /\ answer.age = 0 \/ answer.age < CacheTtl
    /\ \A p \in answer.page : ~Blocked(p, {}, answer.rules)

(* The limiters keep the pace, of all requests and of each user's, however   *)
(* requests wait for and hold limiters while the map of users changes: in no *)
(* stretch of time are more granted than a full bucket, one more, and what   *)
(* that time pays for.  Only users whose limiter a full map has thrown out   *)
(* start anew.                                                               *)
InPace(l, rpm) == debt[l] < (Capacity(rpm) + 1) * PerToken(rpm)

RequestsPaced ==
  InPace(Shared, GlobalRpm) /\ \A u \in Users \ evicted : InPace(u, UserRpm)
=============================================================================
