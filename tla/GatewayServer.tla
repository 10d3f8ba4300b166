--------------------------- MODULE GatewayServer ----------------------------
(***************************************************************************)
(* The life of one gateway process.  The configuration is loaded and       *)
(* validated (Config); UpstreamPool::from_config connects the upstreams    *)
(* and rolls back when one fails (src/mcp/pool.rs); Gateway::run binds and *)
(* serves, each request passing the layers of router() and being           *)
(* dispatched by route to an upstream (src/server, src/bridge); the signal *)
(* shuts the pool down and then lets axum drain (server/mod.rs:152-166).   *)
(***************************************************************************)
EXTENDS Config, SequencesExt

CONSTANTS
  Settings,    \* what the process may find: [file, env, clients], clients being
               \* the frontends that will come
  Request,     \* frontend requests over the life of the process
  Path,        \* what a frontend asks for: a method and a path
  Surface,     \* who serves each: the "api", a "public" route, its method router
               \* when the method is another, or CORS when it is a preflight
  Forms,       \* the requests that are made: [path, keyed, size, declared, valid]
  Flaky        \* may connecting, or binding the listener, fail?

ASSUME FlakyAssumption == Flaky \in BOOLEAN
ASSUME SurfaceAssumption == Surface \in [Path -> {"api", "public", "otherMethod", "preflight"}]
ASSUME FormsAssumption ==
  Forms \subseteq [path : Path, keyed : BOOLEAN, size : Nat, declared : BOOLEAN, valid : BOOLEAN]
\* There is one file, or none.
ASSUME SettingsAssumption ==
  \A s \in Settings :
    /\ s.clients \subseteq Request
    /\ \A cfg \in s.file : IsConfig(cfg) /\ s.file = {cfg}

VARIABLES
  setting,   \* the member of Settings this process runs in
  config,    \* the GatewayConfig, once loaded
  mode,      \* "loading", "validating", "rejected", "building", "rollback",
             \* "starting", "serving", "stopping", "draining", "exited", or
             \* "failed" when run() could not serve
  next,      \* which upstream from_config connects next
  transport, \* each configured upstream's transport: "none", "up",
             \* "closed" by shutdown, "dropped" when its last Arc went
  left,      \* transports rollback or shutdown_all has still to close
  phase,     \* each request: "idle", "sending" its body, "inflight" to an
             \* upstream, "replying" while its answer is written, "done", or
             \* "gone" when its client went away first
  form,      \* the member of Forms it is, once it has arrived
  reply      \* its HTTP status, 0 until it is answered

vars == <<setting, config, mode, next, transport, left, phase, form, reply>>
loaded == <<setting, config>>
pool == <<next, transport, left>>
requests == <<phase, form, reply>>

Index == DOMAIN config.upstreams
Kind(u) == config.upstreams[u].transport

Init ==
  /\ setting \in Settings
  /\ config = DefaultConfig
  /\ mode = "loading"
  /\ next = 1
  /\ transport = <<>>
  /\ left = {}
  /\ phase = [r \in Request |-> "idle"]
  /\ form = [r \in Request |-> {}]
  /\ reply = [r \in Request |-> 0]

-----------------------------------------------------------------------------
(* Loading and building.                                                   *)

Load ==
  /\ mode = "loading"
  /\ config' = Layered(setting.file, setting.env)
  /\ transport' = [u \in DOMAIN config'.upstreams |-> "none"]
  /\ mode' = "validating"
  /\ UNCHANGED <<setting, next, left, requests>>

Validate ==
  /\ mode = "validating"
  /\ mode' = IF Valid(config) THEN "building" ELSE "rejected"
  /\ UNCHANGED <<loaded, pool, requests>>

Connect ==
  /\ mode = "building" /\ next \in Index
  /\ transport' = [transport EXCEPT ![next] = "up"]
  /\ next' = next + 1
  /\ UNCHANGED <<loaded, mode, left, requests>>

\* Mutated form: the rollback misses the last client built.
BuiltButLast == {u \in Index : transport[u] = "up" /\ u + 1 < next}

\* connect failed: every client built so far is to be shut down.
Built == {u \in Index : transport[u] = "up"}
ConnectFails ==
  /\ Flaky /\ mode = "building" /\ next \in Index
  /\ left' = Built
  /\ mode' = "rollback"
  /\ UNCHANGED <<loaded, next, transport, requests>>

\* The last of several upstreams of one name is the one the pool keeps; the
\* others lose their only Arc, and their Drop kills the child.
Owner(n) == CHOOSE u \in Index :
              /\ config.upstreams[u].name = n
              /\ \A v \in Index : config.upstreams[v].name = n => v <= u
Pooled == {Owner(n) : n \in Names(config)}

Collect ==
  /\ mode = "building" /\ next \notin Index
  /\ transport' = [u \in Index |-> IF u \in Pooled THEN "up" ELSE "dropped"]
  /\ mode' = "starting"
  /\ UNCHANGED <<loaded, next, left, requests>>

\* run() needs an address that parses, a limiter that can be built, and a
\* listener.
Runnable == config.bind = "good" /\ config.rate_limit # "zero"
Serve ==
  /\ mode = "starting" /\ Runnable
  /\ mode' = "serving"
  /\ UNCHANGED <<loaded, pool, requests>>

\* It returns an error, or panics on the limiter, and shuts nothing down: its
\* Arc of the pool goes, which drops the transports unless the host kept
\* another one (state()).
RunFails ==
  /\ mode = "starting" /\ (Flaky \/ ~Runnable)
  /\ transport' \in {transport, [u \in Index |-> "dropped"]}
  /\ mode' = "failed"
  /\ UNCHANGED <<loaded, next, left, requests>>

-----------------------------------------------------------------------------
(* Serving one request: router, handlers::dispatch and Bridge::dispatch.   *)

Routes == config.routes

\* match_route: the first route that fits, 0 if none does.
MatchRoute(path) ==
  LET fits == {i \in DOMAIN Routes : Routes[i].path = path}
  IN  IF fits = {} THEN 0 ELSE CHOOSE i \in fits : \A j \in fits : i <= j

\* Mutated form: the route is looked up before the key is checked.
HeadAnswerRouteFirst(f, limited) ==
  IF limited THEN 429
  ELSE IF Surface[f.path] = "preflight" THEN 200
  ELSE IF f.declared /\ f.size > config.max_request_bytes THEN 413
  ELSE IF Surface[f.path] = "public" THEN 200
  ELSE IF Surface[f.path] = "otherMethod" THEN 405
  ELSE IF MatchRoute(f.path) = 0 THEN 404
  ELSE IF config.access_key /\ ~f.keyed THEN 401 ELSE 0

\* The status of a request that is answered on its head, in the order of the
\* layers; 0 if it goes on to the handler.  The limiter is tower_governor's and
\* comes first; the key is asked for on the API alone.
HeadAnswer(f, limited) ==
  IF limited THEN 429
  ELSE IF Surface[f.path] = "preflight" THEN 200
  ELSE IF f.declared /\ f.size > config.max_request_bytes THEN 413
  ELSE IF Surface[f.path] = "public" THEN 200
  ELSE IF Surface[f.path] = "otherMethod" THEN 405
  ELSE IF config.access_key /\ ~f.keyed THEN 401 ELSE 0

\* axum's own limit on an extracted body (2 MiB), which router() leaves in place
\* below max_request_bytes; sizes are in MiB.
DefaultBodyLimit == 2

\* Bridge::dispatch: the pool is asked first, and a streaming tool is not
\* implemented.
DispatchRefusal(rule) ==
  IF rule.upstream \notin Names(config) THEN 502 ELSE IF rule.stream THEN 501 ELSE 0

\* What the handler answers once the body has been read; 0 if it waits for an
\* upstream.
BodyRefusal(f) ==
  LET i == MatchRoute(f.path)
  IN  IF f.size > config.max_request_bytes \/ f.size > DefaultBodyLimit THEN 413
      ELSE IF i = 0 THEN 404
      ELSE IF ~f.valid THEN 400
      ELSE DispatchRefusal(Routes[i])

Answer(r, status) ==
  /\ reply' = [reply EXCEPT ![r] = status]
  /\ phase' = [phase EXCEPT ![r] = "replying"]

\* axum accepts until the shutdown future has resolved.
Accepting == mode \in {"serving", "stopping"}

Arrive(r, f, limited) ==
  /\ Accepting /\ phase[r] = "idle" /\ r \in setting.clients
  /\ limited => config.rate_limit = "on"
  /\ form' = [form EXCEPT ![r] = {f}]
  /\ IF HeadAnswer(f, limited) = 0
     THEN phase' = [phase EXCEPT ![r] = "sending"] /\ reply' = reply
     ELSE Answer(r, HeadAnswer(f, limited))
  /\ UNCHANGED <<loaded, mode, pool>>

Form(r) == CHOOSE f \in form[r] : TRUE

BodyArrives(r) ==
  /\ phase[r] = "sending"
  /\ IF BodyRefusal(Form(r)) = 0
     THEN phase' = [phase EXCEPT ![r] = "inflight"] /\ reply' = reply
     ELSE Answer(r, BodyRefusal(Form(r)))
  /\ UNCHANGED <<loaded, mode, pool, form>>

Target(r) == Owner(Routes[MatchRoute(Form(r).path)].upstream)
InFlight(u) == {r \in Request : phase[r] = "inflight" /\ Target(r) = u}

\* call_tool / read_resource returned.  Shutting an HTTP transport down does
\* nothing to it.
Usable(u) == transport[u] = "up" \/ Kind(u) = "http"
Succeed(r) ==
  /\ phase[r] = "inflight" /\ Usable(Target(r))
  /\ Answer(r, 200)
  /\ UNCHANGED <<loaded, mode, pool, form>>

\* Mutated forms: an upstream's failure is an internal error; a request whose
\* transport was closed is never failed.
InternalError == {500}
FailWhileUp(r) ==
  /\ phase[r] = "inflight" /\ transport[Target(r)] = "up"
  /\ \E status \in {502, 504} : Answer(r, status)
  /\ UNCHANGED <<loaded, mode, pool, form>>

\* An upstream or transport error is a 502, the timeout a 504 (error.rs).
ErrorStatus == {502, 504}
Fail(r) ==
  /\ phase[r] = "inflight"
  /\ \E status \in ErrorStatus : Answer(r, status)
  /\ UNCHANGED <<loaded, mode, pool, form>>

\* The client has taken all of the answer.
Replied(r) ==
  /\ phase[r] = "replying"
  /\ phase' = [phase EXCEPT ![r] = "done"]
  /\ UNCHANGED <<loaded, mode, pool, form, reply>>

\* The HTTP client goes away: the handler's future, or what is left of the
\* answer, is dropped.
Abandon(r) ==
  /\ phase[r] \in {"sending", "inflight", "replying"}
  /\ phase' = [phase EXCEPT ![r] = "gone"]
  /\ UNCHANGED <<loaded, mode, pool, form, reply>>

-----------------------------------------------------------------------------
(* Shutting down.                                                          *)

\* The signal: shutdown_all starts, and axum has not been told yet.
Signal ==
  /\ mode = "serving"
  /\ left' = Pooled
  /\ mode' = "stopping"
  /\ UNCHANGED <<loaded, next, transport, requests>>

\* shutdown_all and the rollback close one transport after the other.
CloseOne(u) ==
  /\ mode \in {"stopping", "rollback"} /\ u \in left
  /\ transport' = [transport EXCEPT ![u] = "closed"]
  /\ left' = left \ {u}
  /\ UNCHANGED <<loaded, mode, next, requests>>

\* The future resolves: axum stops accepting and waits for open requests.
Drain ==
  /\ mode = "stopping" /\ left = {}
  /\ mode' = "draining"
  /\ UNCHANGED <<loaded, pool, requests>>

\* axum waits for every open connection, an answer still being read included.
Open == {r \in Request : phase[r] \in {"sending", "inflight", "replying"}}
Exit ==
  /\ \/ mode = "draining" /\ Open = {}
     \/ mode = "rollback" /\ left = {}
  /\ mode' = "exited"
  /\ UNCHANGED <<loaded, pool, requests>>

Next ==
  \/ Load \/ Validate \/ Connect \/ ConnectFails \/ Collect \/ Serve \/ RunFails
  \/ \E r \in Request, f \in Forms, limited \in BOOLEAN : Arrive(r, f, limited)
  \/ \E r \in Request : BodyArrives(r) \/ Succeed(r) \/ Fail(r) \/ Replied(r) \/ Abandon(r)
  \/ Signal \/ (\E u \in Index : CloseOne(u)) \/ Drain \/ Exit

Spec == Init /\ [][Next]_vars

\* A dispatch ends, and a stdio transport's writers let shutdown have stdin,
\* by upstream_timeout_secs; over HTTP reqwest has a timeout of its own.
Timed(u) == config.upstream_timeout_secs > 0 \/ Kind(u) = "http"

Fairness ==
  /\ WF_vars(Load) /\ WF_vars(Validate) /\ WF_vars(Collect)
  /\ WF_vars(Connect \/ ConnectFails) /\ WF_vars(Serve \/ RunFails)
  /\ \A r \in Request : WF_vars(/\ phase[r] = "inflight" /\ Timed(Target(r))
                                /\ Succeed(r) \/ Fail(r))
  /\ WF_vars(\E u \in left : (Timed(u) \/ InFlight(u) = {}) /\ CloseOne(u))
  /\ WF_vars(Drain) /\ WF_vars(Exit)

FairSpec == Spec /\ Fairness

-----------------------------------------------------------------------------
(* Properties.                                                             *)

\* The shape of the process (server/mod.rs:17-23, pool.rs:13-15).
TypeOK ==
  /\ setting \in Settings
  /\ mode \in {"loading", "validating", "rejected", "building", "rollback",
              "starting", "serving", "stopping", "draining", "exited", "failed"}
  /\ next \in 1 .. Len(config.upstreams) + 1
  /\ transport \in [Index -> {"none", "up", "closed", "dropped"}]
  /\ left \subseteq Index
  /\ phase \in [Request -> {"idle", "sending", "inflight", "replying", "done", "gone"}]
  /\ form \in [Request -> SUBSET Forms]
  /\ \A r \in Request : phase[r] = "idle" <=> form[r] = {}
  /\ reply \in [Request -> {0, 200, 400, 401, 404, 405, 413, 429, 501, 502, 504}]

\* When a build has failed ("shut down so we don't leak transports",
\* pool.rs:20-22) or a shutdown is over, every transport that was opened has
\* been shut down, whichever connect failed and whatever was in flight; only
\* one that a later upstream of the same name hid was merely dropped.  Nothing
\* is said of a run() that fails: it leaves the pool to whoever holds it.
NothingLeftOpen ==
  mode = "exited" => \A u \in Index :
    /\ transport[u] # "up"
    /\ transport[u] = "dropped" =>
         \E v \in Index : v > u /\ config.upstreams[v].name = config.upstreams[u].name

\* Every route that is reached leads to an upstream of the pool, and the
\* transport a request waits on is the one the pool kept, open when the
\* request was accepted or being shut down since.
TargetsArePooled ==
  \A r \in Request :
    /\ phase[r] # "idle" /\ MatchRoute(Form(r).path) # 0 =>
         Routes[MatchRoute(Form(r).path)].upstream \in Names(config)
    /\ phase[r] = "inflight" =>
         /\ transport[Target(r)] \in {"up", "closed"}
         /\ transport[Target(r)] = "closed" => mode \in {"stopping", "draining"}

\* "reject disallowed stdio commands before spawning anything"
\* (server/mod.rs:33), and the addresses of config.rs:294-362, IPv6 included:
\* every transport that was ever opened is of an upstream the operator's policy
\* allows, and a configuration is rejected only for an upstream the policy
\* forbids or a route without one.
ValidateMatchesPolicy ==
  /\ \A u \in Index : transport[u] # "none" => Vetted(config.upstreams[u], config)
  /\ mode = "rejected" =>
       \/ \E u \in Index : ~Vetted(config.upstreams[u], config)
       \/ \E i \in DOMAIN Routes : \A u \in Index : config.upstreams[u].name # Routes[i].upstream

\* Does the last layer that speaks of a key ask for one?  An empty variable
\* clears the key of the file (CUSTOMIZATION.md:74).
KeyInForce ==
  \/ setting.env.access_key = "key"
  \/ /\ setting.env.access_key = "unset"
     /\ \E cfg \in setting.file : cfg.access_key

\* A frontend without the key in force never gets past the head of its request
\* (middleware.rs:15-33, server/mod.rs:84-119): none of its bodies is read, none
\* of its requests waits on an upstream, and on the API what it is told, that
\* it is limited, too large or unauthorized, depends on no route.  The public
\* routes and the preflights are for everyone; /version names the upstreams
\* "by design" (server/handlers.rs:21).
StrangersStayOutside ==
  \A r \in Request : KeyInForce /\ phase[r] # "idle" /\ ~Form(r).keyed =>
    /\ phase[r] \in {"replying", "done", "gone"}
    /\ reply[r] \in IF Surface[Form(r).path] = "api" THEN {401, 413, 429}
                                                    ELSE {200, 405, 413, 429}

\* After the signal the process exits, as long as the frontends finish sending
\* what they began and take their answers, or go away, and no stdio upstream is
\* used without a timeout.
SignalEndsProcess ==
  (\A r \in Request : []<>(phase[r] \notin {"sending", "replying"})) =>
    (mode = "stopping" /\ (\A u \in Index : Timed(u)) ~> mode = "exited")

\* "On shutdown, gracefully drain in-flight requests and shut down all
\* upstream transports" (server/mod.rs:124-126): no upstream goes down under
\* a request that still waits on it.
DrainsBeforeShutdown ==
  [][\A u \in Index : transport[u] = "up" /\ transport'[u] = "closed" => InFlight(u) = {}]_vars
=============================================================================
