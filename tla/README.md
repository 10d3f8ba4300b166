# Formal models of AIRP Gateway

TLA+ models of the gateway crate (`src/`), the TLC instances that check them, and
TLAPS proofs of what they check, for every value of the constants. Paths below are relative to the crate:
`stdio.rs` is `src/mcp/transport/stdio.rs`, and so on.

## 1. The system and its parts

The gateway accepts requests from frontends (HTTP, or AgentBus envelopes with an SSE
stream back), maps each to a route, and calls a tool or reads a resource on one of
several upstream MCP servers, each reached over a child process's pipes or over
HTTP.

```
 frontend ──HTTP──▶ middleware ─▶ handlers::dispatch ─┐
                                                     ├─▶ Bridge ─▶ UpstreamPool ─▶ McpClient ─▶ McpTransport
 UI ──POST /airp/dispatch──▶ agentbus handlers ──────┘                                         ├─ stdio: child process
 UI ◀──GET /airp/stream (SSE)── Bus (broadcast) ◀── agentbus handlers                           └─ http: POST + SSE body
```

| Part | State it keeps | Operations | What is hard | What makes it correct |
|---|---|---|---|---|
| stdio transport (`stdio.rs`) | `pending` map of oneshot senders, stdin behind a mutex, the child, a reader task | `request`, `notify`, `shutdown`, `Drop`, the reader loop, `drain_pending` | callers, reader, shutdown and the child interleave at every await; callers are dropped by timeouts; the child exits, stalls or misbehaves at any point | nobody waits for nothing; answers reach the caller they belong to; lines stay whole; shutdown ends the child |
| MCP client (`client.rs`) | `OnceCell` with the negotiated version, id counter | `ensure_initialized`, `call_tool`, `list_tools`, `read_resource`, `shutdown_transport` | concurrent first use, retries, a dropped initializer, queueing callers | no call before a completed handshake; handshakes do not overlap; ids are unique |
| HTTP transport (`http.rs`) | captured session id and protocol version; per request the bytes counted and kept | `request`, `notify`, `parse_sse` | headers and body are captured at different times, by handshakes that may fail; the server chooses how the body is cut | calls carry what the handshake agreed; no more than the limit is kept; the first response of the body is returned |
| pool and server (`pool.rs`, `server/mod.rs`) | clients by name, the listening server | `from_config`, `run`, `shutdown_all` | partial build, duplicate names, shutdown under load | nothing is left open; the process ends |
| bridge (`bridge/mod.rs`, `server/handlers.rs`, `error.rs`) | routes (constant) | `match_route`, `dispatch` | shadowed routes, streaming tools | a request waits only on a transport of the pool |
| AgentBus (`agentbus/`) | broadcast ring, scope filter per connection id | SSE stream, `hello`, `intent`, `subscribe`, `ConnGuard::drop` | slow streams, filters changed under way, reconnects, concurrent intents | streams miss only what they lagged behind or filtered out, filtered as asked; one envelope per intent |
| middleware (`middleware.rs`, `router()`) | the limiter's buckets | auth, CORS, body limit, rate limit | the order of the layers, written inside out | without the key nothing but the public routes and preflights is served |
| configuration (`config.rs`) | none after loading | `load`, `apply_env`, `validate` | three layers with different rules for empty and zero; boundaries of address ranges | only what the operator's policy allows is ever opened, and nothing else is refused |
| telemetry, crate root | none | – | – | – |

The parts interact by calls, except in four places that share state between tasks:
the `pending` map and the stdin mutex (callers, reader, shutdown), the `OnceCell`
(callers of one client), the two mutexes of the HTTP transport (callers of one
client), and the bus with its subscription map (handlers and streams). These are
where the models have one action per await.

The hazards, each at its line and with the properties that watch it, are listed in
`PROJECT.json`.

## 2. Modules

| Module | Models | State and actions in terms of the code |
|---|---|---|
| `StdioTransport` | `stdio.rs` | `pc[w]` is where `request`/`notify` is suspended: `queued` (waiting for the stdin lock), `payload`/`rest`/`newline` (inside `write_line`), `broken` (a write failed), `await` (`rx.await`). `pending`, `stdinLock`, `stdin` are the fields; `reply[r]` is the oneshot channel. `lines` and `tail` are the bytes in the stdin pipe, `fromChild` those in the stdout pipe. `reader`, `drained`, `cause` are the reader task and `drain_pending`; `sd` is `shutdown()`. The child is an external actor. |
| `RpcCall` | trait `McpTransport` | What a transport promises a caller. `StdioTransport` implements it under the mapping at its end. |
| `McpClient` | `client.rs` | `permit` and `negotiated` are the `OnceCell`; `pc[c]` walks `ensure_initialized` and `invoke`; `wire` is what the server was sent, in order. |
| `StdioClient` | `client.rs` over `stdio.rs` | Extends `McpClient`: `spot[c]` is where a caller is inside the transport, while `pc[c]` keeps saying where it is in the client. `pending`, `lock`, `inbox` are the map, the mutex and the oneshot channels; `tail` and `pipe` the bytes in stdin; the child answers in any order, however late, or leaves. |
| `HttpSession` | `http.rs` under `client.rs` | Extends `McpClient`: each send records the headers `decorate` adds; a response arrives in two steps, headers (session captured) and body (version captured). |
| `HttpBody` | `http.rs` from the status line on | `HeadersArrive` is the status and the Content-Length check, `ChunkArrives` one turn of the loop, `BodyEnds` UTF-8, `parse_sse` or JSON. A body is a sequence of lines of size 1, cut anywhere; `SseLine` is one turn of `parse_sse`'s loop, `SseLoop` what the loop holds after each line. |
| `AgentBus` | `agentbus/` | `log` is every envelope broadcast, the ring its last `Capacity`; `cursor[s]` is a receiver; `filter` the subscription map. `handle_intent` is split at its one suspending await, `Bridge::dispatch`; `send_initial_state` is one step per envelope, because other threads run in between. |
| `LossyBroadcast` | the promise of the bus | Ordered, no duplicates, nothing from before the listener joined. `AgentBus` implements it. |
| `Config` | `config.rs` | A config is a record with the source's fields. `Layered` and `ApplyEnv` are `load` and `apply_env`; `CommandsPass`, `UrlsPass`, `RoutesPass` the three parts of `validate`, by octets as the code has it; `Vetted` says what the comments promise, with IPv4 and IPv6 addresses in blocks, for comparison. |
| `GatewayServer` | `pool.rs`, `server/`, `bridge/` over `Config` | `mode` follows `load`, `validate`, `from_config`, `run` and the graceful-shutdown future; `transport[u]` is one upstream's transport, `Owner` the client a duplicate name leaves in the map. A request meets the layers that look at its head (`HeadAnswer`; `Surface` tells the API from the public routes and from preflights), sends its body, meets the handler (`BodyRefusal`) and the bridge (`DispatchRefusal`), waits on its upstream, and is over when its client has taken the answer (`Replied`). |
| `StdioTransportProofs`, `StdioRpcProofs` | – | Theorems about `StdioTransport`; its refinement of `RpcCall`. |
| `McpClientProofs` | – | Theorems about `McpClient`. |
| `StdioClientProofs`, `HttpSessionProofs` | – | Theorems about the client over each transport, on top of those. |
| `HttpBodyProofs`, `AgentBusProofs`, `GatewayServerProofs` | – | Theorems about the module each is named for; the last about `Config` too. |
| `MCStdio`, `MCStdioClient`, `MCHttp`, `MCHttpBody`, `MCAgentBus`, `MCGateway` | – | Values, workloads and symmetry for TLC. |

Composition: `HttpSession` and `StdioClient` extend `McpClient` and refine its
transport steps; `GatewayServer` extends `Config` and runs with what it loads.
`StdioTransport` identifies a caller with its request id, which `McpClient`'s
`UniqueIds` justifies, and goes deeper than `StdioClient`: a line in three pieces, the
steps inside `drain_pending`, lines nobody asked for, muted children, `Drop`. What
`McpClient` assumes of a transport (a request goes out whole or not at all and gets its
own answer, an error, or nothing) is checked, not assumed, for stdio: it is
`ImplementsMcpClient`. `GatewayServer` assumes of a dispatch that it ends when a timeout
is set, and of a close that it returns.

Operators described as a *mutated form* are faulty variants of the definition that
follows them; a property that a run checks is violated when its variant takes the
definition's place, which shows that the property depends on it. Nothing else uses
them.

## 3. What the runs check

Runs that pass:

| Run | Shows |
|---|---|
| `StdioSafety` | `NoStrandedCaller`, `OwnAnswer`, `OnlyAbandonedLeak`, `OnlyDroppedWritersTear`, `NoWriteAfterClose` with callers dropped anywhere, duplicate answers, junk, a child that exits at any time, shutdown and Drop |
| `StdioTimeouts` | for a child that owes nothing, may close its stdout early and may flood a line: `CallsEndWithChild` (with no timer, the end of the child ends every call, wherever its caller is and whoever was dropped, unless the reader had left before), `ShutdownEndsChild` (where requests are timed), and `ImplementsRpcCall`, the refinement of `RpcCall` |
| `StdioCalls` | the client over a stdio child: `ImplementsMcpClient` (what `McpClient` says holds of the composition step by step), `NotifyFindsRoom` (the untimed `initialized` never waits), `AcceptedBeforeCalls` (no late answer to an abandoned handshake opens the client), `EveryCallEnds` |
| `HttpHandshake` | `HandshakeFirst`, `HandshakesDoNotOverlap`, `UniqueIds`, `VersionIsFinal` for three racing callers, and `CallsCarryAgreement` for a server that names a session and a version in every accepted `initialize`, and only there: what calls carry is compared with what that response itself named |
| `HttpBody` | `KeepsAtMostMax` and `FirstResponseReturned` for every SSE body of up to five lines and shorter ones of other kinds, in every cut |
| `BusSafety` | `OneEnvelopePerIntent` for two concurrent intents with every outcome; `AlwaysHeard`, `FilterAsAsked` and `NoLeakedFilter` for two connections that each filter two scopes as they like, with an id for one stream and a subscribe while it is open |
| `BusLive` | `StreamsCatchUp`, `OnlyStreamsHoldServer`, and `ImplementsLossyBroadcast`, the refinement of `LossyBroadcast`, for clients without that discipline, one of which may stop reading |
| `GatewayLifecycle` | `NothingLeftOpen`, `TargetsArePooled`, `ValidateMatchesPolicy`, `StrangersStayOutside`, and `SignalEndsProcess` for the gateway's own routes (no SSE stream mounted) |

`HandshakeFirst`, `HandshakesDoNotOverlap`, `UniqueIds` and `VersionIsFinal` hold over
stdio too: they are properties of `McpClient`'s `Spec`, which the composition implements
(`ImplementsMcpClient`).

Runs that find what a comment or a document says violated by the code:

| Run | Statement | What happens |
|---|---|---|
| `StdioHugeStrands` | callers don't hang when the reader stops (`stdio.rs:219-220`) | after an oversized line the child is not killed, as `stdio.rs:109` and `DESIGN.md:375` say it is; requests still register and write, and nobody reads the answers |
| `BusReconnect` | the id attributes subscriptions to the right stream (`AGENTBUS-ADAPTER.md:55-56`) | the old stream's guard clears the new stream's filter |
| `GatewayIpv6` | private, link-local, unspecified and reserved hosts are rejected (`config.rs:294-297`, `329-331`, `357-361`) | `host_str()` gives an IPv6 literal in brackets, which does not parse as an address: the IPv6 arms are never reached |
| `GatewayDrain` | drain, then shut down upstreams (`server/mod.rs:125-126`) | the order is the reverse |

Other disagreements met while modelling. The models contain the behaviour; the
right column says where to see it, where it can with the setting of a run that
makes TLC find a property violated.

| Statement | What the code does | To see it |
|---|---|---|
| newline-delimited messages (`stdio.rs:3-4`) | a timeout in the middle of a write leaves a fragment in the pipe, and the next message is glued to it | `OnlyDroppedWritersTear` says how far the damage goes: no line spoils itself, and no writer but a dropped one spoils another's |
| responses are matched by id (`stdio.rs:4-5`) | `result` and `error` are optional, so a request of the server's own parses as a response and completes the call of equal id with null | `StdioSafety` with `"request"` in `StrayKinds` violates `OwnAnswer` |
| shutdown closes stdin, waits up to `SHUTDOWN_TIMEOUT`, then kills (`stdio.rs:161-162`) | it waits first, without a limit, for the stdin mutex, which a writer blocked on a full pipe holds for ever when `upstream_timeout_secs = 0` | `ShutdownEndsChild` without its premise `FairTimeouts` is violated in `StdioTimeouts` |
| the session id is the one returned on `initialize` (`http.rs:6-7`) | one captured in a handshake that failed stays, and goes out with the calls of a later one that named none | `HttpHandshake` with `AlwaysNames = FALSE` violates `CallsCarryAgreement` |
| the version header is the server's reply to `initialize` (`http.rs:36`) | a member `protocolVersion` of any result replaces it (`http.rs:157-164`) | `HttpHandshake` with `VersionAnywhere = TRUE` violates `CallsCarryAgreement` |
| no leaked filters (`agentbus/handlers.rs:29-31`) | a subscribe handled after its stream ended, or for an id without one, leaves an entry | `BusSafety` with `LateSubscribe = TRUE` violates `NoLeakedFilter` |
| initialize exactly once (`client.rs:51`) | a failed handshake is run again, on the same connection, by the next caller | `wire` after a `ServerRefuses` |
| the client disconnects on an unsupported version (`types.rs:14-16`) | it returns an error and keeps using the connection | `wire` after a `ServerNamesOther` |
| streaming tools are rejected with `stream_unsupported` (`AGENTBUS-ADAPTER.md:169-170`) | `Bridge::dispatch` returns an error first, so the code is `dispatch_error`; the branch at `agentbus/handlers.rs:214` is dead | `DispatchSucceeds` is never enabled for a streaming name |
| requests per second (`config.rs:77`) | `per_second(n)` of tower_governor is the number of seconds between two requests, so a larger value is a lower rate | – (the buckets are not modelled) |
| `per_second` and `burst` are any numbers (`config.rs:76-80`) | with a zero the limiter cannot be built and `router()` panics, after every upstream was spawned | `RunFails` with `rate_limit = "zero"` |
| `max_request_bytes` is the maximum size of a body (`config.rs:33`) | axum's own 2 MiB limit on extracted bodies stays in force below it | `BodyRefusal`, `DefaultBodyLimit` |
| a route is a method and a path, any (`config.rs:144-147`) | `/health` and `/version` are matched before the bridge, so a configured route of that path is never reached, and another method on it is a 405 | `HeadAnswer` |
| an optional TOML file (`config.rs:183`) | a path that was given and does not exist is no error: the gateway runs on defaults, without a key | `Layered` with `file = {}` |
| streams end when the server shuts down (`agentbus/handlers.rs:282`) | nothing closes the broadcast channel, so the server waits for its clients | `Stop` waits for `Open = {}` |

### Bounds

*Stdio*: two requests and a notification are enough for every pair of callers to meet at the lock, in the map and in the drain. `PipeCap`
and `OutCap` of one or two lines make both pipes fill, so that writers and the child
block. `MaxStray` bounds unsolicited lines; one is enough for each kind to arrive at
any moment, and the kinds are split over the runs because a server request or an
oversized line breaks properties by itself. A server's request of a colliding id
would complete an `initialize` too, with the advertised version, so `StdioCalls` is
about servers that send none. *Stdio client*: two callers, so that one runs the handshake while the other queues,
times out or retries it; a pipe of two lines; liveness and refinement forbid symmetry,
and a third caller takes the state space past what they can be checked on. Three
callers (which let a torn line meet two others) pass the invariants alone:
`Caller = {c1, c2, c3}`, `PipeCap = 1`, `SYMMETRY Symmetry`, no `PROPERTIES`, 1.3
million states in two minutes. *Client over HTTP*: three callers, so that one
runs the handshake, one queues and one comes late; three versions, one unsupported;
two sessions, so that a stale capture can differ from the agreed one. *Bodies*: five
lines hold two events, a separator and a cut-off end, or a response split over two
lines beside a whole one; limits of two and five lines are below, at and above them. *Bus*: a ring of one envelope overflows with two; two
streams, so that one can lag or leave while the other does not. `BusSafety` has two
connections and two scopes, so that a filter excludes what the other connection
asked for, and the envelopes of two intents, one of a name that no route matches; a
greeting, and a name whose tool streams, are in `BusLive`. `MaxSubscribes`
bounds the subscribes handled: two, so that one replaces or resets the other. *Gateway*: three upstreams
of which two share a name, two requests, three routes (one shadowed, one streaming). The
address check runs on the first and last address of every block, loopback's too, and on
their neighbours outside; of IPv6, on the neighbours of the blocks, while the
addresses inside are `GatewayIpv6`'s; allowlists with the full name, the base name, another, both,
none; each environment variable unset, empty, zero and set over a file that says
otherwise; a keyless and a keyed request for each kind of refusal, a public path, another
method on it, and a preflight. Sizes are in MiB: 1, 2 (axum's own limit) and 3.

Workloads are finite, so every model comes to rest; the runs therefore do not check
for deadlock, and the liveness properties say that what had to happen did.

### Fairness

* Steps of the gateway's own tasks are weakly fair: tokio polls tasks that are ready.
  The stdin mutex is a FIFO queue in tokio; weak fairness of each caller is enough
  for the finite workloads here.
* `GatewaySpec`, under which `StdioTimeouts` runs, has the gateway's own steps and no
  timer: `CallsEndWithChild` needs none. `ShutdownEndsChild` has the timer of requests,
  `FairTimeouts`, as its premise, and every writer there is a request, since a blocked
  notification is not timed.
* `FairTimeouts` (stdio) and `TimeOut` (client) are the timer of `send_with_timeout`,
  present only when `upstream_timeout_secs > 0`. Notifications have no timer. That
  `initialized` needs none is `NotifyFindsRoom`; `EveryCallEnds` of `StdioCalls` rests on
  no fairness of the child.
* A killed process exits (`WF(killed /\ ChildLeaves)`), and a process that is exiting
  finishes (`ChildGone`).
* `SignalEndsProcess` assumes that each close returns (`ShutdownEndsChild`, shown with
  timeouts) and that each dispatch ends (`EveryCallEnds`), where `Timed` says a timeout is
  in force: `upstream_timeout_secs > 0`, or reqwest's own over HTTP. Its two premises are
  real: without a timeout a stdio upstream can hold the process (`ShutdownEndsChild` fails
  without `FairTimeouts`), and so can a frontend that never finishes sending its body or never reads its answer, since
  axum waits for both and nothing bounds them. Sending and reading are therefore not fair,
  and the property says what follows if they end.
* In `AgentBus` a dispatch ends and a greeting goes on. A stream is polled only as the
  connection takes more, so polling is fair for the clients in `Reader`, who go on
  reading, and for no other; streams may be held open for ever, which is the one
  exception `OnlyStreamsHoldServer` makes.
* Frontends, SSE clients and MCP servers owe nothing else.

An exiting child closes stdin before stdout (`ChildLeaves`, then `ChildGone`): the
kernel closes descriptors in order, 0 before 1. `NoStrandedCaller` depends on it: in
the other order a caller could register after the drain and still write
successfully; its answer would then never come. `MuteChild` models a child that does
that on purpose.

## 4. What is proved

Every invariant, every action property and every refinement that a passing run checks
is a theorem: TLC shows it on a small instance, the proof for every value of the
constants. Where a theorem assumes more than the named assumptions of its module, the
assumption is one the last column gives, and TLC finds a counterexample without it.

| Module | Theorem | Statement | Assumes |
|---|---|---|---|
| `StdioTransportProofs` | `TypeCorrect` | `Spec => []TypeOK` | – |
| | `ClosedStaysClosed` | `Spec => NoWriteAfterClose` | – |
| | `AnswersCorrelate` | `Spec => []OwnAnswer` | the server sends no requests of its own |
| | `NobodyStranded` | `Spec => []NoStrandedCaller` | stdout stays open while stdin is, and no oversized line |
| `StdioRpcProofs` | `LeakOnlyAbandoned` | `Spec => []OnlyAbandonedLeak` | – |
| | `OnlyTheDroppedTear` | `Spec => []OnlyDroppedWritersTear` | – |
| | `ImplementsCall` | `Spec => ImplementsRpcCall` | the server sends no requests of its own |
| `McpClientProofs` | `TypeCorrect` | `Spec => []TypeOK` | – |
| | `VersionStays` | `Spec => VersionIsFinal` | – |
| | `IdsUnique` | `Spec => []UniqueIds` | – |
| | `HandshakePrecedesCalls` | `Spec => []HandshakeFirst` | – |
| | `OneHandshakeAtATime` | `Spec => []HandshakesDoNotOverlap` | – |
| `StdioClientProofs` | `CTypeCorrect` | `CSpec => []CTypeOK` | – |
| | `NotifyNeverWaits` | `CSpec => []NotifyFindsRoom` | – |
| | `ServerAccepted` | `CSpec => []AcceptedBeforeCalls` | – |
| | `OverStdioIsClient` | `CSpec => ImplementsMcpClient` | – |
| `HttpSessionProofs` | `OverHttpIsClient` | `HSpec => Spec` | – |
| | `HTypeCorrect` | `HSpec => []HTypeOK` | – |
| | `AgreementCarried` | `HSpec => []CallsCarryAgreement` | the server names a session and a version in every accepted `initialize` and nowhere else |
| `HttpBodyProofs` | `TypeCorrect` | `Spec => []TypeOK` | – |
| | `MemoryBounded` | `Spec => []KeepsAtMostMax` | – |
| | `ParsesTheFirst` | `ParseSse(lines) = FirstResponse(lines)` | `lines \in Seq(Line)`, of any length |
| | `ReturnsTheFirst` | `Spec => []FirstResponseReturned` | – |
| `AgentBusProofs` | `TypeCorrect` | `Spec => []TypeOK` | – |
| | `EverythingHeard` | `Spec => []AlwaysHeard` | – |
| | `OneEnvelopeEach` | `Spec => []OneEnvelopePerIntent` | – |
| | `FilterFollowsClient` | `Spec => []FilterAsAsked` | no client opens a second stream under a used id |
| | `FiltersAreDropped` | `Spec => []NoLeakedFilter` | a subscribe is handled only while its stream is open |
| | `ImplementsBroadcast` | `Spec => ImplementsLossyBroadcast` | – |
| `GatewayServerProofs` | `TypeCorrect` | `Spec => []TypeOK` | – |
| | `AllClosed` | `Spec => []NothingLeftOpen` | – |
| | `ValidateIsPolicy` | `Spec => []ValidateMatchesPolicy` | no HTTP upstream is at an internal IPv6 address |
| | `StrangersRefused` | `Spec => []StrangersStayOutside` | – |
| | `TargetsPooled` | `Spec => []TargetsArePooled` | – |
| | `BlockedIsInRange` | the octet tests are the address blocks | an IPv4 host |

What TLC shows without the assumptions: `StdioHugeStrands` (an oversized line),
`BusReconnect` (a used id), `GatewayIpv6`, and for the others the settings in the second
table of section 3. `McpClientProofs`' `TypeCorrect` is checked as a part of `HTypeOK` and
`CTypeOK`.

Three assumptions of modules are there for the proofs, and say what the program's types
say: `SettingsAssumption` that a configuration has the fields `IsConfig` names, with
octets of four bytes and 16-bit groups, `SurfaceAssumption` that each path has one of the four servers, and `ResponsesAssumption` that a body is a sequence of lines.

### How each is proved

*Stdio transport.*

* `ClosedStaysClosed`. The property is about single steps, so it needs the state a
  step starts from: `LockInv` says that whoever is inside `write_line` is the only
  holder of the mutex, and that no one in the middle of a line finds stdin taken.
  `ShutdownTakesStdin` needs the mutex free, `DropTransport` needs every caller out.
* `AnswersCorrelate`. `OwnAnswer` speaks of `reply` alone; `AnswerInv` adds that every
  response still in the stdout pipe was really given by the child to the request
  whose id it has. The reader hands a line only to the caller registered under it.
* `NobodyStranded`. `DrainInv` adds where a caller can be before it waits: a caller
  that has registered and not been answered is in the map, among the drained, or the
  reader has stopped; and the reader stops only after the child stopped reading
  stdin, so that a caller still writing fails and never comes to wait. That the
  child's stdin closes before its stdout is what makes it inductive.
* `LeakOnlyAbandoned`. `LeakInv`: nobody is both in the map and among the drained, who is
  in either has begun its call, and the channel of a caller in the map is empty, so that
  a call that ended by itself was removed before.
* `OnlyTheDroppedTear`. `TearInv`: the mutex has one holder, whose own bytes are the last
  in the pipe, and what precedes them was left by writers that were dropped; a finished
  line ends in a whole message.
* `ImplementsCall`. A step that begins or ends a call opens or closes it in `RpcCall`, the
  child's answer serves it, and every other step loses the link or stutters. `RpcInv` adds to the
  invariants above why a caller fails (`FailInv`: something was lost before it did) and
  that the child is asked once by each request (`OnceInv`).

*Client.* `GateInv`: the permit has at most one holder, who is in the handshake, and only
while the `OnceCell` is empty; whoever calls found it set. `IdInv`: the ids on the wire
are below the counter, and those in callers' hands are distinct and not yet used.
`WireInv` keeps the end of the history: while a caller awaits its handshake, the last
message on the wire is its own `initialize`, or the `initialized` it is about to
believe in; no call is on the wire while the cell is empty. With it
`HandshakesDoNotOverlap` and `HandshakeFirst` are inductive.

*Client over stdio.* `CInv` relates where a caller is in the client to where it is in
the transport, the mutex, the map and the pipe. `QuietInv` carries `NotifyNeverWaits`:
the line of the caller that awaits its `initialize` is the last in the pipe, so once the
child has read it the pipe is empty, and nobody else is in the transport. `OriginInv`
carries `ServerAccepted`: everything on its way to a caller answers a request on the
wire, and ids are never reused, so what is in a channel was sent for that very
request. With `CInv`, each step of the composition is a step of `McpClient` or a stutter
(`OverStdioIsClient`); its theorems then hold over stdio. `OverHttpIsClient` does the same
for HTTP, where each step contains one of the client.

*HTTP session.* `CaptureInv`: while a response to an `initialize` is read, the captured
session is the one its own headers named, since no other handshake runs and no call's
response changes it; so what the accepted response names is what the transport holds,
and from then on nothing is captured. A stale session of a failed handshake is
overwritten because the accepted response names one, which is the assumption.

*Bodies.* `ReceiveInv`: what is kept and what is on its way make up what was sent, and
the size counted is that of what is kept. `ParsesTheFirst` compares two readings of a
body: the loop's, and the stretches between blank lines. `ReadSoFar` says of the
loop's state after `i` lines which stretch it is in, that the event is that stretch's
data, and that the stretches before hold no response. Induction over the lines is by
`RangeInduction`: the induction hypothesis is a set, `{i : ReadSoFar(...)}`, so that no
operator is passed, and it rests on the least element of a set of numbers (`LeastNat`,
from the library's well-founded minimum). `Recursion` shows with it that the function
`SseLoop` defines exists. What `FromJson` finds is used only through its range, and
that nothing is found in no data.

*Bus.* `StreamInv` says what a stream that has not opened looks like and that one that
has joined somewhere. `AlwaysHeard` needs one fact more (`HeardInv`): a filter
that is set keeps out only scopes recorded as excluded by its own connection. `EnvelopeInv`: an envelope that refers to an intent agrees with the
answer given to it, and is the only one; who listened when an intent came had opened
before. `FilterInv`: the map is what was asked for, and an id belongs to one stream.
For the refinement, sending extends `LossyBroadcast`'s sequence, opening and delivering
are its listener's steps, and everything else stutters: a lagging stream moves its
cursor, which the abstract listener does not have.

*Server.* `PoolInv` says in each mode which transports are open: during the build those
before the one being built, during rollback those still to be closed, while serving
exactly the ones the pool holds. What is merely dropped is outside the pool, that is,
hidden by its name's owner, the last of the name. `VerdictInv` says what `validate` decided;
`BlockedIsInRange` that its octets are the documented blocks; together they give
`ValidateIsPolicy`, with `HostsInv`: the environment changes no upstream, so no internal
IPv6 host appears that no file has. `KeyInv` and `StrangerInv`: the key in force does not change, and a
request without it never gets past the head. `OpeningInv` and `WaitInv`: every name has
an owner, which `LastOfRange` finds as the last upstream of that name, and a request that
waits does so on it.

### What stays with TLC

Liveness: `CallsEndWithChild`, `ShutdownEndsChild`, `EveryCallEnds`, `StreamsCatchUp`,
`OnlyStreamsHoldServer` and `SignalEndsProcess`. They rest on fairness and `ENABLED`,
which this prover cannot reason about; the refinements are therefore proved for the safety
parts of both sides, which is all the abstract specifications state. The four statements that runs
find violated are not provable, of course: TLC's counterexamples stand for them.

## 5. Not modelled

* A TOML file that does not parse, or cannot be read: the process ends at once. Fields
  that only pass through (`cors`, `max_response_bytes` of the pool, `cwd`).
* The token bucket of tower_governor (any request may be refused while it is on), the
  headers CORS adds, and the comparison of tokens, which is one bit: equal or not. That it runs
  in constant time is no property of a state machine.
* A signal while the gateway is being built: the handlers are installed by `run`
  (`server/mod.rs:158`), so before it the system's default ends the process, and no line of
  the crate runs. Nor is anything said of children after a `run` that fails: its pool is
  dropped, unless the host holds it (`RunFails`).
* The status of the response to an `initialized` notification, which the code ignores.
* Server notifications beyond being read: nothing in the crate subscribes to them.
* Envelope kinds that change no state (`ack`, unknown and downstream kinds, a wrong
  version), and `subscribe` without a connection id.
* Payloads, error wording, logging, what `/health` and `/version` say, `UpstreamPool::insert` and
  `names`, examples and tests. The wire structs of `envelope.rs` appear as what the
  adapter tells apart: kind, scope, ref.
* AgentBus mounted in the gateway's own server is a host's choice (`agentbus/mod.rs:55`);
  `AgentBus` models the server's drain by itself (`SignalShutdown`, `Stop`).

## 6. Plan

Done: the stdio transport with its abstract call; the client, over stdio and over HTTP;
the body reader and `parse_sse`; the bus with its abstract broadcast; the configuration;
the server's life cycle; and the proof of every safety property and refinement among
them.

What is left:

1. Weaker assumptions where a theorem has one: `NobodyStranded` for a child that writes
   oversized lines, restricted to callers registered before the reader stopped;
   `FilterAsAsked` for clients that reuse an id after its stream was noticed gone.
2. `Layered` and `ApplyEnv`: which layer wins, option by option, as lemmas.
3. That `StdioTransport`, restricted to one caller per id, implements the transport inside
   `StdioClient`, so that the finer module's properties carry over.
