----------------------------- MODULE MCGateway ------------------------------
(* Small instances of GatewayServer for TLC.                               *)
EXTENDS GatewayServer, TLC

CONSTANTS chat, files, pa, pb, pc, health, healthPost, options, r1, r2

Stdio(name) == [name |-> name, transport |-> "stdio", args |-> FALSE,
                command |-> [full |-> "/bin/mcp", base |-> "mcp"],
                host |-> [kind |-> "none"]]
Http(name, host) == [Stdio(name) EXCEPT !.transport = "http", !.host = host]
Named == [kind |-> "name"]

\* A route hidden by an earlier one of the same path, and a streaming one.
SomeRoutes == <<[path |-> pa, upstream |-> chat,  stream |-> FALSE],
                [path |-> pb, upstream |-> files, stream |-> TRUE],
                [path |-> pa, upstream |-> files, stream |-> FALSE]>>

Quiet == [bind |-> "unset", access_key |-> "unset",
          max_request_bytes |-> Unset, upstream_timeout_secs |-> Unset]

With(ups, routes) == [DefaultConfig EXCEPT !.upstreams = ups, !.routes = routes]
Setting(cfg, env, clients) == [file |-> {cfg}, env |-> env, clients |-> clients]

\* Two upstreams of one name, and a second name over HTTP.
TwoNames == With(<<Stdio(chat), Http(files, Named), Stdio(chat)>>, SomeRoutes)

\* Working gateways under load: with a key in the file, cleared or replaced by
\* the environment; with other limits and timeouts; reached over HTTP alone.
Loaded ==
  { Setting([TwoNames EXCEPT !.access_key = TRUE, !.rate_limit = "off"], env, {r1, r2}) :
      env \in {Quiet, [Quiet EXCEPT !.access_key = "empty"],
               [Quiet EXCEPT !.upstream_timeout_secs = 0, !.max_request_bytes = 3]} }
  \cup { Setting(TwoNames, [Quiet EXCEPT !.access_key = "key", !.max_request_bytes = 0], {r1}),
         Setting(With(<<Http(chat, Named), Http(files, Named)>>, SomeRoutes),
                 [Quiet EXCEPT !.upstream_timeout_secs = 0], {r1, r2}) }

\* The first and the last address of each range, and the ones around them.
ToHalf(o) == <<o[1] * 256 + o[2], o[3] * 256 + o[4]>>
ToOctets(h) == <<h[1] \div 256, h[1] % 256, h[2] \div 256, h[2] % 256>>
Past(h)   == IF h[2] < 65535 THEN <<h[1], h[2] + 1>> ELSE <<(h[1] + 1) % 65536, 0>>
Before(h) == IF h[2] > 0 THEN <<h[1], h[2] - 1>> ELSE <<(h[1] + 65535) % 65536, 65535>>
LastOf(range) ==
  LET h == ToHalf(range[1])
      bits == range[2]
  IN  IF bits <= 16 THEN <<h[1] + 2 ^ (16 - bits) - 1, 65535>>
      ELSE <<h[1], h[2] + 2 ^ (32 - bits) - 1>>
Boundary ==
  UNION { LET h == ToHalf(range[1])
              l == LastOf(range)
          IN  {ToOctets(h), ToOctets(l), ToOctets(Before(h)), ToOctets(Past(l))} :
            range \in BlockedRanges \cup {<<<<127, 0, 0, 0>>, 8>>} }

V6(first, last) == [kind |-> "v6", first |-> first, last |-> last]
\* Around fc00::/7, fe80::/10 and fec0::/10: ::1, 2001::, fbff::, fe00::, fe7f::, ff00::.
Outside6 == {V6(0, 1)} \cup {V6(g, 0) : g \in {8193, 64511, 65024, 65151, 65280}}
\* Their first and last groups, and ::.
Inside6  == {V6(g, 0) : g \in {0, 64512, 65023, 65152, 65215, 65216, 65279}}

Hosts == {[kind |-> k] : k \in {"none", "local", "name"}} \cup Outside6
         \cup {[kind |-> "v4", octets |-> o] : o \in Boundary}

Reaching(hosts) ==
  { Setting([With(<<Http(chat, h)>>, <<>>) EXCEPT !.block_private_upstream_urls = b],
            Quiet, {}) : h \in hosts, b \in BOOLEAN }
Addressed == Reaching(Hosts)

Commanded ==
  { Setting([With(<<Http(files, Named), [Stdio(chat) EXCEPT !.args = a]>>, <<>>)
              EXCEPT !.allowed_commands = allow, !.allow_arbitrary_args = any], Quiet, {}) :
      a \in BOOLEAN, any \in BOOLEAN,
      allow \in {{}, {"mcp"}, {"/bin/mcp"}, {"other"}, {"other", "mcp"}} }

\* Configurations that cannot run, and the file that is not there.
Odd ==
  { [file |-> {}, env |-> [Quiet EXCEPT !.access_key = "key"], clients |-> {r1}],
    Setting(With(<<Stdio(chat)>>, SomeRoutes), Quiet, {r1}),
    Setting([TwoNames EXCEPT !.rate_limit = "zero"], Quiet, {}),
    Setting(TwoNames, [Quiet EXCEPT !.bind = "bad"], {}),
    Setting([TwoNames EXCEPT !.bind = "bad"], [Quiet EXCEPT !.bind = "empty"], {}),
    Setting([TwoNames EXCEPT !.bind = "bad"], [Quiet EXCEPT !.bind = "good"], {}) }

\* The same of the IPv6 addresses that the policy forbids.
Ipv6Settings == Reaching(Inside6)

AllSettings == Loaded \cup Addressed \cup Commanded \cup Odd
OneSetting  == {Setting(TwoNames, Quiet, {r1})}

\* Each request that one layer refuses, and what a stranger can send besides.
Ask(path, keyed, size, declared, valid) ==
  [path |-> path, keyed |-> keyed, size |-> size, declared |-> declared, valid |-> valid]
SomeSurface == [p \in {pa, pb, pc, health, healthPost, options} |->
  CASE p = health -> "public" [] p = healthPost -> "otherMethod"
    [] p = options -> "preflight" [] OTHER -> "api"]
SomeForms ==
  {Ask(p, k, 1, TRUE, TRUE) : p \in {pa, pb, pc}, k \in BOOLEAN}
  \cup {Ask(pa, k, 2, d, TRUE) : k \in BOOLEAN, d \in BOOLEAN}
  \cup {Ask(p, FALSE, 1, TRUE, TRUE) : p \in {health, healthPost, options}}
  \cup {Ask(pa, TRUE, 1, FALSE, FALSE), Ask(pa, TRUE, 3, TRUE, TRUE), Ask(pc, FALSE, 3, FALSE, FALSE)}
=============================================================================
