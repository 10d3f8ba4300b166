------------------------------- MODULE Config --------------------------------
(***************************************************************************)
(* src/config.rs: what GatewayConfig::load layers, and what validate lets  *)
(* pass.  A config is a record with the source's field names; access_key   *)
(* is whether a key is required, a command is its full string and its      *)
(* file name, args whether there are any, host what url::Url finds in the  *)
(* URL of an HTTP upstream (of an IPv6 literal the first and the last      *)
(* 16-bit group, those between being zero), rate_limit "off", "on", or     *)
(* "zero" for a rate or a burst of 0.                                      *)
(***************************************************************************)
EXTENDS Integers, Sequences, FiniteSets

\* An integer of the environment that is unset, or does not parse.
Unset == -1

\* GatewayConfig::default().
DefaultConfig ==
  [bind |-> "good", access_key |-> FALSE, rate_limit |-> "on",
   upstreams |-> <<>>, routes |-> <<>>, allowed_commands |-> {},
   max_request_bytes |-> 1, upstream_timeout_secs |-> 30,
   block_private_upstream_urls |-> TRUE, allow_arbitrary_args |-> FALSE]

\* What a file deserializes to: lists of upstreams and routes, of any length.
IsList(s) == s \in Seq({s[i] : i \in DOMAIN s})
IsUpstream(up) ==
  /\ up.transport \in {"stdio", "http"}
  /\ up.host.kind = "v4" => up.host.octets \in [1 .. 4 -> 0 .. 255]
  /\ up.host.kind = "v6" => up.host.first \in 0 .. 65535 /\ up.host.last \in 0 .. 65535
IsConfig(cfg) ==
  /\ DOMAIN cfg = DOMAIN DefaultConfig
  /\ cfg.access_key \in BOOLEAN
  /\ IsList(cfg.upstreams) /\ IsList(cfg.routes)
  /\ \A i \in DOMAIN cfg.upstreams : IsUpstream(cfg.upstreams[i])

-----------------------------------------------------------------------------
(* Loading.                                                                *)

\* A limit of zero is ignored, a timeout of zero is not.
ApplyEnv(cfg, env) ==
  [cfg EXCEPT
    !.bind = IF env.bind \in {"unset", "empty"} THEN @ ELSE env.bind,
    !.access_key = IF env.access_key = "unset" THEN @ ELSE env.access_key = "key",
    !.max_request_bytes = IF env.max_request_bytes > 0 THEN env.max_request_bytes ELSE @,
    !.upstream_timeout_secs =
        IF env.upstream_timeout_secs = Unset THEN @ ELSE env.upstream_timeout_secs]

\* file holds what the TOML file says, if there is one: a path that does not
\* exist is no error.
Layered(file, env) ==
  ApplyEnv(IF file = {} THEN DefaultConfig ELSE CHOOSE cfg \in file : TRUE, env)

-----------------------------------------------------------------------------
(* Validating.                                                             *)

CommandAllowed(command, allow) == command.full \in allow \/ command.base \in allow

CommandsPass(cfg) ==
  cfg.allowed_commands = {} \/
    \A i \in DOMAIN cfg.upstreams :
      LET up == cfg.upstreams[i]
      IN  up.transport = "stdio" =>
            /\ CommandAllowed(up.command, cfg.allowed_commands)
            /\ ~up.args \/ cfg.allow_arbitrary_args

IsLoopback(o)    == o[1] = 127
IsUnspecified(o) == \A i \in 1 .. 4 : o[i] = 0
IsLinkLocal(o)   == o[1] = 169 /\ o[2] = 254

IsPrivate(o) ==
  \/ o[1] = 10
  \/ o[1] = 172 /\ o[2] \in 16 .. 31
  \/ o[1] = 192 /\ o[2] = 168

IsDocumentation(o) ==
  \/ o[1] = 192 /\ o[2] = 0 /\ o[3] = 2
  \/ o[1] = 198 /\ o[2] = 51 /\ o[3] = 100
  \/ o[1] = 203 /\ o[2] = 0 /\ o[3] = 113

\* Mutated form: the shared range ends one too early.
IsSharedOrReservedShort(o) ==
  \/ o[1] = 0 \/ o[1] >= 240
  \/ o[1] = 100 /\ o[2] \in 64 .. 126
  \/ o[1] = 192 /\ o[2] = 0 /\ o[3] = 0
  \/ o[1] = 198 /\ o[2] \in {18, 19}

\* The octets that std's predicates do not cover; broadcast is in 240/4.
IsSharedOrReserved(o) ==
  \/ o[1] = 0 \/ o[1] >= 240
  \/ o[1] = 100 /\ o[2] \in 64 .. 127
  \/ o[1] = 192 /\ o[2] = 0 /\ o[3] = 0
  \/ o[1] = 198 /\ o[2] \in {18, 19}

\* host_str() gives an IPv6 literal in brackets, which does not parse as an
\* IpAddr: only IPv4 literals reach the tests, and none of their IPv6 arms
\* (config.rs:329-331, 357-361) is ever taken.
UrlBlocked(host) ==
  /\ host.kind = "v4"
  /\ ~IsLoopback(host.octets)
  /\ \/ IsUnspecified(host.octets) \/ IsLinkLocal(host.octets)
     \/ IsPrivate(host.octets) \/ IsDocumentation(host.octets)
     \/ IsSharedOrReserved(host.octets)

UrlsPass(cfg) ==
  cfg.block_private_upstream_urls =>
    \A i \in DOMAIN cfg.upstreams :
      cfg.upstreams[i].transport = "http" => ~UrlBlocked(cfg.upstreams[i].host)

Names(cfg) == {cfg.upstreams[i].name : i \in DOMAIN cfg.upstreams}

\* Mutated form: any route will do as long as there is an upstream.
RoutesPassIfAny(cfg) == cfg.upstreams # <<>> \/ cfg.routes = <<>>

RoutesPass(cfg) == \A i \in DOMAIN cfg.routes : cfg.routes[i].upstream \in Names(cfg)

\* Names need not be distinct.
Valid(cfg) == CommandsPass(cfg) /\ UrlsPass(cfg) /\ RoutesPass(cfg)

-----------------------------------------------------------------------------
(* What the comments promise, said without the code's case distinctions.   *)

\* The blocks the doc comments name (config.rs:321-362), as first address and
\* prefix length.
BlockedRanges ==
  { <<<<0, 0, 0, 0>>, 8>>,       <<<<10, 0, 0, 0>>, 8>>,    <<<<100, 64, 0, 0>>, 10>>,
    <<<<169, 254, 0, 0>>, 16>>,  <<<<172, 16, 0, 0>>, 12>>, <<<<192, 0, 0, 0>>, 24>>,
    <<<<192, 0, 2, 0>>, 24>>,    <<<<192, 168, 0, 0>>, 16>>, <<<<198, 18, 0, 0>>, 15>>,
    <<<<198, 51, 100, 0>>, 24>>, <<<<203, 0, 113, 0>>, 24>>, <<<<240, 0, 0, 0>>, 4>> }

\* The 16-bit halves of an address.
High(o) == o[1] * 256 + o[2]
Low(o)  == o[3] * 256 + o[4]

InRange(o, range) ==
  LET first == range[1]
      bits  == range[2]
  IN  IF bits <= 16
      THEN High(o) \div 2 ^ (16 - bits) = High(first) \div 2 ^ (16 - bits)
      ELSE /\ High(o) = High(first)
           /\ Low(o) \div 2 ^ (32 - bits) = Low(first) \div 2 ^ (32 - bits)

\* The IPv6 blocks of the same lines, as first group and prefix length:
\* link-local, unique local and site-local.  :: is unspecified.
BlockedRanges6 == { <<65152, 10>>, <<64512, 7>>, <<65216, 10>> }   \* fe80, fc00, fec0
InRange6(host, range) ==
  host.first \div 2 ^ (16 - range[2]) = range[1] \div 2 ^ (16 - range[2])

\* Is it an address that the policy keeps upstreams away from?
Internal4(host) ==
  host.kind = "v4" /\ \E range \in BlockedRanges : InRange(host.octets, range)
Internal6(host) ==
  /\ host.kind = "v6"
  /\ \/ host.first = 0 /\ host.last = 0
     \/ \E range \in BlockedRanges6 : InRange6(host, range)

\* What an upstream of a running gateway may be.
Vetted(up, cfg) ==
  /\ (up.transport = "http" /\ cfg.block_private_upstream_urls)
       => ~Internal4(up.host) /\ ~Internal6(up.host)
  /\ (up.transport = "stdio" /\ cfg.allowed_commands # {})
       => /\ {up.command.full, up.command.base} \cap cfg.allowed_commands # {}
          /\ up.args => cfg.allow_arbitrary_args
=============================================================================
