------------------------ MODULE GatewayServerProofs -------------------------
(***************************************************************************)
(* Theorems about Config and GatewayServer, for every configuration,       *)
(* environment and set of requests.                                        *)
(***************************************************************************)
EXTENDS GatewayServer, WellFoundedInduction, TLAPS

-----------------------------------------------------------------------------
(* Choosing the first and the last.                                        *)

\* A set of naturals with a member has a least one.
LEMMA LeastNat ==
  ASSUME NEW S \in SUBSET Nat, S # {} PROVE \E n \in S : \A m \in S : n <= m
<1> DEFINE R == OpToRel(<, Nat)
<1>1. IsWellFoundedOn(R, Nat)
  BY NatLessThanWellFounded
<1>2. \A x, y \in Nat : <<y, x>> \in R <=> y < x
  BY DEF OpToRel
<1> HIDE DEF R
<1>3. \E x \in S : \A y \in S : ~(<<y, x>> \in R)
  BY <1>1, WFMin
<1>4. \A x, y \in S : ~(<<y, x>> \in R) => x <= y
  BY <1>2
<1> QED
  BY <1>3, <1>4

\* A non-empty set of positions has a last one.
LEMMA LastOfRange ==
  ASSUME NEW n \in Nat, NEW S \in SUBSET (1 .. n), S # {} PROVE \E i \in S : \A j \in S : j <= i
<1> DEFINE T == {m \in Nat : \E i \in S : m = n - i}
<1>0. \A i \in S : i \in 1 .. n /\ n - i \in T
  OBVIOUS
<1>1. T \in SUBSET Nat /\ T # {}
  <2>1. T \in SUBSET Nat
    OBVIOUS
  <2> HIDE DEF T
  <2> QED
    BY <1>0, <2>1
<1>2. PICK m \in T : \A k \in T : m <= k
  <2> HIDE DEF T
  <2> QED
    BY <1>1, LeastNat
<1>3. PICK i \in S : m = n - i
  BY <1>2
<1>4. \A j \in S : n - i <= n - j
  <2> HIDE DEF T
  <2> QED
    BY <1>0, <1>2, <1>3
<1>5. \A j \in S : j \in 1 .. n /\ i \in 1 .. n
  BY <1>0
<1>6. \A j \in 1 .. n : i \in 1 .. n /\ n - i <= n - j => j <= i
  OBVIOUS
<1> QED
  BY <1>4, <1>5, <1>6

-----------------------------------------------------------------------------
(* The address ranges.                                                     *)

\* A block of addresses: the octets of its first one and its prefix length.
Block(a, b, c, d, bits) == <<<<a, b, c, d>>, bits>>

\* The blocked ranges, each as a block.
LEMMA BlockedAre ==
  BlockedRanges = { Block(0, 0, 0, 0, 8),       Block(10, 0, 0, 0, 8),    Block(100, 64, 0, 0, 10),
                    Block(169, 254, 0, 0, 16),  Block(172, 16, 0, 0, 12), Block(192, 0, 0, 0, 24),
                    Block(192, 0, 2, 0, 24),    Block(192, 168, 0, 0, 16), Block(198, 18, 0, 0, 15),
                    Block(198, 51, 100, 0, 24), Block(203, 0, 113, 0, 24), Block(240, 0, 0, 0, 4) }
BY DEF BlockedRanges, Block

\* What the first two octets say of a block no longer than a half.
LEMMA ShortRange ==
  ASSUME NEW o \in [1 .. 4 -> 0 .. 255]
  PROVE  /\ InRange(o, Block(0, 0, 0, 0, 8)) <=> o[1] = 0
         /\ InRange(o, Block(10, 0, 0, 0, 8)) <=> o[1] = 10
         /\ InRange(o, Block(100, 64, 0, 0, 10)) <=> o[1] = 100 /\ o[2] \in 64 .. 127
         /\ InRange(o, Block(169, 254, 0, 0, 16)) <=> o[1] = 169 /\ o[2] = 254
         /\ InRange(o, Block(172, 16, 0, 0, 12)) <=> o[1] = 172 /\ o[2] \in 16 .. 31
         /\ InRange(o, Block(192, 168, 0, 0, 16)) <=> o[1] = 192 /\ o[2] = 168
         /\ InRange(o, Block(198, 18, 0, 0, 15)) <=> o[1] = 198 /\ o[2] \in {18, 19}
         /\ InRange(o, Block(240, 0, 0, 0, 4)) <=> o[1] >= 240
<1> DEFINE x == o[1]
           y == o[2]
<1>0. x \in 0 .. 255 /\ y \in 0 .. 255
  OBVIOUS
<1>o. High(o) = x * 256 + y
  BY DEF High
<1> HIDE DEF x, y
<1>1. InRange(o, Block(0, 0, 0, 0, 8)) <=> x = 0
  <2>1. InRange(o, Block(0, 0, 0, 0, 8)) <=> (x * 256 + y) \div 2 ^ (16 - 8) = (0 * 256 + 0) \div 2 ^ (16 - 8)
    BY <1>o DEF InRange, High, Block
  <2>2. (x * 256 + y) \div 2 ^ (16 - 8) = (0 * 256 + 0) \div 2 ^ (16 - 8) <=> x = 0
    BY <1>0
  <2> QED
    BY <2>1, <2>2
<1>2. InRange(o, Block(10, 0, 0, 0, 8)) <=> x = 10
  <2>1. InRange(o, Block(10, 0, 0, 0, 8)) <=> (x * 256 + y) \div 2 ^ (16 - 8) = (10 * 256 + 0) \div 2 ^ (16 - 8)
    BY <1>o DEF InRange, High, Block
  <2>2. (x * 256 + y) \div 2 ^ (16 - 8) = (10 * 256 + 0) \div 2 ^ (16 - 8) <=> x = 10
    BY <1>0
  <2> QED
    BY <2>1, <2>2
<1>3. InRange(o, Block(100, 64, 0, 0, 10)) <=> x = 100 /\ y \in 64 .. 127
  <2>1. InRange(o, Block(100, 64, 0, 0, 10)) <=> (x * 256 + y) \div 2 ^ (16 - 10) = (100 * 256 + 64) \div 2 ^ (16 - 10)
    BY <1>o DEF InRange, High, Block
  <2>2. (x * 256 + y) \div 2 ^ (16 - 10) = (100 * 256 + 64) \div 2 ^ (16 - 10) <=> x = 100 /\ y \in 64 .. 127
    BY <1>0
  <2> QED
    BY <2>1, <2>2
<1>4. InRange(o, Block(169, 254, 0, 0, 16)) <=> x = 169 /\ y = 254
  <2>1. InRange(o, Block(169, 254, 0, 0, 16)) <=> (x * 256 + y) \div 2 ^ (16 - 16) = (169 * 256 + 254) \div 2 ^ (16 - 16)
    BY <1>o DEF InRange, High, Block
  <2>2. (x * 256 + y) \div 2 ^ (16 - 16) = (169 * 256 + 254) \div 2 ^ (16 - 16) <=> x = 169 /\ y = 254
    BY <1>0
  <2> QED
    BY <2>1, <2>2
<1>5. InRange(o, Block(172, 16, 0, 0, 12)) <=> x = 172 /\ y \in 16 .. 31
  <2>1. InRange(o, Block(172, 16, 0, 0, 12)) <=> (x * 256 + y) \div 2 ^ (16 - 12) = (172 * 256 + 16) \div 2 ^ (16 - 12)
    BY <1>o DEF InRange, High, Block
  <2>2. (x * 256 + y) \div 2 ^ (16 - 12) = (172 * 256 + 16) \div 2 ^ (16 - 12) <=> x = 172 /\ y \in 16 .. 31
    BY <1>0
  <2> QED
    BY <2>1, <2>2
<1>6. InRange(o, Block(192, 168, 0, 0, 16)) <=> x = 192 /\ y = 168
  <2>1. InRange(o, Block(192, 168, 0, 0, 16)) <=> (x * 256 + y) \div 2 ^ (16 - 16) = (192 * 256 + 168) \div 2 ^ (16 - 16)
    BY <1>o DEF InRange, High, Block
  <2>2. (x * 256 + y) \div 2 ^ (16 - 16) = (192 * 256 + 168) \div 2 ^ (16 - 16) <=> x = 192 /\ y = 168
    BY <1>0
  <2> QED
    BY <2>1, <2>2
<1>7. InRange(o, Block(198, 18, 0, 0, 15)) <=> x = 198 /\ y \in {18, 19}
  <2>1. InRange(o, Block(198, 18, 0, 0, 15)) <=> (x * 256 + y) \div 2 ^ (16 - 15) = (198 * 256 + 18) \div 2 ^ (16 - 15)
    BY <1>o DEF InRange, High, Block
  <2>2. (x * 256 + y) \div 2 ^ (16 - 15) = (198 * 256 + 18) \div 2 ^ (16 - 15) <=> x = 198 /\ y \in {18, 19}
    BY <1>0
  <2> QED
    BY <2>1, <2>2
<1>8. InRange(o, Block(240, 0, 0, 0, 4)) <=> x >= 240
  <2>1. InRange(o, Block(240, 0, 0, 0, 4)) <=> (x * 256 + y) \div 2 ^ (16 - 4) = (240 * 256 + 0) \div 2 ^ (16 - 4)
    BY <1>o DEF InRange, High, Block
  <2>2. (x * 256 + y) \div 2 ^ (16 - 4) = (240 * 256 + 0) \div 2 ^ (16 - 4) <=> x >= 240
    BY <1>0
  <2> QED
    BY <2>1, <2>2
<1> QED
  BY <1>1, <1>2, <1>3, <1>4, <1>5, <1>6, <1>7, <1>8 DEF x, y

\* What the octets say of a block that ends in the second half.
LEMMA LongRange ==
  ASSUME NEW o \in [1 .. 4 -> 0 .. 255]
  PROVE  /\ InRange(o, Block(192, 0, 0, 0, 24)) <=> o[1] = 192 /\ o[2] = 0 /\ o[3] = 0
         /\ InRange(o, Block(192, 0, 2, 0, 24)) <=> o[1] = 192 /\ o[2] = 0 /\ o[3] = 2
         /\ InRange(o, Block(198, 51, 100, 0, 24)) <=> o[1] = 198 /\ o[2] = 51 /\ o[3] = 100
         /\ InRange(o, Block(203, 0, 113, 0, 24)) <=> o[1] = 203 /\ o[2] = 0 /\ o[3] = 113
<1> DEFINE x == o[1]
           y == o[2]
           z == o[3]
           w == o[4]
<1>0. x \in 0 .. 255 /\ y \in 0 .. 255 /\ z \in 0 .. 255 /\ w \in 0 .. 255
  OBVIOUS
<1>o. High(o) = x * 256 + y /\ Low(o) = z * 256 + w
  BY DEF High, Low
<1> HIDE DEF x, y, z, w
<1>1. InRange(o, Block(192, 0, 0, 0, 24)) <=> x = 192 /\ y = 0 /\ z = 0
  <2>1. InRange(o, Block(192, 0, 0, 0, 24))
          <=> /\ x * 256 + y = 192 * 256 + 0
              /\ (z * 256 + w) \div 2 ^ (32 - 24) = (0 * 256 + 0) \div 2 ^ (32 - 24)
    BY <1>o DEF InRange, High, Low, Block
  <2>2. x * 256 + y = 192 * 256 + 0 /\ (z * 256 + w) \div 2 ^ (32 - 24) = (0 * 256 + 0) \div 2 ^ (32 - 24)
          <=> x = 192 /\ y = 0 /\ z = 0
    BY <1>0
  <2> QED
    BY <2>1, <2>2
<1>2. InRange(o, Block(192, 0, 2, 0, 24)) <=> x = 192 /\ y = 0 /\ z = 2
  <2>1. InRange(o, Block(192, 0, 2, 0, 24))
          <=> /\ x * 256 + y = 192 * 256 + 0
              /\ (z * 256 + w) \div 2 ^ (32 - 24) = (2 * 256 + 0) \div 2 ^ (32 - 24)
    BY <1>o DEF InRange, High, Low, Block
  <2>2. x * 256 + y = 192 * 256 + 0 /\ (z * 256 + w) \div 2 ^ (32 - 24) = (2 * 256 + 0) \div 2 ^ (32 - 24)
          <=> x = 192 /\ y = 0 /\ z = 2
    BY <1>0
  <2> QED
    BY <2>1, <2>2
<1>3. InRange(o, Block(198, 51, 100, 0, 24)) <=> x = 198 /\ y = 51 /\ z = 100
  <2>1. InRange(o, Block(198, 51, 100, 0, 24))
          <=> /\ x * 256 + y = 198 * 256 + 51
              /\ (z * 256 + w) \div 2 ^ (32 - 24) = (100 * 256 + 0) \div 2 ^ (32 - 24)
    BY <1>o DEF InRange, High, Low, Block
  <2>2. x * 256 + y = 198 * 256 + 51 /\ (z * 256 + w) \div 2 ^ (32 - 24) = (100 * 256 + 0) \div 2 ^ (32 - 24)
          <=> x = 198 /\ y = 51 /\ z = 100
    BY <1>0
  <2> QED
    BY <2>1, <2>2
<1>4. InRange(o, Block(203, 0, 113, 0, 24)) <=> x = 203 /\ y = 0 /\ z = 113
  <2>1. InRange(o, Block(203, 0, 113, 0, 24))
          <=> /\ x * 256 + y = 203 * 256 + 0
              /\ (z * 256 + w) \div 2 ^ (32 - 24) = (113 * 256 + 0) \div 2 ^ (32 - 24)
    BY <1>o DEF InRange, High, Low, Block
  <2>2. x * 256 + y = 203 * 256 + 0 /\ (z * 256 + w) \div 2 ^ (32 - 24) = (113 * 256 + 0) \div 2 ^ (32 - 24)
          <=> x = 203 /\ y = 0 /\ z = 113
    BY <1>0
  <2> QED
    BY <2>1, <2>2
<1> QED
  BY <1>1, <1>2, <1>3, <1>4 DEF x, y, z

\* Reading the octets one by one finds exactly the addresses of the blocks the
\* comments name, for every address (config.rs:321-362).
THEOREM BlockedIsInRange ==
  ASSUME NEW o \in [1 .. 4 -> 0 .. 255], NEW host, host.kind = "v4", host.octets = o
  PROVE  UrlBlocked(host) <=> \E range \in BlockedRanges : InRange(o, range)
<1> DEFINE Blocks == \/ o[1] = 0 \/ o[1] = 10 \/ o[1] >= 240
                     \/ o[1] = 100 /\ o[2] \in 64 .. 127
                     \/ o[1] = 169 /\ o[2] = 254
                     \/ o[1] = 172 /\ o[2] \in 16 .. 31
                     \/ o[1] = 192 /\ o[2] = 168
                     \/ o[1] = 192 /\ o[2] = 0 /\ o[3] \in {0, 2}
                     \/ o[1] = 198 /\ o[2] \in {18, 19}
                     \/ o[1] = 198 /\ o[2] = 51 /\ o[3] = 100
                     \/ o[1] = 203 /\ o[2] = 0 /\ o[3] = 113
<1>1. UrlBlocked(host) <=> Blocks
  BY DEF UrlBlocked, IsLoopback, IsUnspecified, IsLinkLocal, IsPrivate, IsDocumentation, IsSharedOrReserved
<1>2. ASSUME NEW range \in BlockedRanges, InRange(o, range) PROVE Blocks
  BY <1>2, BlockedAre, ShortRange, LongRange
<1>3. ASSUME Blocks PROVE \E range \in BlockedRanges : InRange(o, range)
  BY <1>3, BlockedAre, ShortRange, LongRange
<1> QED
  BY <1>1, <1>2, <1>3
-----------------------------------------------------------------------------
(* Type correctness.                                                       *)

\* Whatever is loaded has the shape of a configuration, and asks for the key
\* in force.
LEMMA LoadedIsConfig ==
  ASSUME NEW s \in Settings
  PROVE  /\ IsConfig(Layered(s.file, s.env))
         /\ (\/ s.env.access_key = "key"
             \/ s.env.access_key = "unset" /\ \E cfg \in s.file : cfg.access_key)
            => Layered(s.file, s.env).access_key
<1> DEFINE base == IF s.file = {} THEN DefaultConfig ELSE CHOOSE cfg \in s.file : TRUE
           cfg == Layered(s.file, s.env)
<1>1. IsConfig(base) /\ ((\E c \in s.file : c.access_key) => base.access_key)
  <2>1. CASE s.file = {}
    BY <2>1 DEF IsConfig, IsList, DefaultConfig
  <2>2. ASSUME NEW c \in s.file PROVE base = c /\ IsConfig(c) /\ s.file = {c}
    BY <2>2, SettingsAssumption
  <2> HIDE DEF base
  <2>3. CASE s.file # {}
    BY <2>2, <2>3
  <2> QED
    BY <2>1, <2>3
<1>2. cfg = ApplyEnv(base, s.env)
  BY DEF Layered
<1> HIDE DEF base, cfg
<1>3. DOMAIN base = DOMAIN DefaultConfig
  BY <1>1 DEF IsConfig
<1>4. /\ DOMAIN cfg = DOMAIN base /\ cfg.upstreams = base.upstreams /\ cfg.routes = base.routes
      /\ cfg.access_key = IF s.env.access_key = "unset" THEN base.access_key ELSE s.env.access_key = "key"
  BY <1>2, <1>3 DEF ApplyEnv, DefaultConfig
<1>5. cfg.access_key \in BOOLEAN
  <2>1. CASE s.env.access_key = "unset"
    BY <1>1, <1>4, <2>1 DEF IsConfig
  <2>2. CASE s.env.access_key # "unset"
    BY <1>4, <2>2
  <2> QED
    BY <2>1, <2>2
<1>6. IsConfig(cfg)
  BY <1>1, <1>4, <1>5 DEF IsConfig
<1>7. (s.env.access_key = "key" \/ (s.env.access_key = "unset" /\ \E c \in s.file : c.access_key)) => cfg.access_key
  BY <1>1, <1>4
<1> QED
  BY <1>6, <1>7 DEF cfg

\* An index of a configured upstream, or one past the last.
LEMMA ListFacts ==
  ASSUME NEW cfg, IsConfig(cfg)
  PROVE  /\ Len(cfg.upstreams) \in Nat /\ DOMAIN cfg.upstreams = 1 .. Len(cfg.upstreams)
         /\ Len(cfg.routes) \in Nat /\ DOMAIN cfg.routes = 1 .. Len(cfg.routes)
BY DEF IsConfig, IsList

\* What is left to do in each mode, and the one form of a request.
ShapeInv ==
  /\ IsConfig(config)
  /\ mode \in {"loading", "validating"} => next = 1
  /\ mode \in {"loading", "validating", "rejected", "building"} => left = {}
  /\ \A r \in Request : form[r] = {} \/ \E f \in Forms : form[r] = {f}

GateType == TypeOK /\ ShapeInv

\* Names that resolve have an owner: the last upstream of that name.
LEMMA OwnerFacts ==
  ASSUME IsConfig(config), NEW n \in Names(config)
  PROVE  /\ Owner(n) \in Index /\ config.upstreams[Owner(n)].name = n
         /\ \A v \in Index : config.upstreams[v].name = n => v <= Owner(n)
<1> DEFINE S == {u \in Index : config.upstreams[u].name = n}
<1>1. Len(config.upstreams) \in Nat /\ Index = 1 .. Len(config.upstreams)
  BY ListFacts DEF Index
<1>2. S \subseteq 1 .. Len(config.upstreams) /\ S # {}
  BY <1>1 DEF Names, Index
<1>3. \E u \in S : \A v \in S : v <= u
  <2> HIDE DEF S
  <2> QED
    BY <1>1, <1>2, LastOfRange
<1>4. \E u \in Index : /\ config.upstreams[u].name = n
                       /\ \A v \in Index : config.upstreams[v].name = n => v <= u
  BY <1>3
<1> QED
  BY <1>4 DEF Owner

\* The pooled upstreams are positions of a well-formed configuration's list.
LEMMA PooledFacts == IsConfig(config) => Pooled \subseteq Index
BY OwnerFacts DEF Pooled

LEMMA ShapeInit == Init => GateType
<1> SUFFICES ASSUME Init PROVE GateType
  OBVIOUS
<1>1. IsConfig(config) /\ Index = {} /\ Len(config.upstreams) = 0
  BY DEF Init, IsConfig, IsList, DefaultConfig, Index
<1>2. transport \in [Index -> {"none", "up", "closed", "dropped"}]
  BY <1>1 DEF Init
<1> QED
  BY <1>1, <1>2 DEF Init, GateType, ShapeInv, TypeOK

\* The steps of the process itself, and those of a request.
ProcessStep ==
  \/ Load \/ Validate \/ Connect \/ ConnectFails \/ Collect \/ Serve \/ RunFails
  \/ Signal \/ (\E u \in Index : CloseOne(u)) \/ Drain \/ Exit
RequestStep ==
  \/ \E r \in Request, f \in Forms, limited \in BOOLEAN : Arrive(r, f, limited)
  \/ \E r \in Request : BodyArrives(r) \/ Succeed(r) \/ Fail(r) \/ Replied(r) \/ Abandon(r)

\* A step belongs to the process, to a request, or changes nothing.
LEMMA StepCases ==
  ASSUME [Next]_vars PROVE ProcessStep \/ RequestStep \/ UNCHANGED vars
BY DEF Next, ProcessStep, RequestStep

\* What the process does leaves the requests and their replies alone.
LEMMA ProcessKeepsRequests ==
  ASSUME ProcessStep PROVE UNCHANGED <<setting, requests>> /\ (Load \/ config' = config)
BY DEF ProcessStep, Load, Validate, Connect, ConnectFails, Collect, Serve, RunFails, Signal, CloseOne, Drain,
   Exit, loaded

\* What a request does leaves the process alone.
LEMMA RequestKeepsProcess ==
  ASSUME RequestStep PROVE UNCHANGED <<loaded, mode, pool>>
BY DEF RequestStep, Arrive, BodyArrives, Succeed, Fail, Replied, Abandon

\* What a request is told.
LEMMA RefusalTypes ==
  ASSUME NEW f, NEW limited
  PROVE  /\ HeadAnswer(f, limited) \in {0, 200, 401, 405, 413, 429}
         /\ BodyRefusal(f) \in {0, 400, 404, 413, 501, 502}
BY DEF HeadAnswer, BodyRefusal, DispatchRefusal

ProcessType ==
  /\ setting \in Settings
  /\ mode \in {"loading", "validating", "rejected", "building", "rollback",
              "starting", "serving", "stopping", "draining", "exited", "failed"}
  /\ next \in 1 .. Len(config.upstreams) + 1
  /\ transport \in [Index -> {"none", "up", "closed", "dropped"}]
  /\ left \subseteq Index
RequestType ==
  /\ phase \in [Request -> {"idle", "sending", "inflight", "replying", "done", "gone"}]
  /\ form \in [Request -> SUBSET Forms]
  /\ \A r \in Request : phase[r] = "idle" <=> form[r] = {}
  /\ reply \in [Request -> {0, 200, 400, 401, 404, 405, 413, 429, 501, 502, 504}]

LEMMA ProcessTypes ==
  ASSUME ProcessType, ShapeInv, ProcessStep
  PROVE  /\ ProcessType' /\ IsConfig(config)'
         /\ mode' \in {"loading", "validating"} => next' = 1
         /\ mode' \in {"loading", "validating", "rejected", "building"} => left' = {}
<1> DEFINE Goal == /\ ProcessType' /\ IsConfig(config)'
                   /\ mode' \in {"loading", "validating"} => next' = 1
                   /\ mode' \in {"loading", "validating", "rejected", "building"} => left' = {}
<1>0. /\ IsConfig(config) /\ Len(config.upstreams) \in Nat /\ Index = 1 .. Len(config.upstreams)
      /\ Pooled \subseteq Index
  BY ListFacts, PooledFacts DEF ShapeInv, Index
<1>1. CASE Load
  <2>1. /\ mode = "loading" /\ config' = Layered(setting.file, setting.env) /\ setting' = setting
        /\ next' = next /\ left' = left /\ mode' = "validating"
        /\ transport' = [u \in DOMAIN config'.upstreams |-> "none"]
    BY <1>1 DEF Load
  <2>2. IsConfig(config')
    BY <2>1, LoadedIsConfig DEF ProcessType
  <2>3. Len(config'.upstreams) \in Nat /\ Index' = DOMAIN config'.upstreams
    BY <2>2, ListFacts DEF Index
  <2>4. next' = 1 /\ left' = {}
    BY <2>1 DEF ShapeInv
  <2> QED
    BY <2>1, <2>2, <2>3, <2>4 DEF ProcessType
<1>2. CASE Validate \/ Serve \/ Drain \/ Exit
  <2>1. UNCHANGED <<setting, config, next, transport, left>> /\ Index' = Index
    BY <1>2 DEF Validate, Serve, Drain, Exit, loaded, pool, Index
  <2>2. /\ mode' \in {"rejected", "building", "serving", "draining", "exited"}
        /\ mode' \in {"rejected", "building"} => mode = "validating"
    BY <1>2 DEF Validate, Serve, Drain, Exit
  <2> QED
    BY <1>0, <2>1, <2>2 DEF ProcessType, ShapeInv
<1>3. CASE Connect \/ ConnectFails \/ Collect
  <2>1. /\ mode = "building" /\ setting' = setting /\ config' = config /\ Index' = Index
        /\ mode' \in {"building", "rollback", "starting"}
        /\ (next' = next \/ (next' = next + 1 /\ next \in Index))
        /\ (left' = left \/ (left' = Built /\ mode' = "rollback"))
        /\ \/ transport' = transport \/ transport' = [transport EXCEPT ![next] = "up"]
           \/ transport' = [u \in Index |-> IF u \in Pooled THEN "up" ELSE "dropped"]
    BY <1>3 DEF Connect, ConnectFails, Collect, loaded, Index
  <2>2. next' \in 1 .. Len(config.upstreams) + 1
    BY <1>0, <2>1 DEF ProcessType
  <2>3. transport' \in [Index -> {"none", "up", "closed", "dropped"}]
    BY <2>1 DEF ProcessType
  <2>4. left' \subseteq Index /\ (mode' # "rollback" /\ mode' # "starting" => left' = {})
    BY <2>1 DEF ProcessType, ShapeInv, Built
  <2> QED
    BY <1>0, <2>1, <2>2, <2>3, <2>4 DEF ProcessType
<1>4. CASE RunFails \/ Signal \/ \E u \in Index : CloseOne(u)
  <2>1. /\ setting' = setting /\ config' = config /\ Index' = Index /\ next' = next
        /\ mode' \in {"failed", "stopping", "rollback"}
        /\ left' \subseteq left \cup Pooled
        /\ \/ transport' = transport \/ transport' = [u \in Index |-> "dropped"]
           \/ \E u \in Index : transport' = [transport EXCEPT ![u] = "closed"]
    BY <1>4 DEF RunFails, Signal, CloseOne, loaded, Index
  <2>2. transport' \in [Index -> {"none", "up", "closed", "dropped"}]
    BY <2>1 DEF ProcessType
  <2> QED
    BY <1>0, <2>1, <2>2 DEF ProcessType
<1> QED
  BY <1>1, <1>2, <1>3, <1>4 DEF ProcessStep

\* One request moves on: its reply, if it has one now, is one of those below.
Codes == {0, 200, 400, 401, 404, 405, 413, 429, 501, 502, 504}

LEMMA RequestTypes ==
  ASSUME RequestType, ShapeInv, RequestStep
  PROVE  RequestType' /\ \A r \in Request : form'[r] = {} \/ \E f \in Forms : form'[r] = {f}
<1>1. ASSUME NEW r \in Request, NEW f \in Forms, NEW limited \in BOOLEAN, Arrive(r, f, limited)
      PROVE  RequestType' /\ \A q \in Request : form'[q] = {} \/ \E g \in Forms : form'[q] = {g}
  <2>1. /\ phase[r] = "idle" /\ form' = [form EXCEPT ![r] = {f}]
        /\ \E ph \in {"sending", "replying"} : phase' = [phase EXCEPT ![r] = ph]
        /\ reply' = reply \/ \E status \in Codes : reply' = [reply EXCEPT ![r] = status]
    <3>1. HeadAnswer(f, limited) \in Codes
      BY RefusalTypes DEF Codes
    <3> QED
      BY <1>1, <3>1 DEF Arrive, Answer
  <2>2. reply' \in [Request -> Codes]
    BY <2>1 DEF RequestType, Codes
  <2>3. /\ phase' \in [Request -> {"idle", "sending", "inflight", "replying", "done", "gone"}]
        /\ form' \in [Request -> SUBSET Forms]
        /\ \A q \in Request : phase'[q] = "idle" <=> form'[q] = {}
        /\ \A q \in Request : form'[q] = {} \/ \E g \in Forms : form'[q] = {g}
    BY <2>1 DEF RequestType, ShapeInv
  <2> QED
    BY <2>2, <2>3 DEF RequestType, Codes
<1>2. ASSUME NEW r \in Request, BodyArrives(r) \/ Succeed(r) \/ Fail(r) \/ Replied(r) \/ Abandon(r)
      PROVE  RequestType' /\ \A q \in Request : form'[q] = {} \/ \E g \in Forms : form'[q] = {g}
  <2>1. BodyRefusal(Form(r)) \in Codes
    BY RefusalTypes DEF Codes
  <2>2. /\ phase[r] # "idle" /\ form' = form
        /\ \E ph \in {"inflight", "replying", "done", "gone"} : phase' = [phase EXCEPT ![r] = ph]
        /\ reply' = reply \/ \E status \in Codes : reply' = [reply EXCEPT ![r] = status]
    BY <1>2, <2>1 DEF BodyArrives, Succeed, Fail, Replied, Abandon, Answer, ErrorStatus, Codes
  <2> QED
    BY <2>2 DEF RequestType, ShapeInv, Codes
<1> QED
  BY <1>1, <1>2 DEF RequestStep

LEMMA TypeStep == GateType /\ [Next]_vars => GateType'
<1> SUFFICES ASSUME GateType, [Next]_vars PROVE GateType'
  OBVIOUS
<1>0. ProcessType /\ RequestType /\ ShapeInv
  BY DEF GateType, TypeOK, ProcessType, RequestType
<1>g. ASSUME ProcessType', RequestType', ShapeInv' PROVE GateType'
  BY <1>g DEF GateType, TypeOK, ProcessType, RequestType
<1>1. CASE ProcessStep
  <2>1. RequestType'
    BY <1>0, <1>1, ProcessKeepsRequests DEF RequestType, requests
  <2>2. ShapeInv'
    BY <1>0, <1>1, ProcessTypes, ProcessKeepsRequests DEF ShapeInv, requests
  <2> QED
    BY <1>0, <1>1, <1>g, <2>1, <2>2, ProcessTypes
<1>2. CASE RequestStep
  <2>1. ProcessType'
    BY <1>0, <1>2, RequestKeepsProcess DEF ProcessType, Index, loaded, pool
  <2>2. ShapeInv'
    BY <1>0, <1>2, RequestTypes, RequestKeepsProcess DEF ShapeInv, loaded, pool
  <2> QED
    BY <1>0, <1>2, <1>g, <2>1, <2>2, RequestTypes
<1>3. CASE UNCHANGED vars
  BY <1>0, <1>3, <1>g DEF ProcessType, RequestType, ShapeInv, Index, vars, loaded, pool, requests
<1> QED
  BY <1>1, <1>2, <1>3, StepCases

LEMMA TypeAlways == Spec => []GateType
BY ShapeInit, TypeStep, PTL DEF Spec

\* The process keeps its shape, whatever is configured (server/mod.rs:17-23,
\* pool.rs:13-15); in particular no reply is a status the code does not have.
THEOREM TypeCorrect == Spec => []TypeOK
BY TypeAlways, PTL DEF GateType

-----------------------------------------------------------------------------
(* The pool.                                                               *)

\* Where each transport is in each mode: what rollback and shutdown have still
\* to close is in left, and outside the pool nothing stays up.
PoolInv ==
  /\ mode \in {"loading", "validating", "rejected"} => \A u \in Index : transport[u] = "none"
  /\ mode = "building" => \A u \in Index : transport[u] = IF u < next THEN "up" ELSE "none"
  /\ mode = "rollback" => \A u \in Index : transport[u] # "dropped" /\ (transport[u] = "up" => u \in left)
  /\ mode \in {"starting", "serving"} =>
       \A u \in Index : transport[u] = IF u \in Pooled THEN "up" ELSE "dropped"
  /\ mode = "stopping" =>
       \A u \in Index : transport[u] = IF u \in left THEN "up"
                                       ELSE IF u \in Pooled THEN "closed" ELSE "dropped"
  /\ mode = "draining" => \A u \in Index : transport[u] = IF u \in Pooled THEN "closed" ELSE "dropped"
  /\ mode = "exited" => \A u \in Index : transport[u] # "up" /\ (transport[u] = "dropped" => u \notin Pooled)
  /\ mode = "stopping" => left \subseteq Pooled

LEMMA PoolStep == GateType /\ PoolInv /\ [Next]_vars => PoolInv'
<1> SUFFICES ASSUME GateType, PoolInv, [Next]_vars PROVE PoolInv'
  OBVIOUS
<1>0. /\ ProcessType /\ IsConfig(config) /\ Index = 1 .. Len(config.upstreams)
      /\ Len(config.upstreams) \in Nat /\ Pooled \subseteq Index
      /\ transport \in [Index -> {"none", "up", "closed", "dropped"}] /\ left \subseteq Index
      /\ next \in 1 .. Len(config.upstreams) + 1
  <2>1. IsConfig(config) /\ ProcessType
    BY DEF GateType, ShapeInv, TypeOK, ProcessType
  <2> QED
    BY <2>1, ListFacts, PooledFacts DEF ProcessType, Index
<1>1. CASE Load
  <2>1. mode' = "validating" /\ Index' = DOMAIN config'.upstreams
        /\ transport' = [u \in DOMAIN config'.upstreams |-> "none"]
    BY <1>1 DEF Load, Index
  <2> QED
    BY <2>1 DEF PoolInv
<1>i. config' = config => Index' = Index /\ Pooled' = Pooled
  BY DEF Index, Pooled, Owner, Names
<1>2. CASE Validate
  <2>1. mode = "validating" /\ mode' \in {"building", "rejected"} /\ next = 1
        /\ UNCHANGED <<config, next, transport, left>>
    BY <1>2 DEF Validate, loaded, pool, GateType, ShapeInv
  <2> QED
    BY <1>0, <1>i, <2>1 DEF PoolInv
<1>3. CASE Connect
  <2>1. /\ mode = "building" /\ mode' = mode /\ next \in Index /\ next' = next + 1
        /\ transport' = [transport EXCEPT ![next] = "up"] /\ UNCHANGED <<config, left>>
    BY <1>3 DEF Connect, loaded
  <2>2. \A u \in Index : transport'[u] = IF u < next' THEN "up" ELSE "none"
    BY <1>0, <2>1 DEF PoolInv
  <2> QED
    BY <1>i, <2>1, <2>2 DEF PoolInv
<1>4. CASE ConnectFails
  <2>1. mode = "building" /\ mode' = "rollback" /\ left' = Built /\ UNCHANGED <<config, transport>>
    BY <1>4 DEF ConnectFails, loaded
  <2>2. \A u \in Index : transport[u] # "dropped"
    BY <2>1 DEF PoolInv
  <2>3. \A u \in Index : transport[u] = "up" => u \in Built
    BY DEF Built
  <2> QED
    BY <1>i, <2>1, <2>2, <2>3 DEF PoolInv
<1>5. CASE Collect
  <2>1. /\ mode' = "starting" /\ config' = config
        /\ transport' = [u \in Index |-> IF u \in Pooled THEN "up" ELSE "dropped"]
    BY <1>5 DEF Collect, loaded
  <2> QED
    BY <1>i, <2>1 DEF PoolInv
<1>6. CASE RunFails
  <2>1. mode' = "failed"
    BY <1>6 DEF RunFails
  <2> QED
    BY <2>1 DEF PoolInv
<1>7. CASE Serve \/ Signal
  <2>1. /\ mode \in {"starting", "serving"} /\ mode' \in {"serving", "stopping"}
        /\ mode' = "stopping" => left' = Pooled
        /\ UNCHANGED <<config, transport>>
    BY <1>7 DEF Serve, Signal, loaded, pool
  <2> QED
    BY <1>0, <1>i, <2>1 DEF PoolInv
<1>8. ASSUME NEW u \in Index, CloseOne(u) PROVE PoolInv'
  <2>1. /\ mode \in {"stopping", "rollback"} /\ mode' = mode /\ u \in left
        /\ transport' = [transport EXCEPT ![u] = "closed"] /\ left' = left \ {u}
        /\ config' = config
    BY <1>8 DEF CloseOne, loaded
  <2>2. transport'[u] = "closed" /\ \A v \in Index : v # u => transport'[v] = transport[v]
    BY <1>0, <2>1
  <2> QED
    BY <1>0, <1>i, <2>1, <2>2 DEF PoolInv
<1>9. CASE Drain \/ Exit
  <2>1. /\ UNCHANGED <<config, transport, left>>
        /\ \/ mode = "stopping" /\ left = {} /\ mode' = "draining"
           \/ mode = "draining" /\ mode' = "exited"
           \/ mode = "rollback" /\ left = {} /\ mode' = "exited"
    BY <1>9 DEF Drain, Exit, loaded, pool
  <2> QED
    BY <1>0, <1>i, <2>1 DEF PoolInv
<1>10. CASE UNCHANGED <<loaded, mode, pool>>
  BY <1>i, <1>10 DEF PoolInv, loaded, pool
<1>11. CASE ProcessStep
  BY <1>1, <1>2, <1>3, <1>4, <1>5, <1>6, <1>7, <1>8, <1>9, <1>11, Zenon DEF ProcessStep
<1>12. CASE RequestStep
  BY <1>10, <1>12, RequestKeepsProcess
<1>13. CASE UNCHANGED vars
  BY <1>10, <1>13 DEF vars, loaded, pool
<1> QED
  BY <1>11, <1>12, <1>13, StepCases

LEMMA PoolInit == Init => PoolInv
BY DEF Init, PoolInv, Index, DefaultConfig

LEMMA PoolAlways == Spec => [](GateType /\ PoolInv)
BY ShapeInit, TypeStep, PoolInit, PoolStep, PTL DEF Spec

\* After a build that failed at any upstream, and after a shutdown, every
\* transport that was opened has been shut down, except one that a later
\* upstream of its name hid, which was dropped (pool.rs:17-48, 69-78,
\* server/mod.rs:124-166).
THEOREM AllClosed == Spec => []NothingLeftOpen
<1>1. GateType /\ PoolInv => NothingLeftOpen
  <2> SUFFICES ASSUME GateType, PoolInv, mode = "exited", NEW u \in Index
               PROVE  /\ transport[u] # "up"
                      /\ transport[u] = "dropped" =>
                           \E v \in Index : v > u /\ config.upstreams[v].name = config.upstreams[u].name
    BY DEF NothingLeftOpen
  <2> DEFINE n == config.upstreams[u].name
  <2>1. transport[u] # "up" /\ (transport[u] = "dropped" => u \notin Pooled)
    BY DEF PoolInv
  <2>2. n \in Names(config) /\ IsConfig(config)
    BY DEF Names, Index, GateType, ShapeInv
  <2>3. /\ Owner(n) \in Index /\ config.upstreams[Owner(n)].name = n /\ u <= Owner(n)
        /\ Owner(n) \in Pooled
    BY <2>2, OwnerFacts DEF Pooled
  <2>4. u \in Nat /\ Owner(n) \in Nat
    BY <2>2, <2>3, ListFacts DEF Index
  <2> HIDE DEF n
  <2>5. ASSUME transport[u] = "dropped" PROVE Owner(n) > u
    BY <2>1, <2>3, <2>4, <2>5
  <2> QED
    BY <2>1, <2>3, <2>5 DEF n
<1> QED
  BY <1>1, PoolAlways, PTL

-----------------------------------------------------------------------------
(* What validate lets pass.                                                *)

\* The verdict stands: nothing is built of a configuration that failed.
VerdictInv ==
  /\ mode = "rejected" => ~Valid(config)
  /\ mode \notin {"loading", "validating", "rejected"} => Valid(config)

LEMMA VerdictStep == VerdictInv /\ [Next]_vars => VerdictInv'
<1> SUFFICES ASSUME VerdictInv, [Next]_vars PROVE VerdictInv'
  OBVIOUS
<1>1. CASE Load
  BY <1>1 DEF Load, VerdictInv
<1>2. CASE Validate
  BY <1>2 DEF Validate, VerdictInv, loaded
<1>3. CASE UNCHANGED <<loaded, mode>>
  BY <1>3 DEF VerdictInv, loaded
<1>4. CASE /\ config' = config /\ mode \notin {"loading", "validating", "rejected"}
           /\ mode' \notin {"loading", "validating", "rejected"}
  BY <1>4 DEF VerdictInv
<1> QED
  BY <1>1, <1>2, <1>3, <1>4, StepCases, RequestKeepsProcess DEF ProcessStep, Connect, ConnectFails, Collect,
     Serve, RunFails, Signal, CloseOne, Drain, Exit, loaded, vars

LEMMA VerdictAlways == Spec => []VerdictInv
<1>1. Init => VerdictInv
  BY DEF Init, VerdictInv
<1> QED
  BY <1>1, VerdictStep, PTL DEF Spec

\* An upstream that is at no internal IPv6 address passes the code's three
\* checks exactly if the policy of the comments allows it.
LEMMA UpstreamVetted ==
  ASSUME NEW cfg, IsConfig(cfg), NEW i \in DOMAIN cfg.upstreams,
         cfg.upstreams[i].transport = "http" => ~Internal6(cfg.upstreams[i].host)
  PROVE  Vetted(cfg.upstreams[i], cfg)
           <=> /\ cfg.block_private_upstream_urls /\ cfg.upstreams[i].transport = "http"
                  => ~UrlBlocked(cfg.upstreams[i].host)
               /\ cfg.allowed_commands # {} /\ cfg.upstreams[i].transport = "stdio"
                  => /\ CommandAllowed(cfg.upstreams[i].command, cfg.allowed_commands)
                     /\ ~cfg.upstreams[i].args \/ cfg.allow_arbitrary_args
<1> DEFINE up == cfg.upstreams[i]
<1>1. up.host.kind = "v4" => (UrlBlocked(up.host) <=> \E range \in BlockedRanges : InRange(up.host.octets, range))
  <2>1. IsUpstream(up)
    BY DEF IsConfig
  <2> HIDE DEF up
  <2>2. up.host.kind = "v4" => up.host.octets \in [1 .. 4 -> 0 .. 255]
    BY <2>1 DEF IsUpstream
  <2> QED
    BY <2>2, BlockedIsInRange
<1>2. UrlBlocked(up.host) <=> Internal4(up.host)
  BY <1>1 DEF UrlBlocked, Internal4
<1>3. CommandAllowed(up.command, cfg.allowed_commands)
        <=> {up.command.full, up.command.base} \cap cfg.allowed_commands # {}
  BY DEF CommandAllowed
<1>4. up.transport = "http" => ~Internal6(up.host)
  OBVIOUS
<1> HIDE DEF up
<1>5. Vetted(up, cfg)
        <=> /\ cfg.block_private_upstream_urls /\ up.transport = "http" => ~UrlBlocked(up.host)
            /\ cfg.allowed_commands # {} /\ up.transport = "stdio"
               => /\ CommandAllowed(up.command, cfg.allowed_commands)
                  /\ ~up.args \/ cfg.allow_arbitrary_args
  BY <1>2, <1>3, <1>4, Zenon DEF Vetted
<1> QED
  BY <1>5 DEF up

\* Is no HTTP upstream at an IPv6 address that the policy forbids?
NoInternal6(ups) == \A i \in DOMAIN ups : ups[i].transport = "http" => ~Internal6(ups[i].host)

\* The environment changes no upstream.
LEMMA LoadedHosts ==
  ASSUME NEW s \in Settings, \A cfg \in s.file : NoInternal6(cfg.upstreams)
  PROVE  NoInternal6(Layered(s.file, s.env).upstreams)
<1> DEFINE base == IF s.file = {} THEN DefaultConfig ELSE CHOOSE cfg \in s.file : TRUE
<1>1. "upstreams" \in DOMAIN base /\ NoInternal6(base.upstreams)
  <2>1. CASE s.file = {}
    BY <2>1 DEF NoInternal6, DefaultConfig
  <2>2. ASSUME NEW c \in s.file PROVE base = c /\ IsConfig(c)
    BY <2>2, SettingsAssumption
  <2>3. CASE s.file # {}
    <3>1. PICK c \in s.file : TRUE
      BY <2>3
    <3>2. base = c /\ NoInternal6(c.upstreams) /\ DOMAIN c = DOMAIN DefaultConfig
      BY <2>2, <3>1 DEF IsConfig
    <3> HIDE DEF base
    <3> QED
      BY <3>2 DEF DefaultConfig
  <2> QED
    BY <2>1, <2>3
<1>2. Layered(s.file, s.env) = ApplyEnv(base, s.env)
  BY DEF Layered
<1> HIDE DEF base
<1>3. ApplyEnv(base, s.env).upstreams = base.upstreams
  BY <1>1 DEF ApplyEnv
<1> QED
  BY <1>1, <1>2, <1>3

\* No upstream of the loaded configuration is at such an address.
HostsInv == NoInternal6(config.upstreams)

LEMMA HostsAlways ==
  ASSUME \A s \in Settings : \A cfg \in s.file : NoInternal6(cfg.upstreams)
  PROVE  Spec => []HostsInv
<1>1. Init => HostsInv
  BY DEF Init, HostsInv, NoInternal6, DefaultConfig
<1>2. GateType /\ HostsInv /\ [Next]_vars => HostsInv'
  <2> SUFFICES ASSUME GateType, HostsInv, [Next]_vars PROVE HostsInv'
    OBVIOUS
  <2>1. CASE Load
    <3>1. config' = Layered(setting.file, setting.env) /\ setting \in Settings
      BY <2>1 DEF Load, GateType, TypeOK
    <3> QED
      BY <3>1, LoadedHosts DEF HostsInv
  <2>2. CASE config' = config
    BY <2>2 DEF HostsInv
  <2> QED
    BY <2>1, <2>2, StepCases, ProcessKeepsRequests, RequestKeepsProcess DEF loaded, vars
<1> QED
  BY <1>1, <1>2, TypeAlways, PTL DEF Spec

\* As long as no upstream is at an IPv6 address that the policy forbids, which
\* the code does not notice (config.rs:311-320), only what the operator's policy
\* allows is ever opened, and nothing but the policy or a dangling route stops
\* a configuration (config.rs:207-260, 294-362).
THEOREM ValidateIsPolicy ==
  ASSUME \A s \in Settings : \A cfg \in s.file : NoInternal6(cfg.upstreams)
  PROVE  Spec => []ValidateMatchesPolicy
<1>1. GateType /\ PoolInv /\ VerdictInv /\ HostsInv => ValidateMatchesPolicy
  <2> SUFFICES ASSUME GateType, PoolInv, VerdictInv, HostsInv PROVE ValidateMatchesPolicy
    OBVIOUS
  <2>h. \A u \in DOMAIN config.upstreams :
          config.upstreams[u].transport = "http" => ~Internal6(config.upstreams[u].host)
    BY DEF HostsInv, NoInternal6
  <2>0. IsConfig(config)
    BY DEF GateType, ShapeInv
  <2>1. ASSUME NEW u \in Index, transport[u] # "none" PROVE Vetted(config.upstreams[u], config)
    <3>1. Valid(config)
      BY <2>1 DEF PoolInv, VerdictInv
    <3>2. u \in DOMAIN config.upstreams
      BY DEF Index
    <3> QED
      BY <2>0, <2>h, <3>1, <3>2, UpstreamVetted DEF Valid, CommandsPass, UrlsPass
  <2>2. ASSUME mode = "rejected", \A u \in Index : Vetted(config.upstreams[u], config)
        PROVE  \E i \in DOMAIN Routes : \A u \in Index : config.upstreams[u].name # Routes[i].upstream
    <3>1. ~Valid(config)
      BY <2>2 DEF VerdictInv
    <3>2. CommandsPass(config) /\ UrlsPass(config)
      BY <2>0, <2>h, <2>2, UpstreamVetted DEF CommandsPass, UrlsPass, Index
    <3> QED
      BY <3>1, <3>2 DEF Valid, RoutesPass, Names, Routes, Index
  <2> QED
    BY <2>1, <2>2 DEF ValidateMatchesPolicy
<1> QED
  BY <1>1, PoolAlways, VerdictAlways, HostsAlways, PTL

-----------------------------------------------------------------------------
(* Serving.                                                                *)

\* The key asked for is the one in force.
KeyInv == mode # "loading" /\ KeyInForce => config.access_key

\* What a stranger is told on a surface.
ToldOutside(surface) == IF surface = "api" THEN {401, 413, 429} ELSE {200, 405, 413, 429}

\* A request of a stranger is answered on its head.
StrangerInv ==
  \A r \in Request : \A f \in form[r] : KeyInForce /\ ~f.keyed =>
    phase[r] \in {"replying", "done", "gone"} /\ reply[r] \in ToldOutside(Surface[f.path])

LEMMA KeyStep == GateType /\ KeyInv /\ [Next]_vars => KeyInv'
<1> SUFFICES ASSUME GateType, KeyInv, [Next]_vars PROVE KeyInv'
  OBVIOUS
<1>1. CASE Load
  <2>1. config' = Layered(setting.file, setting.env) /\ setting' = setting /\ setting \in Settings
    BY <1>1 DEF Load, GateType, TypeOK
  <2> QED
    BY <2>1, LoadedIsConfig DEF KeyInv, KeyInForce
<1>2. CASE (mode = "loading" => mode' = "loading") /\ UNCHANGED loaded
  <2>1. config' = config /\ setting' = setting
    BY <1>2 DEF loaded
  <2>2. KeyInForce' <=> KeyInForce
    BY <2>1 DEF KeyInForce
  <2>3. mode # "loading" /\ KeyInForce => config.access_key
    BY DEF KeyInv
  <2>4. mode' # "loading" /\ KeyInForce' => config'.access_key
    BY <1>2, <2>1, <2>2, <2>3
  <2> QED
    BY <2>4 DEF KeyInv
<1> QED
  BY <1>1, <1>2, StepCases, RequestKeepsProcess DEF ProcessStep, Validate, Connect, ConnectFails, Collect,
     Serve, RunFails, Signal, CloseOne, Drain, Exit, loaded, vars

\* The layers answer a stranger, whatever path is asked for.
LEMMA HeadStopsStrangers ==
  ASSUME NEW f \in Forms, NEW limited \in BOOLEAN, config.access_key, ~f.keyed
  PROVE  HeadAnswer(f, limited) \in ToldOutside(Surface[f.path])
<1>1. Surface[f.path] \in {"api", "public", "otherMethod", "preflight"}
  BY FormsAssumption, SurfaceAssumption
<1> QED
  BY <1>1 DEF HeadAnswer, ToldOutside

LEMMA StrangerStep == GateType /\ KeyInv /\ StrangerInv /\ [Next]_vars => StrangerInv'
<1> SUFFICES ASSUME GateType, KeyInv, StrangerInv, [Next]_vars PROVE StrangerInv'
  OBVIOUS
<1>0. RequestType
  BY DEF GateType, TypeOK, RequestType
<1>1. CASE ProcessStep \/ UNCHANGED vars
  <2>1. UNCHANGED <<setting, phase, form, reply>>
    BY <1>1, ProcessKeepsRequests DEF requests, vars, loaded
  <2> QED
    BY <2>1 DEF StrangerInv, KeyInForce
<1>2. ASSUME NEW r \in Request, NEW f \in Forms, NEW limited \in BOOLEAN, Arrive(r, f, limited)
      PROVE  StrangerInv'
  <2>1. /\ form' = [form EXCEPT ![r] = {f}] /\ setting' = setting /\ mode # "loading"
        /\ IF HeadAnswer(f, limited) = 0
           THEN phase' = [phase EXCEPT ![r] = "sending"] /\ reply' = reply
           ELSE Answer(r, HeadAnswer(f, limited))
    BY <1>2 DEF Arrive, loaded, Accepting
  <2>2. KeyInForce /\ ~f.keyed => HeadAnswer(f, limited) \in ToldOutside(Surface[f.path])
    BY <2>1, HeadStopsStrangers DEF KeyInv
  <2>3. ASSUME NEW q \in Request, q # r
        PROVE  form'[q] = form[q] /\ phase'[q] = phase[q] /\ reply'[q] = reply[q]
    BY <1>0, <2>1, <2>3 DEF RequestType, Answer
  <2>4. ASSUME KeyInForce, ~f.keyed
        PROVE  phase'[r] = "replying" /\ reply'[r] \in ToldOutside(Surface[f.path])
    <3>1. HeadAnswer(f, limited) \in ToldOutside(Surface[f.path]) /\ HeadAnswer(f, limited) # 0
      BY <2>2, <2>4 DEF ToldOutside
    <3> QED
      BY <1>0, <2>1, <3>1 DEF RequestType, Answer
  <2>5. form'[r] = {f} /\ KeyInForce' = KeyInForce
    BY <1>0, <2>1 DEF RequestType, KeyInForce
  <2> QED
    BY <2>3, <2>4, <2>5 DEF StrangerInv
<1>3. ASSUME NEW r \in Request, BodyArrives(r) \/ Succeed(r) \/ Fail(r) PROVE StrangerInv'
  <2>1. /\ phase[r] \in {"sending", "inflight"} /\ UNCHANGED <<setting, form>>
        /\ \E ph \in {"inflight", "replying"} : phase' = [phase EXCEPT ![r] = ph]
        /\ reply' = reply \/ \E status : reply' = [reply EXCEPT ![r] = status]
    BY <1>3 DEF BodyArrives, Succeed, Fail, Answer, loaded
  <2>2. ASSUME NEW q \in Request, q # r PROVE phase'[q] = phase[q] /\ reply'[q] = reply[q]
    BY <1>0, <2>1, <2>2 DEF RequestType
  <2>3. KeyInForce' = KeyInForce /\ ~(KeyInForce /\ \E f \in form[r] : ~f.keyed)
    BY <2>1 DEF StrangerInv, KeyInForce
  <2> QED
    BY <2>1, <2>2, <2>3 DEF StrangerInv
<1>4. ASSUME NEW r \in Request, Replied(r) \/ Abandon(r) PROVE StrangerInv'
  <2>1. /\ UNCHANGED <<setting, form, reply>>
        /\ \E ph \in {"done", "gone"} : phase' = [phase EXCEPT ![r] = ph]
    BY <1>4 DEF Replied, Abandon, loaded
  <2>2. KeyInForce' = KeyInForce /\ \A q \in Request : phase'[q] \in {phase[q], "done", "gone"}
    BY <1>0, <2>1 DEF RequestType, KeyInForce
  <2> QED
    BY <2>1, <2>2 DEF StrangerInv
<1> QED
  BY <1>1, <1>2, <1>3, <1>4, StepCases DEF RequestStep

\* Without the key in force a frontend's request ends at its head, whichever
\* layer, path or body it tries: it reaches no upstream, and what it is told on
\* the API depends on no route (middleware.rs:15-33, server/mod.rs:84-119).
THEOREM StrangersRefused == Spec => []StrangersStayOutside
<1>1. Init => KeyInv /\ StrangerInv
  BY DEF Init, KeyInv, StrangerInv
<1>2. GateType /\ StrangerInv => StrangersStayOutside
  <2> SUFFICES ASSUME GateType, StrangerInv, NEW r \in Request, KeyInForce, phase[r] # "idle", ~Form(r).keyed
               PROVE  /\ phase[r] \in {"replying", "done", "gone"}
                      /\ reply[r] \in ToldOutside(Surface[Form(r).path])
    BY DEF StrangersStayOutside, ToldOutside
  <2>1. form[r] # {}
    BY DEF GateType, TypeOK
  <2>2. Form(r) \in form[r]
    BY <2>1 DEF Form
  <2> QED
    BY <2>2 DEF StrangerInv
<1> QED
  BY <1>1, <1>2, TypeAlways, KeyStep, StrangerStep, PTL DEF Spec

-----------------------------------------------------------------------------
(* Where requests go.                                                      *)

\* A route that is found is one of the routes.
LEMMA MatchFacts ==
  ASSUME IsConfig(config), NEW path, MatchRoute(path) # 0
  PROVE  MatchRoute(path) \in DOMAIN Routes
<1> DEFINE fits == {i \in DOMAIN Routes : Routes[i].path = path}
<1>1. fits # {} /\ MatchRoute(path) = CHOOSE i \in fits : \A j \in fits : i <= j
  BY DEF MatchRoute
<1>2. fits \in SUBSET Nat
  BY ListFacts DEF Routes
<1>3. fits \subseteq DOMAIN Routes
  OBVIOUS
<1> HIDE DEF fits
<1>4. \E i \in fits : \A j \in fits : i <= j
  BY <1>1, <1>2, LeastNat
<1> QED
  BY <1>1, <1>3, <1>4
\* Requests come only once the server serves, to a configuration whose key is
\* known.
OpeningInv ==
  mode \in {"loading", "validating", "rejected", "building", "rollback", "starting", "failed"} =>
    \A r \in Request : phase[r] = "idle"

LEMMA OpeningStep == OpeningInv /\ [Next]_vars => OpeningInv'
<1> SUFFICES ASSUME OpeningInv, [Next]_vars PROVE OpeningInv'
  OBVIOUS
<1>1. CASE ProcessStep
  <2>1. phase' = phase
    BY <1>1, ProcessKeepsRequests DEF requests
  <2>2. mode' \in {"loading", "validating", "rejected", "building", "rollback", "starting", "failed"}
        => mode \in {"loading", "validating", "rejected", "building", "rollback", "starting", "failed"}
    BY <1>1 DEF ProcessStep, Load, Validate, Connect, ConnectFails, Collect, Serve, RunFails, Signal,
       CloseOne, Drain, Exit
  <2> QED
    BY <2>1, <2>2 DEF OpeningInv
<1>2. CASE RequestStep
  <2>1. mode' = mode
    BY <1>2, RequestKeepsProcess
  <2>2. \/ Accepting \/ \E r \in Request : phase[r] # "idle"
    BY <1>2 DEF RequestStep, Arrive, BodyArrives, Succeed, Fail, Replied, Abandon
  <2> QED
    BY <2>1, <2>2 DEF OpeningInv, Accepting
<1>3. CASE UNCHANGED vars
  BY <1>3 DEF OpeningInv, vars, requests
<1> QED
  BY <1>1, <1>2, <1>3, StepCases
\* A request waits only for a name that resolves, and none waits once the
\* process has exited.
WaitInv ==
  /\ \A r \in Request : phase[r] = "inflight" =>
       /\ MatchRoute(Form(r).path) # 0
       /\ Routes[MatchRoute(Form(r).path)].upstream \in Names(config)
  /\ mode = "exited" => \A r \in Request : phase[r] \notin {"sending", "inflight"}

LEMMA WaitStep == GateType /\ OpeningInv /\ WaitInv /\ [Next]_vars => WaitInv'
<1> SUFFICES ASSUME GateType, OpeningInv, WaitInv, [Next]_vars PROVE WaitInv'
  OBVIOUS
<1>0. RequestType
  BY DEF GateType, TypeOK, RequestType
<1>r. ASSUME config' = config
      PROVE  /\ Names(config') = Names(config) /\ Routes' = Routes
             /\ \A path : MatchRoute(path)' = MatchRoute(path)
  BY <1>r DEF Names, Routes, MatchRoute
<1>1. CASE ProcessStep \/ UNCHANGED vars
  <2>1. UNCHANGED <<phase, form>>
    BY <1>1, ProcessKeepsRequests DEF requests, vars
  <2>2. CASE config' = config
    <3>1. mode' = "exited" => \A r \in Request : phase[r] \notin {"sending", "inflight"}
      BY <1>1, <2>2 DEF ProcessStep, Load, Validate, Connect, ConnectFails, Collect, Serve, RunFails, Signal,
         CloseOne, Drain, Exit, OpeningInv, WaitInv, Open, vars
    <3>2. \A r \in Request : Form(r)' = Form(r)
      BY <2>1 DEF Form
    <3> QED
      BY <1>r, <2>1, <2>2, <3>1, <3>2 DEF WaitInv
  <2>3. CASE Load
    BY <2>1, <2>3 DEF Load, OpeningInv, WaitInv
  <2> QED
    BY <1>1, <2>2, <2>3, ProcessKeepsRequests DEF vars, loaded
<1>2. CASE RequestStep
  <2>1. config' = config /\ mode' = mode
    BY <1>2, RequestKeepsProcess DEF loaded
  <2>2. ASSUME NEW r \in Request,
               \A q \in Request : q # r => phase'[q] = phase[q] /\ form'[q] = form[q],
               phase'[r] = "inflight" => /\ phase[r] = "sending" /\ form'[r] = form[r]
                                         /\ BodyRefusal(Form(r)) = 0,
               phase'[r] = "sending" => Accepting
        PROVE  WaitInv'
    <3>1. BodyRefusal(Form(r)) = 0 => /\ MatchRoute(Form(r).path) # 0
                                      /\ Routes[MatchRoute(Form(r).path)].upstream \in Names(config)
      BY DEF BodyRefusal, DispatchRefusal
    <3>2. \A q \in Request : form'[q] = form[q] => Form(q)' = Form(q)
      BY DEF Form
    <3>3. mode = "exited" => \A q \in Request : phase'[q] \notin {"sending", "inflight"}
      BY <2>2 DEF WaitInv, Accepting
    <3> QED
      BY <1>r, <2>1, <2>2, <3>1, <3>2, <3>3 DEF WaitInv
  <2>3. ASSUME NEW r \in Request, NEW f \in Forms, NEW limited \in BOOLEAN, Arrive(r, f, limited)
        PROVE  WaitInv'
    <3>1. /\ \A q \in Request : q # r => phase'[q] = phase[q] /\ form'[q] = form[q]
          /\ phase'[r] # "inflight" /\ Accepting
      BY <1>0, <2>3 DEF Arrive, Answer, RequestType
    <3> QED
      BY <2>2, <3>1
  <2>4. ASSUME NEW r \in Request, BodyArrives(r) \/ Succeed(r) \/ Fail(r) \/ Replied(r) \/ Abandon(r) PROVE WaitInv'
    <3>1. /\ \A q \in Request : q # r => phase'[q] = phase[q] /\ form'[q] = form[q]
          /\ phase'[r] = "inflight" => phase[r] = "sending" /\ form'[r] = form[r] /\ BodyRefusal(Form(r)) = 0
          /\ phase'[r] # "sending"
      BY <1>0, <2>4 DEF BodyArrives, Succeed, Fail, Replied, Abandon, Answer, RequestType
    <3> QED
      BY <2>2, <3>1
  <2> QED
    BY <1>2, <2>3, <2>4 DEF RequestStep
<1> QED
  BY <1>1, <1>2, StepCases

\* Every route that is reached leads to an upstream of the pool, and what a
\* request waits on is the transport the pool kept for it, which is open, or
\* being shut down since the signal (pool.rs:36-62, dispatch.rs, config.rs:
\* 247-257).
THEOREM TargetsPooled == Spec => []TargetsArePooled
<1>1. Init => OpeningInv /\ WaitInv
  BY DEF Init, OpeningInv, WaitInv
<1>2. GateType /\ PoolInv /\ VerdictInv /\ OpeningInv /\ WaitInv => TargetsArePooled
  <2> SUFFICES ASSUME GateType, PoolInv, VerdictInv, OpeningInv, WaitInv, NEW r \in Request
               PROVE  /\ phase[r] # "idle" /\ MatchRoute(Form(r).path) # 0 =>
                           Routes[MatchRoute(Form(r).path)].upstream \in Names(config)
                      /\ phase[r] = "inflight" =>
                           /\ transport[Target(r)] \in {"up", "closed"}
                           /\ transport[Target(r)] = "closed" => mode \in {"stopping", "draining"}
    BY DEF TargetsArePooled
  <2>0. IsConfig(config) /\ mode \in {"loading", "validating", "rejected", "building", "rollback",
              "starting", "serving", "stopping", "draining", "exited", "failed"}
    BY DEF GateType, ShapeInv, TypeOK
  <2>1. ASSUME phase[r] # "idle", MatchRoute(Form(r).path) # 0
        PROVE  Routes[MatchRoute(Form(r).path)].upstream \in Names(config)
    <3>1. Valid(config)
      BY <2>1 DEF OpeningInv, VerdictInv
    <3>2. MatchRoute(Form(r).path) \in DOMAIN Routes
      BY <2>0, <2>1, MatchFacts
    <3> QED
      BY <3>1, <3>2 DEF Valid, RoutesPass, Routes
  <2>2. ASSUME phase[r] = "inflight"
        PROVE  /\ transport[Target(r)] \in {"up", "closed"}
               /\ transport[Target(r)] = "closed" => mode \in {"stopping", "draining"}
    <3>1. Routes[MatchRoute(Form(r).path)].upstream \in Names(config)
      BY <2>2 DEF WaitInv
    <3>2. Target(r) \in Pooled /\ Target(r) \in Index
      BY <2>0, <3>1, OwnerFacts DEF Target, Pooled
    <3>3. mode \in {"serving", "stopping", "draining"}
      BY <2>0, <2>2 DEF OpeningInv, WaitInv
    <3> QED
      BY <3>2, <3>3 DEF PoolInv
  <2> QED
    BY <2>1, <2>2
<1> QED
  BY <1>1, <1>2, ShapeInit, TypeStep, PoolInit, PoolStep, VerdictAlways, OpeningStep, WaitStep, PTL DEF Spec
=============================================================================
