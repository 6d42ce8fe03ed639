------------------------------ MODULE ChainState ------------------------------
(***************************************************************************)
(* chain_state of chain/chain_state.cpp: the consensus context of a block, *)
(* computed from short windows of the headers before it.  A state is       *)
(* either promoted from the state of the parent block (to_header, or       *)
(* to_pool and then to_block) or populated from the store (get_map), and   *)
(* everything below it in the chain has been forgotten by then.            *)
(*                                                                         *)
(* `chain' is the whole chain, which the code does not keep: the           *)
(* properties compare the state with it.  Headers join the chain when      *)
(* header::check and header::accept let them.  A reorganization needs no   *)
(* action: it continues from the state of an ancestor, and that chain and  *)
(* state were reached on the way up.                                       *)
(*                                                                         *)
(* A compact number is an index of Expand, a hash is the height of its     *)
(* block and whether it is the block that checkpoints name.                *)
(***************************************************************************)
EXTENDS Integers, Sequences, FiniteSets, FiniteSetsExt

CONSTANTS
    Networks,                     \* the settings to explore, see below
    retargeting_interval_seconds, block_spacing_seconds, retargeting_factor,
    Expand,                       \* compact::expand, a function of bits
    TargetSpan,                   \* 2^256, what a target is computed modulo
    MaxTime,                      \* the greatest uint32_t
    max_timewarp,
    median_time_past_interval,
    bip34_activation_sample, bip34_activation_threshold, bip34_enforcement_threshold,
    version_of,                   \* bip34_version, bip66_version, bip65_version
    VersionSpan,                  \* 2^32, the number of versions
    bip9_version_base,
    bip90_height,                 \* freeze height of bip34, bip66, bip65
    bip16_activation_time,
    bip30_reactivate_height

VARIABLES settings, chain, data, kind
vars == <<settings, chain, data, kind>>

(***************************************************************************)
(* `settings' is a network: what is configured for it, and what is         *)
(* explored of it, namely the constructors that its node uses, the         *)
(* versions and delays of its headers, and a bound on its height.          *)
(***************************************************************************)
forks == settings.forks
proof_of_work_limit == settings.proof_of_work_limit          \* bits
checkpoint_height == settings.checkpoint_height              \* see Checkpoints
bip30_exceptions == settings.bip30_exceptions                \* their heights

Checkpoints == {"bip30_deactivate", "bip9_bit0", "bip9_bit1", "bip9_bit2"}

Constructors == {"header", "pool", "block", "restart"}
ForkNames == {"bip16", "bip30", "bip30_deactivate", "bip30_reactivate", "bip34", "bip42",
    "bip65", "bip66", "bip68", "bip90", "bip112", "bip113", "bip141", "bip143", "bip147",
    "bip341", "bip342", "retarget", "difficult", "time_warp_patch", "block_storm_patch",
    "ltc_time_warp_patch", "ltc_retarget_overflow_patch", "ltc_scrypt_proof_of_work"}

\* The timestamp of the genesis block, in the units of the other times.
GenesisTime == 6

ASSUME ChainConstants ==
    /\ retargeting_interval_seconds \in Nat /\ block_spacing_seconds \in Nat \ {0}
    /\ retargeting_interval_seconds >= block_spacing_seconds
    /\ retargeting_factor \in Nat \ {0}
    /\ MaxTime \in Nat /\ GenesisTime <= MaxTime
    /\ median_time_past_interval \in Nat /\ median_time_past_interval >= 2

\* Compact numbers are ordered as their targets are.
ASSUME CompactConstants ==
    /\ TargetSpan \in Nat
    /\ DOMAIN Expand \subseteq Nat /\ 0 \in DOMAIN Expand /\ Expand[0] = 0
    /\ \A b \in DOMAIN Expand : Expand[b] \in Nat
    /\ \A b, c \in DOMAIN Expand : b < c => Expand[b] < Expand[c]

\* Versions are ordered as their rules were introduced.
ASSUME VersionConstants ==
    /\ VersionSpan \in Nat
    /\ bip34_activation_sample \in Nat
    /\ bip34_activation_threshold \in Nat /\ bip34_enforcement_threshold \in Nat \ {0}
    /\ bip34_activation_threshold <= bip34_enforcement_threshold
    /\ \A rule \in {"bip34", "bip66", "bip65"} :
        version_of[rule] \in Nat \ {0} /\ bip90_height[rule] \in Nat
    /\ version_of.bip34 <= version_of.bip66 /\ version_of.bip66 <= version_of.bip65

ASSUME NetworkConstants == \A network \in Networks :
    /\ network.forks \subseteq ForkNames
    /\ network.constructors \subseteq Constructors
    /\ network.proof_of_work_limit \in DOMAIN Expand \ {0}
    /\ DOMAIN network.checkpoint_height = Checkpoints
    /\ \A p \in Checkpoints : network.checkpoint_height[p] \in Nat
    /\ network.versions \subseteq Nat /\ network.delays \subseteq Int

-----------------------------------------------------------------------------
(***************************************************************************)
(* Blocks.  A hash names a height and a branch; checkpoints name the block *)
(* on the branch TRUE.                                                     *)
(***************************************************************************)
NullHash == <<0, FALSE>>
Named(height) == <<height, TRUE>>

Genesis == [bits |-> proof_of_work_limit, version |-> 1,
            timestamp |-> GenesisTime, hash |-> Named(0)]

Block(c, height) == c[height + 1]
Top(c) == Len(c) - 1

sign_cast(version) ==
    IF 2 * version >= VersionSpan THEN version - VersionSpan ELSE version

floored_subtract(a, b) == IF a < b THEN 0 ELSE a - b
ceilinged_add(a, b) == IF a + b > MaxTime THEN MaxTime ELSE a + b
limit(value, low, high) ==
    IF value < low THEN low ELSE IF value > high THEN high ELSE value

\* compact::compress: the greatest compact number not above the target.
compress(target) == Max({b \in DOMAIN Expand : Expand[b] <= target})

floored_log2(n) ==
    IF n = 0 THEN 0 ELSE CHOOSE k \in 0 .. n : 2 ^ k <= n /\ n < 2 ^ (k + 1)

\* header::proof: the expected number of hashes, TargetSpan \div (target + 1).
proof(header) ==
    LET target == Expand[header.bits]
    IN  IF target = 0 THEN 0 ELSE (TargetSpan - 1 - target) \div (target + 1) + 1

-----------------------------------------------------------------------------
(* Settings and heights. *)

minimum_timespan == retargeting_interval_seconds \div retargeting_factor
maximum_timespan == retargeting_interval_seconds * retargeting_factor
retargeting_interval == retargeting_interval_seconds \div block_spacing_seconds

retarget_distance(height) == height % retargeting_interval
is_retarget_height(height) == retarget_distance(height) = 0

bits_count(height) ==
    IF \/ "difficult" \in forks
       \/ "retarget" \notin forks
       \/ "block_storm_patch" \notin forks /\ is_retarget_height(height)
    THEN 1
    ELSE Min({height, retargeting_interval})

version_count(height) ==
    IF "bip90" \in forks \/ forks \cap {"bip34", "bip65", "bip66"} = {}
    THEN 0
    ELSE Min({height, bip34_activation_sample})

\* Mutant: the window of timestamps is one short.
TimestampCountShort(height) == Min({height, median_time_past_interval - 1})

timestamp_count(height) == Min({height, median_time_past_interval})

Unrequested == -1

\* Mutant: at a retarget height the period that begins is taken for the one that ends.
RetargetHeightNext(height) ==
    IF "retarget" \notin forks THEN Unrequested ELSE height - retarget_distance(height)

retarget_height(height) ==
    IF "retarget" \notin forks THEN Unrequested
    ELSE height - (IF is_retarget_height(height) THEN retargeting_interval
                                                 ELSE retarget_distance(height))

\* Is the hash of a checkpoint's block requested for a state at this height?
Configured(point) ==
    CASE point = "bip30_deactivate" -> {"bip30", "bip30_deactivate"} \subseteq forks
      [] point = "bip9_bit0" -> forks \cap {"bip68", "bip112", "bip113"} # {}
      [] point = "bip9_bit1" -> forks \cap {"bip141", "bip143", "bip147"} # {}
      [] point = "bip9_bit2" -> forks \cap {"bip341", "bip342"} # {}
point_height(point, height) ==
    IF Configured(point) /\ height >= checkpoint_height[point]
    THEN checkpoint_height[point] ELSE Unrequested

get_map(height) ==
    [bits |-> IF height = 0 THEN 0 ELSE bits_count(height),
     timestamp |-> IF height = 0 THEN 0 ELSE timestamp_count(height),
     version |-> IF height = 0 THEN 0 ELSE version_count(height),
     timestamp_retarget |-> IF height = 0 THEN 0 ELSE retarget_height(height),
     checkpoint |-> [p \in Checkpoints |-> point_height(p, height)]]

signal_version ==
    IF forks \cap {"bip341", "bip342"} # {} THEN bip9_version_base + 4
    ELSE IF forks \cap {"bip141", "bip143", "bip147"} # {} THEN bip9_version_base + 2
    ELSE IF forks \cap {"bip68", "bip112", "bip113"} # {} THEN bip9_version_base + 1
    ELSE IF "bip65" \in forks THEN version_of.bip65
    ELSE IF "bip66" \in forks THEN version_of.bip66
    ELSE IF "bip34" \in forks THEN version_of.bip34
    ELSE 1

-----------------------------------------------------------------------------
(* What a state computes from its data. *)

High(ordered) == ordered[Len(ordered)]

\* sort_copy: what is at each place of a sequence when it is in order.
Arrangements(n) == {p \in [1 .. n -> 1 .. n] : \A i, j \in 1 .. n : p[i] = p[j] => i = j}
sort_copy(s) ==
    LET order == CHOOSE p \in Arrangements(Len(s)) :
                    \A i, j \in 1 .. Len(s) : i < j => s[p[i]] <= s[p[j]]
    IN  [i \in 1 .. Len(s) |-> s[order[i]]]

median_time_past(values) ==
    LET times == sort_copy(values.timestamp.ordered)
    IN  IF times = <<>> THEN 0 ELSE times[Len(times) \div 2 + 1]

retarget_timespan(values) ==
    limit(floored_subtract(High(values.timestamp.ordered), values.timestamp.retarget),
          minimum_timespan, maximum_timespan)

is_retarget_or_non_limit(height, bits) ==
    bits # proof_of_work_limit \/ is_retarget_height(height)

\* The highest block of the window that is_retarget_or_non_limit: the bits at
\* i of n are those of the height that is n + 1 - i below the state's.
Found(values) ==
    LET n == Len(values.bits.ordered)
    IN  {i \in 1 .. n : is_retarget_or_non_limit(values.height - (n + 1 - i),
                                                 values.bits.ordered[i])}

work_required_retarget_bits(values) ==
    IF "block_storm_patch" \in forks /\ Found(values) # {}
    THEN values.bits.ordered[Max(Found(values))]
    ELSE High(values.bits.ordered)

\* Mutant: the product is left to overflow.
PatchNever(target) == FALSE

patch_timewarp(target) ==
    /\ "ltc_retarget_overflow_patch" \in forks
    /\ floored_log2(target) >= floored_log2(Expand[proof_of_work_limit])

work_required_retarget(values) ==
    LET target == Expand[work_required_retarget_bits(values)]
        timewarp == IF patch_timewarp(target) THEN 2 ELSE 1
        product == ((target \div timewarp) * retarget_timespan(values)) % TargetSpan
        result == ((product \div retargeting_interval_seconds) * timewarp) % TargetSpan
    IN  IF result > Expand[proof_of_work_limit]
        THEN proof_of_work_limit ELSE compress(result)

easy_work_required(values) ==
    IF values.timestamp.self >
       ceilinged_add(High(values.timestamp.ordered), 2 * block_spacing_seconds)
    THEN proof_of_work_limit
    ELSE IF Found(values) # {} THEN values.bits.ordered[Max(Found(values))]
    ELSE proof_of_work_limit

work_required(values) ==
    CASE values.height = 0 -> 0
      [] OTHER ->
         CASE Expand[High(values.bits.ordered)] = 0 -> 0
           [] OTHER ->
              IF "retarget" \notin forks THEN High(values.bits.ordered)
              ELSE IF is_retarget_height(values.height) THEN work_required_retarget(values)
              ELSE IF "difficult" \notin forks THEN easy_work_required(values)
              ELSE High(values.bits.ordered)

-----------------------------------------------------------------------------
(* activation: the rules in force for the block of the state. *)

ConfiguredAlone == {"retarget", "difficult", "ltc_time_warp_patch",
    "ltc_retarget_overflow_patch", "ltc_scrypt_proof_of_work", "bip42", "bip90",
    "time_warp_patch", "block_storm_patch"}

ge(version, least) == sign_cast(version) >= sign_cast(least)

Count(values, rule) ==
    Cardinality({i \in DOMAIN values.version.ordered :
                    ge(values.version.ordered[i], version_of[rule])})

Frozen(values, rule) == "bip90" \in forks /\ values.height >= bip90_height[rule]

is_active(values, rule) ==
    \/ Frozen(values, rule)
    \/ /\ Count(values, rule) >= bip34_activation_threshold
       /\ ge(values.version.self, version_of[rule])

\* Mutant: a version is enforced on the blocks that have it, as a rule is active.
EnforcedOnSelf(values, rule) ==
    \/ Frozen(values, rule)
    \/ /\ Count(values, rule) >= bip34_enforcement_threshold
       /\ ge(values.version.self, version_of[rule])

is_enforced(values, rule) ==
    \/ Frozen(values, rule)
    \/ Count(values, rule) >= bip34_enforcement_threshold

minimum_block_version(values) ==
    IF is_enforced(values, "bip65") THEN version_of.bip65
    ELSE IF is_enforced(values, "bip66") THEN version_of.bip66
    ELSE IF is_enforced(values, "bip34") THEN version_of.bip34
    ELSE 0

\* Mutant: the rules start above the block of the checkpoint, not with it.
BuriedAbove(values, point) ==
    /\ values.checkpoint[point] = Named(checkpoint_height[point])
    /\ values.height > checkpoint_height[point]

Buried(values, point) == values.checkpoint[point] = Named(checkpoint_height[point])

is_bip30_exception(values) ==
    values.height \in bip30_exceptions /\ values.hash = Named(values.height)

bip30_rule(values) ==
    LET deactivate == /\ {"bip30", "bip30_deactivate"} \subseteq forks
                      /\ Buried(values, "bip30_deactivate")
        reactivate == /\ deactivate /\ "bip30_reactivate" \in forks
                      /\ values.height >= bip30_reactivate_height
    IN  /\ "bip30" \in forks
        /\ ~deactivate \/ reactivate
        /\ ~is_bip30_exception(values)

activation(values) ==
    UNION {
        forks \cap ConfiguredAlone,
        {r \in {"bip16"} : r \in forks /\ values.timestamp.self >= bip16_activation_time},
        {r \in {"bip34", "bip66", "bip65"} : is_active(values, r)},
        {r \in {"bip68", "bip112", "bip113"} : Buried(values, "bip9_bit0")},
        {r \in {"bip141", "bip143", "bip147"} : Buried(values, "bip9_bit1")},
        {r \in {"bip341", "bip342"} : Buried(values, "bip9_bit2")},
        {r \in {"bip30"} : bip30_rule(values)} }

context(values) ==
    [flags |-> activation(values), timestamp |-> values.timestamp.self,
     median_time_past |-> median_time_past(values), height |-> values.height,
     minimum_block_version |-> minimum_block_version(values),
     work_required |-> work_required(values),
     previous_timestamp |-> IF values.timestamp.ordered = <<>> THEN 0
                            ELSE High(values.timestamp.ordered)]

-----------------------------------------------------------------------------
(* Promotion and population. *)

Enqueue(ordered, value, count) ==
    LET grown == Append(ordered, value)
    IN  IF Len(grown) > count THEN Tail(grown) ELSE grown

to_pool(top) ==
    LET height == top.height + 1
        times == Enqueue(top.timestamp.ordered, top.timestamp.self,
                         timestamp_count(height))
        promote == "retarget" \in forks /\ is_retarget_height(height - 1)
        retarget == IF "ltc_time_warp_patch" \in forks /\ height # 1
                    THEN times[Len(times) - 1] ELSE top.timestamp.self
    IN  [height |-> height,
         hash |-> NullHash,
         checkpoint |-> top.checkpoint,
         cumulative_work |-> top.cumulative_work,
         bits |-> [self |-> 0,
                   ordered |-> Enqueue(top.bits.ordered, top.bits.self, bits_count(height))],
         version |-> [self |-> signal_version,
                      ordered |-> Enqueue(top.version.ordered, top.version.self,
                                          version_count(height))],
         timestamp |-> [self |-> top.timestamp.self,
                        ordered |-> times,
                        retarget |-> IF promote THEN retarget ELSE top.timestamp.retarget]]

\* The tail that to_block and to_header share: the state of a block given that
\* of the pool at its height, and the hash that the state is to have.
Apply(pool, header, hash) ==
    [height |-> pool.height,
     hash |-> hash,
     checkpoint |-> [p \in Checkpoints |->
                        IF pool.height = checkpoint_height[p] THEN hash ELSE pool.checkpoint[p]],
     cumulative_work |-> pool.cumulative_work + proof(header),
     bits |-> [self |-> header.bits, ordered |-> pool.bits.ordered],
     version |-> [self |-> header.version, ordered |-> pool.version.ordered],
     timestamp |-> [self |-> header.timestamp, ordered |-> pool.timestamp.ordered,
                    retarget |-> pool.timestamp.retarget]]

to_block(pool, header) == Apply(pool, header, NullHash)
to_header(parent, header) == Apply(to_pool(parent), header, header.hash)

\* The work of a chain, block by block.
CumulativeWork(c) ==
    LET work[h \in 0 .. Top(c)] ==
            IF h = 0 THEN proof(Block(c, 0)) ELSE work[h - 1] + proof(Block(c, h))
    IN  work[Top(c)]

\* The store answers get_map; the state is then constructed from scratch.
Populate(c) ==
    LET height == Top(c)
        map == get_map(height)
        top == Block(c, height)
        below(count, i) == Block(c, height - count + i - 1)
    IN  [height |-> height,
         hash |-> top.hash,
         checkpoint |-> [p \in Checkpoints |->
                            IF map.checkpoint[p] = Unrequested THEN NullHash
                            ELSE Block(c, map.checkpoint[p]).hash],
         cumulative_work |-> CumulativeWork(c),
         bits |-> [self |-> top.bits,
                   ordered |-> [i \in 1 .. map.bits |-> below(map.bits, i).bits]],
         version |-> [self |-> top.version,
                      ordered |-> [i \in 1 .. map.version |-> below(map.version, i).version]],
         timestamp |-> [self |-> top.timestamp,
                        ordered |-> [i \in 1 .. map.timestamp |->
                                        below(map.timestamp, i).timestamp],
                        retarget |-> IF map.timestamp_retarget = Unrequested THEN 0
                                     ELSE Block(c, map.timestamp_retarget).timestamp]]

-----------------------------------------------------------------------------
(* Actions. *)

is_insufficient_version(ctx, version) ==
    /\ ctx.minimum_block_version # 0
    /\ sign_cast(version) < sign_cast(ctx.minimum_block_version)

is_early_timestamp(ctx) ==
    /\ "time_warp_patch" \in ctx.flags
    /\ ctx.height % retargeting_interval = 0
    /\ ctx.timestamp < floored_subtract(ctx.previous_timestamp, max_timewarp)

\* header::check: the bits are a target no greater than the limit.
check(header) == Expand[header.bits] \in 1 .. Expand[proof_of_work_limit]

\* header::accept in the context of the header's own state.
accept(header, ctx) ==
    /\ ~is_insufficient_version(ctx, header.version)
    /\ header.timestamp > ctx.median_time_past
    /\ header.bits = ctx.work_required
    /\ ~is_early_timestamp(ctx)

\* The headers that may be offered on top of the chain.  Their bits are any;
\* a second branch is explored where a hash matters.
Offered ==
    LET height == Top(chain) + 1
        last == Block(chain, Top(chain)).timestamp
        watched == {checkpoint_height[p] : p \in Checkpoints} \cup bip30_exceptions
    IN  [bits : DOMAIN Expand, version : settings.versions,
         timestamp : {last + d : d \in settings.delays} \cap (0 .. MaxTime),
         hash : {height} \X (IF height \in watched THEN BOOLEAN ELSE {TRUE})]

Join(header, state) ==
    /\ check(header)
    /\ accept(header, context(state))
    /\ chain' = Append(chain, header)
    /\ data' = state
    /\ kind' = "block"
    /\ UNCHANGED settings

\* Parent to header, which asserts that the parent is known by its hash.
Header ==
    /\ "header" \in settings.constructors
    /\ kind = "block" /\ Top(chain) < settings.max_height
    /\ data.hash = Block(chain, Top(chain)).hash
    /\ \E header \in Offered : Join(header, to_header(data, header))

\* Top to pool.
Pool ==
    /\ "pool" \in settings.constructors
    /\ kind = "block" /\ Top(chain) < settings.max_height
    /\ data' = to_pool(data)
    /\ kind' = "pool"
    /\ UNCHANGED <<settings, chain>>

\* Pool to block of the same height.
PoolBlock ==
    /\ "block" \in settings.constructors
    /\ kind = "pool"
    /\ \E header \in Offered : Join(header, to_block(data, header))

\* From scratch, as after a restart.
Restart ==
    /\ "restart" \in settings.constructors
    /\ data' = Populate(chain)
    /\ kind' = "block"
    /\ UNCHANGED <<settings, chain>>

Init ==
    /\ settings \in Networks
    /\ chain = <<Genesis>>
    /\ data = Populate(chain)
    /\ kind = "block"

Next == Header \/ Pool \/ PoolBlock \/ Restart
Spec == Init /\ [][Next]_vars


-----------------------------------------------------------------------------
(* Properties.  The reference definitions read the whole chain. *)

TimeAt(c, height) == Block(c, height).timestamp
PeriodStart(height) == height - (height % retargeting_interval)

\* Where the period that ends below a retarget height begins: one block earlier
\* under the patch of litecoin, except for the first period.
SpanStart(height) ==
    IF "ltc_time_warp_patch" \in forks /\ height # retargeting_interval
    THEN height - retargeting_interval - 1 ELSE height - retargeting_interval

RetargetReference(c, height) ==
    LET base == Block(c, IF "block_storm_patch" \in forks
                             THEN height - retargeting_interval ELSE height - 1).bits
        elapsed == TimeAt(c, height - 1) - TimeAt(c, SpanStart(height))
        span == Max({minimum_timespan, Min({maximum_timespan, elapsed})})
        target == (Expand[base] * span) \div retargeting_interval_seconds
    IN  Max({b \in DOMAIN Expand :
                Expand[b] <= target /\ Expand[b] <= Expand[proof_of_work_limit]})

WorkReference(c, height, time) ==
    IF "retarget" \notin forks THEN Genesis.bits
    ELSE IF height % retargeting_interval = 0 THEN RetargetReference(c, height)
    ELSE IF /\ "difficult" \notin forks
            /\ time - TimeAt(c, height - 1) > 2 * block_spacing_seconds
    THEN proof_of_work_limit
    ELSE Block(c, PeriodStart(height)).bits

\* The work required of the next block, which the code finds in windows that were
\* pushed and popped at every promotion, is what the whole chain says: the bits
\* of the first block of the period, the limit for a late block of a network that
\* is not difficult, and at the end of a period its target scaled by its duration
\* (under the block storm patch the target of its first block), without overflow
\* (work_required, easy_work_required, work_required_retarget).
WorkFollowsChain ==
    data.height > 0 =>
        work_required(data) = WorkReference(chain, data.height, data.timestamp.self)

\* The median time past splits the last blocks below the state in halves, the
\* greater half including it (median_time_past on the promoted window).
MedianFollowsChain ==
    data.height > 0 =>
        LET window == Max({0, data.height - median_time_past_interval})
                        .. (data.height - 1)
            median == median_time_past(data)
        IN  /\ \E h \in window : TimeAt(chain, h) = median
            /\ Cardinality({h \in window : TimeAt(chain, h) < median})
                    <= Cardinality(window) \div 2
            /\ Cardinality({h \in window : TimeAt(chain, h) <= median})
                    > Cardinality(window) \div 2

\* A node that restarts, and populates the state from the store through get_map,
\* has the context and the work of the node that promoted its state block by block
\* (networks whose node may restart).
RestartAgrees ==
    kind = "block" /\ "restart" \in settings.constructors =>
        LET fresh == Populate(chain)
        IN  /\ context(data) = context(fresh)
            /\ data.cumulative_work = fresh.cumulative_work

\* A minimum block version, once enforced by the sample, is never relaxed as the
\* chain grows: accept and activation read versions alike (signed), so that the
\* blocks that accept lets in keep the sample above the threshold.
VersionRatchet ==
    [][data'.height >= data.height =>
        minimum_block_version(data)' >= minimum_block_version(data)]_vars

InChain(point) ==
    /\ Top(chain) >= checkpoint_height[point]
    /\ Block(chain, checkpoint_height[point]).hash = Named(checkpoint_height[point])

Bip30Reference ==
    /\ InChain("bip30_deactivate") => data.height >= bip30_reactivate_height
    /\ ~ /\ kind = "block" /\ Top(chain) \in bip30_exceptions
         /\ Block(chain, Top(chain)).hash = Named(Top(chain))

\* "The bip9 and bip30_deactivate hashes are cached at their checkpoint height,
\* and the cached hash activates the associated rules": on every branch the rules
\* of a checkpoint are active in the state of the block that it names (to_header
\* caches before activation) and in those above it, and in no other; bip30 is given
\* up from that block of its own checkpoint on, and taken up again at the height of
\* its reactivation, but for the excepted blocks (networks that configure them all).
\* "At/above" is the boundary of the comments of get_map; those of activation say
\* "above".
CheckpointActivates ==
    LET flags == activation(data)
    IN  /\ "bip68" \in flags <=> InChain("bip9_bit0")
        /\ "bip141" \in flags <=> InChain("bip9_bit1")
        /\ "bip341" \in flags <=> InChain("bip9_bit2")
        /\ "bip30" \in flags <=> Bip30Reference

\* "litecoin goes back the full interval, so the patched period start is one
\* block earlier" (every period but the first).
PatchedPeriodStart ==
    /\ "ltc_time_warp_patch" \in forks
    /\ is_retarget_height(data.height) /\ data.height > retargeting_interval
    => data.timestamp.retarget = TimeAt(chain, data.height - retargeting_interval - 1)
=============================================================================
