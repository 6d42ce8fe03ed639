------------------------------ MODULE BlockRules ------------------------------
(***************************************************************************)
(* The rules of chain::block and chain::transaction: check, identify,      *)
(* populate, accept and confirm, and the guards of a transaction pool,     *)
(* each with its conditions in the order of the code.                      *)
(*                                                                         *)
(* A block is its list of transactions.  A transaction is a record: id is  *)
(* its hash (that without witness), ins and outs its inputs and the values *)
(* of its outputs, legacy its plain sigops, size and light its nominal     *)
(* size and that of its witness, witness what it holds ("none", "good",    *)
(* "bad": whether scripts accept it), and head what only a coinbase has:   *)
(* whether its script is of a size allowed, the height in it, and its      *)
(* witness commitment (empty if it has none).  Sizes leave out headers.   *)
(* An input is [point, sequence, kind, sigops], kind being which of its    *)
(* scripts sigops counts.                                                  *)
(*                                                                         *)
(* Prevouts are a function from the points found to values; metadata are   *)
(* functions from points: coinbase, height, median, spender.               *)
(***************************************************************************)
EXTENDS MerkleTree, SequencesExt, FiniteSetsExt

CONSTANTS
    MaxValue,           \* max_uint64
    Width,              \* bits of a value
    MaxHeight,          \* max_uint32: the height of what is not confirmed
    InitialSubsidy,     \* initial_block_subsidy_satoshi
    SubsidyInterval,    \* subsidy_interval_blocks
    Maturity,           \* coinbase_maturity
    MaxBlockSize,       \* max_block_size
    MaxBlockWeight,     \* max_block_weight
    MaxBlockSigops,     \* max_block_sigops
    HeavyFactor,        \* heavy_sigops_factor
    HashLimit,          \* hash_limit
    LocktimeThreshold   \* locktime_threshold

ASSUME RulesAssumption ==
    /\ {MaxValue, InitialSubsidy, Maturity, MaxBlockSize, MaxBlockWeight} \subseteq Nat
    /\ {MaxBlockSigops, HashLimit, LocktimeThreshold, MaxHeight} \subseteq Nat
    /\ {Width, SubsidyInterval, HeavyFactor} \subseteq Nat \ {0}

NullPoint == <<NullHash, 0>>
TwoHashes == 64         \* two * hash_size

is_enabled(ctx, rule) == rule \in ctx.rules

\* Mutant: sums wrap at their width.
wrapped_add(a, b) == (a + b) % (MaxValue + 1)
ceilinged_add(a, b) == IF a + b > MaxValue THEN MaxValue ELSE a + b
floored_subtract(a, b) == IF a > b THEN a - b ELSE 0

Sum(values) ==
    LET sum[n \in 0..Len(values)] == IF n = 0 THEN 0 ELSE sum[n - 1] + values[n]
    IN  sum[Len(values)]
CeilingedSum(values) ==
    LET sum[n \in 0..Len(values)] ==
            IF n = 0 THEN 0 ELSE ceilinged_add(sum[n - 1], values[n])
    IN  sum[Len(values)]
SumOf(f(_), list) == Sum([i \in DOMAIN list |-> f(list[i])])
Ceiling(f(_), list) == CeilingedSum([i \in DOMAIN list |-> f(list[i])])
Some(test(_), list) == \E i \in DOMAIN list : test(list[i])
Listed(set(_), list) == UNION {set(list[i]) : i \in DOMAIN list}

\* The first failure of a rule over a list, which the loops return.
FirstFailure(rule(_), list) ==
    LET failed == {i \in DOMAIN list : rule(list[i]) # "success"}
    IN  IF failed = {} THEN "success" ELSE rule(list[Min(failed)])

-------------------------------------------------------------------------------
(* Transactions.                                                           *)

\* What there is of an input and of a transaction.
IsInput(in) ==
    /\ DOMAIN in = {"point", "sequence", "kind", "sigops"}
    /\ in.sigops \in Nat
IsTransaction(tx) ==
    /\ tx = [field \in DOMAIN tx |-> tx[field]]
    /\ DOMAIN tx = {"id", "ins", "outs", "version", "locktime", "legacy", "size", "light",
                    "witness", "head"}
    /\ tx.ins \in Seq(Range(tx.ins)) /\ \A in \in Range(tx.ins) : IsInput(in)
    /\ tx.outs \in Seq(0..MaxValue)
    /\ {tx.locktime, tx.legacy, tx.size, tx.light} \subseteq Nat

is_null(in) == in.point = NullPoint
is_coinbase(tx) == Len(tx.ins) = 1 /\ is_null(tx.ins[1])
is_segregated(tx) == tx.witness # "none"
points(tx) == {tx.ins[i].point : i \in DOMAIN tx.ins}
Created(tx) == {<<tx.id, i>> : i \in DOMAIN tx.outs}

\* hash(true): of the coinbase by convention null, if it has a witness.
WitnessHash(tx) ==
    IF is_segregated(tx) /\ is_coinbase(tx) THEN NullHash
    ELSE Leaf(<<tx.id, tx.witness>>)

weight(size, light) == 3 * size + (size + light)

spend(tx) == Ceiling(LAMBDA value : value, tx.outs)
value(tx, prevouts) ==
    Ceiling(LAMBDA in : IF in.point \in DOMAIN prevouts THEN prevouts[in.point] ELSE 0,
            tx.ins)
fee(tx, prevouts) == floored_subtract(value(tx, prevouts), spend(tx))

\* input::signature_operations and those of outputs, in legacy.  Without the
\* prevout, or without its rule, an embedded or witness script is not seen.
InputSigops(in, ctx, prevouts) ==
    LET bip16 == is_enabled(ctx, "bip16")
        bip141 == is_enabled(ctx, "bip141")
    IN  IF in.point \notin DOMAIN prevouts THEN 0
        ELSE IF bip141 /\ in.kind = "witness" THEN in.sigops
        ELSE IF bip16 /\ bip141 /\ in.kind = "embedded_witness" THEN in.sigops
        ELSE IF bip16 /\ in.kind = "embedded"
             THEN in.sigops * (IF bip141 THEN HeavyFactor ELSE 1)
        ELSE 0
signature_operations(tx, ctx, prevouts) ==
    tx.legacy * (IF is_enabled(ctx, "bip141") THEN HeavyFactor ELSE 1)
    + SumOf(LAMBDA in : InputSigops(in, ctx, prevouts), tx.ins)
SigopsLimit(ctx) ==
    IF is_enabled(ctx, "bip141") THEN HeavyFactor * MaxBlockSigops ELSE MaxBlockSigops

is_absolute_locked(tx, ctx) ==
    LET time == IF is_enabled(ctx, "bip113") THEN ctx.median ELSE ctx.timestamp
        height_time == IF tx.locktime < LocktimeThreshold THEN ctx.height ELSE time
    IN  /\ tx.locktime # 0
        /\ tx.locktime >= height_time
        /\ Some(LAMBDA in : ~in.sequence.final, tx.ins)

\* input::is_relative_locked.  Sequences are [final, off, timed, age].
InputLocked(in, height, median, prevout_height, prevout_median) ==
    /\ ~in.sequence.off
    /\ IF in.sequence.timed
       THEN floored_subtract(median, prevout_median) < in.sequence.age
       ELSE floored_subtract(height, prevout_height) < in.sequence.age
is_relative_locked(tx, ctx, meta) ==
    /\ tx.version >= 2
    /\ Some(LAMBDA in : InputLocked(in, ctx.height, ctx.median,
                                    meta.height[in.point], meta.median[in.point]), tx.ins)
\* A spend within a block has no age, whatever its metadata.
is_internally_locked(tx, in) ==
    /\ tx.version >= 2
    /\ InputLocked(in, 0, 0, 0, 0)

is_coinbase_immature(coinbase_height, height) ==
    coinbase_height = 0 \/ height < coinbase_height + Maturity

is_immature(tx, ctx, meta) ==
    Some(LAMBDA in :
            IF meta.coinbase[in.point]
            THEN is_coinbase_immature(meta.height[in.point], ctx.height)
            ELSE ctx.height < meta.height[in.point], tx.ins)

is_unconfirmed_spend(tx, ctx, meta) ==
    Some(LAMBDA in : ctx.height < meta.height[in.point], tx.ins)

is_confirmed_double_spend(tx, ctx, meta) ==
    Some(LAMBDA in : ctx.height > meta.spender[in.point], tx.ins)

is_unconfirmed_immature(tx, ctx, meta) ==
    Some(LAMBDA in : /\ meta.coinbase[in.point]
                     /\ is_coinbase_immature(meta.height[in.point], ctx.height), tx.ins)
\* Mutant: a spender at any height is taken for unconfirmed.
is_confirmed_conflict_none(tx, meta) == FALSE
is_confirmed_conflict(tx, meta) ==
    Some(LAMBDA in : meta.spender[in.point] \notin {0, MaxHeight}, tx.ins)
is_unconfirmed_conflict(tx, meta) ==
    Some(LAMBDA in : meta.spender[in.point] = 0, tx.ins)

TxCheck(tx) ==
    IF tx.ins = <<>> \/ tx.outs = <<>> THEN "empty_transaction"
    ELSE IF is_coinbase(tx) /\ ~tx.head.sized THEN "invalid_coinbase_script_size"
    ELSE IF ~is_coinbase(tx) /\ Some(is_null, tx.ins) THEN "previous_output_null"
    ELSE "success"

TxCheckContext(tx, ctx) ==
    IF is_absolute_locked(tx, ctx) THEN "absolute_time_locked" ELSE "success"

TxAccept(tx, prevouts) ==
    IF is_coinbase(tx) THEN "success"
    ELSE IF ~(points(tx) \subseteq DOMAIN prevouts) THEN "missing_previous_output"
    ELSE IF spend(tx) > value(tx, prevouts) THEN "spend_exceeds_value"
    ELSE "success"

TxConfirm(tx, ctx, meta) ==
    IF is_coinbase(tx) THEN "success"
    ELSE IF is_enabled(ctx, "bip68") /\ is_relative_locked(tx, ctx, meta)
         THEN "relative_time_locked"
    ELSE IF is_unconfirmed_spend(tx, ctx, meta) THEN "unconfirmed_spend"
    ELSE IF is_immature(tx, ctx, meta) THEN "coinbase_maturity"
    ELSE IF is_confirmed_double_spend(tx, ctx, meta) THEN "confirmed_double_spend"
    ELSE "success"

\* connect: scripts accept the witness.  Nothing else of them is modelled here.
TxConnect(tx) == IF tx.witness = "bad" THEN "script_error" ELSE "success"

-------------------------------------------------------------------------------
(* Guards of a pool: rules that a block applies to all of its transactions *)
(* together, and confirmation where a conflict may be unconfirmed.         *)

check_guard(tx) ==
    IF is_coinbase(tx) THEN "coinbase_transaction"
    ELSE IF Cardinality(points(tx)) # Len(tx.ins) THEN "transaction_internal_double_spend"
    ELSE IF tx.size > MaxBlockSize THEN "transaction_size_limit"
    ELSE "success"

check_guard_context(tx, ctx) ==
    IF ~is_enabled(ctx, "bip141") /\ is_segregated(tx)
    THEN "unexpected_witness_transaction"
    ELSE IF is_enabled(ctx, "bip141") /\ weight(tx.size, tx.light) > MaxBlockWeight
    THEN "transaction_weight_limit"
    ELSE "success"

accept_guard(tx, ctx, prevouts) ==
    IF ~(points(tx) \subseteq DOMAIN prevouts) THEN "missing_previous_output"
    ELSE IF signature_operations(tx, ctx, prevouts) > SigopsLimit(ctx)
         THEN "transaction_sigop_limit"
    ELSE "success"

confirm_guard(tx, ctx, meta) ==
    IF is_coinbase(tx) THEN "success"
    ELSE IF is_enabled(ctx, "bip68") /\ is_relative_locked(tx, ctx, meta)
         THEN "relative_time_locked"
    ELSE IF is_unconfirmed_immature(tx, ctx, meta) THEN "coinbase_maturity"
    ELSE IF is_confirmed_conflict(tx, meta) THEN "confirmed_double_spend"
    ELSE IF is_unconfirmed_conflict(tx, meta) THEN "double_spend"
    ELSE "success"

-------------------------------------------------------------------------------
(* Blocks: check and identify.                                             *)

txids(txs) == [i \in DOMAIN txs |-> txs[i].id]
MerkleRoot(txs) == merkle_root(txids(txs))
WitnessRoot(txs) == merkle_root([i \in DOMAIN txs |-> WitnessHash(txs[i])])

\* A later transaction is spent by an earlier one, or by its own clone.
is_forward_reference(txs) ==
    \E i, j \in 2..Len(txs) : i < j /\ \E p \in points(txs[i]) : p[1] = txs[j].id

is_internal_double_spend(txs) ==
    LET rest == IF txs = <<>> THEN <<>> ELSE Tail(txs)
    IN  SumOf(LAMBDA tx : Len(tx.ins), rest) # Cardinality(Listed(points, rest))

is_malleated64(txs) ==
    /\ txs # <<>> /\ ~is_coinbase(txs[1])
    /\ \A i \in DOMAIN txs : txs[i].size = TwoHashes
is_malleated(txs) == is_malleated64(txs) \/ is_malleated32(txids(txs))

malleated_or(txs, ec) ==
    IF is_malleated(txs) THEN "invalid_transaction_commitment" ELSE ec

BlockSize(txs) == SumOf(LAMBDA tx : tx.size, txs)
BlockLight(txs) == SumOf(LAMBDA tx : tx.light, txs)

check(txs, root, identity) ==
    IF txs = <<>> THEN "empty_block"
    ELSE IF BlockSize(txs) > MaxBlockSize THEN "block_size_limit"
    ELSE IF ~is_coinbase(txs[1]) THEN malleated_or(txs, "first_not_coinbase")
    ELSE IF Some(is_coinbase, Tail(txs)) THEN "extra_coinbases"
    ELSE IF is_forward_reference(txs) THEN "forward_reference"
    ELSE IF is_internal_double_spend(txs)
         THEN malleated_or(txs, "block_internal_double_spend")
    ELSE IF identity /\ MerkleRoot(txs) # root THEN "invalid_transaction_commitment"
    ELSE FirstFailure(TxCheck, txs)

\* The commitment, if any, must be to this witness root and reserved value.
is_invalid_witness_commitment(txs) ==
    LET first == txs[1]
    IN  IF first.head.commit = <<>> THEN Some(is_segregated, txs)
        ELSE ~is_segregated(first)
             \/ first.head.commit # <<WitnessRoot(txs), first.witness>>

\* Mutant: equal roots identify a list.
identify_root(txs, root) ==
    IF MerkleRoot(txs) # root THEN "invalid_transaction_commitment" ELSE "success"
identify(txs, root) ==
    IF is_malleated(txs) \/ MerkleRoot(txs) # root
    THEN "invalid_transaction_commitment" ELSE "success"

identify_context(txs, ctx) ==
    IF txs = <<>> THEN "success"
    ELSE IF IF is_enabled(ctx, "bip141") THEN is_invalid_witness_commitment(txs)
                                         ELSE Some(is_segregated, txs)
    THEN "invalid_witness_commitment" ELSE "success"

HashCount(txs) ==
    Cardinality({txs[i].id : i \in DOMAIN txs}
        \union {p[1] : p \in Listed(points, Tail(txs))})

check_context(txs, ctx, identity) ==
    LET bip141 == is_enabled(ctx, "bip141")
    IN  IF bip141 /\ weight(BlockSize(txs), BlockLight(txs)) > MaxBlockWeight
        THEN "block_weight_limit"
        ELSE IF is_enabled(ctx, "bip34") /\ txs[1].head.height # ctx.height
        THEN "coinbase_height_mismatch"
        ELSE IF is_enabled(ctx, "bip50") /\ HashCount(txs) > HashLimit
        THEN "temporary_hash_limit"
        ELSE IF bip141 /\ identity /\ is_invalid_witness_commitment(txs)
        THEN "invalid_witness_commitment"
        ELSE FirstFailure(LAMBDA tx : TxCheckContext(tx, ctx), txs)

-------------------------------------------------------------------------------
(* Blocks: populate, accept and confirm.                                   *)

\* Spends of the block's own outputs: none of its coinbase, none with an age.
Internal(txs) == Listed(Created, txs)
PopulateInput(txs, ctx, tx, in) ==
    IF in.point \notin Internal(txs) THEN "success"
    ELSE IF Maturity # 0 /\ in.point[1] = txs[1].id THEN "coinbase_maturity"
    ELSE IF is_enabled(ctx, "bip68") /\ is_internally_locked(tx, in)
         THEN "relative_time_locked"
    ELSE "success"
populate(txs, ctx) ==
    FirstFailure(LAMBDA tx : FirstFailure(LAMBDA in : PopulateInput(txs, ctx, tx, in),
                                          tx.ins), Tail(txs))

\* shift_right by the number of halvings, which wraps at the width or, with
\* bip42, leaves nothing.
shift_right(number, shift, overflow) ==
    LET shifted[n \in 0..shift] == IF n = 0 THEN number ELSE shifted[n - 1] \div 2
    IN  IF overflow /\ shift >= Width THEN 0 ELSE shifted[shift % Width]
\* Mutant: the shift is masked with bip42 and leaves nothing without.
subsidy_swapped(ctx) ==
    shift_right(InitialSubsidy, ctx.height \div SubsidyInterval, ~is_enabled(ctx, "bip42"))
subsidy(ctx) ==
    shift_right(InitialSubsidy, ctx.height \div SubsidyInterval, is_enabled(ctx, "bip42"))

fees(txs, prevouts) == Ceiling(LAMBDA tx : fee(tx, prevouts), txs)
is_overspent(txs, ctx, prevouts) ==
    spend(txs[1]) > ceilinged_add(fees(txs, prevouts), subsidy(ctx))

accept(txs, ctx, prevouts) ==
    IF is_overspent(txs, ctx, prevouts) THEN "coinbase_value_limit"
    ELSE IF SumOf(LAMBDA tx : signature_operations(tx, ctx, prevouts), txs)
            > SigopsLimit(ctx)
         THEN "block_sigop_limit"
    ELSE FirstFailure(LAMBDA tx : TxAccept(tx, prevouts), Tail(txs))

connect(txs) == FirstFailure(TxConnect, Tail(txs))
confirm(txs, ctx, meta) ==
    FirstFailure(LAMBDA tx : TxConfirm(tx, ctx, meta), Tail(txs))
===============================================================================
