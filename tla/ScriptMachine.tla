---------------------------- MODULE ScriptMachine ----------------------------
(***************************************************************************)
(* One run of a script: machine::program (the state) under                 *)
(* machine::interpreter (the run loop and the operation handlers).         *)
(*                                                                         *)
(* The script is not fixed in advance: every step of the run loop takes    *)
(* some operation of the program's codes, so that the behaviours are the   *)
(* runs of all scripts of up to a number of operations.  Whether a         *)
(* signature verifies is an input, chosen when it is verified.  Signature  *)
(* capture is off here (SignatureCapture has it on).                       *)
(* A run that ends in error is discarded by its caller, so the stacks that *)
(* a failing handler has partly popped are not tracked.                    *)
(***************************************************************************)
EXTENDS ScriptElement, FiniteSets

CONSTANTS
    Codes,              \* the operation codes scripts are made of
    PushData,           \* the elements that push operations carry
    Programs,           \* the programs that can be constructed, each with the
                        \* scripts to explore: their codes, pushes and length
    Keys32,             \* the blobs that are 32 byte (schnorr) keys
    Sighash,            \* sighash flags of each blob that is an endorsement
    Unhashable,         \* sighash flags for which a v1 hash does not exist
    MaxStack,           \* max_unified_stack_size (1000)
    MaxCountedOps,      \* max_counted_ops (201)
    MaxKeys,            \* max_multisig_public_keys (20)
    SignatureCost,      \* signature_cost (50)
    LocktimeThreshold,  \* locktime_threshold
    Bits                \* bits of a sequence number: [mask, type, disabled, width]

ASSUME BoundsAssumption ==
    /\ MaxStack \in Nat /\ MaxCountedOps \in Nat /\ MaxKeys \in Nat
    /\ SignatureCost \in Nat \ {0}

ASSUME PushAssumption == PushData \subseteq Element

ASSUME ProgramAssumption == \A p \in Programs :
    /\ DOMAIN p = {"rules", "version", "witness", "stack", "tx", "scripts"}
    /\ p.scripts \in [codes : SUBSET Codes, pushes : SUBSET PushData, length : Nat]
    /\ p.witness \in Nat
    /\ p.stack \in Seq(Element)
    /\ "bip342" \in p.rules => p.version = "taproot"
    /\ p.version = "unversioned" => Len(p.stack) <= MaxStack

VARIABLES
    program,                \* the constant members, one of Programs
    status,                 \* "new", "run", "trial", or how the run has ended
    pc,                     \* operations fetched
    primary_,
    alternate_,
    condition_,
    negative_conditions_,
    operations_,
    budget_,
    offset,                 \* script_->offset: operations before the subscript
    multisig_,              \* the signature hash cache
    trial,                  \* the locals of op_check_multisig_verify's loop
    verified,               \* history: hashes given to verification by this op
    charged                 \* history: signature operations charged to budget_

stacks == <<primary_, alternate_>>
scope == <<condition_, negative_conditions_>>
sighashing == <<offset, multisig_>>
history == <<verified, charged>>
vars == <<program, status, pc, stacks, scope, operations_, budget_,
          sighashing, trial, history>>

is_enabled(rule) == rule \in program.rules
Endorsements == DOMAIN Sighash
Flags == {Sighash[b] : b \in Endorsements}

-------------------------------------------------------------------------------
(* Signature hashing.                                                      *)

\* A hash is what it commits to: the position of the subscript, the
\* endorsements stripped from it, and the sighash flags.  A v0 subscript is
\* not stripped, and a v1 hash is given no endorsements to strip.
Stripped(endorsements) ==
    IF is_enabled("bip143") /\ program.version = "segwit"
    THEN {} ELSE endorsements

signature_hash(endorsements, flags) ==
    [offset |-> offset, strip |-> Stripped(endorsements), flags |-> flags]

NoHash == [offset |-> 0, strip |-> {}, flags |-> "none"]
Uncached == [set |-> FALSE, flags |-> "none", hash |-> NoHash]
Cached(endorsements, flags) ==
    [set |-> TRUE, flags |-> flags,
     hash |-> signature_hash(endorsements, flags)]
\* Mutant: the cache survives a change of subscript.
uncache_nothing == UNCHANGED multisig_
uncache == multisig_' = Uncached
cached(cache, flags) == cache.set /\ cache.flags = flags

\* What a verification used, and what it should have.
Verified(cache, endorsements, flags) ==
    [used |-> cache.hash, due |-> signature_hash(endorsements, flags)]

\* ecdsa_split and decode_signature, schnorr_split.
IsEndorsement(e) == e.form = "blob" /\ e.val \in Endorsements
IsXonly(e) == e.form = "blob" /\ e.val \in Keys32

NoTrial == [code |-> "none", keys |-> <<>>, sigs |-> <<>>, key |-> 0, it |-> 0]

-------------------------------------------------------------------------------
(* Conditional stack.                                                      *)

is_balanced == condition_ = <<>>
Back == condition_[Len(condition_)]

\* Mutant: only the innermost branch decides.
is_success_innermost == IF is_balanced THEN TRUE ELSE Back
is_success == negative_conditions_ = 0

begin_if(value) ==
    /\ condition_' = Append(condition_, value)
    /\ negative_conditions_' = negative_conditions_ + (IF value THEN 0 ELSE 1)

\* Mutant: the count is not lowered when a branch is taken after all.
else_if_uncounted ==
    /\ condition_' = [condition_ EXCEPT ![Len(condition_)] = ~Back]
    /\ negative_conditions_' = negative_conditions_ + (IF Back THEN 1 ELSE 0)
else_if_ ==
    /\ condition_' = [condition_ EXCEPT ![Len(condition_)] = ~Back]
    /\ negative_conditions_' = negative_conditions_ + (IF Back THEN 1 ELSE -1)

end_if_ ==
    /\ condition_' = SubSeq(condition_, 1, Len(condition_) - 1)
    /\ negative_conditions_' = negative_conditions_ - (IF Back THEN 0 ELSE 1)

-------------------------------------------------------------------------------
(* The run loop.                                                           *)

Conditionals == {"if", "notif", "else", "endif"}
is_counted(code) == code \notin {"push", "push_underclaimed", "push_oversized"}

ops_increment(code) ==
    IF is_enabled("bip342") \/ ~is_counted(code) THEN operations_
                                                 ELSE operations_ + 1

Exceeded(count) == ~is_enabled("bip342") /\ count > MaxCountedOps

\* Mutant: the alternate stack is not limited.
is_stack_overflow_primary(primary, alternate) == Len(primary) > MaxStack
is_stack_overflow(primary, alternate) ==
    Len(primary) + Len(alternate) > MaxStack

\* The run ends.
End(ec) ==
    /\ status' = ec
    /\ UNCHANGED <<program, pc, stacks, scope, operations_, budget_,
                   sighashing, trial, history>>

\* Mutant: the budget is not made zero based.
InitialBudgetSigned ==
    IF program.version = "taproot" THEN SignatureCost + program.witness ELSE 0
InitialBudget ==
    IF program.version = "taproot" THEN SignatureCost + 1 + program.witness ELSE 0

\* The constructors of program.
Init ==
    /\ program \in Programs
    /\ status = "new"
    /\ pc = 0
    /\ primary_ = program.stack
    /\ alternate_ = <<>>
    /\ condition_ = <<>>
    /\ negative_conditions_ = 0
    /\ operations_ = 0
    /\ budget_ = InitialBudget
    /\ offset = 0
    /\ multisig_ = Uncached
    /\ trial = NoTrial
    /\ verified = {}
    /\ charged = 0

\* initialize: facts of the whole script and of the witness come first.
initialize(prevalid, underflow, push_size, oversized, prefail) ==
    /\ status = "new"
    /\ underflow => prefail
    /\ LET bip342 == is_enabled("bip342")
           witness == program.version # "unversioned"
       IN  End(IF bip342 /\ prevalid THEN "prevalid_script"
               ELSE IF underflow THEN "invalid_script"
               ELSE IF bip342 /\ is_stack_overflow(primary_, alternate_)
                    THEN "invalid_stack_size"
               ELSE IF (bip342 \/ is_enabled("bip141")) /\ witness /\ ~push_size
                    THEN "invalid_witness_stack"
               ELSE IF ~bip342 /\ oversized THEN "invalid_script_size"
               ELSE IF prefail THEN "prefail_script"
               ELSE "run")

\* An operation is available to the next iteration of the loop.
Fetch(code) ==
    /\ status = "run"
    /\ pc < program.scripts.length
    /\ code \in program.scripts.codes

\* A push of too many bytes fails the run, executed or not.
Oversized ==
    /\ Fetch("push_oversized")
    /\ End("invalid_push_data_size")

\* The limit of operations applies to all, executed or not.
OverCount(code) ==
    /\ Fetch(code)
    /\ code # "push_oversized"
    /\ Exceeded(ops_increment(code))
    /\ End("invalid_operation_count")

\* Operations of a branch not taken are only counted.
Skip(code) ==
    /\ Fetch(code)
    /\ code # "push_oversized"
    /\ ~Exceeded(ops_increment(code))
    /\ code \notin Conditionals
    /\ ~is_success
    /\ pc' = pc + 1
    /\ operations_' = ops_increment(code)
    /\ UNCHANGED <<program, status, stacks, scope, budget_, sighashing, trial,
                   history>>

\* run_op is called.
Run(code) ==
    /\ Fetch(code)
    /\ ~Exceeded(ops_increment(code))
    /\ code \in Conditionals \/ is_success

\* The handler has returned op_success.
Return(code) ==
    /\ pc' = pc + 1
    /\ operations_' = ops_increment(code)
    /\ status' = IF is_stack_overflow(primary_', alternate_')
                 THEN "invalid_stack_size" ELSE "run"
    /\ UNCHANGED <<program, trial>>

\* The end of the script.
Finish ==
    /\ status = "run"
    /\ End(IF is_balanced THEN "script_success" ELSE "invalid_stack_scope")

-------------------------------------------------------------------------------
(* Handlers that change only the primary stack: each fails with ec unless  *)
(* ok, and otherwise leaves the primary stack as given.                    *)

StackOp(code, ok, ec, primary) ==
    /\ Run(code)
    /\ IF ok
       THEN /\ primary_' = primary
            /\ UNCHANGED <<alternate_, scope, budget_, sighashing, history>>
            /\ Return(code)
       ELSE End(ec)

size == Len(primary_)
top == primary_[1]

op_push ==
    \E e \in PushData :
        /\ e \in program.scripts.pushes
        /\ StackOp("push", TRUE, "", push(primary_, e))

op_push_underclaimed == StackOp("push_underclaimed", FALSE, "op_push_size", <<>>)

op_nop == StackOp("nop", TRUE, "", primary_)

op_reserved == StackOp("reserved", FALSE, "op_reserved", <<>>)

op_verify ==
    IF size = 0 THEN StackOp("verify", FALSE, "op_verify1", <<>>)
    ELSE StackOp("verify", ToBool(top), "op_verify2", drop(primary_, 1))

\* Fixed rearrangements of the top elements, and the elements they need.
Needs == [drop2 |-> 2, dup2 |-> 2, dup3 |-> 3, over2 |-> 4, rot2 |-> 6,
          swap2 |-> 4, drop |-> 1, dup |-> 1, nip |-> 2, over |-> 2,
          rot |-> 3, swap |-> 2, tuck |-> 2]

Copy(s, i) == push(s, peek(s, i))

Rearranged(code, s) ==
    CASE code = "drop2" -> drop(drop(s, 1), 1)
      [] code = "dup2"  -> Copy(Copy(s, 1), 1)
      [] code = "dup3"  -> Copy(Copy(Copy(s, 2), 2), 2)
      [] code = "over2" -> Copy(Copy(s, 3), 3)
      [] code = "rot2"  -> swap(swap(swap(swap(s, 0, 4), 1, 5), 2, 4), 3, 5)
      [] code = "swap2" -> swap(swap(s, 1, 3), 0, 2)
      [] code = "drop"  -> drop(s, 1)
      [] code = "dup"   -> Copy(s, 0)
      [] code = "nip"   -> drop(swap(s, 0, 1), 1)
      [] code = "over"  -> Copy(s, 1)
      [] code = "rot"   -> swap(swap(s, 1, 2), 0, 1)
      [] code = "swap"  -> swap(s, 0, 1)
      [] code = "tuck"  -> Copy(swap(s, 0, 1), 1)

op_rearrange(code) ==
    IF size < Needs[code] THEN StackOp(code, FALSE, code, <<>>)
    ELSE StackOp(code, TRUE, "", Rearranged(code, primary_))

op_if_dup ==
    IF size = 0 THEN StackOp("ifdup", FALSE, "op_if_dup", <<>>)
    ELSE StackOp("ifdup", TRUE, "",
                 IF ToBool(top) THEN push(primary_, top) ELSE primary_)

op_depth == StackOp("depth", TRUE, "", push(primary_, Number(size)))

op_size ==
    IF size = 0 THEN StackOp("size", FALSE, "op_size", <<>>)
    ELSE StackOp("size", TRUE, "", push(primary_, Number(SizeOf(top))))

\* pop_index32: a number that indexes the stack once it is itself popped.
IsIndex(s) ==
    /\ Len(s) > 0
    /\ IsSigned4(s[1])
    /\ s[1].val >= 0
    /\ s[1].val < Len(s) - 1

op_pick ==
    IF ~IsIndex(primary_) THEN StackOp("pick", FALSE, "op_pick", <<>>)
    ELSE LET rest == drop(primary_, 1)
         IN  StackOp("pick", TRUE, "", push(rest, peek(rest, top.val)))

op_roll ==
    IF ~IsIndex(primary_) THEN StackOp("roll", FALSE, "op_roll", <<>>)
    ELSE LET rest == drop(primary_, 1)
         IN  StackOp("roll", TRUE, "",
                     push(erase(rest, top.val), peek(rest, top.val)))

op_equal ==
    IF size < 2 THEN StackOp("equal", FALSE, "op_equal", <<>>)
    ELSE StackOp("equal", TRUE, "",
                 push(drop(primary_, 2), Boolean(primary_[1] = primary_[2])))

op_equal_verify ==
    IF size < 2 THEN StackOp("equalverify", FALSE, "op_equal_verify1", <<>>)
    ELSE StackOp("equalverify", primary_[1] = primary_[2], "op_equal_verify2",
                 drop(primary_, 2))

\* pop_signed32, pop_binary32, pop_ternary32.
AreNumbers(n) == size >= n /\ \A i \in 1..n : IsSigned4(primary_[i])

UnaryCodes == {"add1", "sub1", "negate", "abs", "not", "nonzero"}

Unary(code, n) ==
    CASE code = "add1"    -> Number(n + 1)
      [] code = "sub1"    -> Number(n - 1)
      [] code = "negate"  -> Number(-n)
      [] code = "abs"     -> Number(IF n < 0 THEN -n ELSE n)
      [] code = "not"     -> Boolean(n = 0)
      [] code = "nonzero" -> Boolean(n # 0)

op_unary(code) ==
    IF ~AreNumbers(1) THEN StackOp(code, FALSE, code, <<>>)
    ELSE StackOp(code, TRUE, "", push(drop(primary_, 1), Unary(code, top.val)))

BinaryCodes == {"add", "sub", "booland", "boolor", "numequal", "numnotequal",
                "lessthan", "greaterthan", "lessthanorequal",
                "greaterthanorequal", "min", "max"}

Binary(code, left, right) ==
    CASE code = "add"                -> Number(left + right)
      [] code = "sub"                -> Number(left - right)
      [] code = "booland"            -> Boolean(left # 0 /\ right # 0)
      [] code = "boolor"             -> Boolean(left # 0 \/ right # 0)
      [] code = "numequal"           -> Boolean(left = right)
      [] code = "numnotequal"        -> Boolean(left # right)
      [] code = "lessthan"           -> Boolean(left < right)
      [] code = "greaterthan"        -> Boolean(left > right)
      [] code = "lessthanorequal"    -> Boolean(~(left > right))
      [] code = "greaterthanorequal" -> Boolean(~(left < right))
      [] code = "min"                -> Number(IF left < right THEN left ELSE right)
      [] code = "max"                -> Number(IF left > right THEN left ELSE right)

op_binary(code) ==
    IF ~AreNumbers(2) THEN StackOp(code, FALSE, code, <<>>)
    ELSE StackOp(code, TRUE, "", push(drop(primary_, 2),
                 Binary(code, primary_[2].val, primary_[1].val)))

op_num_equal_verify ==
    IF ~AreNumbers(2)
    THEN StackOp("numequalverify", FALSE, "op_num_equal_verify1", <<>>)
    ELSE StackOp("numequalverify", primary_[2].val = primary_[1].val,
                 "op_num_equal_verify2", drop(primary_, 2))

op_within ==
    IF ~AreNumbers(3) THEN StackOp("within", FALSE, "op_within", <<>>)
    ELSE StackOp("within", TRUE, "", push(drop(primary_, 3),
                 Boolean(/\ ~(primary_[3].val < primary_[2].val)
                         /\ primary_[3].val < primary_[1].val)))

op_hash(code) ==
    IF size = 0 THEN StackOp(code, FALSE, code, <<>>)
    ELSE StackOp(code, TRUE, "", push(drop(primary_, 1), Digest(code, top)))

-------------------------------------------------------------------------------
(* Conditional, alternate stack and subscript handlers.                    *)

Untouched == UNCHANGED <<budget_, sighashing, history>>

\* op_if and op_notif: within a branch not taken nothing is popped.
Branch(code, negate, ec1, ec2) ==
    /\ Run(code)
    /\ IF ~is_success
       THEN /\ begin_if(negate)
            /\ UNCHANGED stacks
            /\ Untouched
            /\ Return(code)
       ELSE IF size = 0 THEN End(ec1)
       ELSE IF is_enabled("bip342") /\ ~IsMinimalBool(top) THEN End(ec2)
       ELSE /\ begin_if(ToBool(top) # negate)
            /\ primary_' = drop(primary_, 1)
            /\ UNCHANGED alternate_
            /\ Untouched
            /\ Return(code)

op_if == Branch("if", FALSE, "op_if1", "op_if2")
op_notif == Branch("notif", TRUE, "op_notif1", "op_notif2")

op_else ==
    /\ Run("else")
    /\ IF is_balanced THEN End("op_else")
       ELSE else_if_ /\ UNCHANGED stacks /\ Untouched /\ Return("else")

op_endif ==
    /\ Run("endif")
    /\ IF is_balanced THEN End("op_endif")
       ELSE end_if_ /\ UNCHANGED stacks /\ Untouched /\ Return("endif")

op_to_alt_stack ==
    /\ Run("toaltstack")
    /\ IF size = 0 THEN End("op_to_alt_stack")
       ELSE /\ alternate_' = push(alternate_, top)
            /\ primary_' = drop(primary_, 1)
            /\ UNCHANGED scope
            /\ Untouched
            /\ Return("toaltstack")

op_from_alt_stack ==
    /\ Run("fromaltstack")
    /\ IF alternate_ = <<>> THEN End("op_from_alt_stack")
       ELSE /\ primary_' = push(primary_, alternate_[1])
            /\ alternate_' = drop(alternate_, 1)
            /\ UNCHANGED scope
            /\ Untouched
            /\ Return("fromaltstack")

\* set_subscript: the subscript starts after the separator.
op_codeseparator ==
    /\ Run("codeseparator")
    /\ offset' = pc + 1
    /\ uncache
    /\ UNCHANGED <<stacks, scope, budget_, history>>
    /\ Return("codeseparator")

-------------------------------------------------------------------------------
(* Signature handlers.                                                     *)

\* Mutant: no floor.
subtract(a, b) == a - b
floored_subtract(a, b) == IF a > b THEN a - b ELSE 0

\* sigops_increment: fails once nothing is left.
Charged == floored_subtract(budget_, SignatureCost)

\* The result of op_check_sig_verify, given whether the signature verifies.
CheckSig(key, endorsement, valid) ==
    IF is_enabled("bip342")
    THEN IF key = Empty THEN "op_check_sig_empty_key"
         ELSE IF endorsement = Empty THEN "op_check_sig_verify1"
         ELSE IF IsXonly(key) /\ ~IsEndorsement(endorsement)
              THEN "op_check_sig_schnorr1"
         ELSE IF IsXonly(key) /\ Sighash[endorsement.val] \in Unhashable
              THEN "op_check_sig_schnorr2"
         ELSE IF IsXonly(key) /\ ~valid THEN "op_check_sig_schnorr3"
         ELSE IF Charged = 0 THEN "op_check_sig_budget"
         ELSE "op_success"
    ELSE IF endorsement = Empty THEN "op_check_sig_verify2"
         ELSE IF ~IsEndorsement(endorsement)
              THEN "op_check_sig_decode_signature"
         ELSE IF ~valid THEN "op_check_sig_verify4"
         ELSE "op_success"

\* The results that end the run of op_check_sig too.
CheckSigFatal ==
    {"op_check_sig_low_stack"}
    \union (IF is_enabled("bip66") THEN {"op_check_sig_decode_signature"} ELSE {})
    \union (IF is_enabled("bip342")
            THEN {"op_check_sig_empty_key", "op_check_sig_schnorr1",
                  "op_check_sig_schnorr2", "op_check_sig_schnorr3",
                  "op_check_sig_budget"}
            ELSE {})

\* Tapscript charges a signature that is not empty once it has verified.
Charge(ec) ==
    IF is_enabled("bip342") /\ ec = "op_success"
    THEN budget_' = Charged /\ charged' = charged + 1
    ELSE UNCHANGED <<budget_, charged>>

op_check_sig(code) ==
    /\ code \in {"checksig", "checksigverify"}
    /\ Run(code)
    /\ IF size < 2 THEN End("op_check_sig_low_stack")
       ELSE \E valid \in BOOLEAN :
            LET ec == CheckSig(primary_[1], primary_[2], valid)
            IN  IF IF code = "checksig" THEN ec \in CheckSigFatal
                                        ELSE ec # "op_success"
                THEN End(ec)
                ELSE /\ primary_' = IF code = "checksigverify"
                                    THEN drop(primary_, 2)
                                    ELSE push(drop(primary_, 2),
                                              Boolean(ec = "op_success"))
                     /\ Charge(ec)
                     /\ UNCHANGED <<alternate_, scope, sighashing, verified>>
                     /\ Return(code)

\* The hash of a signature is cached, and is keyed by its sighash flags.
op_check_sig_add ==
    /\ Run("checksigadd")
    /\ IF ~is_enabled("bip342") THEN End("op_reserved")
       ELSE IF size < 3 THEN End("op_check_sig_add1")
       ELSE LET key == primary_[1]
                number == primary_[2]
                sig == primary_[3]
                rest == drop(primary_, 3)
                flags == Sighash[sig.val]
                cache == IF cached(multisig_, flags) THEN multisig_
                                                     ELSE Cached({}, flags)
            IN  IF key = Empty THEN End("op_check_sig_add2")
                ELSE IF ~IsSigned4(number) THEN End("op_check_sig_add3")
                ELSE IF sig = Empty
                THEN /\ primary_' = push(rest, Number(number.val))
                     /\ UNCHANGED <<alternate_, scope, budget_, sighashing,
                                    history>>
                     /\ Return("checksigadd")
                ELSE IF IsXonly(key) /\ ~IsEndorsement(sig)
                THEN End("op_check_sig_add4")
                ELSE IF IsXonly(key) /\ flags \in Unhashable
                THEN End("op_check_sig_add5")
                ELSE \E valid \in BOOLEAN :
                     IF IsXonly(key) /\ ~valid THEN End("op_check_sig_add6")
                     ELSE IF Charged = 0 THEN End("op_check_sig_add7")
                     ELSE /\ primary_' = push(rest, Number(number.val + 1))
                          /\ Charge("op_success")
                          /\ IF IsXonly(key)
                             THEN /\ multisig_' = cache
                                  /\ verified' = {Verified(cache, {}, flags)}
                             ELSE UNCHANGED <<multisig_, verified>>
                          /\ UNCHANGED <<alternate_, scope, offset>>
                          /\ Return("checksigadd")

MultisigCodes == {"checkmultisig", "checkmultisigverify"}

\* op_check_multisig_verify up to its loop: counts, keys, signatures, dummy.
op_check_multisig(code) ==
    /\ code \in MultisigCodes
    /\ Run(code)
    /\ LET keys == primary_[1].val
           below == drop(primary_, keys + 1)
           sigs == below[1].val
           rest == drop(below, sigs + 1)
           count == ops_increment(code) + keys
       IN  IF is_enabled("bip342") THEN End("op_reserved")
           ELSE IF ~IsIndex(primary_) THEN End("op_check_multisig_verify1")
           ELSE IF keys > MaxKeys THEN End("op_check_multisig_verify2")
           ELSE IF Exceeded(count) THEN End("op_check_multisig_verify3")
           ELSE IF ~IsIndex(below) THEN End("op_check_multisig_verify5")
           ELSE IF sigs > keys THEN End("op_check_multisig_verify6")
           ELSE IF ToStrictBool(rest[1]) /\ is_enabled("bip147")
                THEN End("op_check_multisig_verify9")
           ELSE /\ status' = "trial"
                /\ trial' = [code |-> code, key |-> 1, it |-> 1,
                             keys |-> SubSeq(primary_, 2, keys + 1),
                             sigs |-> SubSeq(below, 2, sigs + 1)]
                /\ primary_' = drop(rest, 1)
                /\ operations_' = count
                /\ uncache
                /\ verified' = {}
                /\ UNCHANGED <<program, pc, alternate_, scope, budget_, offset,
                               charged>>

\* The loop is over: all endorsements are matched, or the keys are spent.
TrialEnded == trial.it > Len(trial.sigs) \/ trial.key > Len(trial.keys)

EndorsementSet == {trial.sigs[i] : i \in 1..Len(trial.sigs)}

\* One iteration of the loop over the keys.
TryKey ==
    /\ status = "trial"
    /\ ~TrialEnded
    /\ LET sig == trial.sigs[trial.it]
           flags == Sighash[sig.val]
           cache == IF cached(multisig_, flags) THEN multisig_
                    ELSE Cached(EndorsementSet, flags)
       IN  IF sig = Empty
           THEN /\ trial' = [trial EXCEPT !.key = @ + 1]
                /\ UNCHANGED <<multisig_, verified>>
           ELSE /\ IsEndorsement(sig)
                /\ \E valid \in BOOLEAN :
                       trial' = [trial EXCEPT !.key = @ + 1,
                                 !.it = IF valid THEN @ + 1 ELSE @]
                /\ multisig_' = cache
                /\ verified' = verified \union
                       {Verified(cache, EndorsementSet, flags)}
    /\ UNCHANGED <<program, status, pc, stacks, scope, operations_, budget_,
                   offset, charged>>

\* The loop returns: op_check_multisig pushes the result unless it is fatal.
EndTrial ==
    /\ status = "trial"
    /\ LET sig == trial.sigs[trial.it]
           decode == ~TrialEnded /\ sig # Empty /\ ~IsEndorsement(sig)
           success == trial.it > Len(trial.sigs)
       IN  /\ TrialEnded \/ decode
           /\ IF decode /\ (trial.code = "checkmultisigverify" \/ is_enabled("bip66"))
              THEN End("op_check_multisig_decode_signature")
              ELSE IF ~success /\ trial.code = "checkmultisigverify"
              THEN End("op_check_multisig_mismatch")
              ELSE /\ primary_' = IF trial.code = "checkmultisigverify"
                                  THEN primary_
                                  ELSE push(primary_, Boolean(success))
                   /\ pc' = pc + 1
                   /\ status' = IF is_stack_overflow(primary_', alternate_)
                                THEN "invalid_stack_size" ELSE "run"
                   /\ trial' = NoTrial
                   /\ UNCHANGED <<program, alternate_, scope, operations_,
                                  budget_, sighashing, history>>

-------------------------------------------------------------------------------
(* Locktime handlers, which only read.                                     *)

LocktimeOp(code, ec) ==
    StackOp(code, ec = "op_success", ec, primary_)

op_check_locktime_verify ==
    LocktimeOp("checklocktimeverify",
        IF ~is_enabled("bip65") THEN "op_success"
        ELSE IF program.tx.final THEN "op_check_locktime_verify1"
        ELSE IF size = 0 THEN "op_check_locktime_verify2"
        ELSE IF ~IsSigned5(top) \/ top.val < 0 THEN "op_check_locktime_verify2"
        ELSE IF (top.val < LocktimeThreshold)
                    # (program.tx.locktime < LocktimeThreshold)
             THEN "op_check_locktime_verify3"
        ELSE IF top.val > program.tx.locktime THEN "op_check_locktime_verify4"
        ELSE "op_success")

get_right(value, bit) == (value \div bit) % 2 = 1

op_check_sequence_verify ==
    LET value == top.val % Bits.width
        sequence == program.tx.sequence
    IN  LocktimeOp("checksequenceverify",
        IF ~is_enabled("bip112") THEN "op_success"
        ELSE IF size = 0 THEN "op_check_sequence_verify1"
        ELSE IF ~IsSigned5(top) \/ top.val < 0 THEN "op_check_sequence_verify1"
        ELSE IF get_right(value, Bits.disabled) THEN "op_success"
        ELSE IF program.tx.version < 2 THEN "op_check_sequence_verify2"
        ELSE IF get_right(sequence, Bits.disabled)
             THEN "op_check_sequence_verify3"
        ELSE IF get_right(value, Bits.type) # get_right(sequence, Bits.type)
             THEN "op_check_sequence_verify4"
        ELSE IF value % Bits.mask > sequence % Bits.mask
             THEN "op_check_sequence_verify5"
        ELSE "op_success")

-------------------------------------------------------------------------------
StackHandlers ==
    \/ op_push \/ op_push_underclaimed \/ op_nop \/ op_reserved \/ op_verify
    \/ \E code \in DOMAIN Needs : op_rearrange(code)
    \/ op_if_dup \/ op_depth \/ op_size \/ op_pick \/ op_roll
    \/ op_equal \/ op_equal_verify
    \/ \E code \in UnaryCodes : op_unary(code)
    \/ \E code \in BinaryCodes : op_binary(code)
    \/ op_num_equal_verify \/ op_within
    \/ \E code \in DOMAIN HashIndex : op_hash(code)
    \/ op_check_locktime_verify \/ op_check_sequence_verify

ScopeHandlers == op_if \/ op_notif \/ op_else \/ op_endif

SignatureHandlers ==
    \/ \E code \in {"checksig", "checksigverify"} : op_check_sig(code)
    \/ op_check_sig_add
    \/ \E code \in MultisigCodes : op_check_multisig(code)
    \/ TryKey
    \/ EndTrial

\* The caller has the result.
Ended == status \notin {"new", "run", "trial"}
Terminated == Ended /\ UNCHANGED vars

Next ==
    \/ \E prevalid, underflow, push_size, oversized, prefail \in BOOLEAN :
          initialize(prevalid, underflow, push_size, oversized, prefail)
    \/ Oversized
    \/ \E code \in Codes : OverCount(code) \/ Skip(code)
    \/ StackHandlers
    \/ ScopeHandlers
    \/ op_to_alt_stack
    \/ op_from_alt_stack
    \/ op_codeseparator
    \/ SignatureHandlers
    \/ Finish
    \/ Terminated

Spec == Init /\ [][Next]_vars

-------------------------------------------------------------------------------
(* Properties.                                                             *)

Hash == [offset : Nat, strip : SUBSET Element, flags : Flags \union {"none"}]

TypeOK ==
    /\ program \in Programs
    /\ pc \in Nat
    /\ primary_ \in Seq(Element)
    /\ alternate_ \in Seq(Element)
    /\ condition_ \in Seq(BOOLEAN)
    /\ negative_conditions_ \in Nat
    /\ operations_ \in Nat
    /\ budget_ \in Nat
    /\ offset \in Nat
    /\ multisig_ \in [set : BOOLEAN, flags : Flags \union {"none"}, hash : Hash]
    /\ trial \in [code : MultisigCodes \union {"none"}, keys : Seq(Element),
                 sigs : Seq(Element), key : Nat, it : Nat]
    /\ verified \subseteq [used : Hash, due : Hash]
    /\ charged \in Nat

\* The count that is_success tests in place of a search of the conditional
\* stack is the number of branches not taken, whatever IF, NOTIF, ELSE and
\* ENDIF came before (begin_if, else_if_, end_if_).
NegativeCount ==
    negative_conditions_ =
        Cardinality({i \in 1..Len(condition_) : ~condition_[i]})

FirstFalse ==
    IF \E i \in 1..Len(condition_) : ~condition_[i]
    THEN CHOOSE i \in 1..Len(condition_) :
            ~condition_[i] /\ \A j \in 1..(i - 1) : condition_[j]
    ELSE 0

Scope == INSTANCE ConditionalScope
            WITH depth <- Len(condition_), notTaken <- FirstFalse,
                 executing <- is_success

\* The conditional stack implements the scope rule: a branch nested in one not
\* taken, even a NOTIF (which records itself as taken there), never resumes
\* execution, and the counter agrees with the rule at every operation.
ScopeImplemented == Scope!Spec

\* A run goes on only within its limits.  Both stacks together exceed theirs only
\* before the first operation of a run (a witness stack of v0 is not checked
\* until then), although the limit is checked only after operations that
\* execute; and operations, executed or not, with the keys of multisigs, are no
\* more than may be counted, though two places count them (run, ops_increment).
LimitsKept ==
    status \in {"run", "trial"} =>
        /\ pc > 0 => Len(primary_) + Len(alternate_) <= MaxStack
        /\ ~is_enabled("bip342") => operations_ <= MaxCountedOps

\* The unsigned, floored budget is the signed one of bip342: a tapscript goes
\* on while its signature operations cost no more than a cost and the witness
\* size, and is failed for its budget only by one more (sigops_increment).
BudgetIsSigned ==
    /\ is_enabled("bip342") =>
        SignatureCost * charged <= SignatureCost + program.witness
    /\ status \in {"op_check_sig_budget", "op_check_sig_add7"} =>
        SignatureCost * (charged + 1) > SignatureCost + program.witness

\* Every signature hash taken from the cache is the one that the operation
\* would compute: for the current subscript and its own endorsements
\* (cached, uncache, set_hash, set_subscript).
CacheFresh == \A v \in verified : v.used = v.due

\* The swaps, copies and drops of the stack handlers amount to the documented
\* rearrangements: each leaves the listed elements of the old stack (counting
\* from the top) above what lies under those it needs.
Documented ==
    [drop2 |-> <<>>, dup2 |-> <<1, 2, 1, 2>>, dup3 |-> <<1, 2, 3, 1, 2, 3>>,
     over2 |-> <<3, 4, 1, 2, 3, 4>>, rot2 |-> <<5, 6, 1, 2, 3, 4>>,
     swap2 |-> <<3, 4, 1, 2>>, drop |-> <<>>, dup |-> <<1, 1>>,
     nip |-> <<1>>, over |-> <<2, 1, 2>>, rot |-> <<3, 1, 2>>,
     swap |-> <<2, 1>>, tuck |-> <<1, 2, 1>>]

RearrangedAsDocumented ==
    \A code \in program.scripts.codes \intersect DOMAIN Needs :
        Fetch(code) /\ size >= Needs[code] =>
        Rearranged(code, primary_) =
            [i \in 1..Len(Documented[code]) |-> primary_[Documented[code][i]]]
                \o drop(primary_, Needs[code])

===============================================================================
