--------------------------- MODULE ScriptConnection ---------------------------
(***************************************************************************)
(* The connection of an input to the output it spends                      *)
(* (interpreter::connect): runs of the input script, the output script,    *)
(* the embedded script and the witness script, each on the stack that the  *)
(* one before has left it, on threads of their own.                        *)
(*                                                                         *)
(* The operations of a script are those that tell connections apart; what  *)
(* the others do is in ScriptMachine.  An operation is a string, which     *)
(* pushes itself unless it is one of Operators.  A script has a type, that *)
(* of its pattern, and a target: what it was made of, for scripts that are *)
(* a hash.  The position in a script from which signatures are made is     *)
(* kept in the script object, which programs may share.                    *)
(***************************************************************************)
EXTENDS Integers, Sequences, SequencesExt, FiniteSets, FiniteSetsExt

CONSTANTS
    Threads,
    Scripts,    \* from names to [ops, type, target]
    Works       \* functions from threads to [spend, rules]: what is connected

\* A spend is [input, prevout, witness]: two names of scripts, and a stack of
\* elements, the top last.  rules is a sequence of sets of rules: the spend is
\* connected under each of them in turn.

\* Scripts kept for the life of the process.
Static == {"checksig_script", "success_script"}

\* A script that is a hash has the pattern of one, and is of a script; the scripts
\* that stand for a witness are there, and those that are kept have no separator.
ASSUME ScriptsAssumption ==
    /\ Static \union {"key_hash_script"} \subseteq DOMAIN Scripts
    /\ \A name \in DOMAIN Scripts :
        /\ Scripts[name].ops \in Seq(STRING)
        /\ Scripts[name].type = "script_hash" => Scripts[name].ops = <<"hash">>
        /\ Scripts[name].type \in {"script_hash", "v0_script", "v1_key"} =>
            Scripts[name].target \in DOMAIN Scripts
    /\ \A name \in Static : "separator" \notin Range(Scripts[name].ops)

ASSUME ThreadsAssumption == "static" \notin Threads

\* Rules are activated in an order: bip16 before bip141, and those of taproot at once.
ASSUME WorksAssumption ==
    \A connects \in Works : \A t \in Threads :
        /\ {connects[t].spend.input, connects[t].spend.prevout} \subseteq DOMAIN Scripts
        /\ connects[t].spend.witness \in Seq(STRING)
        /\ connects[t].rules \in Seq(SUBSET STRING)
        /\ \A i \in DOMAIN connects[t].rules :
            /\ "bip141" \in connects[t].rules[i] => "bip16" \in connects[t].rules[i]
            /\ "bip341" \in connects[t].rules[i] <=> "bip342" \in connects[t].rules[i]

VARIABLES
    work,
    round,      \* of each thread: the set of rules it is at
    run,        \* the program that runs: see Program
    stack,      \* of the program that runs
    left,       \* what the input script has left
    offset,     \* of script objects: the operation after the last separator
    results     \* of each thread, by round

vars == <<work, round, run, stack, left, offset, results>>

Operators == {"drop", "separator", "checksig", "checkkey", "hash", "locktime",
              "success", "fail"}

\* phase, script object, next operation, and the operation after the separator
\* that this program has met last.
Program(phase, object, at, own) == [phase |-> phase, object |-> object, at |-> at, own |-> own]
Idle == Program("idle", <<>>, 1, 1)
Advanced(program, separates) ==
    Program(program.phase, program.object, program.at + 1,
            IF separates THEN program.at + 1 ELSE program.own)

Spend(t) == work[t].spend
Rules(t) == work[t].rules[round[t]]
is_enabled(active, rule) == rule \in active

\* Static scripts are the same object for all; others are of the transaction that
\* a thread connects, or made for a run.
Object(t, name) == <<name, IF name \in Static THEN "static" ELSE t>>
Ops(object) == Scripts[object[1]].ops
Type(name) == Scripts[name].type

\* The old protocol does not transmit witnesses.
Sent(active, witness) == IF is_enabled(active, "bip141") THEN witness ELSE <<>>
Witness(t) == Sent(Rules(t), Spend(t).witness)

is_relaxed_push_pattern(ops) == Range(ops) \intersect Operators = {}
is_nominal_push_pattern(ops) == Len(ops) = 1 /\ is_relaxed_push_pattern(ops)
is_pay_to_script_hash(active, name) ==
    is_enabled(active, "bip16") /\ Type(name) = "script_hash"
WitnessTypes == {"v0_key", "v0_script", "v0_other", "v1_key", "v1_other", "reserved"}
is_pay_to_witness(active, name) ==
    is_enabled(active, "bip141") /\ Type(name) \in WitnessTypes

IsTrue(elements, clean) ==
    /\ elements # <<>> /\ Last(elements) # "false"
    /\ clean => Len(elements) = 1

-------------------------------------------------------------------------------
Init ==
    /\ work \in Works
    /\ round = [t \in Threads |-> 1]
    /\ run = [t \in Threads |-> Idle]
    /\ stack = [t \in Threads |-> <<>>]
    /\ left = [t \in Threads |-> <<>>]
    /\ offset = [object \in (DOMAIN Scripts) \X (Threads \union {"static"}) |-> 1]
    /\ results = [t \in Threads |-> <<>>]

\* Mutant: the position stays where an earlier program has left it.
clear_offset_never(objects) == offset
clear_offset(objects) ==
    [object \in DOMAIN offset |-> IF object \in objects THEN 1 ELSE offset[object]]

\* A program is constructed, with a stack.
Run(t, phase, name, elements) ==
    /\ run' = [run EXCEPT ![t] = Program(phase, Object(t, name), 1, 1)]
    /\ stack' = [stack EXCEPT ![t] = elements]
    /\ offset' = clear_offset({Object(t, name)})
    /\ UNCHANGED <<work, round, results>>

\* connect returns: programs are destroyed, and the next round may begin.
Return(t, code) ==
    /\ results' = [results EXCEPT ![t] = Append(@, code)]
    /\ round' = [round EXCEPT ![t] = @ + 1]
    /\ run' = [run EXCEPT ![t] = Idle]
    /\ stack' = [stack EXCEPT ![t] = <<>>]
    /\ left' = [left EXCEPT ![t] = <<>>]
    /\ offset' = clear_offset({run[t].object, Object(t, Spend(t).input),
                               Object(t, Spend(t).prevout)})
    /\ UNCHANGED work

connect(t) ==
    /\ run[t].phase = "idle"
    /\ round[t] <= Len(work[t].rules)
    /\ Run(t, "input", Spend(t).input, <<>>)
    /\ UNCHANGED left

-------------------------------------------------------------------------------
(* Programs.                                                               *)

Runs(t) == run[t].phase # "idle"
\* The rule is masked in all programs but those of taproot.
HasSuccess(active, phase, name) ==
    /\ phase = "taproot" /\ is_enabled(active, "bip342")
    /\ "success" \in Range(Scripts[name].ops)
IsPrevalid(t) == HasSuccess(Rules(t), run[t].phase, run[t].object[1])
Remains(t) == run[t].at <= Len(Ops(run[t].object))
op(t) == Ops(run[t].object)[run[t].at]

\* When an operation fails, and what it makes of the stack if not.
Fails(active, code, elements) ==
    \/ code \in {"fail", "success"}
    \/ code = "locktime" /\ is_enabled(active, "bip65")
    \/ code \in {"drop", "checksig", "checkkey", "hash"} /\ elements = <<>>
    \/ code = "checkkey" /\ Last(elements) # "key"
Apply(name, code, elements) ==
    LET expected == IF code = "checksig" THEN "signature" ELSE Scripts[name].target
    IN  IF code \notin Operators THEN Append(elements, code)
        ELSE IF code \in {"separator", "locktime"} THEN elements
        ELSE IF code \in {"drop", "checkkey"} THEN Front(elements)
        ELSE Append(Front(elements), IF Last(elements) = expected THEN "true" ELSE "false")

\* set_subscript moves the position of the object past the separator.
Operation(t) ==
    /\ Runs(t) /\ ~IsPrevalid(t) /\ Remains(t)
    /\ LET separates == op(t) = "separator"
       IN  IF Fails(Rules(t), op(t), stack[t]) THEN Return(t, "script_error")
           ELSE /\ stack' = [stack EXCEPT ![t] = Apply(run[t].object[1], op(t), @)]
                /\ run' = [run EXCEPT ![t] = Advanced(run[t], separates)]
                /\ offset' = IF separates
                             THEN [offset EXCEPT ![run[t].object] = run[t].at + 1]
                             ELSE offset
                /\ UNCHANGED <<work, round, left, results>>

-------------------------------------------------------------------------------
(* Transitions between programs.                                           *)

Ended(t, phase) == run[t].phase = phase /\ ~Remains(t) /\ ~IsPrevalid(t)

\* The script that a witness holds or stands for, and the stack that is left to it.
Extracted(code, script, elements) == [code |-> code, script |-> script, stack |-> elements]
Invalid == Extracted("invalid_witness", "", <<>>)

extract_segwit(name, witness) ==
    IF Type(name) = "v0_key" /\ Len(witness) = 2
    THEN Extracted("success", "key_hash_script", witness)
    ELSE IF /\ Type(name) = "v0_script" /\ witness # <<>>
            /\ Last(witness) = Scripts[name].target
    THEN Extracted("success", Last(witness), Front(witness))
    ELSE Invalid

drop_annex(witness) ==
    IF Len(witness) > 1 /\ Last(witness) = "annex" THEN Front(witness) ELSE witness

extract_taproot(name, witness) ==
    LET elements == drop_annex(witness)
        control == Last(elements)
        script == Last(Front(elements))
        opened == script = Scripts[name].target
    IN  IF Type(name) = "v1_other" THEN Extracted("success", "success_script", <<>>)
        ELSE IF elements = <<>> THEN Invalid
        ELSE IF Len(elements) = 1 THEN Extracted("success", "checksig_script", elements)
        ELSE IF control \notin {"control", "control_leaf"} THEN Invalid
        ELSE IF ~opened THEN Extracted("invalid_commitment", "", <<>>)
        ELSE IF control = "control" THEN Extracted("success", script, Front(Front(elements)))
        ELSE Extracted("success", "success_script", <<>>)

\* Versions are reserved for the rules to come: they succeed.  An embedded
\* program of taproot does as well.
IsTaproot(name) == Type(name) \in {"v1_key", "v1_other"}
\* Mutant: taproot is enforced before it is active.
Reserved_inactive(active, name, embedded) ==
    Type(name) = "reserved" \/ (IsTaproot(name) /\ embedded)
Reserved(active, name, embedded) ==
    \/ Type(name) = "reserved"
    \/ IsTaproot(name) /\ (embedded \/ ~is_enabled(active, "bip341"))

PhaseOf(name) == IF IsTaproot(name) THEN "taproot" ELSE "segwit"
extract(name, witness) ==
    IF IsTaproot(name) THEN extract_taproot(name, witness) ELSE extract_segwit(name, witness)

connect_witness(t, name, embedded) ==
    LET extracted == extract(name, Witness(t))
    IN  IF Reserved(Rules(t), name, embedded) THEN Return(t, "success")
        ELSE IF extracted.code # "success" THEN Return(t, extracted.code)
        ELSE /\ Run(t, PhaseOf(name), extracted.script, extracted.stack)
             /\ UNCHANGED left

InputEnds(t) ==
    /\ Ended(t, "input")
    /\ left' = [left EXCEPT ![t] = stack[t]]
    /\ Run(t, "output", Spend(t).prevout, stack[t])

OutputEnds(t) ==
    LET prevout == Spend(t).prevout
        ops == Scripts[Spend(t).input].ops
    IN  /\ Ended(t, "output")
        /\ IF ~IsTrue(stack[t], FALSE) THEN Return(t, "stack_false")
           ELSE IF is_pay_to_script_hash(Rules(t), prevout)
           THEN IF ~is_relaxed_push_pattern(ops) THEN Return(t, "invalid_script_embed")
                ELSE /\ Run(t, "embedded", Last(left[t]), Front(left[t]))
                     /\ UNCHANGED left
           ELSE IF is_pay_to_witness(Rules(t), prevout)
           THEN IF ops # <<>> THEN Return(t, "dirty_witness")
                ELSE connect_witness(t, prevout, FALSE)
           ELSE Return(t, IF Witness(t) # <<>> THEN "unexpected_witness" ELSE "success")

EmbeddedEnds(t) ==
    LET embedded == run[t].object[1]
    IN  /\ Ended(t, "embedded")
        /\ IF ~IsTrue(stack[t], FALSE) THEN Return(t, "stack_false")
           ELSE IF is_pay_to_witness(Rules(t), embedded)
           THEN IF ~is_nominal_push_pattern(Scripts[Spend(t).input].ops)
                THEN Return(t, "dirty_embed")
                ELSE connect_witness(t, embedded, TRUE)
           ELSE Return(t, IF Witness(t) # <<>> THEN "unexpected_witness" ELSE "success")

WitnessEnds(t) ==
    /\ Ended(t, "segwit") \/ Ended(t, "taproot")
    /\ Return(t, IF IsTrue(stack[t], TRUE) THEN "success" ELSE "stack_false")

\* A tapscript with a code of success is not run.
Prevalid(t) ==
    /\ IsPrevalid(t)
    /\ Return(t, "success")

Next ==
    \E t \in Threads :
        \/ connect(t) \/ Operation(t) \/ InputEnds(t) \/ OutputEnds(t)
        \/ EmbeddedEnds(t) \/ WitnessEnds(t) \/ Prevalid(t)

Spec == Init /\ [][Next]_vars

-------------------------------------------------------------------------------
(* Properties.                                                             *)

\* Every rule is a soft fork: a spend that connects under rules connects under
\* those of them that were there before (connect, connect_embedded,
\* connect_witness).
OldNodesAgree ==
    \A t \in Threads : \A i, j \in DOMAIN results[t] :
        /\ results[t][i] = "success"
        /\ work[t].rules[j] \subseteq work[t].rules[i]
        => results[t][j] = "success"

\* A signature is made of the script from the separator that its own program has
\* met last, though the position is kept in objects that other programs have
\* used before, or use at the same time (set_subscript, clear_offset).
SubscriptOwn ==
    \A t \in Threads :
        Runs(t) /\ ~IsPrevalid(t) /\ Remains(t) /\ op(t) = "checksig" =>
            offset[run[t].object] = run[t].own
===============================================================================
