------------------------ MODULE ScriptConnectionProofs ------------------------
(***************************************************************************)
(* Proofs about ScriptConnection, for any threads, scripts of any length,  *)
(* spends and sequences of rules.                                          *)
(***************************************************************************)
EXTENDS ScriptConnection, SequenceTheorems, WellFoundedInduction,
        NaturalsInduction, TLAPS

Phases == {"idle", "input", "output", "embedded", "segwit", "taproot"}
Objects == (DOMAIN Scripts) \X (Threads \union {"static"})

\* Elements of a stack, and what connect returns.
Element == STRING \union {"true", "false"}
Code == {"success", "script_error", "stack_false", "invalid_script_embed", "dirty_witness",
         "dirty_embed", "unexpected_witness", "invalid_witness", "invalid_commitment"}

ConnectionTypeOK ==
    /\ work \in Works
    /\ round \in [Threads -> Nat]
    /\ run \in [Threads -> [phase : Phases, object : Objects \union {<<>>},
                            at : Nat, own : Nat]]
    /\ stack \in [Threads -> Seq(Element)]
    /\ left \in [Threads -> Seq(Element)]
    /\ offset \in [Objects -> Nat]
    /\ results \in [Threads -> Seq(Code)]

\* Each round has a result, but for the one that a thread is at.
RoundOK(t) ==
    /\ round[t] = Len(results[t]) + 1 /\ Len(results[t]) <= Len(work[t].rules)
    /\ Runs(t) => round[t] \in 1 .. Len(work[t].rules)

\* A program runs an object of its thread or a static one, and the position of
\* the object is the program's own.
ObjectOK(t) ==
    Runs(t) =>
        /\ run[t].object[1] \in DOMAIN Scripts
        /\ run[t].object = Object(t, run[t].object[1])
        /\ run[t].at \in 1 .. Len(Ops(run[t].object)) + 1
        /\ offset[run[t].object] = run[t].own

\* Static scripts have no separator, so nothing moves their position.
StaticOK == \A name \in Static : offset[<<name, "static">>] = 1

\* What the pattern of a script hash makes of the stack of the input script.
HashOK(t) ==
    run[t].phase = "output" =>
        /\ run[t].object[1] = Spend(t).prevout
        /\ Type(Spend(t).prevout) = "script_hash" =>
            /\ run[t].at = 1 => stack[t] = left[t]
            /\ run[t].at = 2 =>
                /\ left[t] # <<>>
                /\ Last(left[t]) # Scripts[Spend(t).prevout].target =>
                    Last(stack[t]) = "false"

ConnectionInv ==
    /\ ConnectionTypeOK
    /\ StaticOK
    /\ \A t \in Threads : RoundOK(t) /\ ObjectOK(t) /\ HashOK(t)

-------------------------------------------------------------------------------
(* Stacks.                                                                 *)

\* A stack without its top, and the top.
LEMMA FrontLast ==
    ASSUME NEW S, NEW s \in Seq(S), s # <<>>
    PROVE  /\ Front(s) \in Seq(S) /\ Last(s) \in S
           /\ Len(s) > 0 /\ Len(Front(s)) = Len(s) - 1
<1>1. Len(s) \in Nat /\ Len(s) > 0
  BY EmptySeq
<1>2. Last(s) \in S
  BY <1>1, ElementOfSeq DEF Last
<1>3. 1 \in Int /\ Len(s) - 1 \in Int /\ \A i \in 1 .. (Len(s) - 1) : s[i] \in S
  BY <1>1, ElementOfSeq
<1>4. /\ SubSeq(s, 1, Len(s) - 1) \in Seq(S)
      /\ Len(SubSeq(s, 1, Len(s) - 1)) =
            IF 1 <= Len(s) - 1 THEN (Len(s) - 1) - 1 + 1 ELSE 0
  BY <1>3, SubSeqProperties
<1>5. \A n \in Nat : n > 0 => (IF 1 <= n - 1 THEN (n - 1) - 1 + 1 ELSE 0) = n - 1
  OBVIOUS
<1> QED
  BY <1>1, <1>2, <1>4, <1>5, Zenon DEF Front

LEMMA StringsAreElements ==
    ASSUME NEW s \in Seq(STRING)
    PROVE  s \in Seq(Element)
<1>1. Len(s) \in Nat /\ s \in [1 .. Len(s) -> STRING]
  BY LenProperties
<1>2. s \in [1 .. Len(s) -> Element]
  BY <1>1 DEF Element
<1> QED
  BY <1>1, <1>2, SeqDef, ZenonT(40)

LEMMA LastAppended ==
    ASSUME NEW S, NEW s \in Seq(S), NEW e \in S
    PROVE  Append(s, e) \in Seq(S) /\ Append(s, e) # <<>> /\ Last(Append(s, e)) = e
<1>1. Append(s, e) \in Seq(S) /\ Len(Append(s, e)) = Len(s) + 1 /\ Len(s) \in Nat
      /\ Append(s, e)[Len(s) + 1] = e
  BY AppendProperties, LenProperties
<1> QED
  BY <1>1, EmptySeq DEF Last

\* An operation leaves a stack of elements.
LEMMA ApplyType ==
    ASSUME NEW active, NEW name, NEW code \in Element, NEW elements \in Seq(Element),
           ~Fails(active, code, elements)
    PROVE  Apply(name, code, elements) \in Seq(Element)
<1>1. Append(elements, code) \in Seq(Element)
  BY LastAppended
<1>2. CASE code \in {"drop", "checksig", "checkkey", "hash"}
  <2> DEFINE rest == Front(elements)
  <2>1. rest \in Seq(Element)
    BY <1>2, FrontLast DEF Fails
  <2>2. Append(rest, "true") \in Seq(Element) /\ Append(rest, "false") \in Seq(Element)
    <3>1. "true" \in Element /\ "false" \in Element
      BY DEF Element
    <3> HIDE DEF rest
    <3> QED BY <2>1, <3>1, LastAppended
  <2> QED BY <1>1, <1>2, <2>1, <2>2 DEF Apply, Operators
<1>3. CASE code \notin {"drop", "checksig", "checkkey", "hash"}
  BY <1>1, <1>3 DEF Apply, Operators, Fails
<1> QED
  BY <1>2, <1>3

-------------------------------------------------------------------------------
(* Objects.                                                                *)

LEMMA ObjectIs ==
    ASSUME NEW t \in Threads, NEW name \in DOMAIN Scripts
    PROVE  /\ Object(t, name) \in Objects
           /\ Object(t, name)[1] = name
           /\ name \in Static => Object(t, name) = <<name, "static">>
           /\ name \notin Static => Object(t, name) = <<name, t>>
BY DEF Object, Objects

\* The position of an object is cleared or kept.
LEMMA Cleared ==
    ASSUME NEW objects, offset \in [Objects -> Nat]
    PROVE  /\ clear_offset(objects) \in [Objects -> Nat]
           /\ \A object \in Objects : clear_offset(objects)[object] =
                IF object \in objects THEN 1 ELSE offset[object]
BY DEF clear_offset

\* Clearing any objects leaves what static scripts and programs of other threads
\* count on, if those objects are of this thread or static.
LEMMA ClearKeeps ==
    ASSUME ConnectionInv, NEW t \in Threads, NEW objects,
           \A object \in objects :
                object \in Objects =>
                    \E name \in DOMAIN Scripts : object = Object(t, name),
           offset' = clear_offset(objects)
    PROVE  /\ StaticOK'
           /\ \A u \in Threads \ {t} : Runs(u) => offset'[run[u].object] = run[u].own
<1>0. offset \in [Objects -> Nat] /\ StaticOK
  BY DEF ConnectionInv, ConnectionTypeOK
<1>1. StaticOK'
  <2> SUFFICES ASSUME NEW name \in Static PROVE offset'[<<name, "static">>] = 1
    BY DEF StaticOK
  <2>1. <<name, "static">> \in Objects
    BY ScriptsAssumption DEF Objects
  <2> QED BY <1>0, <2>1, Cleared DEF StaticOK
<1>2. ASSUME NEW u \in Threads \ {t}, Runs(u) PROVE offset'[run[u].object] = run[u].own
  <2> DEFINE other == run[u].object[1]
  <2>1. other \in DOMAIN Scripts /\ run[u].object = Object(u, other)
        /\ offset[run[u].object] = run[u].own
    BY <1>2 DEF ConnectionInv, ObjectOK
  <2> HIDE DEF other
  <2>2. run[u].object \in Objects
    BY <2>1, ObjectIs
  <2>3. CASE run[u].object \notin objects
    BY <1>0, <2>1, <2>2, <2>3, Cleared
  <2>4. CASE run[u].object \in objects
    <3>1. PICK name \in DOMAIN Scripts : run[u].object = Object(t, name)
      BY <2>2, <2>4
    <3>2. name \in Static /\ run[u].object = <<name, "static">>
      <4>1. Object(t, name) = Object(u, other) /\ t # u /\ u \in Threads
        BY <2>1, <3>1
      <4>2. name \in Static /\ Object(t, name) = <<name, "static">>
        BY <4>1, ThreadsAssumption DEF Object
      <4> QED BY <3>1, <4>2
    <3>3. offset[run[u].object] = 1
      BY <1>0, <3>2 DEF StaticOK
    <3>4. offset'[run[u].object] = 1
      BY <1>0, <2>2, <2>4, Cleared
    <3> QED BY <2>1, <3>3, <3>4
  <2> QED BY <2>3, <2>4
<1> QED
  BY <1>1, <1>2

-------------------------------------------------------------------------------
(* Steps.                                                                  *)

\* The construction of a program.
LEMMA RunKeeps ==
    ASSUME ConnectionInv, NEW t \in Threads, NEW phase \in Phases \ {"idle"},
           NEW name \in DOMAIN Scripts, NEW elements \in Seq(Element),
           NEW kept \in Seq(Element), Run(t, phase, name, elements),
           left' = [left EXCEPT ![t] = kept],
           round[t] \in 1 .. Len(work[t].rules),
           phase = "output" => name = Spend(t).prevout /\ kept = elements
    PROVE  ConnectionInv'
<1> USE DEF Runs, Spend, Type
<1>0. ConnectionTypeOK
  BY DEF ConnectionInv
<1>1. Object(t, name) \in Objects /\ Object(t, name)[1] = name
  BY ObjectIs
<1>2. /\ UNCHANGED <<work, round, results>>
      /\ offset' = clear_offset({Object(t, name)})
      /\ run' = [run EXCEPT ![t] = [phase |-> phase, object |-> Object(t, name), at |-> 1, own |-> 1]]
      /\ stack' = [stack EXCEPT ![t] = elements]
  BY Zenon DEF Run, Program
<1>3. StaticOK' /\ \A u \in Threads \ {t} : Runs(u) => offset'[run[u].object] = run[u].own
  <2> DEFINE objects == {Object(t, name)}
  <2>1. \A object \in objects :
            object \in Objects => \E other \in DOMAIN Scripts : object = Object(t, other)
    OBVIOUS
  <2>2. offset' = clear_offset(objects)
    BY <1>2
  <2> HIDE DEF objects
  <2> QED BY <2>1, <2>2, ClearKeeps
<1>4. offset' \in [Objects -> Nat] /\ offset'[Object(t, name)] = 1
  BY <1>0, <1>1, <1>2, Cleared DEF ConnectionTypeOK
<1>5. ConnectionTypeOK'
  BY <1>0, <1>1, <1>2, <1>4 DEF ConnectionTypeOK
<1>6. ASSUME NEW u \in Threads PROVE (RoundOK(u) /\ ObjectOK(u) /\ HashOK(u))'
  <2>0. RoundOK(u) /\ ObjectOK(u) /\ HashOK(u)
    BY DEF ConnectionInv
  <2>1. CASE u # t
    <3>1. run'[u] = run[u] /\ stack'[u] = stack[u] /\ left'[u] = left[u]
      BY <1>0, <1>2, <2>1 DEF ConnectionTypeOK
    <3>2. RoundOK(u)'
      BY <1>2, <2>0, <3>1 DEF RoundOK
    <3>3. ObjectOK(u)'
      BY <1>3, <2>0, <2>1, <3>1 DEF ObjectOK, Object, Ops
    <3>4. HashOK(u)'
      BY <1>2, <2>0, <3>1 DEF HashOK
    <3> QED BY <3>2, <3>3, <3>4
  <2>2. CASE u = t
    <3>1. /\ run'[t] = [phase |-> phase, object |-> Object(t, name), at |-> 1, own |-> 1]
          /\ stack'[t] = elements /\ left'[t] = kept
      BY <1>0, <1>2 DEF ConnectionTypeOK
    <3>2. RoundOK(t)'
      BY <1>2, <2>0, <2>2 DEF RoundOK
    <3>3. ObjectOK(t)'
      <4>1. Len(Scripts[name].ops) \in Nat
        BY ScriptsAssumption, LenProperties
      <4> QED BY <1>1, <1>4, <3>1, <4>1 DEF ObjectOK, Ops, Object
    <3>4. HashOK(t)'
      BY <1>1, <1>2, <3>1 DEF HashOK
    <3> QED BY <2>2, <3>2, <3>3, <3>4
  <2> QED BY <2>1, <2>2
<1> QED
  BY <1>3, <1>5, <1>6 DEF ConnectionInv

\* The end of a connection.
LEMMA ReturnKeeps ==
    ASSUME ConnectionInv, NEW t \in Threads, Runs(t), NEW code \in Code, Return(t, code)
    PROVE  ConnectionInv'
<1> USE DEF Spend, Type
<1>0. ConnectionTypeOK
  BY DEF ConnectionInv
<1> DEFINE objects == {run[t].object, Object(t, Spend(t).input), Object(t, Spend(t).prevout)}
<1>2. /\ UNCHANGED work
      /\ results' = [results EXCEPT ![t] = Append(@, code)]
      /\ round' = [round EXCEPT ![t] = @ + 1]
      /\ offset' = clear_offset(objects)
      /\ run' = [run EXCEPT ![t] = Idle]
      /\ stack' = [stack EXCEPT ![t] = <<>>]
      /\ left' = [left EXCEPT ![t] = <<>>]
  BY DEF Return
<1>3. StaticOK' /\ \A u \in Threads \ {t} : Runs(u) => offset'[run[u].object] = run[u].own
  <2>1. {work[t].spend.input, work[t].spend.prevout} \subseteq DOMAIN Scripts
    BY <1>0, WorksAssumption DEF ConnectionTypeOK
  <2>2. run[t].object[1] \in DOMAIN Scripts /\ run[t].object = Object(t, run[t].object[1])
    BY DEF ConnectionInv, ObjectOK
  <2>3. \A object \in objects :
            object \in Objects => \E other \in DOMAIN Scripts : object = Object(t, other)
    BY <2>1, <2>2
  <2> HIDE DEF objects
  <2> QED BY <1>2, <2>3, ClearKeeps
<1>4. offset' \in [Objects -> Nat]
  <2> HIDE DEF objects
  <2> QED BY <1>0, <1>2, Cleared DEF ConnectionTypeOK
<1> HIDE DEF objects
<1>5. /\ results[t] \in Seq(Code) /\ Append(results[t], code) \in Seq(Code)
      /\ Len(Append(results[t], code)) = Len(results[t]) + 1
  BY <1>0, AppendProperties DEF ConnectionTypeOK
<1>6. ConnectionTypeOK'
  <2>1. <<>> \in Seq(Element) /\ Idle \in [phase : Phases, object : Objects \union {<<>>},
                                              at : Nat, own : Nat]
    BY DEF Idle, Program, Phases
  <2>2. stack' \in [Threads -> Seq(Element)] /\ left' \in [Threads -> Seq(Element)]
    BY <1>0, <1>2, <2>1 DEF ConnectionTypeOK
  <2>3. run' \in [Threads -> [phase : Phases, object : Objects \union {<<>>},
                              at : Nat, own : Nat]]
    BY <1>0, <1>2, <2>1, Zenon DEF ConnectionTypeOK
  <2>4. round' \in [Threads -> Nat] /\ results' \in [Threads -> Seq(Code)] /\ work' \in Works
    BY <1>0, <1>2, <1>5 DEF ConnectionTypeOK
  <2> QED BY <1>4, <2>2, <2>3, <2>4 DEF ConnectionTypeOK
<1>7. ASSUME NEW u \in Threads PROVE (RoundOK(u) /\ ObjectOK(u) /\ HashOK(u))'
  <2>0. RoundOK(u) /\ ObjectOK(u) /\ HashOK(u)
    BY DEF ConnectionInv
  <2>1. CASE u # t
    <3>1. /\ run'[u] = run[u] /\ stack'[u] = stack[u] /\ left'[u] = left[u]
          /\ round'[u] = round[u] /\ results'[u] = results[u]
      BY <1>0, <1>2, <2>1 DEF ConnectionTypeOK
    <3>2. RoundOK(u)'
      BY <1>2, <2>0, <3>1 DEF RoundOK, Runs
    <3>3. ObjectOK(u)'
      BY <1>3, <2>0, <2>1, <3>1 DEF ObjectOK, Object, Ops, Runs
    <3>4. HashOK(u)'
      BY <1>2, <2>0, <3>1 DEF HashOK
    <3> QED BY <3>2, <3>3, <3>4
  <2>2. CASE u = t
    <3>1. run'[t].phase = "idle"
      BY <1>0, <1>2 DEF ConnectionTypeOK, Idle, Program
    <3>2. round'[t] = round[t] + 1 /\ results'[t] = Append(results[t], code)
      BY <1>0, <1>2 DEF ConnectionTypeOK
    <3>3. RoundOK(t)'
      <4>1. Len(results[t]) \in Nat
        BY <1>5, LenProperties
      <4>2. round'[t] = Len(results'[t]) + 1
        BY <1>5, <2>0, <2>2, <3>2, <4>1 DEF RoundOK
      <4>3. Len(results'[t]) <= Len(work'[t].rules)
        <5>1. round[t] \in 1 .. Len(work[t].rules)
          BY <2>0, <2>2 DEF RoundOK
        <5> QED BY <1>2, <1>5, <2>0, <2>2, <3>2, <4>1, <5>1 DEF RoundOK
      <4> QED BY <3>1, <4>2, <4>3 DEF RoundOK, Runs
    <3>4. ObjectOK(t)' /\ HashOK(t)'
      BY <3>1 DEF ObjectOK, HashOK, Runs
    <3> QED BY <2>2, <3>3, <3>4
  <2> QED BY <2>1, <2>2
<1> QED
  BY <1>3, <1>6, <1>7 DEF ConnectionInv

\* An operation that does not fail.
LEMMA OperationKeeps ==
    ASSUME ConnectionInv, NEW t \in Threads, Operation(t)
    PROVE  ConnectionInv'
<1> USE DEF Spend, Type
<1>0. ConnectionTypeOK /\ Runs(t) /\ Remains(t)
  BY DEF ConnectionInv, Operation
<1>1. CASE Fails(Rules(t), op(t), stack[t])
  <2>1. Return(t, "script_error") /\ "script_error" \in Code
    BY <1>1, Zenon DEF Operation, Code
  <2> QED BY <1>0, <2>1, ReturnKeeps
<1>2. CASE ~Fails(Rules(t), op(t), stack[t])
  <2> DEFINE name == run[t].object[1]
             at == run[t].at
             object == run[t].object
             separates == op(t) = "separator"
             after == Apply(name, op(t), stack[t])
             own == IF separates THEN at + 1 ELSE run[t].own
  <2>1. /\ name \in DOMAIN Scripts /\ object = Object(t, name) /\ offset[object] = run[t].own
        /\ at \in 1 .. (Len(Ops(object)) + 1) /\ at <= Len(Ops(object))
    BY <1>0 DEF ConnectionInv, ObjectOK, Remains
  <2>2. Ops(object) \in Seq(STRING) /\ Len(Ops(object)) \in Nat /\ op(t) = Ops(object)[at]
    BY <2>1, ScriptsAssumption, LenProperties DEF Ops, op
  <2>3. at \in 1 .. Len(Ops(object)) /\ op(t) \in Element
    BY <2>1, <2>2, ElementOfSeq DEF Element
  <2>4. stack[t] \in Seq(Element) /\ after \in Seq(Element)
    BY <1>0, <1>2, <2>3, ApplyType DEF ConnectionTypeOK
  <2>5. /\ stack' = [stack EXCEPT ![t] = after]
        /\ run' = [run EXCEPT ![t] = Advanced(run[t], separates)]
        /\ offset' = IF separates THEN [offset EXCEPT ![object] = at + 1] ELSE offset
        /\ UNCHANGED <<work, round, left, results>>
    BY <1>2 DEF Operation
  <2>6. /\ run' \in [Threads -> [phase : Phases, object : Objects \union {<<>>},
                                 at : Nat, own : Nat]]
        /\ run'[t].phase = run[t].phase /\ run'[t].object = object
        /\ run'[t].at = at + 1 /\ run'[t].own = own
        /\ \A u \in Threads \ {t} : run'[u] = run[u]
    <3> HIDE DEF object
    <3>1. run \in [Threads -> [phase : Phases, object : Objects \union {<<>>},
                               at : Nat, own : Nat]]
      BY <1>0 DEF ConnectionTypeOK
    <3> DEFINE next == Advanced(run[t], separates)
    <3>2. /\ next \in [phase : Phases, object : Objects \union {<<>>}, at : Nat, own : Nat]
          /\ next.phase = run[t].phase /\ next.object = run[t].object
          /\ next.at = at + 1 /\ next.own = own
      <4>1. run[t] \in [phase : Phases, object : Objects \union {<<>>}, at : Nat, own : Nat]
        BY <3>1
      <4> HIDE DEF separates
      <4>2. separates \in BOOLEAN
        BY DEF separates
      <4> QED BY <4>1, <4>2, SMT DEF Advanced, Program
    <3>3. run' = [run EXCEPT ![t] = next]
      BY <2>5, Zenon
    <3> HIDE DEF next
    <3> QED BY <3>1, <3>2, <3>3 DEF object
  <2>7. object \in Objects /\ (separates => name \notin Static)
    <3>1. separates => "separator" \in Range(Scripts[name].ops)
      <4>1. separates => Ops(object)[at] = "separator" /\ at \in DOMAIN Ops(object)
        BY <2>2, <2>3, LenProperties
      <4> QED BY <4>1 DEF Range, Ops
    <3> QED BY <2>1, <3>1, ObjectIs, ScriptsAssumption
  <2> HIDE DEF name, at, object, separates, after
  <2>8. /\ offset' \in [Objects -> Nat]
        /\ offset'[object] = own
        /\ \A o \in Objects : o # object => offset'[o] = offset[o]
    BY <1>0, <2>1, <2>3, <2>5, <2>7 DEF ConnectionTypeOK
  <2>9. ConnectionTypeOK'
    BY <1>0, <2>4, <2>5, <2>6, <2>8 DEF ConnectionTypeOK
  <2>10. StaticOK'
    <3> SUFFICES ASSUME NEW other \in Static PROVE offset'[<<other, "static">>] = 1
      BY DEF StaticOK
    <3>1. <<other, "static">> \in Objects /\ offset[<<other, "static">>] = 1
      BY ScriptsAssumption DEF Objects, ConnectionInv, StaticOK
    <3>2. separates => object # <<other, "static">>
      BY <2>1, <2>7, ThreadsAssumption DEF Object
    <3> QED BY <2>5, <2>8, <3>1, <3>2
  <2>11. ASSUME NEW u \in Threads PROVE (RoundOK(u) /\ ObjectOK(u) /\ HashOK(u))'
    <3>0. RoundOK(u) /\ ObjectOK(u) /\ HashOK(u)
      BY DEF ConnectionInv
    <3>1. CASE u # t
      <4>1. run'[u] = run[u] /\ stack'[u] = stack[u]
        BY <1>0, <2>5, <2>6, <3>1 DEF ConnectionTypeOK
      <4>2. Runs(u) => offset'[run[u].object] = offset[run[u].object]
        <5> SUFFICES ASSUME Runs(u) PROVE offset'[run[u].object] = offset[run[u].object]
          OBVIOUS
        <5>1. /\ run[u].object[1] \in DOMAIN Scripts
              /\ run[u].object = Object(u, run[u].object[1])
          BY <3>0 DEF ObjectOK
        <5>2. run[u].object \in Objects
          BY <5>1, ObjectIs
        <5>3. separates => run[u].object # object
          BY <2>1, <2>7, <3>1, <5>1 DEF Object
        <5> QED BY <2>5, <2>8, <5>2, <5>3
      <4>3. RoundOK(u)'
        BY <2>5, <3>0, <4>1 DEF RoundOK, Runs
      <4>4. ObjectOK(u)'
        BY <3>0, <4>1, <4>2 DEF ObjectOK, Object, Ops, Runs
      <4>5. HashOK(u)'
        BY <2>5, <3>0, <4>1 DEF HashOK
      <4> QED BY <4>3, <4>4, <4>5
    <3>2. CASE u = t
      <4>1. RoundOK(t)'
        BY <2>5, <2>6, <3>0, <3>2 DEF RoundOK, Runs
      <4>2. ObjectOK(t)'
        <5>1. at + 1 \in 1 .. (Len(Ops(object)) + 1) /\ name = object[1]
          BY <2>2, <2>3 DEF name, object
        <5> QED BY <2>1, <2>6, <2>8, <5>1 DEF ObjectOK, Object, Ops
      <4>3. HashOK(t)'
        <5> SUFFICES ASSUME run'[t].phase = "output" PROVE HashOK(t)'
          BY DEF HashOK
        <5>1. name = work[t].spend.prevout
          BY <2>6, <3>0, <3>2 DEF HashOK, name
        <5> SUFFICES ASSUME Scripts[name].type = "script_hash"
                     PROVE  /\ run'[t].at = 1 => stack'[t] = left'[t]
                            /\ run'[t].at = 2 =>
                                /\ left'[t] # <<>>
                                /\ Last(left'[t]) # Scripts[name].target =>
                                    Last(stack'[t]) = "false"
          BY <2>5, <2>6, <5>1 DEF HashOK, name, object
        <5>2. Scripts[name].ops = <<"hash">>
          BY <2>1, ScriptsAssumption
        <5>3. at = 1 /\ op(t) = "hash"
          BY <2>2, <2>3, <5>2 DEF Ops, name, object
        <5>4. stack[t] = left[t]
          BY <2>6, <3>0, <3>2, <5>1, <5>3 DEF HashOK, at, name
        <5>5. stack[t] # <<>> /\ after =
                Append(Front(stack[t]), IF Last(stack[t]) = Scripts[name].target THEN "true" ELSE "false")
          BY <1>2, <5>3 DEF Fails, Apply, Operators, after
        <5>6. Last(stack[t]) # Scripts[name].target => Last(after) = "false"
          <6>1. Front(stack[t]) \in Seq(Element) /\ "false" \in Element
            BY <2>4, <5>5, FrontLast DEF Element
          <6>2. Last(Append(Front(stack[t]), "false")) = "false"
            BY <6>1, LastAppended
          <6> QED BY <5>5, <6>2
        <5>7. stack'[t] = after /\ left'[t] = left[t] /\ run'[t].at = 2
          BY <1>0, <2>5, <2>6, <5>3 DEF ConnectionTypeOK
        <5> QED BY <5>4, <5>5, <5>6, <5>7
      <4> QED BY <3>2, <4>1, <4>2, <4>3
    <3> QED BY <3>1, <3>2
  <2> QED BY <2>9, <2>10, <2>11 DEF ConnectionInv
<1> QED
  BY <1>1, <1>2

\* A witness that is accepted names a script.
LEMMA ExtractIs ==
    ASSUME NEW name \in DOMAIN Scripts, NEW witness \in Seq(Element)
    PROVE  /\ extract(name, witness).code \in Code
           /\ extract(name, witness).code = "success" =>
                /\ extract(name, witness).script \in DOMAIN Scripts
                /\ extract(name, witness).stack \in Seq(Element)
<1> DEFINE Good(e) == /\ e.code \in Code
                      /\ e.code = "success" => e.script \in DOMAIN Scripts /\ e.stack \in Seq(Element)
<1>0. <<>> \in Seq(Element)
  OBVIOUS
<1>1. /\ Static \union {"key_hash_script"} \subseteq DOMAIN Scripts
      /\ Type(name) \in {"v0_script", "v1_key"} => Scripts[name].target \in DOMAIN Scripts
  BY ScriptsAssumption DEF Type
<1>2. Good(Invalid) /\ Good(Extracted("invalid_commitment", "", <<>>))
      /\ Good(Extracted("success", "success_script", <<>>))
  BY <1>0, <1>1 DEF Invalid, Extracted, Code, Static
<1>3. \A script \in DOMAIN Scripts, s \in Seq(Element) : Good(Extracted("success", script, s))
  BY DEF Extracted, Code
<1>4. Good(extract_segwit(name, witness))
  <2>1. witness # <<>> => Front(witness) \in Seq(Element)
    BY FrontLast
  <2>2. "key_hash_script" \in DOMAIN Scripts
    BY <1>1
  <2> HIDE DEF Good
  <2> QED BY <1>1, <1>2, <1>3, <2>1, <2>2 DEF extract_segwit
<1>5. IsTaproot(name) => Good(extract_taproot(name, witness))
  <2> SUFFICES ASSUME IsTaproot(name) PROVE Good(extract_taproot(name, witness))
    BY Zenon
  <2> DEFINE e == drop_annex(witness)
  <2>1. e \in Seq(Element)
    <3>1. Len(witness) > 1 => witness # <<>>
      BY EmptySeq
    <3> QED BY <3>1, FrontLast DEF drop_annex
  <2> HIDE DEF e
  <2>2. e # <<>> /\ Len(e) # 1 => Front(Front(e)) \in Seq(Element)
    <3> SUFFICES ASSUME e # <<>>, Len(e) # 1 PROVE Front(Front(e)) \in Seq(Element)
      OBVIOUS
    <3>1. Front(e) \in Seq(Element) /\ Len(Front(e)) = Len(e) - 1 /\ Len(e) > 0 /\ Len(e) \in Nat
      BY <2>1, FrontLast, LenProperties
    <3>2. Front(e) # <<>>
      BY <3>1, EmptySeq
    <3> QED BY <3>1, <3>2, FrontLast
  <2>3. Type(name) # "v1_other" => Scripts[name].target \in DOMAIN Scripts
    BY <1>1 DEF IsTaproot
  <2>4. "checksig_script" \in DOMAIN Scripts
    BY <1>1 DEF Static
  <2>5. Good(Extracted("success", "checksig_script", e))
    BY <1>3, <2>1, <2>4, Zenon
  <2>6. /\ Type(name) # "v1_other" /\ e # <<>> /\ Len(e) # 1
        /\ Last(Front(e)) = Scripts[name].target
        => Good(Extracted("success", Last(Front(e)), Front(Front(e))))
    <3> HIDE DEF Good
    <3> QED BY <1>3, <2>2, <2>3
  <2> HIDE DEF Good
  <2> QED BY <1>2, <2>5, <2>6 DEF extract_taproot, e
<1>6. Good(extract(name, witness))
  <2> HIDE DEF Good
  <2> QED BY <1>4, <1>5, Zenon DEF extract
<1> QED
  BY <1>6

\* A stored spend: its scripts, and the witness that a node sees.
LEMMA SpendIs ==
    ASSUME ConnectionInv, NEW t \in Threads
    PROVE  /\ Spend(t).input \in DOMAIN Scripts /\ Spend(t).prevout \in DOMAIN Scripts
           /\ Witness(t) \in Seq(Element)
           /\ stack[t] \in Seq(Element) /\ left[t] \in Seq(Element)
           /\ left = [left EXCEPT ![t] = left[t]]
           /\ Runs(t) => round[t] \in 1 .. Len(work[t].rules)
<1>1. ConnectionTypeOK /\ RoundOK(t)
  BY DEF ConnectionInv
<1>2. /\ {work[t].spend.input, work[t].spend.prevout} \subseteq DOMAIN Scripts
      /\ work[t].spend.witness \in Seq(STRING)
  BY <1>1, WorksAssumption DEF ConnectionTypeOK
<1>3. work[t].spend.witness \in Seq(Element)
  BY <1>2, StringsAreElements
<1> QED
  BY <1>1, <1>2, <1>3 DEF ConnectionTypeOK, RoundOK, Spend, Witness, Sent

LEMMA WitnessKeeps ==
    ASSUME ConnectionInv, NEW t \in Threads, Runs(t), NEW name \in DOMAIN Scripts,
           NEW embedded, connect_witness(t, name, embedded)
    PROVE  ConnectionInv'
<1> DEFINE e == extract(name, Witness(t))
<1>1. Witness(t) \in Seq(Element) /\ left[t] \in Seq(Element)
      /\ left = [left EXCEPT ![t] = left[t]] /\ round[t] \in 1 .. Len(work[t].rules)
  BY SpendIs
<1>2. /\ e.code \in Code
      /\ e.code = "success" => e.script \in DOMAIN Scripts /\ e.stack \in Seq(Element)
  BY <1>1, ExtractIs
<1>3. \/ Return(t, "success")
      \/ Return(t, e.code)
      \/ e.code = "success" /\ Run(t, PhaseOf(name), e.script, e.stack) /\ UNCHANGED left
  BY DEF connect_witness
<1> HIDE DEF e
<1>4. CASE Return(t, "success")
  <2>1. "success" \in Code
    BY DEF Code
  <2> QED BY <1>4, <2>1, ReturnKeeps
<1>5. CASE Return(t, e.code)
  BY <1>2, <1>5, ReturnKeeps
<1>6. CASE e.code = "success" /\ Run(t, PhaseOf(name), e.script, e.stack) /\ UNCHANGED left
  <2>1. PhaseOf(name) \in Phases \ {"idle"} /\ PhaseOf(name) # "output"
    BY DEF PhaseOf, Phases
  <2>2. left' = [left EXCEPT ![t] = left[t]]
    BY <1>1, <1>6
  <2> QED BY <1>1, <1>2, <1>6, <2>1, <2>2, RunKeeps
<1> QED
  BY <1>3, <1>4, <1>5, <1>6

LEMMA InputKeeps ==
    ASSUME ConnectionInv, NEW t \in Threads, InputEnds(t)
    PROVE  ConnectionInv'
<1>1. Runs(t) /\ "output" \in Phases \ {"idle"}
  BY DEF InputEnds, Ended, Runs, Phases
<1>2. /\ Spend(t).prevout \in DOMAIN Scripts /\ stack[t] \in Seq(Element)
      /\ round[t] \in 1 .. Len(work[t].rules)
  BY <1>1, SpendIs
<1>3. /\ left' = [left EXCEPT ![t] = stack[t]]
      /\ Run(t, "output", Spend(t).prevout, stack[t])
  BY DEF InputEnds
<1> QED
  BY <1>1, <1>2, <1>3, RunKeeps

LEMMA OutputKeeps ==
    ASSUME ConnectionInv, NEW t \in Threads, OutputEnds(t)
    PROVE  ConnectionInv'
<1> DEFINE prevout == Spend(t).prevout
<1>1. Runs(t) /\ run[t].phase = "output" /\ ~Remains(t)
  BY DEF OutputEnds, Ended, Runs
<1>2. /\ prevout \in DOMAIN Scripts /\ stack[t] \in Seq(Element) /\ left[t] \in Seq(Element)
      /\ left = [left EXCEPT ![t] = left[t]] /\ round[t] \in 1 .. Len(work[t].rules)
  BY <1>1, SpendIs
<1>3. \/ \E code \in Code : Return(t, code)
      \/ /\ IsTrue(stack[t], FALSE) /\ is_pay_to_script_hash(Rules(t), prevout)
         /\ Run(t, "embedded", Last(left[t]), Front(left[t])) /\ UNCHANGED left
      \/ connect_witness(t, prevout, FALSE)
  <2> DEFINE ops == Scripts[Spend(t).input].ops
             last == IF Witness(t) # <<>> THEN "unexpected_witness" ELSE "success"
  <2>1. {"stack_false", "invalid_script_embed", "dirty_witness", last} \subseteq Code
    BY DEF Code
  <2> HIDE DEF last
  <2>2. \/ Return(t, "stack_false") \/ Return(t, "invalid_script_embed")
        \/ Return(t, "dirty_witness") \/ Return(t, last)
        \/ /\ IsTrue(stack[t], FALSE) /\ is_pay_to_script_hash(Rules(t), prevout)
           /\ Run(t, "embedded", Last(left[t]), Front(left[t])) /\ UNCHANGED left
        \/ connect_witness(t, prevout, FALSE)
    BY Zenon DEF OutputEnds, last
  <2> QED BY <2>1, <2>2
<1>4. CASE \E code \in Code : Return(t, code)
  BY <1>1, <1>4, ReturnKeeps
<1>5. CASE connect_witness(t, prevout, FALSE)
  BY <1>1, <1>2, <1>5, WitnessKeeps
<1>6. CASE /\ IsTrue(stack[t], FALSE) /\ is_pay_to_script_hash(Rules(t), prevout)
           /\ Run(t, "embedded", Last(left[t]), Front(left[t])) /\ UNCHANGED left
  <2>1. /\ run[t].object[1] = prevout /\ run[t].at \in 1 .. (Len(Ops(run[t].object)) + 1)
        /\ HashOK(t)
    BY <1>1 DEF ConnectionInv, ObjectOK, HashOK
  <2>2. Type(prevout) = "script_hash" /\ Scripts[prevout].ops = <<"hash">>
        /\ Scripts[prevout].target \in DOMAIN Scripts
    BY <1>2, <1>6, ScriptsAssumption DEF is_pay_to_script_hash, Type
  <2>3. run[t].at = 2
    BY <1>1, <2>1, <2>2 DEF Remains, Ops
  <2>4. left[t] # <<>> /\ Last(left[t]) = Scripts[prevout].target
    BY <1>1, <1>6, <2>1, <2>2, <2>3 DEF HashOK, IsTrue
  <2>5. Front(left[t]) \in Seq(Element) /\ "embedded" \in Phases \ {"idle"}
    BY <1>2, <2>4, FrontLast DEF Phases
  <2>6. left' = [left EXCEPT ![t] = left[t]] /\ Last(left[t]) \in DOMAIN Scripts
    BY <1>2, <1>6, <2>2, <2>4
  <2> QED BY <1>2, <1>6, <2>5, <2>6, RunKeeps
<1> QED
  BY <1>3, <1>4, <1>5, <1>6

LEMMA EmbeddedKeeps ==
    ASSUME ConnectionInv, NEW t \in Threads, EmbeddedEnds(t)
    PROVE  ConnectionInv'
<1> DEFINE embedded == run[t].object[1]
<1>1. Runs(t)
  BY DEF EmbeddedEnds, Ended, Runs
<1>2. embedded \in DOMAIN Scripts
  BY <1>1 DEF ConnectionInv, ObjectOK
<1>3. (\E code \in Code : Return(t, code)) \/ connect_witness(t, embedded, TRUE)
  <2> DEFINE last == IF Witness(t) # <<>> THEN "unexpected_witness" ELSE "success"
  <2>1. {"stack_false", "dirty_embed", last} \subseteq Code
    BY DEF Code
  <2> HIDE DEF last
  <2>2. \/ Return(t, "stack_false") \/ Return(t, "dirty_embed") \/ Return(t, last)
        \/ connect_witness(t, embedded, TRUE)
    BY Zenon DEF EmbeddedEnds, last
  <2> QED BY <2>1, <2>2
<1> HIDE DEF embedded
<1> QED
  BY <1>1, <1>2, <1>3, ReturnKeeps, WitnessKeeps

\* Every step keeps the invariant.
LEMMA ConnectionStep ==
    ASSUME ConnectionInv, [Next]_vars
    PROVE  ConnectionInv'
<1>1. CASE UNCHANGED vars
  BY <1>1 DEF vars, ConnectionInv, ConnectionTypeOK, StaticOK, RoundOK, ObjectOK, HashOK,
              Runs, Spend, Type, Object, Ops
<1>2. ASSUME NEW t \in Threads, connect(t) PROVE ConnectionInv'
  <2>1. /\ Run(t, "input", Spend(t).input, <<>>) /\ UNCHANGED left
        /\ round[t] <= Len(work[t].rules)
    BY <1>2 DEF connect
  <2>2. /\ Spend(t).input \in DOMAIN Scripts /\ left[t] \in Seq(Element)
        /\ left = [left EXCEPT ![t] = left[t]]
    BY SpendIs
  <2>3. "input" \in Phases \ {"idle"} /\ <<>> \in Seq(Element)
    BY DEF Phases
  <2>4. round[t] \in 1 .. Len(work[t].rules)
    <3>1. ConnectionTypeOK /\ RoundOK(t)
      BY DEF ConnectionInv
    <3>2. work[t].rules \in Seq(SUBSET STRING)
      BY <3>1, WorksAssumption DEF ConnectionTypeOK
    <3>3. Len(results[t]) \in Nat /\ Len(work[t].rules) \in Nat
      BY <3>1, <3>2, LenProperties DEF ConnectionTypeOK
    <3> QED BY <2>1, <3>1, <3>3 DEF RoundOK
  <2>5. left' = [left EXCEPT ![t] = left[t]]
    BY <2>1, <2>2
  <2> QED BY <2>1, <2>2, <2>3, <2>4, <2>5, RunKeeps
<1>3. ASSUME NEW t \in Threads, WitnessEnds(t) PROVE ConnectionInv'
  <2>1. Runs(t)
    BY <1>3 DEF WitnessEnds, Ended, Runs
  <2>2. \E code \in Code : Return(t, code)
    BY <1>3 DEF WitnessEnds, Code
  <2> QED BY <2>1, <2>2, ReturnKeeps
<1>4. ASSUME NEW t \in Threads, Prevalid(t) PROVE ConnectionInv'
  <2>1. Runs(t) /\ Return(t, "success") /\ "success" \in Code
    BY <1>4 DEF Prevalid, IsPrevalid, HasSuccess, Runs, Code
  <2> QED BY <2>1, ReturnKeeps
<1> QED
  BY <1>1, <1>2, <1>3, <1>4, OperationKeeps, InputKeeps, OutputKeeps, EmbeddedKeeps DEF Next

LEMMA ConnectionStart ==
    Init => ConnectionInv
<1> SUFFICES ASSUME Init PROVE ConnectionInv
  OBVIOUS
<1>1. <<>> \in Seq(Element) /\ <<>> \in Seq(Code) /\ Len(<<>>) = 0
  OBVIOUS
<1>2. Idle \in [phase : Phases, object : Objects \union {<<>>}, at : Nat, own : Nat]
      /\ Idle.phase = "idle"
  BY DEF Idle, Program, Phases
<1>3. ConnectionTypeOK
  BY <1>1, <1>2 DEF Init, ConnectionTypeOK, Objects
<1>4. StaticOK
  BY ScriptsAssumption DEF Init, StaticOK
<1>5. ASSUME NEW t \in Threads PROVE RoundOK(t) /\ ObjectOK(t) /\ HashOK(t)
  <2>1. work[t].rules \in Seq(SUBSET STRING)
    BY WorksAssumption DEF Init
  <2>2. Len(work[t].rules) \in Nat
    BY <2>1, LenProperties
  <2> QED BY <1>1, <1>2, <2>2 DEF Init, RoundOK, ObjectOK, HashOK, Runs
<1> QED
  BY <1>3, <1>4, <1>5 DEF ConnectionInv

LEMMA ConnectionInvariant ==
    Spec => []ConnectionInv
<1>1. ConnectionInv /\ [Next]_vars => ConnectionInv'
  BY ConnectionStep
<1> QED
  BY <1>1, ConnectionStart, PTL DEF Spec

\* A signature is made of the script from the separator that its own program has
\* met last, for any threads, scripts, spends and interleaving (set_subscript,
\* clear_offset, the static scripts of witness_extract.cpp).
THEOREM SubscriptsOwned ==
    Spec => []SubscriptOwn
<1>1. ConnectionInv => SubscriptOwn
  BY DEF ConnectionInv, ObjectOK, SubscriptOwn
<1> QED
  BY <1>1, ConnectionInvariant, PTL

-------------------------------------------------------------------------------
(* What a connection decides, as a function of rules and spend.            *)

\* A script comes to its k-th operation with stack s, having begun with init.
Executes(active, name, init, k, s) ==
    /\ name \in DOMAIN Scripts /\ k \in 1 .. (Len(Scripts[name].ops) + 1)
    /\ \E f : /\ f[1] = init /\ f[k] = s
              /\ \A i \in 1 .. (k - 1) :
                    /\ ~Fails(active, Scripts[name].ops[i], f[i])
                    /\ f[i + 1] = Apply(name, Scripts[name].ops[i], f[i])

Completes(active, name, init, s) ==
    Executes(active, name, init, Len(Scripts[name].ops) + 1, s)
Done(active, name, init) == \E s : Completes(active, name, init, s)
Final(active, name, init) == CHOOSE s : Completes(active, name, init, s)

\* A witness program.
Passes(active, phase, name, init) ==
    \/ HasSuccess(active, phase, name)
    \/ Done(active, name, init) /\ IsTrue(Final(active, name, init), TRUE)
WitnessPasses(active, name, embedded, witness) ==
    \/ Reserved(active, name, embedded)
    \/ /\ extract(name, witness).code = "success"
       /\ Passes(active, PhaseOf(name), extract(name, witness).script,
                 extract(name, witness).stack)

\* An embedded script that has left s, and all that follows the output script.
EmbeddedPasses(active, spend, name, s) ==
    /\ IsTrue(s, FALSE)
    /\ IF is_pay_to_witness(active, name)
       THEN /\ is_nominal_push_pattern(Scripts[spend.input].ops)
            /\ WitnessPasses(active, name, TRUE, Sent(active, spend.witness))
       ELSE Sent(active, spend.witness) = <<>>
RestPasses(active, spend, first) ==
    IF is_pay_to_script_hash(active, spend.prevout)
    THEN /\ is_relaxed_push_pattern(Scripts[spend.input].ops)
         /\ Done(active, Last(first), Front(first))
         /\ EmbeddedPasses(active, spend, Last(first), Final(active, Last(first), Front(first)))
    ELSE IF is_pay_to_witness(active, spend.prevout)
    THEN /\ Scripts[spend.input].ops = <<>>
         /\ WitnessPasses(active, spend.prevout, FALSE, Sent(active, spend.witness))
    ELSE Sent(active, spend.witness) = <<>>
OutputPasses(active, spend, first) ==
    /\ Done(active, spend.prevout, first)
    /\ IsTrue(Final(active, spend.prevout, first), FALSE)
    /\ RestPasses(active, spend, first)

\* Whether a spend connects.
Connects(active, spend) ==
    /\ Done(active, spend.input, <<>>)
    /\ OutputPasses(active, spend, Final(active, spend.input, <<>>))

\* Natural numbers are reached from zero.
LEMMA SuccessorsReach ==
    ASSUME NEW S, 0 \in S, \A n \in Nat : n \in S => n + 1 \in S
    PROVE  Nat \subseteq S
<1> DEFINE T == Nat \ S
<1> SUFFICES ASSUME T # {} PROVE FALSE
  OBVIOUS
<1>1. T \subseteq Nat
  OBVIOUS
<1>2. PICK n \in T : \A m \in T : ~(<<m, n>> \in OpToRel(<, Nat))
  <2> HIDE DEF T
  <2> QED BY <1>1, NatLessThanWellFounded, WFMin
<1>3. \A m \in T : ~(m < n)
  BY <1>1, <1>2 DEF OpToRel
<1>4. n \in Nat /\ n # 0 /\ n - 1 \in Nat /\ n - 1 < n /\ (n - 1) + 1 = n
  OBVIOUS
<1>5. n - 1 \in S
  BY <1>3, <1>4
<1> QED
  BY <1>4, <1>5

LEMMA OpsLength ==
    ASSUME NEW name \in DOMAIN Scripts
    PROVE  Len(Scripts[name].ops) \in Nat
BY ScriptsAssumption, LenProperties

LEMMA ExecutesFirst ==
    ASSUME NEW active, NEW name \in DOMAIN Scripts, NEW init
    PROVE  Executes(active, name, init, 1, init)
<1>1. 1 \in 1 .. (Len(Scripts[name].ops) + 1) /\ 1 .. (1 - 1) = {}
  BY OpsLength
<1>2. [i \in Nat |-> init][1] = init
  OBVIOUS
<1> QED
  BY <1>1, <1>2, Zenon DEF Executes

LEMMA ExecutesNext ==
    ASSUME NEW active, NEW name, NEW init, NEW k, NEW s, Executes(active, name, init, k, s),
           k <= Len(Scripts[name].ops), ~Fails(active, Scripts[name].ops[k], s)
    PROVE  Executes(active, name, init, k + 1, Apply(name, Scripts[name].ops[k], s))
<1> DEFINE ops == Scripts[name].ops
<1>1. name \in DOMAIN Scripts /\ k \in 1 .. (Len(ops) + 1)
  BY DEF Executes
<1>2. Len(ops) \in Nat
  BY <1>1, OpsLength
<1>3. PICK f : /\ f[1] = init /\ f[k] = s
               /\ \A i \in 1 .. (k - 1) :
                    ~Fails(active, ops[i], f[i]) /\ f[i + 1] = Apply(name, ops[i], f[i])
  BY Zenon DEF Executes
<1> DEFINE g == [i \in Nat |-> IF i = k + 1 THEN Apply(name, ops[k], s) ELSE f[i]]
<1>4. k \in Nat /\ k >= 1 /\ k + 1 \in 1 .. (Len(ops) + 1) /\ (k + 1) - 1 = k
  BY <1>1, <1>2
<1>5. g[1] = init /\ g[k + 1] = Apply(name, ops[k], s)
  BY <1>3, <1>4
<1>6. ASSUME NEW i \in 1 .. k
      PROVE  ~Fails(active, ops[i], g[i]) /\ g[i + 1] = Apply(name, ops[i], g[i])
  <2>1. CASE i = k
    <3>1. g[i] = s
      BY <1>3, <1>4, <2>1
    <3> HIDE DEF g
    <3> QED BY <1>5, <2>1, <3>1
  <2>2. CASE i # k
    <3>1. g[i] = f[i] /\ g[i + 1] = f[i + 1] /\ i \in 1 .. (k - 1)
      BY <1>4, <2>2
    <3> HIDE DEF g
    <3> QED BY <1>3, <3>1
  <2> QED BY <2>1, <2>2
<1> HIDE DEF g, ops
<1>7. \E h : /\ h[1] = init /\ h[k + 1] = Apply(name, ops[k], s)
             /\ \A i \in 1 .. ((k + 1) - 1) :
                    ~Fails(active, ops[i], h[i]) /\ h[i + 1] = Apply(name, ops[i], h[i])
  BY <1>4, <1>5, <1>6, Zenon
<1> QED
  BY <1>1, <1>4, <1>7, Zenon DEF Executes, ops

\* Scripts are deterministic: what one execution has met any other meets.
LEMMA ExecutesAlike ==
    ASSUME NEW active, NEW name, NEW init, NEW k, NEW s, NEW m, NEW u,
           Executes(active, name, init, k, s), Executes(active, name, init, m, u), k <= m
    PROVE  /\ k = m => s = u
           /\ k < m => ~Fails(active, Scripts[name].ops[k], s)
<1> DEFINE ops == Scripts[name].ops
<1>1. name \in DOMAIN Scripts /\ k \in 1 .. (Len(ops) + 1) /\ m \in 1 .. (Len(ops) + 1)
  BY DEF Executes
<1>2. k \in Nat /\ m \in Nat /\ k >= 1
  BY <1>1, OpsLength
<1>3. PICK f : /\ f[1] = init /\ f[k] = s
               /\ \A i \in 1 .. (k - 1) :
                    ~Fails(active, ops[i], f[i]) /\ f[i + 1] = Apply(name, ops[i], f[i])
  BY Zenon DEF Executes
<1>4. PICK g : /\ g[1] = init /\ g[m] = u
               /\ \A i \in 1 .. (m - 1) :
                    ~Fails(active, ops[i], g[i]) /\ g[i + 1] = Apply(name, ops[i], g[i])
  BY Zenon DEF Executes
<1> DEFINE X == {n \in Nat : n + 1 <= k => f[n + 1] = g[n + 1]}
<1>5. 0 \in X
  BY <1>3, <1>4
<1>6. ASSUME NEW n \in Nat, n \in X PROVE n + 1 \in X
  <2> SUFFICES ASSUME (n + 1) + 1 <= k PROVE f[(n + 1) + 1] = g[(n + 1) + 1]
    OBVIOUS
  <2>1. n + 1 \in 1 .. (k - 1) /\ n + 1 \in 1 .. (m - 1) /\ n + 1 <= k
    BY <1>2
  <2>2. f[n + 1] = g[n + 1]
    BY <1>6, <2>1
  <2> QED BY <1>3, <1>4, <2>1, <2>2
<1>7. Nat \subseteq X
  <2> HIDE DEF X
  <2> QED BY <1>5, <1>6, SuccessorsReach
<1>8. f[k] = g[k]
  <2>1. k - 1 \in X /\ (k - 1) + 1 = k
    BY <1>2, <1>7
  <2> QED BY <1>2, <2>1
<1>9. k < m => k \in 1 .. (m - 1)
  BY <1>2
<1> QED
  BY <1>3, <1>4, <1>8, <1>9

\* A script that has come to its end leaves what it has then.
LEMMA CompletesOnce ==
    ASSUME NEW active, NEW name, NEW init, NEW s, Completes(active, name, init, s)
    PROVE  Done(active, name, init) /\ Final(active, name, init) = s
<1>1. Done(active, name, init)
  BY DEF Done
<1>2. Completes(active, name, init, Final(active, name, init))
  BY Zenon DEF Final
<1>3. name \in DOMAIN Scripts
  BY DEF Completes, Executes
<1> QED
  BY <1>1, <1>2, <1>3, OpsLength, ExecutesAlike DEF Completes

\* A script that fails does not come to its end.
LEMMA FailsNotDone ==
    ASSUME NEW active, NEW name, NEW init, NEW k, NEW s, Executes(active, name, init, k, s),
           k <= Len(Scripts[name].ops), Fails(active, Scripts[name].ops[k], s)
    PROVE  ~Done(active, name, init)
<1> SUFFICES ASSUME NEW u, Completes(active, name, init, u) PROVE FALSE
  BY DEF Done
<1>1. name \in DOMAIN Scripts /\ k \in 1 .. (Len(Scripts[name].ops) + 1)
  BY DEF Executes
<1>2. Len(Scripts[name].ops) \in Nat
  BY <1>1, OpsLength
<1>3. k <= Len(Scripts[name].ops) + 1 /\ k < Len(Scripts[name].ops) + 1
  BY <1>1, <1>2
<1> QED
  BY <1>3, ExecutesAlike DEF Completes

-------------------------------------------------------------------------------
(* Rules that are added only refuse more.                                  *)

Ordered(active) ==
    /\ "bip141" \in active => "bip16" \in active
    /\ "bip341" \in active <=> "bip342" \in active

LEMMA OldExecutes ==
    ASSUME NEW new, NEW old, old \subseteq new,
           NEW name, NEW init, NEW k, NEW s, Executes(new, name, init, k, s)
    PROVE  Executes(old, name, init, k, s)
<1>1. \A code, elements : Fails(old, code, elements) => Fails(new, code, elements)
  BY DEF Fails, is_enabled
<1> QED
  BY <1>1, Zenon DEF Executes

LEMMA OldDone ==
    ASSUME NEW new, NEW old, old \subseteq new, NEW name, NEW init, Done(new, name, init)
    PROVE  Done(old, name, init) /\ Final(old, name, init) = Final(new, name, init)
<1>1. PICK s : Completes(new, name, init, s)
  BY DEF Done
<1>2. Completes(old, name, init, s)
  BY <1>1, OldExecutes DEF Completes
<1> QED
  BY <1>1, <1>2, CompletesOnce

LEMMA OldWitness ==
    ASSUME NEW new, NEW old, old \subseteq new, Ordered(old),
           NEW name, NEW embedded, NEW witness, WitnessPasses(new, name, embedded, witness)
    PROVE  WitnessPasses(old, name, embedded, witness)
<1> DEFINE e == extract(name, witness)
<1>1. Reserved(new, name, embedded) => Reserved(old, name, embedded)
  BY DEF Reserved, is_enabled
<1> SUFFICES ASSUME ~Reserved(old, name, embedded), e.code = "success",
                    Passes(new, PhaseOf(name), e.script, e.stack)
             PROVE  Passes(old, PhaseOf(name), e.script, e.stack)
  BY <1>1 DEF WitnessPasses
<1> HIDE DEF e
<1>2. HasSuccess(new, PhaseOf(name), e.script) => HasSuccess(old, PhaseOf(name), e.script)
  <2>1. PhaseOf(name) = "taproot" => "bip342" \in old
    BY DEF PhaseOf, Reserved, is_enabled, Ordered
  <2> QED BY <2>1 DEF HasSuccess, is_enabled
<1>3. Done(new, e.script, e.stack) =>
        /\ Done(old, e.script, e.stack)
        /\ Final(old, e.script, e.stack) = Final(new, e.script, e.stack)
  BY OldDone
<1> QED
  BY <1>2, <1>3, Zenon DEF Passes

\* A spend that connects under rules connects under those of them that were there
\* before.
LEMMA SoftFork ==
    ASSUME NEW new, NEW old, old \subseteq new, Ordered(old), Ordered(new),
           NEW spend, Connects(new, spend)
    PROVE  Connects(old, spend)
<1> DEFINE first == Final(new, spend.input, <<>>)
           second == Final(new, spend.prevout, first)
           third == Final(new, Last(first), Front(first))
<1>1. Done(old, spend.input, <<>>) /\ Final(old, spend.input, <<>>) = first
  BY OldDone DEF Connects
<1>2. OutputPasses(new, spend, first)
  BY DEF Connects
<1>3. /\ Done(old, spend.prevout, first) /\ Final(old, spend.prevout, first) = second
      /\ IsTrue(second, FALSE) /\ RestPasses(new, spend, first)
  <2>1. /\ Done(new, spend.prevout, first) /\ IsTrue(second, FALSE)
        /\ RestPasses(new, spend, first)
    BY <1>2, Zenon DEF OutputPasses
  <2>2. Done(old, spend.prevout, first) /\ Final(old, spend.prevout, first) = second
    <3> HIDE DEF first
    <3> QED BY <2>1, OldDone
  <2> QED BY <2>1, <2>2, Zenon
<1> HIDE DEF first
<1>4. Sent(new, spend.witness) = <<>> => Sent(old, spend.witness) = <<>>
  BY DEF Sent, is_enabled
<1>5. "bip141" \notin old => Sent(old, spend.witness) = <<>>
  BY DEF Sent, is_enabled
<1>6. "bip141" \in old => Sent(old, spend.witness) = Sent(new, spend.witness)
  BY DEF Sent, is_enabled
<1>7. \A name : /\ is_pay_to_script_hash(old, name) => is_pay_to_script_hash(new, name)
                /\ is_pay_to_witness(old, name) => is_pay_to_witness(new, name)
                /\ is_pay_to_script_hash(new, name) => ~is_pay_to_witness(old, name)
                /\ is_pay_to_script_hash(new, name) /\ "bip16" \in old
                    => is_pay_to_script_hash(old, name)
                /\ is_pay_to_witness(new, name) /\ "bip141" \in old => is_pay_to_witness(old, name)
                /\ is_pay_to_witness(old, name) => "bip141" \in old
  BY DEF is_pay_to_script_hash, is_pay_to_witness, is_enabled, WitnessTypes
<1>8. RestPasses(old, spend, first)
  <2>1. CASE is_pay_to_script_hash(new, spend.prevout)
    <3>1. /\ is_relaxed_push_pattern(Scripts[spend.input].ops)
          /\ Done(new, Last(first), Front(first))
          /\ EmbeddedPasses(new, spend, Last(first), third)
      BY <1>3, <2>1 DEF RestPasses
    <3>2. Done(old, Last(first), Front(first)) /\ Final(old, Last(first), Front(first)) = third
      BY <3>1, OldDone
    <3> HIDE DEF third
    <3>3. CASE "bip16" \notin old
      <4>1. "bip141" \notin old
        BY <3>3 DEF Ordered
      <4>2. ~is_pay_to_script_hash(old, spend.prevout)
        BY <3>3 DEF is_pay_to_script_hash, is_enabled
      <4> QED BY <1>5, <1>7, <2>1, <4>1, <4>2 DEF RestPasses
    <3>4. CASE "bip16" \in old
      <4>1. EmbeddedPasses(old, spend, Last(first), third)
        <5>1. CASE is_pay_to_witness(old, Last(first))
          <6>1. "bip141" \in old /\ is_pay_to_witness(new, Last(first))
            BY <1>7, <5>1
          <6>2. /\ IsTrue(third, FALSE) /\ is_nominal_push_pattern(Scripts[spend.input].ops)
                /\ WitnessPasses(new, Last(first), TRUE, Sent(new, spend.witness))
            BY <3>1, <6>1 DEF EmbeddedPasses
          <6>3. WitnessPasses(old, Last(first), TRUE, Sent(old, spend.witness))
            BY <1>6, <6>1, <6>2, OldWitness
          <6> QED BY <5>1, <6>2, <6>3 DEF EmbeddedPasses
        <5>2. CASE ~is_pay_to_witness(old, Last(first))
          <6>1. Sent(old, spend.witness) = <<>>
            BY <1>4, <1>5, <1>7, <3>1, <5>2 DEF EmbeddedPasses
          <6> QED BY <3>1, <5>2, <6>1 DEF EmbeddedPasses
        <5> QED BY <5>1, <5>2
      <4>2. is_pay_to_script_hash(old, spend.prevout)
        BY <1>7, <2>1, <3>4
      <4> QED BY <3>1, <3>2, <4>1, <4>2 DEF RestPasses
    <3> QED BY <3>3, <3>4
  <2>2. CASE ~is_pay_to_script_hash(new, spend.prevout)
    <3>1. ~is_pay_to_script_hash(old, spend.prevout)
      BY <1>7, <2>2
    <3>2. CASE is_pay_to_witness(old, spend.prevout)
      <4>1. "bip141" \in old /\ is_pay_to_witness(new, spend.prevout)
        BY <1>7, <3>2
      <4>2. /\ Scripts[spend.input].ops = <<>>
            /\ WitnessPasses(new, spend.prevout, FALSE, Sent(new, spend.witness))
        BY <1>3, <2>2, <4>1 DEF RestPasses
      <4>3. WitnessPasses(old, spend.prevout, FALSE, Sent(old, spend.witness))
        BY <1>6, <4>1, <4>2, OldWitness
      <4> QED BY <3>1, <3>2, <4>2, <4>3 DEF RestPasses
    <3>3. CASE ~is_pay_to_witness(old, spend.prevout)
      <4>1. Sent(old, spend.witness) = <<>>
        BY <1>3, <1>4, <1>5, <1>7, <2>2, <3>3 DEF RestPasses
      <4> QED BY <3>1, <3>3, <4>1 DEF RestPasses
    <3> QED BY <3>2, <3>3
  <2> QED BY <2>1, <2>2
<1> QED
  BY <1>1, <1>3, <1>8 DEF Connects, OutputPasses

-------------------------------------------------------------------------------
(* The results of threads are what rules and spend decide.                 *)

\* Where a connection is, and what it will decide.
RunningAs(active, spend, program, elements, first) ==
    /\ program.phase = "input" =>
        /\ program.object[1] = spend.input
        /\ Executes(active, spend.input, <<>>, program.at, elements)
    /\ program.phase = "output" =>
        /\ program.object[1] = spend.prevout
        /\ Completes(active, spend.input, <<>>, first)
        /\ Executes(active, spend.prevout, first, program.at, elements)
    /\ program.phase = "embedded" =>
        /\ program.object[1] = Last(first)
        /\ Completes(active, spend.input, <<>>, first)
        /\ \E s : Completes(active, spend.prevout, first, s) /\ IsTrue(s, FALSE)
        /\ is_pay_to_script_hash(active, spend.prevout)
        /\ is_relaxed_push_pattern(Scripts[spend.input].ops)
        /\ Executes(active, Last(first), Front(first), program.at, elements)
    /\ program.phase \in {"segwit", "taproot"} =>
        \E init :
            /\ Executes(active, program.object[1], init, program.at, elements)
            /\ Connects(active, spend) <=>
                Passes(active, program.phase, program.object[1], init)

Running(t) == Runs(t) => RunningAs(Rules(t), Spend(t), run[t], stack[t], left[t])

Decided(t) ==
    \A i \in 1 .. Len(results[t]) :
        results[t][i] = "success" <=> Connects(work[t].rules[i], Spend(t))

DecisionInv == \A t \in Threads : Decided(t) /\ Running(t)

LEMMA ReturnDecides ==
    ASSUME ConnectionInv, DecisionInv, NEW t \in Threads, Runs(t), NEW code \in Code,
           Return(t, code), code = "success" <=> Connects(Rules(t), Spend(t))
    PROVE  DecisionInv'
<1>0. ConnectionTypeOK /\ RoundOK(t)
  BY DEF ConnectionInv
<1>1. /\ work' = work
      /\ results' = [results EXCEPT ![t] = Append(results[t], code)]
      /\ round' = [round EXCEPT ![t] = @ + 1]
      /\ run' = [run EXCEPT ![t] = Idle]
      /\ stack' = [stack EXCEPT ![t] = <<>>]
      /\ left' = [left EXCEPT ![t] = <<>>]
  BY DEF Return
<1>2. ASSUME NEW u \in Threads PROVE (Decided(u) /\ Running(u))'
  <2>0. Decided(u) /\ Running(u)
    BY DEF DecisionInv
  <2>1. CASE u # t
    <3>1. /\ run'[u] = run[u] /\ stack'[u] = stack[u] /\ left'[u] = left[u]
          /\ round'[u] = round[u] /\ results'[u] = results[u]
      BY <1>0, <1>1, <2>1 DEF ConnectionTypeOK
    <3> QED BY <1>1, <2>0, <3>1 DEF Decided, Running, Runs, Rules, Spend
  <2>2. CASE u = t
    <3>1. run'[t].phase = "idle" /\ results'[t] = Append(results[t], code)
      BY <1>0, <1>1 DEF ConnectionTypeOK, Idle, Program
    <3>2. Running(t)'
      BY <3>1 DEF Running, Runs
    <3>3. /\ Len(results'[t]) = Len(results[t]) + 1 /\ Len(results[t]) \in Nat
          /\ results'[t][Len(results[t]) + 1] = code
          /\ \A i \in 1 .. Len(results[t]) : results'[t][i] = results[t][i]
      BY <1>0, <3>1, AppendProperties, LenProperties DEF ConnectionTypeOK
    <3>4. ASSUME NEW i \in 1 .. Len(results'[t])
          PROVE  results'[t][i] = "success" <=> Connects(work[t].rules[i], Spend(t))
      <4>1. CASE i \in 1 .. Len(results[t])
        BY <2>0, <2>2, <3>3, <4>1 DEF Decided
      <4>2. CASE i = Len(results[t]) + 1
        <5>1. Rules(t) = work[t].rules[i]
          BY <1>0, <4>2 DEF Rules, RoundOK
        <5> QED BY <3>3, <4>2, <5>1
      <4>3. i \in 1 .. Len(results[t]) \/ i = Len(results[t]) + 1
        BY <3>3
      <4> QED BY <4>1, <4>2, <4>3
    <3> QED BY <1>1, <2>2, <3>2, <3>4 DEF Decided, Spend
  <2> QED BY <2>1, <2>2
<1> QED
  BY <1>2 DEF DecisionInv

LEMMA RunDecides ==
    ASSUME ConnectionInv, DecisionInv, NEW t \in Threads, NEW phase, NEW name,
           NEW elements, NEW kept, Run(t, phase, name, elements),
           left' = [left EXCEPT ![t] = kept],
           RunningAs(Rules(t), Spend(t), Program(phase, Object(t, name), 1, 1), elements, kept)
    PROVE  DecisionInv'
<1>0. ConnectionTypeOK
  BY DEF ConnectionInv
<1>1. /\ work' = work /\ round' = round /\ results' = results
      /\ run' = [run EXCEPT ![t] = Program(phase, Object(t, name), 1, 1)]
      /\ stack' = [stack EXCEPT ![t] = elements]
  BY DEF Run
<1>2. ASSUME NEW u \in Threads PROVE (Decided(u) /\ Running(u))'
  <2>0. Decided(u) /\ Running(u)
    BY DEF DecisionInv
  <2>1. Decided(u)'
    BY <1>1, <2>0 DEF Decided, Spend
  <2>2. CASE u # t
    <3>1. run'[u] = run[u] /\ stack'[u] = stack[u] /\ left'[u] = left[u]
      BY <1>0, <1>1, <2>2 DEF ConnectionTypeOK
    <3> QED BY <1>1, <2>0, <2>1, <3>1 DEF Running, Runs, Rules, Spend
  <2>3. CASE u = t
    <3>1. /\ run'[t] = Program(phase, Object(t, name), 1, 1)
          /\ stack'[t] = elements /\ left'[t] = kept
      BY <1>0, <1>1 DEF ConnectionTypeOK
    <3> QED BY <1>1, <2>1, <2>3, <3>1 DEF Running, Rules, Spend
  <2> QED BY <2>2, <2>3
<1> QED
  BY <1>2 DEF DecisionInv

\* What is left to decide after the output script.
LEMMA ConnectsOutput ==
    ASSUME NEW active, NEW spend, NEW first, NEW second,
           Completes(active, spend.input, <<>>, first),
           Completes(active, spend.prevout, first, second)
    PROVE  Connects(active, spend) <=> IsTrue(second, FALSE) /\ RestPasses(active, spend, first)
<1>1. Done(active, spend.input, <<>>) /\ Final(active, spend.input, <<>>) = first
  BY CompletesOnce
<1>2. Done(active, spend.prevout, first) /\ Final(active, spend.prevout, first) = second
  BY CompletesOnce
<1> QED
  BY <1>1, <1>2, Zenon DEF Connects, OutputPasses

\* The program of a thread, and that it has come to its end.
LEMMA ProgramIs ==
    ASSUME ConnectionInv, DecisionInv, NEW t \in Threads, Runs(t)
    PROVE  /\ run[t].object[1] \in DOMAIN Scripts
           /\ Ops(run[t].object) = Scripts[run[t].object[1]].ops
           /\ RunningAs(Rules(t), Spend(t), run[t], stack[t], left[t])
           /\ run[t].phase \in Phases \ {"idle"}
           /\ ~Remains(t) => run[t].at = Len(Scripts[run[t].object[1]].ops) + 1
<1>1. /\ run[t].object[1] \in DOMAIN Scripts
      /\ run[t].at \in 1 .. (Len(Ops(run[t].object)) + 1)
  BY DEF ConnectionInv, ObjectOK
<1>2. Len(Scripts[run[t].object[1]].ops) \in Nat
  BY <1>1, OpsLength
<1>3. ~Remains(t) => run[t].at = Len(Scripts[run[t].object[1]].ops) + 1
  <2> DEFINE n == Len(Scripts[run[t].object[1]].ops)
  <2>1. run[t].at \in 1 .. (n + 1) /\ (~Remains(t) => ~(run[t].at <= n))
    BY <1>1 DEF Remains, Ops
  <2> HIDE DEF n
  <2>2. n \in Nat
    BY <1>2 DEF n
  <2>3. ~Remains(t) => run[t].at = n + 1
    BY <2>1, <2>2
  <2> QED BY <2>3 DEF n
<1>4. run[t].phase \in Phases \ {"idle"}
  BY DEF ConnectionInv, ConnectionTypeOK, Runs
<1>5. RunningAs(Rules(t), Spend(t), run[t], stack[t], left[t])
  BY DEF DecisionInv, Running
<1> QED
  BY <1>1, <1>3, <1>4, <1>5 DEF Ops

\* A spend whose script fails does not connect.
LEMMA FailsNotConnects ==
    ASSUME NEW active, NEW spend, NEW program, NEW elements, NEW first,
           program.phase \in Phases \ {"idle"},
           RunningAs(active, spend, program, elements, first),
           program.at <= Len(Scripts[program.object[1]].ops),
           Fails(active, Scripts[program.object[1]].ops[program.at], elements),
           ~HasSuccess(active, program.phase, program.object[1])
    PROVE  ~Connects(active, spend)
<1> DEFINE name == program.object[1]
<1>1. CASE program.phase = "input"
  <2>1. ~Done(active, spend.input, <<>>)
    BY <1>1, FailsNotDone DEF RunningAs
  <2> QED BY <2>1 DEF Connects
<1>2. CASE program.phase = "output"
  <2>1. ~Done(active, spend.prevout, first)
    BY <1>2, FailsNotDone DEF RunningAs
  <2>2. Final(active, spend.input, <<>>) = first
    BY <1>2, CompletesOnce DEF RunningAs
  <2> QED BY <2>1, <2>2 DEF Connects, OutputPasses
<1>3. CASE program.phase = "embedded"
  <2>0. /\ name = Last(first) /\ Completes(active, spend.input, <<>>, first)
        /\ is_pay_to_script_hash(active, spend.prevout)
        /\ Executes(active, Last(first), Front(first), program.at, elements)
    BY <1>3, Zenon DEF RunningAs
  <2>1. ~Done(active, Last(first), Front(first))
    BY <2>0, FailsNotDone
  <2>2. Final(active, spend.input, <<>>) = first
    BY <2>0, CompletesOnce
  <2> QED BY <2>0, <2>1, <2>2, Zenon DEF Connects, OutputPasses, RestPasses
<1>4. CASE program.phase \in {"segwit", "taproot"}
  <2>1. PICK init : /\ Executes(active, name, init, program.at, elements)
                    /\ Connects(active, spend) <=> Passes(active, program.phase, name, init)
    BY <1>4 DEF RunningAs
  <2>2. ~Done(active, name, init)
    BY <2>1, FailsNotDone
  <2> QED BY <2>1, <2>2 DEF Passes
<1> QED
  BY <1>1, <1>2, <1>3, <1>4 DEF Phases

\* An operation that does not fail goes on.
LEMMA RunsOn ==
    ASSUME NEW active, NEW spend, NEW program, NEW elements, NEW first, NEW separates,
           RunningAs(active, spend, program, elements, first),
           program.at <= Len(Scripts[program.object[1]].ops),
           ~Fails(active, Scripts[program.object[1]].ops[program.at], elements)
    PROVE  RunningAs(active, spend, Advanced(program, separates),
                     Apply(program.object[1], Scripts[program.object[1]].ops[program.at], elements),
                     first)
<1> DEFINE p == Advanced(program, separates)
           name == program.object[1]
           after == Apply(name, Scripts[name].ops[program.at], elements)
<1>1. p.phase = program.phase /\ p.object = program.object /\ p.at = program.at + 1
  BY DEF Advanced, Program
<1>2. ASSUME NEW init, Executes(active, name, init, program.at, elements)
      PROVE  Executes(active, name, init, p.at, after)
  <2>1. Executes(active, name, init, program.at + 1, after)
    BY <1>2, ExecutesNext
  <2> QED BY <1>1, <2>1
<1> HIDE DEF p, after
<1>3. program.phase = "input" =>
        p.object[1] = spend.input /\ Executes(active, spend.input, <<>>, p.at, after)
  BY <1>1, <1>2 DEF RunningAs
<1>4. program.phase = "output" =>
        /\ p.object[1] = spend.prevout /\ Completes(active, spend.input, <<>>, first)
        /\ Executes(active, spend.prevout, first, p.at, after)
  BY <1>1, <1>2 DEF RunningAs
<1>5. program.phase = "embedded" =>
        /\ p.object[1] = Last(first)
        /\ Completes(active, spend.input, <<>>, first)
        /\ \E s : Completes(active, spend.prevout, first, s) /\ IsTrue(s, FALSE)
        /\ is_pay_to_script_hash(active, spend.prevout)
        /\ is_relaxed_push_pattern(Scripts[spend.input].ops)
        /\ Executes(active, Last(first), Front(first), p.at, after)
  <2> SUFFICES ASSUME program.phase = "embedded"
               PROVE  /\ p.object[1] = Last(first)
                      /\ Completes(active, spend.input, <<>>, first)
                      /\ \E s : Completes(active, spend.prevout, first, s) /\ IsTrue(s, FALSE)
                      /\ is_pay_to_script_hash(active, spend.prevout)
                      /\ is_relaxed_push_pattern(Scripts[spend.input].ops)
                      /\ Executes(active, Last(first), Front(first), p.at, after)
    BY Zenon
  <2>1. name = Last(first) /\ Executes(active, Last(first), Front(first), program.at, elements)
    BY Zenon DEF RunningAs
  <2>2. Executes(active, Last(first), Front(first), p.at, after)
    BY <1>2, <2>1
  <2> QED BY <1>1, <2>1, <2>2, Zenon DEF RunningAs
<1>6. program.phase \in {"segwit", "taproot"} =>
        \E init : /\ Executes(active, p.object[1], init, p.at, after)
                  /\ Connects(active, spend) <=> Passes(active, p.phase, p.object[1], init)
  <2> SUFFICES ASSUME program.phase \in {"segwit", "taproot"}
               PROVE  \E init :
                        /\ Executes(active, p.object[1], init, p.at, after)
                        /\ Connects(active, spend) <=> Passes(active, p.phase, p.object[1], init)
    OBVIOUS
  <2>1. PICK init : /\ Executes(active, name, init, program.at, elements)
                    /\ Connects(active, spend) <=> Passes(active, program.phase, name, init)
    BY DEF RunningAs
  <2> QED BY <1>1, <1>2, <2>1
<1>7. RunningAs(active, spend, p, after, first)
  BY <1>1, <1>3, <1>4, <1>5, <1>6, Zenon DEF RunningAs
<1> QED
  BY <1>7 DEF p, after

LEMMA OperationDecides ==
    ASSUME ConnectionInv, DecisionInv, NEW t \in Threads, Operation(t)
    PROVE  DecisionInv'
<1> DEFINE name == run[t].object[1]
<1>0. ConnectionTypeOK
  BY DEF ConnectionInv
<1>1. Runs(t) /\ Remains(t) /\ ~IsPrevalid(t)
  BY DEF Operation
<1>2. /\ Ops(run[t].object) = Scripts[name].ops
      /\ RunningAs(Rules(t), Spend(t), run[t], stack[t], left[t])
      /\ run[t].phase \in Phases \ {"idle"}
  BY <1>1, ProgramIs
<1>3. /\ run[t].at <= Len(Scripts[name].ops) /\ op(t) = Scripts[name].ops[run[t].at]
      /\ ~HasSuccess(Rules(t), run[t].phase, name)
  BY <1>1, <1>2 DEF Remains, op, IsPrevalid
<1>4. CASE Fails(Rules(t), op(t), stack[t])
  <2>1. Return(t, "script_error") /\ "script_error" \in Code /\ "script_error" # "success"
    BY <1>4, Zenon DEF Operation, Code
  <2>2. ~Connects(Rules(t), Spend(t))
    BY <1>2, <1>3, <1>4, FailsNotConnects
  <2> QED BY <1>1, <2>1, <2>2, ReturnDecides
<1>5. CASE ~Fails(Rules(t), op(t), stack[t])
  <2> DEFINE separates == op(t) = "separator"
             after == Apply(name, op(t), stack[t])
  <2>1. /\ stack' = [stack EXCEPT ![t] = after]
        /\ run' = [run EXCEPT ![t] = Advanced(run[t], separates)]
        /\ work' = work /\ round' = round /\ left' = left /\ results' = results
    BY <1>5 DEF Operation
  <2>2. RunningAs(Rules(t), Spend(t), Advanced(run[t], separates), after, left[t])
    <3> HIDE DEF separates
    <3> QED BY <1>2, <1>3, <1>5, RunsOn
  <2> HIDE DEF separates, after
  <2>3. ASSUME NEW u \in Threads PROVE (Decided(u) /\ Running(u))'
    <3>0. Decided(u) /\ Running(u)
      BY DEF DecisionInv
    <3>1. Decided(u)'
      BY <2>1, <3>0 DEF Decided, Spend
    <3>2. CASE u # t
      <4>1. run'[u] = run[u] /\ stack'[u] = stack[u]
        BY <1>0, <2>1, <3>2 DEF ConnectionTypeOK
      <4> QED BY <2>1, <3>0, <3>1, <4>1 DEF Running, Runs, Rules, Spend
    <3>3. CASE u = t
      <4>1. run'[t] = Advanced(run[t], separates) /\ stack'[t] = after
        BY <1>0, <2>1 DEF ConnectionTypeOK
      <4> QED BY <2>1, <2>2, <3>1, <3>3, <4>1 DEF Running, Rules, Spend
    <3> QED BY <3>2, <3>3
  <2> QED BY <2>3 DEF DecisionInv
<1> QED
  BY <1>4, <1>5

LEMMA StartDecides ==
    ASSUME ConnectionInv, DecisionInv, NEW t \in Threads, connect(t)
    PROVE  DecisionInv'
<1> DEFINE p == Program("input", Object(t, Spend(t).input), 1, 1)
<1>1. Run(t, "input", Spend(t).input, <<>>) /\ left' = left
  BY DEF connect
<1>2. Spend(t).input \in DOMAIN Scripts /\ left = [left EXCEPT ![t] = left[t]]
  BY SpendIs
<1>3. p.phase = "input" /\ p.object[1] = Spend(t).input /\ p.at = 1
  BY <1>2, ObjectIs DEF Program
<1>4. Executes(Rules(t), Spend(t).input, <<>>, 1, <<>>)
  BY <1>2, ExecutesFirst
<1>5. RunningAs(Rules(t), Spend(t), p, <<>>, left[t])
  <2> HIDE DEF p
  <2> QED BY <1>3, <1>4 DEF RunningAs
<1>6. left' = [left EXCEPT ![t] = left[t]]
  BY <1>1, <1>2
<1> QED
  BY <1>1, <1>5, <1>6, RunDecides

LEMMA InputDecides ==
    ASSUME ConnectionInv, DecisionInv, NEW t \in Threads, InputEnds(t)
    PROVE  DecisionInv'
<1> DEFINE p == Program("output", Object(t, Spend(t).prevout), 1, 1)
<1>1. /\ run[t].phase = "input" /\ Runs(t) /\ ~Remains(t)
      /\ left' = [left EXCEPT ![t] = stack[t]]
      /\ Run(t, "output", Spend(t).prevout, stack[t])
  BY DEF InputEnds, Ended, Runs
<1>2. Spend(t).prevout \in DOMAIN Scripts
  BY SpendIs
<1>3. Completes(Rules(t), Spend(t).input, <<>>, stack[t])
  BY <1>1, ProgramIs DEF RunningAs, Completes
<1>4. p.phase = "output" /\ p.object[1] = Spend(t).prevout /\ p.at = 1
  BY <1>2, ObjectIs DEF Program
<1>5. Executes(Rules(t), Spend(t).prevout, stack[t], 1, stack[t])
  BY <1>2, ExecutesFirst
<1>6. RunningAs(Rules(t), Spend(t), p, stack[t], stack[t])
  <2> HIDE DEF p
  <2> QED BY <1>3, <1>4, <1>5 DEF RunningAs
<1> QED
  BY <1>1, <1>6, RunDecides

LEMMA WitnessDecides ==
    ASSUME ConnectionInv, DecisionInv, NEW t \in Threads, Runs(t), NEW name \in DOMAIN Scripts,
           NEW embedded, connect_witness(t, name, embedded),
           Connects(Rules(t), Spend(t)) <=> WitnessPasses(Rules(t), name, embedded, Witness(t))
    PROVE  DecisionInv'
<1> DEFINE e == extract(name, Witness(t))
<1>1. Witness(t) \in Seq(Element) /\ left = [left EXCEPT ![t] = left[t]]
  BY SpendIs
<1>2. /\ e.code \in Code /\ "success" \in Code
      /\ e.code = "success" => e.script \in DOMAIN Scripts /\ e.stack \in Seq(Element)
  BY <1>1, ExtractIs DEF Code
<1>3. CASE Reserved(Rules(t), name, embedded)
  <2>1. Return(t, "success")
    BY <1>3, Zenon DEF connect_witness
  <2>2. Connects(Rules(t), Spend(t))
    BY <1>3, Zenon DEF WitnessPasses
  <2> QED BY <1>2, <2>1, <2>2, ReturnDecides
<1>4. CASE ~Reserved(Rules(t), name, embedded) /\ e.code # "success"
  <2>1. Return(t, e.code)
    BY <1>4, Zenon DEF connect_witness
  <2>2. ~Connects(Rules(t), Spend(t))
    BY <1>4, Zenon DEF WitnessPasses
  <2> HIDE DEF e
  <2> QED BY <1>2, <1>4, <2>1, <2>2, ReturnDecides
<1>5. CASE ~Reserved(Rules(t), name, embedded) /\ e.code = "success"
  <2>1. Run(t, PhaseOf(name), e.script, e.stack) /\ left' = left
    BY <1>5, Zenon DEF connect_witness
  <2>2. Connects(Rules(t), Spend(t)) <=> Passes(Rules(t), PhaseOf(name), e.script, e.stack)
    BY <1>5, Zenon DEF WitnessPasses
  <2> HIDE DEF e
  <2> DEFINE p == Program(PhaseOf(name), Object(t, e.script), 1, 1)
  <2>3. p.phase = PhaseOf(name) /\ p.object[1] = e.script /\ p.at = 1
    BY <1>2, <1>5, ObjectIs DEF Program
  <2>4. Executes(Rules(t), e.script, e.stack, 1, e.stack)
    BY <1>2, <1>5, ExecutesFirst
  <2>5. PhaseOf(name) \notin {"input", "output", "embedded"}
    BY DEF PhaseOf
  <2>6. RunningAs(Rules(t), Spend(t), p, e.stack, left[t])
    <3> HIDE DEF p
    <3> QED BY <2>2, <2>3, <2>4, <2>5 DEF RunningAs
  <2>7. left' = [left EXCEPT ![t] = left[t]]
    BY <1>1, <2>1
  <2> QED BY <2>1, <2>6, <2>7, RunDecides
<1> QED
  BY <1>3, <1>4, <1>5

LEMMA OutputDecides ==
    ASSUME ConnectionInv, DecisionInv, NEW t \in Threads, OutputEnds(t)
    PROVE  DecisionInv'
<1> DEFINE prevout == Spend(t).prevout
           ops == Scripts[Spend(t).input].ops
           active == Rules(t)
           last == IF Witness(t) # <<>> THEN "unexpected_witness" ELSE "success"
<1>1. run[t].phase = "output" /\ Runs(t) /\ ~Remains(t)
  BY DEF OutputEnds, Ended, Runs
<1>2. /\ prevout \in DOMAIN Scripts /\ left = [left EXCEPT ![t] = left[t]]
      /\ Witness(t) = Sent(active, Spend(t).witness)
  BY SpendIs DEF Witness
<1>3. /\ Completes(active, Spend(t).input, <<>>, left[t])
      /\ Completes(active, prevout, left[t], stack[t])
  BY <1>1, ProgramIs DEF RunningAs, Completes
<1>4. Connects(active, Spend(t)) <=>
        IsTrue(stack[t], FALSE) /\ RestPasses(active, Spend(t), left[t])
  BY <1>3, ConnectsOutput
<1>5. {"stack_false", "invalid_script_embed", "dirty_witness", last} \subseteq Code
      /\ (last = "success" <=> Witness(t) = <<>>)
  BY DEF Code
<1> HIDE DEF active, last
<1>6. CASE ~IsTrue(stack[t], FALSE)
  <2>1. Return(t, "stack_false")
    BY <1>6, Zenon DEF OutputEnds
  <2>2. ~Connects(active, Spend(t))
    BY <1>4, <1>6, Zenon
  <2> QED BY <1>1, <1>5, <2>1, <2>2, ReturnDecides DEF active
<1>7. CASE IsTrue(stack[t], FALSE) /\ is_pay_to_script_hash(active, prevout)
                /\ ~is_relaxed_push_pattern(ops)
  <2>1. Return(t, "invalid_script_embed")
    BY <1>7, Zenon DEF OutputEnds, active
  <2>2. ~Connects(active, Spend(t))
    BY <1>4, <1>7, Zenon DEF RestPasses
  <2> QED BY <1>1, <1>5, <2>1, <2>2, ReturnDecides DEF active
<1>8. CASE IsTrue(stack[t], FALSE) /\ is_pay_to_script_hash(active, prevout)
                /\ is_relaxed_push_pattern(ops)
  <2> DEFINE name == Last(left[t])
             p == Program("embedded", Object(t, name), 1, 1)
  <2>1. Run(t, "embedded", name, Front(left[t])) /\ left' = left
    BY <1>8, Zenon DEF OutputEnds, active
  <2>2. name \in DOMAIN Scripts
    <3>1. /\ HashOK(t) /\ run[t].object[1] = prevout /\ run[t].at = Len(Scripts[prevout].ops) + 1
      BY <1>1, ProgramIs DEF ConnectionInv, RunningAs
    <3>2. Type(prevout) = "script_hash" /\ Scripts[prevout].ops = <<"hash">>
          /\ Scripts[prevout].target \in DOMAIN Scripts
      BY <1>2, <1>8, ScriptsAssumption DEF is_pay_to_script_hash, Type
    <3>3. run[t].at = 2
      BY <3>1, <3>2
    <3>4. Last(stack[t]) # "false"
      BY <1>8 DEF IsTrue
    <3> QED BY <1>1, <3>1, <3>2, <3>3, <3>4 DEF HashOK
  <2>3. p.phase = "embedded" /\ p.object[1] = name /\ p.at = 1
    BY <2>2, ObjectIs DEF Program
  <2>4. Executes(active, name, Front(left[t]), 1, Front(left[t]))
    BY <2>2, ExecutesFirst
  <2>5. RunningAs(active, Spend(t), p, Front(left[t]), left[t])
    <3>1. \E s : Completes(active, Spend(t).prevout, left[t], s) /\ IsTrue(s, FALSE)
      BY <1>3, <1>8, Zenon
    <3> HIDE DEF p
    <3>2. p.phase \notin {"input", "output", "segwit", "taproot"}
      BY <2>3
    <3> QED BY <1>3, <1>8, <2>3, <2>4, <3>1, <3>2, Zenon DEF RunningAs
  <2>6. left' = [left EXCEPT ![t] = left[t]]
    BY <1>2, <2>1
  <2> QED BY <2>1, <2>5, <2>6, RunDecides DEF active
<1>9. CASE IsTrue(stack[t], FALSE) /\ ~is_pay_to_script_hash(active, prevout)
                /\ is_pay_to_witness(active, prevout) /\ ops # <<>>
  <2>1. Return(t, "dirty_witness")
    BY <1>9, Zenon DEF OutputEnds, active
  <2>2. ~Connects(active, Spend(t))
    BY <1>4, <1>9, Zenon DEF RestPasses
  <2> QED BY <1>1, <1>5, <2>1, <2>2, ReturnDecides DEF active
<1>10. CASE IsTrue(stack[t], FALSE) /\ ~is_pay_to_script_hash(active, prevout)
                /\ is_pay_to_witness(active, prevout) /\ ops = <<>>
  <2>1. connect_witness(t, prevout, FALSE)
    BY <1>10, Zenon DEF OutputEnds, active
  <2>2. Connects(active, Spend(t)) <=> WitnessPasses(active, prevout, FALSE, Witness(t))
    BY <1>2, <1>4, <1>10, Zenon DEF RestPasses
  <2> QED BY <1>1, <1>2, <2>1, <2>2, WitnessDecides DEF active
<1>11. CASE IsTrue(stack[t], FALSE) /\ ~is_pay_to_script_hash(active, prevout)
                /\ ~is_pay_to_witness(active, prevout)
  <2>1. Return(t, last)
    BY <1>11, Zenon DEF OutputEnds, active, last
  <2>2. Connects(active, Spend(t)) <=> Witness(t) = <<>>
    BY <1>2, <1>4, <1>11, Zenon DEF RestPasses
  <2> QED BY <1>1, <1>5, <2>1, <2>2, ReturnDecides DEF active
<1> QED
  BY <1>6, <1>7, <1>8, <1>9, <1>10, <1>11, Zenon

LEMMA EmbeddedDecides ==
    ASSUME ConnectionInv, DecisionInv, NEW t \in Threads, EmbeddedEnds(t)
    PROVE  DecisionInv'
<1> DEFINE name == run[t].object[1]
           active == Rules(t)
           ops == Scripts[Spend(t).input].ops
           last == IF Witness(t) # <<>> THEN "unexpected_witness" ELSE "success"
<1>1. run[t].phase = "embedded" /\ Runs(t) /\ ~Remains(t)
  BY DEF EmbeddedEnds, Ended, Runs
<1>2. name \in DOMAIN Scripts /\ Witness(t) = Sent(active, Spend(t).witness)
  BY <1>1, ProgramIs DEF Witness
<1>3. /\ name = Last(left[t]) /\ Completes(active, Spend(t).input, <<>>, left[t])
      /\ \E s : Completes(active, Spend(t).prevout, left[t], s) /\ IsTrue(s, FALSE)
      /\ is_pay_to_script_hash(active, Spend(t).prevout)
      /\ is_relaxed_push_pattern(ops)
      /\ Executes(active, Last(left[t]), Front(left[t]), run[t].at, stack[t])
      /\ run[t].at = Len(Scripts[name].ops) + 1
  <2>1. /\ RunningAs(active, Spend(t), run[t], stack[t], left[t])
        /\ run[t].at = Len(Scripts[name].ops) + 1
    BY <1>1, ProgramIs
  <2> QED BY <1>1, <2>1, Zenon DEF RunningAs
<1>4. Connects(active, Spend(t)) <=> RestPasses(active, Spend(t), left[t])
  <2>1. PICK s : Completes(active, Spend(t).prevout, left[t], s) /\ IsTrue(s, FALSE)
    BY <1>3, Zenon
  <2>2. Connects(active, Spend(t)) <=> IsTrue(s, FALSE) /\ RestPasses(active, Spend(t), left[t])
    BY <1>3, <2>1, ConnectsOutput
  <2> QED BY <2>1, <2>2, Zenon
<1>5. /\ Done(active, Last(left[t]), Front(left[t]))
      /\ Final(active, Last(left[t]), Front(left[t])) = stack[t]
  <2>1. Completes(active, Last(left[t]), Front(left[t]), stack[t])
    BY <1>3, Zenon DEF Completes
  <2> QED BY <2>1, CompletesOnce
<1>6. Connects(active, Spend(t)) <=> EmbeddedPasses(active, Spend(t), name, stack[t])
  BY <1>3, <1>4, <1>5, Zenon DEF RestPasses
<1>7. {"stack_false", "dirty_embed", last} \subseteq Code
      /\ (last = "success" <=> Witness(t) = <<>>)
  BY DEF Code
<1> HIDE DEF active, last
<1>8. CASE ~IsTrue(stack[t], FALSE)
  <2>1. Return(t, "stack_false")
    BY <1>8, Zenon DEF EmbeddedEnds
  <2>2. ~Connects(active, Spend(t))
    BY <1>6, <1>8, Zenon DEF EmbeddedPasses
  <2> QED BY <1>1, <1>7, <2>1, <2>2, ReturnDecides DEF active
<1>9. CASE /\ IsTrue(stack[t], FALSE) /\ is_pay_to_witness(active, name)
           /\ ~is_nominal_push_pattern(ops)
  <2>1. Return(t, "dirty_embed")
    BY <1>9, Zenon DEF EmbeddedEnds, active
  <2>2. ~Connects(active, Spend(t))
    BY <1>6, <1>9, Zenon DEF EmbeddedPasses
  <2> QED BY <1>1, <1>7, <2>1, <2>2, ReturnDecides DEF active
<1>10. CASE /\ IsTrue(stack[t], FALSE) /\ is_pay_to_witness(active, name)
            /\ is_nominal_push_pattern(ops)
  <2>1. connect_witness(t, name, TRUE)
    BY <1>10, Zenon DEF EmbeddedEnds, active
  <2>2. Connects(active, Spend(t)) <=> WitnessPasses(active, name, TRUE, Witness(t))
    BY <1>2, <1>6, <1>10, Zenon DEF EmbeddedPasses
  <2> HIDE DEF name
  <2> QED BY <1>1, <1>2, <2>1, <2>2, WitnessDecides DEF active
<1>11. CASE IsTrue(stack[t], FALSE) /\ ~is_pay_to_witness(active, name)
  <2>1. Return(t, last)
    BY <1>11, Zenon DEF EmbeddedEnds, active, last
  <2>2. Connects(active, Spend(t)) <=> Witness(t) = <<>>
    BY <1>2, <1>6, <1>11, Zenon DEF EmbeddedPasses
  <2> QED BY <1>1, <1>7, <2>1, <2>2, ReturnDecides DEF active
<1> QED
  BY <1>8, <1>9, <1>10, <1>11, Zenon

LEMMA WitnessEndDecides ==
    ASSUME ConnectionInv, DecisionInv, NEW t \in Threads, WitnessEnds(t)
    PROVE  DecisionInv'
<1> DEFINE name == run[t].object[1]
           code == IF IsTrue(stack[t], TRUE) THEN "success" ELSE "stack_false"
<1>1. /\ run[t].phase \in {"segwit", "taproot"} /\ Runs(t) /\ ~Remains(t) /\ ~IsPrevalid(t)
      /\ Return(t, code)
  BY DEF WitnessEnds, Ended, Runs
<1>2. PICK init : /\ Executes(Rules(t), name, init, run[t].at, stack[t])
                  /\ Connects(Rules(t), Spend(t)) <=> Passes(Rules(t), run[t].phase, name, init)
  BY <1>1, ProgramIs DEF RunningAs
<1>3. Completes(Rules(t), name, init, stack[t])
  BY <1>1, <1>2, ProgramIs DEF Completes
<1>4. Done(Rules(t), name, init) /\ Final(Rules(t), name, init) = stack[t]
  BY <1>3, CompletesOnce
<1>5. ~HasSuccess(Rules(t), run[t].phase, name)
  BY <1>1 DEF IsPrevalid
<1>6. Connects(Rules(t), Spend(t)) <=> IsTrue(stack[t], TRUE)
  BY <1>2, <1>4, <1>5, Zenon DEF Passes
<1>7. code \in Code /\ (code = "success" <=> IsTrue(stack[t], TRUE))
  BY DEF Code
<1> HIDE DEF code
<1>8. code = "success" <=> Connects(Rules(t), Spend(t))
  BY <1>6, <1>7, Zenon
<1> QED
  BY <1>1, <1>7, <1>8, ReturnDecides

LEMMA PrevalidDecides ==
    ASSUME ConnectionInv, DecisionInv, NEW t \in Threads, Prevalid(t)
    PROVE  DecisionInv'
<1> DEFINE name == run[t].object[1]
<1>1. /\ HasSuccess(Rules(t), run[t].phase, name) /\ run[t].phase = "taproot"
      /\ Runs(t) /\ Return(t, "success") /\ "success" \in Code
  BY DEF Prevalid, IsPrevalid, HasSuccess, Runs, Code
<1>2. PICK init : Connects(Rules(t), Spend(t)) <=> Passes(Rules(t), run[t].phase, name, init)
  BY <1>1, ProgramIs DEF RunningAs
<1>3. Connects(Rules(t), Spend(t))
  BY <1>1, <1>2, Zenon DEF Passes
<1> QED
  BY <1>1, <1>3, ReturnDecides

LEMMA DecisionStep ==
    ASSUME ConnectionInv, DecisionInv, [Next]_vars
    PROVE  DecisionInv'
<1>1. CASE UNCHANGED vars
  BY <1>1 DEF vars, DecisionInv, Decided, Running, Runs, Rules, Spend
<1> QED
  BY <1>1, StartDecides, OperationDecides, InputDecides, OutputDecides, EmbeddedDecides,
     WitnessEndDecides, PrevalidDecides DEF Next

LEMMA DecisionStart ==
    Init => DecisionInv
<1> SUFFICES ASSUME Init, NEW t \in Threads PROVE Decided(t) /\ Running(t)
  BY DEF DecisionInv
<1>1. results[t] = <<>> /\ run[t].phase = "idle" /\ Len(<<>>) = 0
  BY DEF Init, Idle, Program
<1> QED
  BY <1>1 DEF Decided, Running, Runs

\* Every rule is a soft fork: for any scripts, spends and sets of rules in the
\* order of their activation, and however threads interleave, a spend that
\* connects under rules connects under those of them that were there before
\* (connect, connect_embedded, connect_witness).
THEOREM RulesAreSoftForks ==
    Spec => []OldNodesAgree
<1>1. ConnectionInv /\ DecisionInv => OldNodesAgree
  <2> SUFFICES ASSUME ConnectionInv, DecisionInv, NEW t \in Threads,
                      NEW i \in DOMAIN results[t], NEW j \in DOMAIN results[t],
                      results[t][i] = "success", work[t].rules[j] \subseteq work[t].rules[i]
               PROVE  results[t][j] = "success"
    BY DEF OldNodesAgree
  <2>1. ConnectionTypeOK /\ RoundOK(t)
    BY DEF ConnectionInv
  <2>2. work[t].rules \in Seq(SUBSET STRING) /\ results[t] \in Seq(Code)
    BY <2>1, WorksAssumption DEF ConnectionTypeOK
  <2>3. i \in 1 .. Len(results[t]) /\ j \in 1 .. Len(results[t])
        /\ i \in DOMAIN work[t].rules /\ j \in DOMAIN work[t].rules
    BY <2>1, <2>2, LenProperties DEF RoundOK
  <2>4. Ordered(work[t].rules[i]) /\ Ordered(work[t].rules[j])
    BY <2>1, <2>3, WorksAssumption DEF ConnectionTypeOK, Ordered
  <2>5. Connects(work[t].rules[i], Spend(t))
    BY <2>3 DEF DecisionInv, Decided
  <2>6. Connects(work[t].rules[j], Spend(t))
    BY <2>4, <2>5, SoftFork
  <2> QED BY <2>3, <2>6 DEF DecisionInv, Decided
<1>2. ConnectionInv /\ DecisionInv /\ [Next]_vars => DecisionInv'
  BY DecisionStep
<1> QED
  BY <1>1, <1>2, DecisionStart, ConnectionInvariant, PTL DEF Spec
===============================================================================
