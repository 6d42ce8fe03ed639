------------------------- MODULE ScriptMachineProofs -------------------------
(***************************************************************************)
(* Proofs about ScriptMachine, for every instance of its constants.        *)
(***************************************************************************)
EXTENDS ScriptMachine, SequenceTheorems, FiniteSetTheorems,
        WellFoundedInduction, TLAPS

-------------------------------------------------------------------------------
(* The stack operators.                                                    *)

\* What push leaves: the new top above the old stack (stack::push).
LEMMA PushType ==
    ASSUME NEW S, NEW s \in Seq(S), NEW e \in S
    PROVE  /\ push(s, e) \in Seq(S)
           /\ Len(push(s, e)) = Len(s) + 1
<1>1. <<e>> \in Seq(S) /\ Len(<<e>>) = 1
  OBVIOUS
<1> QED
  BY <1>1, ConcatProperties DEF push

\* What drop leaves: the stack less its top n elements (stack::drop, pop).
LEMMA DropType ==
    ASSUME NEW S, NEW s \in Seq(S), NEW n \in 0..Len(s)
    PROVE  /\ drop(s, n) \in Seq(S)
           /\ Len(drop(s, n)) = Len(s) - n
           /\ \A i \in 1..(Len(s) - n) : drop(s, n)[i] = s[i + n]
<1>1. Len(s) \in Nat /\ \A i \in 1..Len(s) : s[i] \in S
  BY LenProperties, ElementOfSeq
<1>2. n + 1 \in Int /\ Len(s) \in Int /\ \A i \in (n + 1)..Len(s) : s[i] \in S
  BY <1>1
<1>3. /\ SubSeq(s, n + 1, Len(s)) \in Seq(S)
      /\ Len(SubSeq(s, n + 1, Len(s))) =
            IF n + 1 <= Len(s) THEN Len(s) - (n + 1) + 1 ELSE 0
      /\ \A i \in 1..(Len(s) - (n + 1) + 1) :
            SubSeq(s, n + 1, Len(s))[i] = s[n + 1 + i - 1]
  BY <1>2, SubSeqProperties
<1> QED
  BY <1>1, <1>3 DEF drop

\* Any part of a stack is a stack.
LEMMA PartType ==
    ASSUME NEW S, NEW s \in Seq(S), NEW m \in Nat \ {0}, NEW n \in Int,
           n <= Len(s)
    PROVE  /\ SubSeq(s, m, n) \in Seq(S)
           /\ Len(SubSeq(s, m, n)) = IF m <= n THEN n - m + 1 ELSE 0
<1>1. Len(s) \in Nat /\ \A i \in 1..Len(s) : s[i] \in S
  BY LenProperties, ElementOfSeq
<1>2. \A i \in m..n : s[i] \in S
  BY <1>1
<1> QED
  BY <1>2, SubSeqProperties

\* A swap keeps the size of the stack (stack::swap).
LEMMA SwapType ==
    ASSUME NEW S, NEW s \in Seq(S), NEW i \in Nat, NEW j \in Nat,
           i < Len(s), j < Len(s)
    PROVE  swap(s, i, j) \in Seq(S) /\ Len(swap(s, i, j)) = Len(s)
<1>1. /\ Len(s) \in Nat /\ i + 1 \in 1..Len(s) /\ j + 1 \in 1..Len(s)
      /\ s[i + 1] \in S /\ s[j + 1] \in S
  BY LenProperties, ElementOfSeq
<1> DEFINE t == [s EXCEPT ![i + 1] = s[j + 1]]
<1>2. t \in Seq(S) /\ Len(t) = Len(s)
  BY <1>1, ExceptSeq
<1>3. [t EXCEPT ![j + 1] = s[i + 1]] \in Seq(S)
      /\ Len([t EXCEPT ![j + 1] = s[i + 1]]) = Len(t)
  <2> HIDE DEF t
  <2> QED BY <1>1, <1>2, ExceptSeq
<1> QED
  BY <1>2, <1>3 DEF swap

\* The element read is an element of the stack (stack::peek).
LEMMA PeekType ==
    ASSUME NEW S, NEW s \in Seq(S), NEW i \in Nat, i < Len(s)
    PROVE  peek(s, i) \in S
<1>1. Len(s) \in Nat /\ i + 1 \in 1..Len(s)
  BY LenProperties
<1> QED
  BY <1>1, ElementOfSeq DEF peek

\* What erase leaves: one element less (stack::erase).
LEMMA EraseType ==
    ASSUME NEW S, NEW s \in Seq(S), NEW i \in Nat, i < Len(s)
    PROVE  erase(s, i) \in Seq(S) /\ Len(erase(s, i)) = Len(s) - 1
<1> DEFINE a == SubSeq(s, 1, i)
           b == SubSeq(s, i + 2, Len(s))
<1>1. Len(s) \in Nat
  BY LenProperties
<1>2. a \in Seq(S) /\ Len(a) = i
  BY <1>1, PartType
<1>3. b \in Seq(S) /\ Len(b) = IF i + 2 <= Len(s) THEN Len(s) - (i + 2) + 1 ELSE 0
  BY <1>1, PartType
<1>4. erase(s, i) = a \o b
  BY DEF erase
<1> HIDE DEF a, b
<1>5. a \o b \in Seq(S) /\ Len(a \o b) = Len(a) + Len(b)
  BY <1>2, <1>3, ConcatProperties
<1> QED
  BY <1>1, <1>2, <1>3, <1>4, <1>5

\* The numbers of the elements of a stack, and one that indexes what is below
\* it (pop_index32).
LEMMA NumberAt ==
    ASSUME NEW s \in Seq(Element), NEW i \in 1..Len(s)
    PROVE  s[i].val \in Int
<1>1. s[i] \in Element
  BY ElementOfSeq
<1> QED
  BY <1>1 DEF Element

LEMMA IndexType ==
    ASSUME NEW s \in Seq(Element), IsIndex(s)
    PROVE  Len(s) \in Nat /\ s[1].val \in Nat /\ s[1].val + 1 \in 0..(Len(s) - 1)
<1>1. Len(s) \in Nat /\ 1 \in 1..Len(s)
  BY LenProperties DEF IsIndex
<1>2. s[1].val \in Int
  BY <1>1, NumberAt
<1> QED
  BY <1>1, <1>2 DEF IsIndex

\* A copy of an element lies above the old stack (push_variant of peek).
LEMMA CopyType ==
    ASSUME NEW S, NEW s \in Seq(S), NEW i \in Nat, i < Len(s)
    PROVE  Copy(s, i) \in Seq(S) /\ Len(Copy(s, i)) = Len(s) + 1
  BY PeekType, PushType DEF Copy

\* Every fixed rearrangement leaves a stack, given the elements it needs.
LEMMA RearrangedType ==
    ASSUME NEW S, NEW s \in Seq(S), NEW code \in DOMAIN Needs,
           Len(s) >= Needs[code]
    PROVE  Rearranged(code, s) \in Seq(S)
<1>0. Len(s) \in Nat
  BY LenProperties
<1>1. CASE code = "drop2"
  <2> DEFINE a == drop(s, 1)
  <2>0. Len(s) >= 2
    BY <1>1 DEF Needs
  <2>1. a \in Seq(S) /\ Len(a) = Len(s) - 1
    BY <1>0, <2>0, DropType
  <2>2. drop(a, 1) \in Seq(S)
    <3> HIDE DEF a
    <3> QED BY <1>0, <2>0, <2>1, DropType
  <2> QED BY <1>1, <2>2 DEF Rearranged
<1>2. CASE code = "dup2"
  <2>1. Copy(s, 1) \in Seq(S) /\ Len(Copy(s, 1)) = Len(s) + 1
    BY <1>0, <1>2, CopyType DEF Needs
  <2>2. Copy(Copy(s, 1), 1) \in Seq(S)
    BY <1>0, <1>2, <2>1, CopyType DEF Needs
  <2> QED BY <1>2, <2>2 DEF Rearranged
<1>3. CASE code = "dup3"
  <2>1. Copy(s, 2) \in Seq(S) /\ Len(Copy(s, 2)) = Len(s) + 1
    BY <1>0, <1>3, CopyType DEF Needs
  <2>2. /\ Copy(Copy(s, 2), 2) \in Seq(S)
        /\ Len(Copy(Copy(s, 2), 2)) = Len(s) + 2
    BY <1>0, <1>3, <2>1, CopyType DEF Needs
  <2>3. Copy(Copy(Copy(s, 2), 2), 2) \in Seq(S)
    BY <1>0, <1>3, <2>2, CopyType DEF Needs
  <2> QED BY <1>3, <2>3 DEF Rearranged
<1>4. CASE code = "over2"
  <2>1. Copy(s, 3) \in Seq(S) /\ Len(Copy(s, 3)) = Len(s) + 1
    BY <1>0, <1>4, CopyType DEF Needs
  <2>2. Copy(Copy(s, 3), 3) \in Seq(S)
    BY <1>0, <1>4, <2>1, CopyType DEF Needs
  <2> QED BY <1>4, <2>2 DEF Rearranged
<1>5. CASE code = "rot2"
  <2> DEFINE a == swap(s, 0, 4)
             b == swap(a, 1, 5)
             c == swap(b, 2, 4)
  <2>0. Len(s) >= 6
    BY <1>5 DEF Needs
  <2>1. a \in Seq(S) /\ Len(a) = Len(s)
    BY <1>0, <2>0, SwapType
  <2>2. b \in Seq(S) /\ Len(b) = Len(s)
    <3> HIDE DEF a
    <3> QED BY <1>0, <2>0, <2>1, SwapType
  <2>3. c \in Seq(S) /\ Len(c) = Len(s)
    <3> HIDE DEF b
    <3> QED BY <1>0, <2>0, <2>2, SwapType
  <2>4. swap(c, 3, 5) \in Seq(S)
    <3> HIDE DEF c
    <3> QED BY <1>0, <2>0, <2>3, SwapType
  <2> QED BY <1>5, <2>4 DEF Rearranged
<1>6. CASE code = "swap2"
  <2>0. Len(s) >= 4
    BY <1>6 DEF Needs
  <2>1. swap(s, 1, 3) \in Seq(S) /\ Len(swap(s, 1, 3)) = Len(s)
    BY <1>0, <2>0, SwapType
  <2>2. swap(swap(s, 1, 3), 0, 2) \in Seq(S)
    BY <1>0, <2>0, <2>1, SwapType
  <2> QED BY <1>6, <2>2 DEF Rearranged
<1>7. CASE code = "drop"
  BY <1>0, <1>7, DropType DEF Needs, Rearranged
<1>8. CASE code = "dup"
  BY <1>0, <1>8, CopyType DEF Needs, Rearranged
<1>9. CASE code = "nip"
  <2>0. Len(s) >= 2
    BY <1>9 DEF Needs
  <2>1. swap(s, 0, 1) \in Seq(S) /\ Len(swap(s, 0, 1)) = Len(s)
    BY <1>0, <2>0, SwapType
  <2>2. drop(swap(s, 0, 1), 1) \in Seq(S)
    BY <1>0, <2>0, <2>1, DropType
  <2> QED BY <1>9, <2>2 DEF Rearranged
<1>10. CASE code = "over"
  BY <1>0, <1>10, CopyType DEF Needs, Rearranged
<1>11. CASE code = "rot"
  <2>0. Len(s) >= 3
    BY <1>11 DEF Needs
  <2>1. swap(s, 1, 2) \in Seq(S) /\ Len(swap(s, 1, 2)) = Len(s)
    BY <1>0, <2>0, SwapType
  <2>2. swap(swap(s, 1, 2), 0, 1) \in Seq(S)
    BY <1>0, <2>0, <2>1, SwapType
  <2> QED BY <1>11, <2>2 DEF Rearranged
<1>12. CASE code = "swap"
  <2>0. Len(s) >= 2
    BY <1>12 DEF Needs
  <2>1. swap(s, 0, 1) \in Seq(S)
    BY <1>0, <2>0, SwapType
  <2> QED BY <1>12, <2>1 DEF Rearranged
<1>13. CASE code = "tuck"
  <2>0. Len(s) >= 2
    BY <1>13 DEF Needs
  <2>1. swap(s, 0, 1) \in Seq(S) /\ Len(swap(s, 0, 1)) = Len(s)
    BY <1>0, <2>0, SwapType
  <2>2. Copy(swap(s, 0, 1), 1) \in Seq(S)
    BY <1>0, <2>0, <2>1, CopyType
  <2> QED BY <1>13, <2>2 DEF Rearranged
<1>14. DOMAIN Needs = {"drop2", "dup2", "dup3", "over2", "rot2", "swap2", "drop",
                       "dup", "nip", "over", "rot", "swap", "tuck"}
  BY DEF Needs
<1> QED
  BY <1>1, <1>2, <1>3, <1>4, <1>5, <1>6, <1>7, <1>8, <1>9, <1>10, <1>11,
     <1>12, <1>13, <1>14

-------------------------------------------------------------------------------
(* Types.                                                                  *)

\* The loop over keys is at a key and at an endorsement.
TrialOK ==
    status = "trial" =>
        trial.code \in MultisigCodes /\ trial.key >= 1 /\ trial.it >= 1

Typed == TypeOK /\ TrialOK

\* A run that ends keeps its state, so its types too.
LEMMA EndTyped ==
    ASSUME Typed, NEW ec, ec # "trial", End(ec)
    PROVE  Typed'
  BY DEF Typed, TypeOK, TrialOK, End, stacks, scope, sighashing, history

\* A handler of the primary stack keeps the types if it leaves a stack.
LEMMA StackOpTyped ==
    ASSUME Typed, NEW code, NEW ok, NEW ec, NEW primary,
           StackOp(code, ok, ec, primary),
           ok => primary \in Seq(Element), ec # "trial"
    PROVE  Typed'
<1>1. CASE ok
  <2>1. /\ primary_' = primary
        /\ UNCHANGED <<alternate_, scope, budget_, sighashing, history>>
        /\ Return(code)
    BY <1>1 DEF StackOp
  <2>2. operations_' \in Nat /\ pc' \in Nat /\ status' # "trial"
        /\ UNCHANGED <<program, trial>>
    BY <2>1 DEF Typed, TypeOK, Return, ops_increment
  <2> QED
    BY <1>1, <2>1, <2>2 DEF Typed, TypeOK, TrialOK, scope, sighashing, history
<1>2. CASE ~ok
  <2>1. End(ec)
    BY <1>2 DEF StackOp
  <2> QED BY <2>1, EndTyped
<1> QED
  BY <1>1, <1>2

\* Numbers, booleans, sizes and digests are elements.
LEMMA ElementType ==
    /\ \A n \in Int : Number(n) \in Element
    /\ \A b : Boolean(b) \in Element
    /\ Empty \in Element
<1>1. \A n \in Int : Number(n) \in Element
  BY DEF Number, Element
<1> QED
  BY <1>1 DEF Boolean, Empty

LEMMA SizeOfType == \A e : SizeOf(e) \in Int
  BY DEF SizeOf

LEMMA DigestType ==
    ASSUME NEW code \in DOMAIN HashIndex, NEW e \in Element
    PROVE  Digest(code, e) \in Element
<1>1. HashIndex[code] \in Int
  BY DEF HashIndex
<1>2. FormIndex[e.form] \in Int /\ e.val \in Int
  BY DEF FormIndex, Element
<1>3. 15 * e.val + 5 * FormIndex[e.form] + HashIndex[code] \in Int
  BY <1>1, <1>2
<1> QED
  BY <1>3 DEF Digest, Blob, Element

LEMMA UnaryType ==
    ASSUME NEW code \in UnaryCodes, NEW n \in Int
    PROVE  Unary(code, n) \in Element
<1>0. /\ n + 1 \in Int /\ n - 1 \in Int /\ -n \in Int
      /\ (IF n < 0 THEN -n ELSE n) \in Int
  OBVIOUS
<1>1. \/ Unary(code, n) \in {Number(n + 1), Number(n - 1), Number(-n),
                            Number(IF n < 0 THEN -n ELSE n)}
      \/ Unary(code, n) \in {Boolean(n = 0), Boolean(n # 0)}
  BY Zenon DEF Unary, UnaryCodes
<1> QED
  BY <1>0, <1>1, ElementType

LEMMA BinaryType ==
    ASSUME NEW code \in BinaryCodes, NEW left \in Int, NEW right \in Int
    PROVE  Binary(code, left, right) \in Element
<1>0. /\ left + right \in Int /\ left - right \in Int
      /\ (IF left < right THEN left ELSE right) \in Int
      /\ (IF left > right THEN left ELSE right) \in Int
  OBVIOUS
<1>1. \/ Binary(code, left, right) \in
            {Number(left + right), Number(left - right),
             Number(IF left < right THEN left ELSE right),
             Number(IF left > right THEN left ELSE right)}
      \/ Binary(code, left, right) \in
            {Boolean(left # 0 /\ right # 0), Boolean(left # 0 \/ right # 0),
             Boolean(left = right), Boolean(left # right),
             Boolean(left < right), Boolean(left > right),
             Boolean(~(left > right)), Boolean(~(left < right))}
  BY ZenonT(60) DEF Binary, BinaryCodes
<1> QED
  BY <1>0, <1>1, ElementType

-------------------------------------------------------------------------------

\* The handlers that change only the primary stack keep the types.
LEMMA StackHandlersTyped ==
    ASSUME Typed, StackHandlers
    PROVE  Typed'
<1> USE DEF size, top
<1>0. /\ primary_ \in Seq(Element) /\ Len(primary_) \in Nat
      /\ \A i \in 1..Len(primary_) : primary_[i] \in Element /\ primary_[i].val \in Int
  <2>1. primary_ \in Seq(Element)
    BY DEF Typed, TypeOK
  <2>2. Len(primary_) \in Nat /\ \A i \in 1..Len(primary_) : primary_[i] \in Element
    BY <2>1, LenProperties, ElementOfSeq
  <2> QED BY <2>1, <2>2 DEF Element
<1>d. \A n \in 0..Len(primary_) : drop(primary_, n) \in Seq(Element)
                                /\ Len(drop(primary_, n)) = Len(primary_) - n
  BY <1>0, DropType
<1>p. \A st \in Seq(Element), e \in Element : push(st, e) \in Seq(Element)
  BY PushType
<1>1. CASE op_push
  <2> PICK e \in PushData : StackOp("push", TRUE, "", push(primary_, e))
    BY <1>1 DEF op_push
  <2>1. push(primary_, e) \in Seq(Element)
    BY <1>0, <1>p, PushAssumption
  <2> QED BY <2>1, StackOpTyped
<1>2. CASE op_push_underclaimed
  BY <1>2, StackOpTyped DEF op_push_underclaimed
<1>3. CASE op_nop
  BY <1>0, <1>3, StackOpTyped DEF op_nop
<1>4. CASE op_reserved
  BY <1>4, StackOpTyped DEF op_reserved
<1>5. CASE op_verify
  <2>1. CASE Len(primary_) = 0
    BY <1>5, <2>1, StackOpTyped DEF op_verify
  <2>2. CASE Len(primary_) # 0
    BY <1>0, <1>d, <1>5, <2>2, StackOpTyped DEF op_verify
  <2> QED BY <2>1, <2>2
<1>6. ASSUME NEW code \in DOMAIN Needs, op_rearrange(code) PROVE Typed'
  <2>0. code # "trial"
    BY DEF Needs
  <2>1. CASE Len(primary_) < Needs[code]
    BY <1>6, <2>0, <2>1, StackOpTyped DEF op_rearrange
  <2>2. CASE ~(Len(primary_) < Needs[code])
    <3>0. Needs[code] \in Nat
      BY DEF Needs
    <3>1. Rearranged(code, primary_) \in Seq(Element)
      BY <1>0, <2>2, <3>0, RearrangedType
    <3> QED BY <1>6, <2>2, <3>1, StackOpTyped DEF op_rearrange
  <2> QED BY <2>1, <2>2
<1>7. CASE op_if_dup
  <2>1. CASE Len(primary_) = 0
    BY <1>7, <2>1, StackOpTyped DEF op_if_dup
  <2>2. CASE Len(primary_) # 0
    <3>1. push(primary_, primary_[1]) \in Seq(Element)
      BY <1>0, <1>p, <2>2
    <3> QED BY <1>0, <1>7, <2>2, <3>1, StackOpTyped DEF op_if_dup
  <2> QED BY <2>1, <2>2
<1>8. CASE op_depth
  <2>1. push(primary_, Number(Len(primary_))) \in Seq(Element)
    BY <1>0, <1>p, ElementType
  <2> QED BY <1>8, <2>1, StackOpTyped DEF op_depth
<1>9. CASE op_size
  <2>1. push(primary_, Number(SizeOf(primary_[1]))) \in Seq(Element)
    BY <1>0, <1>p, ElementType, SizeOfType
  <2> QED BY <1>9, <2>1, StackOpTyped DEF op_size
<1>10. CASE op_pick
  <2>1. CASE ~IsIndex(primary_)
    BY <1>10, <2>1, StackOpTyped DEF op_pick
  <2>2. CASE IsIndex(primary_)
    <3> DEFINE rest == drop(primary_, 1)
    <3>1. /\ rest \in Seq(Element)
          /\ primary_[1].val \in Nat /\ primary_[1].val < Len(rest)
      BY <1>0, <1>d, <2>2 DEF IsIndex
    <3>2. push(rest, peek(rest, primary_[1].val)) \in Seq(Element)
      <4> HIDE DEF rest
      <4> QED BY <3>1, <1>p, PeekType
    <3> QED BY <1>10, <2>2, <3>2, StackOpTyped DEF op_pick
  <2> QED BY <2>1, <2>2
<1>11. CASE op_roll
  <2>1. CASE ~IsIndex(primary_)
    BY <1>11, <2>1, StackOpTyped DEF op_roll
  <2>2. CASE IsIndex(primary_)
    <3> DEFINE rest == drop(primary_, 1)
               n == primary_[1].val
    <3>1. rest \in Seq(Element) /\ n \in Nat /\ n < Len(rest)
      BY <1>0, <1>d, <2>2 DEF IsIndex
    <3>2. push(erase(rest, n), peek(rest, n)) \in Seq(Element)
      <4> HIDE DEF rest, n
      <4>1. erase(rest, n) \in Seq(Element)
        BY <3>1, EraseType
      <4>2. peek(rest, n) \in Element
        BY <3>1, PeekType
      <4> QED BY <4>1, <4>2, <1>p
    <3> QED BY <1>11, <2>2, <3>2, StackOpTyped DEF op_roll
  <2> QED BY <2>1, <2>2
<1>12. CASE op_equal
  <2>1. CASE Len(primary_) < 2
    BY <1>12, <2>1, StackOpTyped DEF op_equal
  <2>2. CASE ~(Len(primary_) < 2)
    <3>1. drop(primary_, 2) \in Seq(Element)
      BY <1>0, <1>d, <2>2
    <3>2. push(drop(primary_, 2), Boolean(primary_[1] = primary_[2]))
            \in Seq(Element)
      BY <3>1, <1>p, ElementType
    <3> QED BY <1>12, <2>2, <3>2, StackOpTyped DEF op_equal
  <2> QED BY <2>1, <2>2
<1>13. CASE op_equal_verify
  <2>1. CASE Len(primary_) < 2
    BY <1>13, <2>1, StackOpTyped DEF op_equal_verify
  <2>2. CASE ~(Len(primary_) < 2)
    <3>1. drop(primary_, 2) \in Seq(Element)
      BY <1>0, <1>d, <2>2
    <3> QED BY <1>13, <2>2, <3>1, StackOpTyped DEF op_equal_verify
  <2> QED BY <2>1, <2>2
<1>14. ASSUME NEW code \in UnaryCodes, op_unary(code) PROVE Typed'
  <2>0. code # "trial"
    BY DEF UnaryCodes
  <2>1. CASE ~AreNumbers(1)
    BY <1>14, <2>0, <2>1, StackOpTyped DEF op_unary
  <2>2. CASE AreNumbers(1)
    <3>1. Len(primary_) >= 1
      BY <2>2 DEF AreNumbers
    <3>2. Unary(code, primary_[1].val) \in Element
      BY <1>0, <3>1, UnaryType
    <3>3. push(drop(primary_, 1), Unary(code, primary_[1].val)) \in Seq(Element)
      BY <1>0, <1>d, <1>p, <3>1, <3>2
    <3> QED BY <1>14, <2>0, <2>2, <3>3, StackOpTyped DEF op_unary
  <2> QED BY <2>1, <2>2
<1>15. ASSUME NEW code \in BinaryCodes, op_binary(code) PROVE Typed'
  <2>0. code # "trial"
    BY DEF BinaryCodes
  <2>1. CASE ~AreNumbers(2)
    BY <1>15, <2>0, <2>1, StackOpTyped DEF op_binary
  <2>2. CASE AreNumbers(2)
    <3> DEFINE e == Binary(code, primary_[2].val, primary_[1].val)
    <3>1. Len(primary_) >= 2
      BY <2>2 DEF AreNumbers
    <3>2. e \in Element
      BY <1>0, <3>1, BinaryType
    <3>3. push(drop(primary_, 2), e) \in Seq(Element)
      BY <1>0, <1>d, <1>p, <3>1, <3>2
    <3> QED BY <1>15, <2>0, <2>2, <3>3, StackOpTyped DEF op_binary
  <2> QED BY <2>1, <2>2
<1>16. CASE op_num_equal_verify
  <2>1. CASE ~AreNumbers(2)
    BY <1>16, <2>1, StackOpTyped DEF op_num_equal_verify
  <2>2. CASE AreNumbers(2)
    <3>1. drop(primary_, 2) \in Seq(Element)
      BY <1>0, <1>d, <2>2 DEF AreNumbers
    <3> QED BY <1>16, <2>2, <3>1, StackOpTyped DEF op_num_equal_verify
  <2> QED BY <2>1, <2>2
<1>17. CASE op_within
  <2>1. CASE ~AreNumbers(3)
    BY <1>17, <2>1, StackOpTyped DEF op_within
  <2>2. CASE AreNumbers(3)
    <3>1. drop(primary_, 3) \in Seq(Element)
      BY <1>0, <1>d, <2>2 DEF AreNumbers
    <3>2. \A b : push(drop(primary_, 3), Boolean(b)) \in Seq(Element)
      BY <1>p, <3>1, ElementType
    <3> QED BY <1>17, <2>2, <3>2, StackOpTyped DEF op_within
  <2> QED BY <2>1, <2>2
<1>18. ASSUME NEW code \in DOMAIN HashIndex, op_hash(code) PROVE Typed'
  <2>0. code # "trial"
    BY DEF HashIndex
  <2>1. CASE Len(primary_) = 0
    BY <1>18, <2>0, <2>1, StackOpTyped DEF op_hash
  <2>2. CASE Len(primary_) # 0
    <3>1. push(drop(primary_, 1), Digest(code, primary_[1])) \in Seq(Element)
      <4>1. drop(primary_, 1) \in Seq(Element) /\ primary_[1] \in Element
        BY <1>0, <1>d, <2>2
      <4>2. Digest(code, primary_[1]) \in Element
        BY <4>1, DigestType
      <4> QED BY <1>p, <4>1, <4>2
    <3> QED BY <1>18, <2>0, <2>2, <3>1, StackOpTyped DEF op_hash
  <2> QED BY <2>1, <2>2
<1>19. ASSUME NEW code, NEW ec, ec # "trial", LocktimeOp(code, ec) PROVE Typed'
  BY <1>0, <1>19, StackOpTyped DEF LocktimeOp
<1>20. CASE op_check_locktime_verify
  BY <1>19, <1>20 DEF op_check_locktime_verify
<1>21. CASE op_check_sequence_verify
  BY <1>19, <1>21 DEF op_check_sequence_verify
<1> QED
  BY <1>1, <1>2, <1>3, <1>4, <1>5, <1>6, <1>7, <1>8, <1>9, <1>10, <1>11,
     <1>12, <1>13, <1>14, <1>15, <1>16, <1>17, <1>18, <1>20, <1>21
     DEF StackHandlers

\* A conditional handler pushes, toggles or pops a boolean.
LEMMA ScopeTyped ==
    ASSUME Typed
    PROVE  /\ \A v \in BOOLEAN : begin_if(v) => condition_' \in Seq(BOOLEAN)
           /\ ~is_balanced /\ else_if_ => condition_' \in Seq(BOOLEAN)
           /\ ~is_balanced /\ end_if_ => condition_' \in Seq(BOOLEAN)
<1>0. condition_ \in Seq(BOOLEAN) /\ Len(condition_) \in Nat
  BY LenProperties DEF Typed, TypeOK
<1>1. \A v \in BOOLEAN : begin_if(v) => condition_' \in Seq(BOOLEAN)
  BY <1>0, AppendProperties DEF begin_if
<1>2. ASSUME ~is_balanced, else_if_ PROVE condition_' \in Seq(BOOLEAN)
  <2>1. Len(condition_) \in 1..Len(condition_)
    BY <1>0, <1>2, EmptySeq DEF is_balanced
  <2>2. (~Back) \in BOOLEAN
    BY Zenon
  <2> QED BY <1>0, <1>2, <2>1, <2>2, ExceptSeq DEF else_if_
<1>3. ASSUME ~is_balanced, end_if_ PROVE condition_' \in Seq(BOOLEAN)
  <2>1. Len(condition_) - 1 \in Int
    BY <1>0
  <2> QED BY <1>0, <1>3, <2>1, PartType DEF end_if_
<1> QED
  BY <1>1, <1>2, <1>3

-------------------------------------------------------------------------------
(* The count of false conditions.                                          *)

\* The branches not taken of a conditional stack.
FalseOf(c) == {i \in 1..Len(c) : ~c[i]}

LEMMA FalseFinite ==
    ASSUME NEW c \in Seq(BOOLEAN)
    PROVE  IsFiniteSet(FalseOf(c)) /\ Cardinality(FalseOf(c)) \in Nat
<1>1. IsFiniteSet(1..Len(c))
  BY FS_Interval, LenProperties
<1>2. FalseOf(c) \subseteq 1..Len(c)
  BY DEF FalseOf
<1>3. IsFiniteSet(FalseOf(c))
  BY <1>1, <1>2, FS_Subset
<1> QED
  BY <1>3, FS_CardinalityType

\* A branch that is not taken adds its own position (begin_if).
LEMMA FalseAppend ==
    ASSUME NEW c \in Seq(BOOLEAN), NEW v \in BOOLEAN
    PROVE  /\ FalseOf(Append(c, v)) =
                IF v THEN FalseOf(c) ELSE FalseOf(c) \union {Len(c) + 1}
           /\ Len(c) + 1 \notin FalseOf(c)
<1>0. Len(c) \in Nat
  BY LenProperties
<1> DEFINE d == Append(c, v)
<1>1. /\ Len(d) = Len(c) + 1
      /\ \A i \in 1..Len(c) : d[i] = c[i]
      /\ d[Len(c) + 1] = v
  BY AppendProperties
<1>2. 1..Len(d) = (1..Len(c)) \union {Len(c) + 1}
  BY <1>0, <1>1
<1>3. Len(c) + 1 \notin 1..Len(c)
  BY <1>0
<1> HIDE DEF d
<1>4. FalseOf(d) = IF v THEN FalseOf(c) ELSE FalseOf(c) \union {Len(c) + 1}
  BY <1>1, <1>2, <1>3, Zenon DEF FalseOf
<1> QED
  BY <1>3, <1>4 DEF d, FalseOf

\* An ELSE adds or removes the innermost position (else_if_).
LEMMA FalseToggle ==
    ASSUME NEW c \in Seq(BOOLEAN), Len(c) > 0
    PROVE  FalseOf([c EXCEPT ![Len(c)] = ~c[Len(c)]]) =
                IF c[Len(c)] THEN FalseOf(c) \union {Len(c)}
                             ELSE FalseOf(c) \ {Len(c)}
<1>0. Len(c) \in Nat /\ Len(c) \in 1..Len(c)
  BY LenProperties
<1> DEFINE n == Len(c)
           d == [c EXCEPT ![n] = ~c[n]]
<1>1. Len(d) = n /\ d[n] = ~c[n] /\ \A i \in 1..n : i # n => d[i] = c[i]
  <2>1. (~c[n]) \in BOOLEAN
    BY Zenon
  <2>2. c = [i \in 1..n |-> c[i]] /\ DOMAIN c = 1..n
    BY <1>0, LenProperties
  <2>3. d[n] = ~c[n] /\ \A i \in 1..n : i # n => d[i] = c[i]
    BY <1>0, <2>2, Zenon
  <2>4. Len(d) = n
    BY <1>0, <2>1, ExceptSeq
  <2> QED BY <2>3, <2>4
<1> HIDE DEF n, d
<1>2. n \in 1..n
  BY <1>0 DEF n
<1>3. FalseOf(d) = IF c[n] THEN FalseOf(c) \union {n} ELSE FalseOf(c) \ {n}
  <2>1. FalseOf(d) = {i \in 1..n : ~d[i]} /\ FalseOf(c) = {i \in 1..n : ~c[i]}
    BY <1>1 DEF FalseOf, n
  <2> QED BY <1>1, <1>2, <2>1, Zenon
<1> QED
  BY <1>3 DEF n, d

\* An ENDIF removes the innermost position if it was there (end_if_).
LEMMA FalsePop ==
    ASSUME NEW c \in Seq(BOOLEAN), Len(c) > 0
    PROVE  /\ FalseOf(SubSeq(c, 1, Len(c) - 1)) = FalseOf(c) \ {Len(c)}
           /\ Len(c) \in FalseOf(c) <=> ~c[Len(c)]
<1>0. Len(c) \in Nat /\ Len(c) \in 1..Len(c)
  BY LenProperties
<1> DEFINE n == Len(c)
           d == SubSeq(c, 1, n - 1)
<1>1. Len(d) = n - 1 /\ \A i \in 1..(n - 1) : d[i] = c[i]
  <2>1. \A i \in 1..(n - 1) : c[i] \in BOOLEAN
    BY <1>0, ElementOfSeq
  <2>2. 1 \in Int /\ n - 1 \in Int
    BY <1>0
  <2>3. /\ Len(d) = IF 1 <= n - 1 THEN (n - 1) - 1 + 1 ELSE 0
        /\ \A i \in 1..((n - 1) - 1 + 1) : d[i] = c[1 + i - 1]
    BY <2>1, <2>2, SubSeqProperties
  <2>4. n \in Nat /\ n > 0
    BY <1>0
  <2> HIDE DEF n, d
  <2>5. \A i \in 1..(n - 1) : d[i] = c[i]
    <3>1. \A i \in 1..(n - 1) : i \in 1..((n - 1) - 1 + 1) /\ 1 + i - 1 = i
      BY <2>4
    <3> QED BY <2>3, <3>1, Zenon
  <2>6. Len(d) = n - 1
    BY <2>3, <2>4
  <2> QED BY <2>5, <2>6
<1>2. 1..(n - 1) = (1..n) \ {n}
  BY <1>0
<1> HIDE DEF d
<1>3. FalseOf(d) = FalseOf(c) \ {n}
  <2>1. FalseOf(d) = {i \in 1..(n - 1) : ~d[i]}
    BY <1>1 DEF FalseOf
  <2>2. FalseOf(c) = {i \in 1..n : ~c[i]}
    BY DEF FalseOf
  <2> HIDE DEF n
  <2> QED BY <1>1, <1>2, <2>1, <2>2, Zenon
<1>4. n \in FalseOf(c) <=> ~c[n]
  BY <1>0, Zenon DEF FalseOf
<1> QED
  BY <1>3, <1>4 DEF d

-------------------------------------------------------------------------------
(* The steps of the conditional stack.                                     *)

\* Whatever is done, the conditional stack is left alone or is changed by one
\* of its three operations: begin_if, and else_if_ or end_if_ of a stack that
\* is not empty.
ScopeStep ==
    \/ UNCHANGED scope
    \/ \E v \in BOOLEAN : begin_if(v)
    \/ ~is_balanced /\ else_if_
    \/ ~is_balanced /\ end_if_

LEMMA StackOpScope ==
    ASSUME NEW code, NEW ok, NEW ec, NEW primary,
           StackOp(code, ok, ec, primary)
    PROVE  UNCHANGED scope
  BY DEF StackOp, End, scope

LEMMA StackHandlersScope ==
    ASSUME StackHandlers
    PROVE  UNCHANGED scope
<1>1. ASSUME NEW code, NEW ec, LocktimeOp(code, ec) PROVE UNCHANGED scope
  BY <1>1, StackOpScope DEF LocktimeOp
<1> QED
  BY <1>1, StackOpScope
     DEF StackHandlers, op_push, op_push_underclaimed, op_nop, op_reserved,
         op_verify, op_rearrange, op_if_dup, op_depth, op_size, op_pick,
         op_roll, op_equal, op_equal_verify, op_unary, op_binary,
         op_num_equal_verify, op_within, op_hash, op_check_locktime_verify,
         op_check_sequence_verify

LEMMA ScopeHandlersStep ==
    ASSUME ScopeHandlers
    PROVE  ScopeStep
<1>1. ASSUME NEW code, NEW negate \in BOOLEAN, NEW ec1, NEW ec2,
             Branch(code, negate, ec1, ec2)
      PROVE  ScopeStep
  <2>1. (ToBool(top) # negate) \in BOOLEAN
    OBVIOUS
  <2> QED BY <1>1, <2>1, Zenon DEF Branch, ScopeStep, End, scope
<1>2. CASE op_if
  BY <1>1, <1>2 DEF op_if
<1>3. CASE op_notif
  BY <1>1, <1>3 DEF op_notif
<1>4. CASE op_else
  BY <1>4, Zenon DEF op_else, ScopeStep, End, scope
<1>5. CASE op_endif
  BY <1>5, Zenon DEF op_endif, ScopeStep, End, scope
<1> QED
  BY <1>2, <1>3, <1>4, <1>5 DEF ScopeHandlers

LEMMA NextScopeStep ==
    ASSUME [Next]_vars
    PROVE  ScopeStep
<1>1. CASE UNCHANGED vars
  BY <1>1 DEF vars, scope, ScopeStep
<1>2. CASE StackHandlers
  BY <1>2, StackHandlersScope DEF ScopeStep
<1>3. CASE ScopeHandlers
  BY <1>3, ScopeHandlersStep
<1>4. ASSUME NEW prevalid, NEW underflow, NEW push_size, NEW oversized,
             NEW prefail,
             initialize(prevalid, underflow, push_size, oversized, prefail)
      PROVE  UNCHANGED scope
  BY <1>4 DEF initialize, End, scope
<1>5. CASE Oversized \/ Finish \/ Terminated \/ \E code \in Codes : OverCount(code) \/ Skip(code)
  BY <1>5 DEF Oversized, Finish, Terminated, OverCount, Skip, End, vars, scope,
              ScopeStep
<1>6. CASE op_to_alt_stack \/ op_from_alt_stack \/ op_codeseparator
  BY <1>6 DEF op_to_alt_stack, op_from_alt_stack, op_codeseparator, End, scope,
              ScopeStep
<1>7. ASSUME NEW code, op_check_sig(code) PROVE UNCHANGED scope
  BY <1>7 DEF op_check_sig, End, scope
<1>8. CASE op_check_sig_add
  BY <1>8 DEF op_check_sig_add, End, scope, ScopeStep
<1>9. ASSUME NEW code, op_check_multisig(code) PROVE UNCHANGED scope
  BY <1>9 DEF op_check_multisig, End, scope
<1>10. CASE TryKey
  BY <1>10 DEF TryKey, scope, ScopeStep
<1>11. CASE EndTrial
  BY <1>11 DEF EndTrial, End, scope, ScopeStep
<1> QED
  BY <1>1, <1>2, <1>3, <1>4, <1>5, <1>6, <1>7, <1>8, <1>9, <1>10, <1>11
     DEF Next, SignatureHandlers, ScopeStep

\* The count stays the number of branches not taken.
LEMMA CountStep ==
    ASSUME condition_ \in Seq(BOOLEAN), NegativeCount, ScopeStep
    PROVE  condition_' \in Seq(BOOLEAN) /\ NegativeCount'
                /\ negative_conditions_' \in Nat
<1> DEFINE n == Len(condition_)
<1>0. n \in Nat /\ IsFiniteSet(FalseOf(condition_))
  BY LenProperties, FalseFinite
<1>1. negative_conditions_ = Cardinality(FalseOf(condition_))
  BY DEF NegativeCount, FalseOf
<1>2. ~is_balanced => n > 0
  BY <1>0, EmptySeq DEF is_balanced
<1>3. Cardinality(FalseOf(condition_)) \in Nat
  BY FalseFinite
<1>4. /\ condition_' \in Seq(BOOLEAN)
      /\ negative_conditions_' = Cardinality(FalseOf(condition_'))
  <2>1. CASE UNCHANGED scope
    BY <1>1, <2>1 DEF scope
  <2>2. ASSUME NEW v \in BOOLEAN, begin_if(v)
        PROVE  /\ condition_' \in Seq(BOOLEAN)
               /\ negative_conditions_' = Cardinality(FalseOf(condition_'))
    <3>1. condition_' \in Seq(BOOLEAN)
      BY <2>2, AppendProperties DEF begin_if
    <3>2. CASE v
      <4>1. FalseOf(condition_') = FalseOf(condition_)
        BY <2>2, <3>2, FalseAppend DEF begin_if
      <4>2. negative_conditions_' = negative_conditions_ + 0
        BY <2>2, <3>2 DEF begin_if
      <4> QED BY <1>1, <1>3, <3>1, <4>1, <4>2
    <3>3. CASE ~v
      <4>1. /\ FalseOf(condition_') = FalseOf(condition_) \union {n + 1}
            /\ n + 1 \notin FalseOf(condition_)
        BY <2>2, <3>3, FalseAppend DEF begin_if
      <4>2. Cardinality(FalseOf(condition_')) = Cardinality(FalseOf(condition_)) + 1
        BY <1>0, <4>1, FS_AddElement
      <4> QED BY <1>1, <2>2, <3>1, <3>3, <4>2 DEF begin_if
    <3> QED BY <3>2, <3>3
  <2>3. CASE ~is_balanced /\ else_if_
    <3>0. condition_' = [condition_ EXCEPT ![n] = ~condition_[n]]
      BY <2>3 DEF else_if_, Back
    <3>1. condition_' \in Seq(BOOLEAN)
      <4>1. (~condition_[n]) \in BOOLEAN
        BY Zenon
      <4>2. n \in 1..n
        BY <1>0, <1>2, <2>3
      <4> QED BY <3>0, <4>1, <4>2, ExceptSeq
    <3>2. FalseOf(condition_') = IF condition_[n] THEN FalseOf(condition_) \union {n}
                                 ELSE FalseOf(condition_) \ {n}
      BY <1>2, <2>3, <3>0, FalseToggle
    <3>3. n \in FalseOf(condition_) <=> ~condition_[n]
      BY <1>2, <2>3, FalsePop
    <3>4. CASE condition_[n]
      <4>1. Cardinality(FalseOf(condition_')) = Cardinality(FalseOf(condition_)) + 1
        BY <1>0, <3>2, <3>3, <3>4, FS_AddElement
      <4>2. negative_conditions_' = negative_conditions_ + 1
        BY <2>3, <3>4 DEF else_if_, Back
      <4> QED BY <1>1, <3>1, <4>1, <4>2
    <3>5. CASE ~condition_[n]
      <4>1. Cardinality(FalseOf(condition_')) = Cardinality(FalseOf(condition_)) - 1
        BY <1>0, <3>2, <3>3, <3>5, FS_RemoveElement
      <4>2. negative_conditions_' = negative_conditions_ + (-1)
        BY <2>3, <3>5 DEF else_if_, Back
      <4> QED BY <1>1, <1>3, <3>1, <4>1, <4>2
    <3> QED BY <3>4, <3>5
  <2>4. CASE ~is_balanced /\ end_if_
    <3>1. condition_' \in Seq(BOOLEAN)
      BY <1>0, <2>4, PartType DEF end_if_
    <3>2. /\ FalseOf(condition_') = FalseOf(condition_) \ {n}
          /\ n \in FalseOf(condition_) <=> ~condition_[n]
      BY <1>2, <2>4, FalsePop DEF end_if_
    <3>3. CASE condition_[n]
      <4>1. FalseOf(condition_') = FalseOf(condition_)
        BY <3>2, <3>3
      <4>2. negative_conditions_' = negative_conditions_ - 0
        BY <2>4, <3>3 DEF end_if_, Back
      <4> QED BY <1>1, <1>3, <3>1, <4>1, <4>2
    <3>4. CASE ~condition_[n]
      <4>1. Cardinality(FalseOf(condition_')) = Cardinality(FalseOf(condition_)) - 1
        BY <1>0, <3>2, <3>4, FS_RemoveElement
      <4>2. negative_conditions_' = negative_conditions_ - 1
        BY <2>4, <3>4 DEF end_if_, Back
      <4> QED BY <1>1, <3>1, <4>1, <4>2
    <3> QED BY <3>3, <3>4
  <2> QED BY <2>1, <2>2, <2>3, <2>4 DEF ScopeStep
<1>5. negative_conditions_' \in Nat
  BY <1>4, FalseFinite
<1> QED
  BY <1>4, <1>5 DEF NegativeCount, FalseOf

-------------------------------------------------------------------------------
(* The types of the other steps.  The conditional stack and its count are  *)
(* left to CountStep.                                                      *)

\* All of the types but those of the conditional stack.
TypedButScope ==
    /\ program \in Programs
    /\ pc \in Nat
    /\ primary_ \in Seq(Element)
    /\ alternate_ \in Seq(Element)
    /\ operations_ \in Nat
    /\ budget_ \in Nat
    /\ offset \in Nat
    /\ multisig_ \in [set : BOOLEAN, flags : Flags \union {"none"}, hash : Hash]
    /\ trial \in [code : MultisigCodes \union {"none"}, keys : Seq(Element),
                 sigs : Seq(Element), key : Nat, it : Nat]
    /\ verified \subseteq [used : Hash, due : Hash]
    /\ charged \in Nat
    /\ TrialOK

\* A handler that leaves the budget, the hash state and the loop alone keeps
\* the types if it leaves stacks.
LEMMA ReturnTyped ==
    ASSUME Typed, NEW code, Return(code), Untouched,
           primary_' \in Seq(Element), alternate_' \in Seq(Element)
    PROVE  TypedButScope'
<1>1. operations_' \in Nat /\ pc' \in Nat /\ status' # "trial"
      /\ UNCHANGED <<program, trial>>
  BY DEF Typed, TypeOK, Return, ops_increment
<1> QED
  BY <1>1 DEF Typed, TypeOK, TypedButScope, TrialOK, Untouched, sighashing, history

LEMMA ScopeHandlersTyped ==
    ASSUME Typed, ScopeHandlers
    PROVE  TypedButScope'
<1>0. primary_ \in Seq(Element) /\ alternate_ \in Seq(Element)
      /\ Len(primary_) \in Nat
  BY LenProperties DEF Typed, TypeOK
<1>1. Typed => TypedButScope
  BY DEF Typed, TypeOK, TypedButScope
<1>2. ASSUME NEW ec, ec # "trial", End(ec) PROVE TypedButScope'
  BY <1>2, EndTyped DEF Typed, TypeOK, TypedButScope
<1>3. ASSUME NEW code, NEW negate, NEW ec1, ec1 # "trial", NEW ec2, ec2 # "trial",
             Branch(code, negate, ec1, ec2)
      PROVE  TypedButScope'
  <2>1. CASE ~is_success
    <3>1. UNCHANGED stacks /\ Untouched /\ Return(code)
      BY <1>3, <2>1 DEF Branch
    <3> QED BY <1>0, <3>1, ReturnTyped DEF stacks
  <2>2. CASE is_success
    <3>1. \/ End(ec1)
          \/ End(ec2)
          \/ /\ size # 0 /\ primary_' = drop(primary_, 1) /\ UNCHANGED alternate_
             /\ Untouched /\ Return(code)
      BY <1>3, <2>2 DEF Branch
    <3>2. size # 0 => drop(primary_, 1) \in Seq(Element)
      BY <1>0, DropType DEF size
    <3> QED BY <1>0, <1>2, <1>3, <3>1, <3>2, ReturnTyped
  <2> QED BY <2>1, <2>2
<1>4. CASE op_if
  BY <1>3, <1>4 DEF op_if
<1>5. CASE op_notif
  BY <1>3, <1>5 DEF op_notif
<1>6. CASE op_else
  <2>1. \/ End("op_else")
        \/ UNCHANGED stacks /\ Untouched /\ Return("else")
    BY <1>6 DEF op_else
  <2> QED BY <1>0, <1>2, <2>1, ReturnTyped DEF stacks
<1>7. CASE op_endif
  <2>1. \/ End("op_endif")
        \/ UNCHANGED stacks /\ Untouched /\ Return("endif")
    BY <1>7 DEF op_endif
  <2> QED BY <1>0, <1>2, <2>1, ReturnTyped DEF stacks
<1> QED
  BY <1>4, <1>5, <1>6, <1>7 DEF ScopeHandlers

\* An alternate stack handler moves an element, and a code separator moves
\* the subscript.
LEMMA AlternateTyped ==
    ASSUME Typed, op_to_alt_stack \/ op_from_alt_stack \/ op_codeseparator
    PROVE  TypedButScope'
<1>0. primary_ \in Seq(Element) /\ alternate_ \in Seq(Element)
      /\ Len(primary_) \in Nat /\ Len(alternate_) \in Nat
  BY LenProperties DEF Typed, TypeOK
<1>1. ASSUME NEW ec, ec # "trial", End(ec) PROVE TypedButScope'
  BY <1>1, EndTyped DEF Typed, TypeOK, TypedButScope
<1>2. CASE op_to_alt_stack
  <2>1. CASE size = 0
    BY <1>1, <1>2, <2>1 DEF op_to_alt_stack
  <2>2. CASE size # 0
    <3>1. primary_[1] \in Element /\ drop(primary_, 1) \in Seq(Element)
      BY <1>0, <2>2, ElementOfSeq, DropType DEF size
    <3>2. push(alternate_, primary_[1]) \in Seq(Element)
      BY <1>0, <3>1, PushType
    <3>3. /\ alternate_' = push(alternate_, primary_[1])
          /\ primary_' = drop(primary_, 1)
          /\ Untouched /\ Return("toaltstack")
      BY <1>2, <2>2 DEF op_to_alt_stack, top
    <3> QED BY <3>1, <3>2, <3>3, ReturnTyped
  <2> QED BY <2>1, <2>2
<1>3. CASE op_from_alt_stack
  <2>1. CASE alternate_ = <<>>
    BY <1>1, <1>3, <2>1 DEF op_from_alt_stack
  <2>2. CASE alternate_ # <<>>
    <3>0. Len(alternate_) > 0
      BY <1>0, <2>2, EmptySeq
    <3>1. alternate_[1] \in Element /\ drop(alternate_, 1) \in Seq(Element)
      BY <1>0, <3>0, ElementOfSeq, DropType
    <3>2. push(primary_, alternate_[1]) \in Seq(Element)
      BY <1>0, <3>1, PushType
    <3>3. /\ primary_' = push(primary_, alternate_[1])
          /\ alternate_' = drop(alternate_, 1)
          /\ Untouched /\ Return("fromaltstack")
      BY <1>3, <2>2 DEF op_from_alt_stack
    <3> QED BY <3>1, <3>2, <3>3, ReturnTyped
  <2> QED BY <2>1, <2>2
<1>4. CASE op_codeseparator
  <2>1. operations_' \in Nat /\ pc' \in Nat /\ status' # "trial"
        /\ UNCHANGED <<program, trial, primary_, alternate_, budget_, verified,
                       charged>>
    BY <1>4 DEF op_codeseparator, Typed, TypeOK, Return, ops_increment, stacks,
                history
  <2>2. offset' \in Nat
        /\ multisig_' \in [set : BOOLEAN, flags : Flags \union {"none"}, hash : Hash]
    BY <1>4 DEF op_codeseparator, uncache, Uncached, NoHash, Hash, Typed, TypeOK
  <2> QED BY <2>1, <2>2 DEF Typed, TypeOK, TypedButScope, TrialOK
<1> QED
  BY <1>2, <1>3, <1>4

-------------------------------------------------------------------------------
(* The types of the signature handlers.                                    *)

CacheType == [set : BOOLEAN, flags : Flags \union {"none"}, hash : Hash]

\* A cache entry made for an endorsement, and the record of its use.
LEMMA CacheTyped ==
    ASSUME Typed, NEW strip \in SUBSET Element, NEW sig, IsEndorsement(sig),
           NEW cache,
           cache = IF cached(multisig_, Sighash[sig.val]) THEN multisig_
                   ELSE Cached(strip, Sighash[sig.val])
    PROVE  /\ cache \in CacheType
           /\ Verified(cache, strip, Sighash[sig.val]) \in [used : Hash, due : Hash]
<1> DEFINE flags == Sighash[sig.val]
<1>1. flags \in Flags
  BY DEF IsEndorsement, Flags, Endorsements
<1>2. signature_hash(strip, flags) \in Hash
  <2>1. Stripped(strip) \in SUBSET Element
    BY DEF Stripped
  <2>2. offset \in Nat
    BY DEF Typed, TypeOK
  <2> HIDE DEF flags
  <2> QED BY <1>1, <2>1, <2>2 DEF signature_hash, Hash
<1>3. Cached(strip, flags) \in CacheType
  <2> HIDE DEF flags
  <2> QED BY <1>1, <1>2 DEF Cached, CacheType
<1>4. cache \in CacheType
  BY <1>3 DEF Typed, TypeOK, CacheType
<1> QED
  BY <1>2, <1>4 DEF Verified, CacheType

LEMMA ChargeTyped ==
    ASSUME Typed, NEW ec, Charge(ec)
    PROVE  budget_' \in Nat /\ charged' \in Nat
  BY BoundsAssumption DEF Typed, TypeOK, Charge, Charged, floored_subtract

LEMMA CheckSigTyped ==
    ASSUME Typed, NEW code, op_check_sig(code)
    PROVE  TypedButScope'
<1>0. primary_ \in Seq(Element) /\ Len(primary_) \in Nat
  BY LenProperties DEF Typed, TypeOK
<1>1. ASSUME NEW ec, ec # "trial", End(ec) PROVE TypedButScope'
  BY <1>1, EndTyped DEF Typed, TypeOK, TypedButScope
<1>2. CASE size < 2
  BY <1>1, <1>2 DEF op_check_sig
<1>3. CASE ~(size < 2)
  <2> PICK valid \in BOOLEAN :
        LET ec == CheckSig(primary_[1], primary_[2], valid)
        IN  \/ End(ec)
            \/ /\ \/ primary_' = drop(primary_, 2)
                  \/ primary_' = push(drop(primary_, 2), Boolean(ec = "op_success"))
               /\ Charge(ec)
               /\ UNCHANGED <<alternate_, scope, sighashing, verified>>
               /\ Return(code)
    BY <1>3 DEF op_check_sig
  <2> DEFINE ec == CheckSig(primary_[1], primary_[2], valid)
  <2>1. ec # "trial"
    BY DEF CheckSig
  <2>2. drop(primary_, 2) \in Seq(Element)
    BY <1>0, <1>3, DropType DEF size
  <2>3. \A b : push(drop(primary_, 2), Boolean(b)) \in Seq(Element)
    BY <2>2, PushType, ElementType
  <2>4. CASE End(ec)
    BY <1>1, <2>1, <2>4
  <2>5. CASE /\ \/ primary_' = drop(primary_, 2)
                \/ primary_' = push(drop(primary_, 2), Boolean(ec = "op_success"))
             /\ Charge(ec)
             /\ UNCHANGED <<alternate_, scope, sighashing, verified>>
             /\ Return(code)
    <3> HIDE DEF ec
    <3>1. primary_' \in Seq(Element)
      BY <2>2, <2>3, <2>5
    <3>2. operations_' \in Nat /\ pc' \in Nat /\ status' # "trial"
          /\ UNCHANGED <<program, trial>>
      BY <2>5 DEF Typed, TypeOK, Return, ops_increment
    <3>3. budget_' \in Nat /\ charged' \in Nat
      BY <2>5, ChargeTyped
    <3>4. UNCHANGED <<alternate_, offset, multisig_, verified>>
      BY <2>5 DEF sighashing
    <3> QED BY <3>1, <3>2, <3>3, <3>4 DEF Typed, TypeOK, TypedButScope, TrialOK
  <2> QED BY <2>4, <2>5
<1> QED
  BY <1>2, <1>3

LEMMA CheckSigAddTyped ==
    ASSUME Typed, op_check_sig_add
    PROVE  TypedButScope'
<1>0. primary_ \in Seq(Element) /\ Len(primary_) \in Nat
  BY LenProperties DEF Typed, TypeOK
<1>1. ASSUME NEW ec, ec # "trial", End(ec) PROVE TypedButScope'
  BY <1>1, EndTyped DEF Typed, TypeOK, TypedButScope
<1>2. CASE ~is_enabled("bip342")
  BY <1>1, <1>2 DEF op_check_sig_add
<1>3. CASE size < 3
  BY <1>1, <1>3 DEF op_check_sig_add
<1>4. CASE is_enabled("bip342") /\ ~(size < 3)
  <2> DEFINE key == primary_[1]
             number == primary_[2]
             sig == primary_[3]
             rest == drop(primary_, 3)
             flags == Sighash[sig.val]
             cache == IF cached(multisig_, flags) THEN multisig_
                                                  ELSE Cached({}, flags)
             ended == \E ec \in {"op_check_sig_add2", "op_check_sig_add3",
                       "op_check_sig_add4", "op_check_sig_add5",
                       "op_check_sig_add6", "op_check_sig_add7"} : End(ec)
             counted == /\ primary_' = push(rest, Number(number.val))
                        /\ UNCHANGED <<alternate_, scope, budget_, sighashing,
                                       history>>
                        /\ Return("checksigadd")
             checked == /\ primary_' = push(rest, Number(number.val + 1))
                        /\ Charge("op_success")
                        /\ \/ /\ IsEndorsement(sig)
                              /\ multisig_' = cache
                              /\ verified' = {Verified(cache, {}, flags)}
                           \/ UNCHANGED <<multisig_, verified>>
                        /\ UNCHANGED <<alternate_, scope, offset>>
                        /\ Return("checksigadd")
  <2>1. ended \/ counted \/ checked
    BY <1>4, Zenon DEF op_check_sig_add
  <2>2. rest \in Seq(Element)
    BY <1>0, <1>4, DropType DEF size
  <2>3. number.val \in Int
    BY <1>0, <1>4, NumberAt DEF size
  <2>4. /\ push(rest, Number(number.val)) \in Seq(Element)
        /\ push(rest, Number(number.val + 1)) \in Seq(Element)
    <3> HIDE DEF rest, number
    <3>1. number.val + 1 \in Int
      BY <2>3
    <3>2. Number(number.val) \in Element /\ Number(number.val + 1) \in Element
      BY <2>3, <3>1, ElementType
    <3> QED BY <2>2, <3>2, PushType
  <2>5. CASE ended
    BY <1>1, <2>5
  <2>6. Return("checksigadd") =>
          /\ operations_' \in Nat /\ pc' \in Nat /\ status' # "trial"
          /\ UNCHANGED <<program, trial>>
    BY DEF Typed, TypeOK, Return, ops_increment
  <2>7. CASE counted
    BY <2>4, <2>6, <2>7 DEF Typed, TypeOK, TypedButScope, TrialOK, sighashing, history
  <2>8. CASE checked
    <3>1. primary_' \in Seq(Element) /\ UNCHANGED <<alternate_, offset>>
      BY <2>4, <2>8
    <3>2. budget_' \in Nat /\ charged' \in Nat
      BY <2>8, ChargeTyped
    <3>3. multisig_' \in CacheType /\ verified' \subseteq [used : Hash, due : Hash]
      <4>1. CASE UNCHANGED <<multisig_, verified>>
        BY <4>1 DEF Typed, TypeOK, CacheType
      <4>2. CASE /\ IsEndorsement(sig)
                 /\ multisig_' = cache
                 /\ verified' = {Verified(cache, {}, flags)}
        <5>1. {} \in SUBSET Element
          OBVIOUS
        <5>2. cache \in CacheType /\ Verified(cache, {}, flags) \in [used : Hash, due : Hash]
          BY <4>2, <5>1, CacheTyped
        <5> QED BY <4>2, <5>2
      <4> QED BY <2>8, <4>1, <4>2
    <3> QED BY <2>6, <2>8, <3>1, <3>2, <3>3
            DEF Typed, TypeOK, TypedButScope, TrialOK, CacheType
  <2> QED BY <2>1, <2>5, <2>7, <2>8
<1> QED
  BY <1>2, <1>3, <1>4

\* The counts of a multisig leave enough of the stack for what they count.
LEMMA MultisigTyped ==
    ASSUME Typed, NEW code, op_check_multisig(code)
    PROVE  TypedButScope'
<1> DEFINE keys == primary_[1].val
           below == drop(primary_, keys + 1)
           sigs == below[1].val
           rest == drop(below, sigs + 1)
           count == ops_increment(code) + keys
           ended == \E ec \in {"op_reserved", "op_check_multisig_verify1",
                     "op_check_multisig_verify2", "op_check_multisig_verify3",
                     "op_check_multisig_verify5", "op_check_multisig_verify6",
                     "op_check_multisig_verify9"} : End(ec)
           tried == /\ trial' = [code |-> code, key |-> 1, it |-> 1,
                             keys |-> SubSeq(primary_, 2, keys + 1),
                             sigs |-> SubSeq(below, 2, sigs + 1)]
                    /\ primary_' = drop(rest, 1)
                    /\ operations_' = count
                    /\ uncache
                    /\ verified' = {}
                    /\ UNCHANGED <<program, pc, alternate_, scope, budget_,
                                   offset, charged>>
<1>0. primary_ \in Seq(Element) /\ Len(primary_) \in Nat
  BY LenProperties DEF Typed, TypeOK
<1>1. ASSUME NEW ec, ec # "trial", End(ec) PROVE TypedButScope'
  BY <1>1, EndTyped DEF Typed, TypeOK, TypedButScope
<1>2. ended \/ (IsIndex(primary_) /\ IsIndex(below) /\ tried)
  BY Zenon DEF op_check_multisig
<1>3. CASE ended
  BY <1>1, <1>3
<1>4. CASE IsIndex(primary_) /\ IsIndex(below) /\ tried
  <2>1. keys \in Nat /\ keys + 1 \in 0..(Len(primary_) - 1)
    BY <1>0, <1>4, IndexType
  <2>2. /\ below \in Seq(Element) /\ Len(below) = Len(primary_) - (keys + 1)
    <3>1. keys + 1 \in 0..Len(primary_)
      BY <1>0, <2>1
    <3> HIDE DEF keys
    <3> QED BY <1>0, <3>1, DropType
  <2>3. Len(below) \in Nat /\ sigs \in Nat /\ sigs + 1 \in 0..(Len(below) - 1)
    <3> HIDE DEF below
    <3> QED BY <1>4, <2>2, IndexType
  <2>4. rest \in Seq(Element) /\ Len(rest) = Len(below) - (sigs + 1)
    <3> HIDE DEF below, sigs
    <3>1. sigs + 1 \in 0..Len(below)
      BY <2>3
    <3> QED BY <2>2, <3>1, DropType
  <2>5. drop(rest, 1) \in Seq(Element)
    <3> HIDE DEF keys, below, sigs, rest
    <3>1. 1 \in 0..Len(rest)
      BY <2>3, <2>4
    <3> QED BY <2>4, <3>1, DropType
  <2>6. SubSeq(primary_, 2, keys + 1) \in Seq(Element)
    <3> HIDE DEF keys
    <3> QED BY <1>0, <2>1, PartType
  <2>7. SubSeq(below, 2, sigs + 1) \in Seq(Element)
    <3> HIDE DEF keys, below, sigs
    <3> QED BY <1>0, <2>1, <2>2, <2>3, PartType
  <2>8. operations_' \in Nat
    <3>1. ops_increment(code) \in Nat
      BY DEF ops_increment, Typed, TypeOK
    <3> HIDE DEF keys
    <3> QED BY <1>4, <2>1, <3>1
  <2>9. code \in MultisigCodes
    BY DEF op_check_multisig
  <2>10. multisig_' \in CacheType
    BY <1>4 DEF uncache, Uncached, NoHash, Hash, CacheType
  <2>11. /\ trial' \in [code : MultisigCodes \union {"none"}, keys : Seq(Element),
                         sigs : Seq(Element), key : Nat, it : Nat]
         /\ trial'.code = code /\ trial'.key = 1 /\ trial'.it = 1
    <3> HIDE DEF keys, below, sigs
    <3> QED BY <1>4, <2>6, <2>7, <2>9
  <2>12. primary_' \in Seq(Element)
    BY <1>4, <2>5
  <2>13. verified' = {} /\ UNCHANGED <<program, pc, alternate_, budget_, offset, charged>>
    BY <1>4
  <2> QED BY <2>8, <2>9, <2>10, <2>11, <2>12, <2>13
          DEF Typed, TypeOK, TypedButScope, TrialOK, CacheType
<1> QED
  BY <1>2, <1>3, <1>4

LEMMA TryKeyTyped ==
    ASSUME Typed, TryKey
    PROVE  TypedButScope'
<1> DEFINE sig == trial.sigs[trial.it]
           flags == Sighash[sig.val]
           cache == IF cached(multisig_, flags) THEN multisig_
                    ELSE Cached(EndorsementSet, flags)
           skipped == /\ trial' = [trial EXCEPT !.key = @ + 1]
                      /\ UNCHANGED <<multisig_, verified>>
           tried == /\ IsEndorsement(sig)
                    /\ \E valid \in BOOLEAN :
                          trial' = [trial EXCEPT !.key = @ + 1,
                                    !.it = IF valid THEN @ + 1 ELSE @]
                    /\ multisig_' = cache
                    /\ verified' = verified \union
                          {Verified(cache, EndorsementSet, flags)}
<1>1. status = "trial" /\ (skipped \/ tried)
  BY DEF TryKey
<1>2. UNCHANGED <<program, status, pc, primary_, alternate_, operations_, budget_,
                  offset, charged>>
  BY DEF TryKey, stacks
<1>3. /\ trial \in [code : MultisigCodes \union {"none"}, keys : Seq(Element),
                     sigs : Seq(Element), key : Nat, it : Nat]
      /\ trial.code \in MultisigCodes /\ trial.key >= 1 /\ trial.it >= 1
  BY <1>1 DEF Typed, TypeOK, TrialOK
<1>4. /\ trial' \in [code : MultisigCodes \union {"none"}, keys : Seq(Element),
                      sigs : Seq(Element), key : Nat, it : Nat]
      /\ trial'.code \in MultisigCodes /\ trial'.key >= 1 /\ trial'.it >= 1
  <2>1. \/ trial' = [trial EXCEPT !.key = @ + 1]
        \/ trial' = [trial EXCEPT !.key = @ + 1, !.it = @ + 1]
        \/ trial' = [trial EXCEPT !.key = @ + 1, !.it = @]
    BY <1>1
  <2>2. trial.key + 1 \in Nat /\ trial.key + 1 >= 1
        /\ trial.it + 1 \in Nat /\ trial.it + 1 >= 1
    BY <1>3
  <2>3. CASE trial' = [trial EXCEPT !.key = @ + 1]
    BY <1>3, <2>2, <2>3
  <2>4. CASE trial' = [trial EXCEPT !.key = @ + 1, !.it = @ + 1]
    BY <1>3, <2>2, <2>4
  <2>5. CASE trial' = [trial EXCEPT !.key = @ + 1, !.it = @]
    BY <1>3, <2>2, <2>5
  <2> QED BY <2>1, <2>3, <2>4, <2>5
<1>5. EndorsementSet \in SUBSET Element
  BY <1>3, ElementOfSeq DEF EndorsementSet
<1>6. multisig_' \in CacheType /\ verified' \subseteq [used : Hash, due : Hash]
  <2>0. multisig_ \in CacheType /\ verified \subseteq [used : Hash, due : Hash]
    BY DEF Typed, TypeOK, CacheType
  <2>1. CASE skipped
    BY <2>0, <2>1
  <2>2. CASE tried
    <3>1. /\ cache \in CacheType
          /\ Verified(cache, EndorsementSet, flags) \in [used : Hash, due : Hash]
      BY <1>5, <2>2, CacheTyped
    <3> HIDE DEF cache, flags
    <3> QED BY <2>0, <2>2, <3>1
  <2> QED BY <1>1, <2>1, <2>2
<1> QED
  BY <1>2, <1>4, <1>6 DEF Typed, TypeOK, TypedButScope, TrialOK, CacheType

LEMMA EndTrialTyped ==
    ASSUME Typed, EndTrial
    PROVE  TypedButScope'
<1>0. primary_ \in Seq(Element)
  BY DEF Typed, TypeOK
<1>1. ASSUME NEW ec, ec # "trial", End(ec) PROVE TypedButScope'
  BY <1>1, EndTyped DEF Typed, TypeOK, TypedButScope
<1>2. \A b : push(primary_, Boolean(b)) \in Seq(Element)
  BY <1>0, PushType, ElementType
<1> DEFINE done == /\ \/ primary_' = primary_
                      \/ \E b \in BOOLEAN : primary_' = push(primary_, Boolean(b))
                   /\ pc' = pc + 1
                   /\ status' # "trial"
                   /\ trial' = NoTrial
                   /\ UNCHANGED <<program, alternate_, scope, operations_,
                                  budget_, sighashing, history>>
<1>3. \/ End("op_check_multisig_decode_signature")
      \/ End("op_check_multisig_mismatch")
      \/ done
  <2>1. (trial.it > Len(trial.sigs)) \in BOOLEAN
    OBVIOUS
  <2> QED BY <2>1 DEF EndTrial
<1>4. CASE done
  <2>1. primary_' \in Seq(Element)
    BY <1>0, <1>2, <1>4
  <2>2. NoTrial \in [code : MultisigCodes \union {"none"}, keys : Seq(Element),
                     sigs : Seq(Element), key : Nat, it : Nat]
    BY DEF NoTrial
  <2> QED BY <1>4, <2>1, <2>2
          DEF Typed, TypeOK, TypedButScope, TrialOK, sighashing, history
<1> QED
  BY <1>1, <1>3, <1>4

-------------------------------------------------------------------------------
(* The inductive invariant: the types need the count, since a count that   *)
(* drifted could be decremented below zero, and the count needs the types. *)

IndInv == Typed /\ NegativeCount

LEMMA IndInit == Init => IndInv
<1> SUFFICES ASSUME Init PROVE IndInv
  OBVIOUS
<1> USE DEF Init
<1>1. program.witness \in Nat /\ program.stack \in Seq(Element)
  BY ProgramAssumption
<1>2. budget_ \in Nat
  BY <1>1, BoundsAssumption DEF InitialBudget
<1>3. <<>> \in Seq(Element) /\ <<>> \in Seq(BOOLEAN) /\ Len(condition_) = 0
  OBVIOUS
<1>4. multisig_ \in CacheType
  BY DEF CacheType, Uncached, NoHash, Hash
<1>5. trial \in [code : MultisigCodes \union {"none"}, keys : Seq(Element),
                 sigs : Seq(Element), key : Nat, it : Nat]
  BY DEF NoTrial
<1>6. Typed
  BY <1>1, <1>2, <1>3, <1>4, <1>5 DEF Typed, TypeOK, TrialOK, CacheType
<1>7. {i \in 1..Len(condition_) : ~condition_[i]} = {}
  BY <1>3
<1> QED
  BY <1>6, <1>7, FS_EmptySet DEF IndInv, NegativeCount

LEMMA IndNext == IndInv /\ [Next]_vars => IndInv'
<1> SUFFICES ASSUME IndInv, [Next]_vars PROVE IndInv'
  OBVIOUS
<1>0. Typed /\ NegativeCount /\ condition_ \in Seq(BOOLEAN)
  BY DEF IndInv, Typed, TypeOK
<1>1. condition_' \in Seq(BOOLEAN) /\ NegativeCount' /\ negative_conditions_' \in Nat
  BY <1>0, NextScopeStep, CountStep
<1>2. TypedButScope'
  <2>0. Typed' => TypedButScope'
    BY DEF Typed, TypeOK, TypedButScope
  <2>1. ASSUME NEW ec, ec # "trial", End(ec) PROVE TypedButScope'
    BY <1>0, <2>0, <2>1, EndTyped
  <2>2. CASE UNCHANGED vars
    BY <1>0, <2>2 DEF vars, stacks, scope, sighashing, history, Typed, TypeOK,
                      TrialOK, TypedButScope
  <2>3. ASSUME NEW prevalid, NEW underflow, NEW push_size, NEW oversized,
               NEW prefail,
               initialize(prevalid, underflow, push_size, oversized, prefail)
        PROVE  TypedButScope'
    BY <2>1, <2>3 DEF initialize
  <2>4. CASE Oversized
    BY <2>1, <2>4 DEF Oversized
  <2>5. ASSUME NEW code \in Codes, OverCount(code) PROVE TypedButScope'
    BY <2>1, <2>5 DEF OverCount
  <2>6. ASSUME NEW code \in Codes, Skip(code) PROVE TypedButScope'
    <3>1. /\ pc' \in Nat /\ operations_' \in Nat
          /\ UNCHANGED <<program, status, primary_, alternate_, budget_, offset,
                         multisig_, trial, verified, charged>>
      BY <1>0, <2>6 DEF Skip, ops_increment, Typed, TypeOK, stacks, sighashing,
                        history
    <3> QED BY <1>0, <3>1 DEF Typed, TypeOK, TrialOK, TypedButScope
  <2>7. CASE StackHandlers
    BY <1>0, <2>0, <2>7, StackHandlersTyped
  <2>8. CASE ScopeHandlers
    BY <1>0, <2>8, ScopeHandlersTyped
  <2>9. CASE op_to_alt_stack \/ op_from_alt_stack \/ op_codeseparator
    BY <1>0, <2>9, AlternateTyped
  <2>10. CASE SignatureHandlers
    BY <1>0, <2>10, CheckSigTyped, CheckSigAddTyped, MultisigTyped, TryKeyTyped,
       EndTrialTyped DEF SignatureHandlers
  <2>11. CASE Finish
    BY <2>1, <2>11 DEF Finish
  <2>12. CASE Terminated
    BY <2>2, <2>12 DEF Terminated
  <2> QED BY <2>2, <2>3, <2>4, <2>5, <2>6, <2>7, <2>8, <2>9, <2>10, <2>11,
             <2>12 DEF Next
<1> QED
  BY <1>1, <1>2 DEF IndInv, Typed, TypeOK, TypedButScope

\* Every member of the program keeps its type in every run of every script:
\* in particular the unsigned budget and the unsigned count of false
\* conditions never wrap (program members, sigops_increment, else_if_, end_if_).
THEOREM TypeCorrect == Spec => []TypeOK
<1>1. IndInv => TypeOK
  BY DEF IndInv, Typed
<1> QED
  BY IndInit, IndNext, <1>1, PTL DEF Spec

\* The O(1) counter is the number of branches not taken, in scripts of any
\* length and nesting (begin_if, else_if_, end_if_, is_success).
THEOREM CountCorrect == Spec => []NegativeCount
<1>1. IndInv => NegativeCount
  BY DEF IndInv
<1> QED
  BY IndInit, IndNext, <1>1, PTL DEF Spec

-------------------------------------------------------------------------------
(* What a run keeps: the signature budget, the limits and the hash cache.  *)
(* Most operations do not touch these; each step is first reduced to what  *)
(* it does to them.                                                        *)

BudgetEnds == {"op_check_sig_budget", "op_check_sig_add7"}
Going == {"new", "run", "trial"}

\* A step that ends the run, with a code that says nothing of the budget.
Quits ==
    /\ status' \notin Going \union BudgetEnds
    /\ UNCHANGED <<program, pc, primary_, alternate_, scope, operations_, budget_,
                   offset, multisig_, trial, verified, charged>>

Returns == \E code : Run(code) /\ Return(code)

\* A step of an operation that neither signs nor moves the subscript.
Plain ==
    \/ Quits
    \/ Returns /\ UNCHANGED <<budget_, offset, multisig_, verified, charged>>

LEMMA EndQuits ==
    ASSUME NEW ec, ec \notin Going \union BudgetEnds, End(ec)
    PROVE  Quits
  BY DEF End, Quits, stacks, sighashing, history

LEMMA StackOpPlain ==
    ASSUME NEW code, NEW ok, NEW ec, NEW primary,
           StackOp(code, ok, ec, primary), ec \notin Going \union BudgetEnds
    PROVE  Plain
<1>1. CASE ok
  BY <1>1 DEF StackOp, Plain, Returns, sighashing, history
<1>2. CASE ~ok
  BY <1>2, EndQuits DEF StackOp, Plain
<1> QED
  BY <1>1, <1>2

LEMMA StackHandlersPlain ==
    ASSUME StackHandlers
    PROVE  Plain
<1> USE DEF Going, BudgetEnds
<1>0. ASSUME NEW code, NEW ec, ec \notin Going \union BudgetEnds,
             \E ok, primary : StackOp(code, ok, ec, primary)
      PROVE  Plain
  BY <1>0, StackOpPlain
<1>1. CASE op_push \/ op_push_underclaimed \/ op_nop \/ op_reserved \/ op_verify
  BY <1>1, StackOpPlain DEF op_push, op_push_underclaimed, op_nop, op_reserved, op_verify
<1>2. ASSUME NEW code \in DOMAIN Needs, op_rearrange(code) PROVE Plain
  <2>1. code \notin Going \union BudgetEnds
    BY DEF Needs
  <2> QED BY <1>2, <2>1, StackOpPlain DEF op_rearrange
<1>3. CASE op_if_dup \/ op_depth \/ op_size \/ op_pick \/ op_roll \/ op_equal \/ op_equal_verify
  <2>1. CASE op_if_dup
    BY <1>0, <2>1 DEF op_if_dup
  <2>2. CASE op_depth \/ op_size
    BY <1>0, <2>2 DEF op_depth, op_size
  <2>3. CASE op_pick
    BY <1>0, <2>3 DEF op_pick
  <2>4. CASE op_roll
    BY <1>0, <2>4 DEF op_roll
  <2>5. CASE op_equal
    BY <1>0, <2>5 DEF op_equal
  <2>6. CASE op_equal_verify
    BY <1>0, <2>6 DEF op_equal_verify
  <2> QED BY <1>3, <2>1, <2>2, <2>3, <2>4, <2>5, <2>6
<1>4. ASSUME NEW code \in UnaryCodes, op_unary(code) PROVE Plain
  <2>1. code \notin Going \union BudgetEnds
    BY DEF UnaryCodes
  <2> QED BY <1>0, <1>4, <2>1, Zenon DEF op_unary
<1>5. ASSUME NEW code \in BinaryCodes, op_binary(code) PROVE Plain
  <2>1. code \notin Going \union BudgetEnds
    BY DEF BinaryCodes
  <2> QED BY <1>0, <1>5, <2>1, Zenon DEF op_binary
<1>6. CASE op_num_equal_verify \/ op_within
  BY <1>0, <1>6 DEF op_num_equal_verify, op_within
<1>7. ASSUME NEW code \in DOMAIN HashIndex, op_hash(code) PROVE Plain
  <2>1. code \notin Going \union BudgetEnds
    BY DEF HashIndex
  <2> QED BY <1>0, <1>7, <2>1, Zenon DEF op_hash
<1>8. ASSUME NEW code, NEW ec, LocktimeOp(code, ec), ec \notin Going \union BudgetEnds
      PROVE  Plain
  BY <1>8, StackOpPlain DEF LocktimeOp
<1>9. CASE op_check_locktime_verify
  BY <1>8, <1>9 DEF op_check_locktime_verify
<1>10. CASE op_check_sequence_verify
  BY <1>8, <1>10 DEF op_check_sequence_verify
<1> QED
  BY <1>1, <1>2, <1>3, <1>4, <1>5, <1>6, <1>7, <1>9, <1>10 DEF StackHandlers

LEMMA ScopeHandlersPlain ==
    ASSUME ScopeHandlers \/ op_to_alt_stack \/ op_from_alt_stack
    PROVE  Plain
<1> USE DEF Going, BudgetEnds
<1>1. ASSUME NEW code, NEW negate, NEW ec1, NEW ec2, Branch(code, negate, ec1, ec2),
             ec1 \notin Going \union BudgetEnds, ec2 \notin Going \union BudgetEnds
      PROVE  Plain
  BY <1>1, EndQuits DEF Branch, Plain, Returns, Untouched, sighashing, history
<1>2. CASE op_if \/ op_notif
  BY <1>1, <1>2 DEF op_if, op_notif
<1>3. CASE op_else
  BY <1>3, EndQuits DEF op_else, Plain, Returns, Untouched, sighashing, history
<1>4. CASE op_endif
  BY <1>4, EndQuits DEF op_endif, Plain, Returns, Untouched, sighashing, history
<1>5. CASE op_to_alt_stack
  BY <1>5, EndQuits DEF op_to_alt_stack, Plain, Returns, Untouched, sighashing, history
<1>6. CASE op_from_alt_stack
  BY <1>6, EndQuits DEF op_from_alt_stack, Plain, Returns, Untouched, sighashing, history
<1> QED
  BY <1>2, <1>3, <1>4, <1>5, <1>6 DEF ScopeHandlers

\* The run begins, with its state as constructed.
Begins ==
    /\ status = "new" /\ status' = "run"
    /\ UNCHANGED <<program, pc, primary_, alternate_, scope, operations_, budget_,
                   offset, multisig_, trial, verified, charged>>

\* An operation is separated from those before it: the cache is dropped.
Separates ==
    /\ Returns
    /\ multisig_' = Uncached
    /\ UNCHANGED <<budget_, verified, charged>>

\* An operation of one signature: it has no budget left to end with, or pays.
Spent == Charged = 0 /\ is_enabled("bip342")
BudgetQuits ==
    /\ Spent
    /\ UNCHANGED <<program, pc, primary_, alternate_, scope, operations_, budget_,
                   offset, multisig_, trial, verified, charged>>
    /\ status' \in BudgetEnds
Pays ==
    /\ is_enabled("bip342") /\ Charged # 0
    /\ budget_' = Charged
    /\ charged' = charged + 1

LEMMA CheckSigStep ==
    ASSUME NEW code, op_check_sig(code)
    PROVE  \/ Quits
           \/ BudgetQuits
           \/ /\ Returns
              /\ Pays \/ UNCHANGED <<budget_, charged>>
              /\ UNCHANGED <<offset, multisig_, verified>>
<1>1. CASE size < 2
  BY <1>1, EndQuits DEF op_check_sig, Going, BudgetEnds
<1>2. CASE ~(size < 2)
  <2> PICK valid \in BOOLEAN :
        LET ec == CheckSig(primary_[1], primary_[2], valid)
        IN  \/ End(ec)
            \/ /\ Charge(ec)
               /\ UNCHANGED <<alternate_, scope, sighashing, verified>>
               /\ Run(code) /\ Return(code)
    BY <1>2 DEF op_check_sig
  <2> DEFINE ec == CheckSig(primary_[1], primary_[2], valid)
  <2>1. ec \notin Going
    BY DEF CheckSig, Going
  <2>2. ec \in BudgetEnds => Spent
    BY DEF CheckSig, Spent, BudgetEnds
  <2>3. ec = "op_success" => ~is_enabled("bip342") \/ Charged # 0
    BY DEF CheckSig
  <2> HIDE DEF ec
  <2>4. CASE End(ec) /\ ec \in BudgetEnds
    BY <2>2, <2>4 DEF End, BudgetQuits, stacks, sighashing, history
  <2>5. CASE End(ec) /\ ec \notin BudgetEnds
    BY <2>1, <2>5, EndQuits
  <2>6. CASE /\ Charge(ec)
             /\ UNCHANGED <<alternate_, scope, sighashing, verified>>
             /\ Run(code) /\ Return(code)
    BY <2>3, <2>6 DEF Charge, Pays, Returns, sighashing
  <2> QED BY <2>4, <2>5, <2>6 DEF ec
<1> QED
  BY <1>1, <1>2

\* The operation verifies with a hash of the cache, or with one it caches.
Hashes(strip) ==
    \E flags :
        LET cache == IF cached(multisig_, flags) THEN multisig_ ELSE Cached(strip, flags)
        IN  multisig_' = cache /\ verified' \subseteq verified \union {Verified(cache, strip, flags)}

LEMMA CheckSigAddStep ==
    ASSUME op_check_sig_add
    PROVE  \/ Quits
           \/ BudgetQuits
           \/ /\ Returns
              /\ is_enabled("bip342")
              /\ Pays \/ UNCHANGED <<budget_, charged>>
              /\ offset' = offset
              /\ Hashes({}) \/ UNCHANGED <<multisig_, verified>>
<1> DEFINE flags == Sighash[primary_[3].val]
           cache == IF cached(multisig_, flags) THEN multisig_ ELSE Cached({}, flags)
           ended == \E ec \in {"op_reserved", "op_check_sig_add1", "op_check_sig_add2",
                     "op_check_sig_add3", "op_check_sig_add4", "op_check_sig_add5",
                     "op_check_sig_add6"} : End(ec)
           broke == is_enabled("bip342") /\ Charged = 0 /\ End("op_check_sig_add7")
           counted == /\ UNCHANGED <<budget_, sighashing, history>>
                      /\ is_enabled("bip342")
                      /\ Run("checksigadd") /\ Return("checksigadd")
           checked == /\ is_enabled("bip342") /\ Charged # 0
                      /\ Charge("op_success")
                      /\ \/ /\ multisig_' = cache
                            /\ verified' = {Verified(cache, {}, flags)}
                         \/ UNCHANGED <<multisig_, verified>>
                      /\ UNCHANGED <<alternate_, scope, offset>>
                      /\ Run("checksigadd") /\ Return("checksigadd")
<1>1. ended \/ broke \/ counted \/ checked
  BY Zenon DEF op_check_sig_add
<1>2. CASE ended
  BY <1>2, EndQuits DEF Going, BudgetEnds
<1>3. CASE broke
  BY <1>3 DEF End, BudgetQuits, Spent, BudgetEnds, stacks, sighashing, history
<1>4. CASE counted
  BY <1>4 DEF Returns, sighashing, history
<1>5. CASE checked
  <2>1. Returns /\ Pays /\ offset' = offset
    BY <1>5 DEF Returns, Pays, Charge
  <2>2. CASE multisig_' = cache /\ verified' = {Verified(cache, {}, flags)}
    <3>1. multisig_' = cache /\ verified' \subseteq verified \union {Verified(cache, {}, flags)}
      BY <2>2
    <3>2. Hashes({})
      BY <3>1 DEF Hashes
    <3> QED BY <1>5, <2>1, <3>2
  <2>3. CASE UNCHANGED <<multisig_, verified>>
    BY <1>5, <2>1, <2>3
  <2> QED BY <1>5, <2>2, <2>3
<1> QED
  BY <1>1, <1>2, <1>3, <1>4, <1>5

\* A multisig takes its counts, keys, endorsements and dummy from the stack.
Tries ==
    /\ status' = "trial"
    /\ ~is_enabled("bip342")
    /\ multisig_' = Uncached
    /\ verified' = {}
    /\ Len(primary_') <= Len(primary_)
    /\ operations_' <= MaxCountedOps
    /\ UNCHANGED <<program, pc, alternate_, scope, budget_, offset, charged>>

LEMMA MultisigStep ==
    ASSUME Typed, NEW code, op_check_multisig(code)
    PROVE  Quits \/ (status = "run" /\ Tries)
<1> DEFINE keys == primary_[1].val
           below == drop(primary_, keys + 1)
           sigs == below[1].val
           rest == drop(below, sigs + 1)
           count == ops_increment(code) + keys
           ended == \E ec \in {"op_reserved", "op_check_multisig_verify1",
                     "op_check_multisig_verify2", "op_check_multisig_verify3",
                     "op_check_multisig_verify5", "op_check_multisig_verify6",
                     "op_check_multisig_verify9"} : End(ec)
           tried == /\ ~is_enabled("bip342") /\ ~Exceeded(count)
                    /\ status' = "trial"
                    /\ primary_' = drop(rest, 1)
                    /\ operations_' = count
                    /\ uncache
                    /\ verified' = {}
                    /\ UNCHANGED <<program, pc, alternate_, scope, budget_,
                                   offset, charged>>
<1>0. primary_ \in Seq(Element) /\ Len(primary_) \in Nat
  BY LenProperties DEF Typed, TypeOK
<1>1. ended \/ (IsIndex(primary_) /\ IsIndex(below) /\ tried)
  BY Zenon DEF op_check_multisig
<1>2. CASE ended
  BY <1>2, EndQuits DEF Going, BudgetEnds
<1>3. CASE IsIndex(primary_) /\ IsIndex(below) /\ tried
  <2>1. keys \in Nat /\ keys + 1 \in 0..(Len(primary_) - 1)
    BY <1>0, <1>3, IndexType
  <2>2. /\ below \in Seq(Element) /\ Len(below) = Len(primary_) - (keys + 1)
    <3>1. keys + 1 \in 0..Len(primary_)
      BY <1>0, <2>1
    <3> HIDE DEF keys
    <3> QED BY <1>0, <3>1, DropType
  <2>3. Len(below) \in Nat /\ sigs \in Nat /\ sigs + 1 \in 0..(Len(below) - 1)
    <3> HIDE DEF below
    <3> QED BY <1>3, <2>2, IndexType
  <2>4. rest \in Seq(Element) /\ Len(rest) = Len(below) - (sigs + 1)
    <3> HIDE DEF below, sigs
    <3>1. sigs + 1 \in 0..Len(below)
      BY <2>3
    <3> QED BY <2>2, <3>1, DropType
  <2>5. Len(drop(rest, 1)) = Len(rest) - 1
    <3> HIDE DEF keys, below, sigs, rest
    <3>1. 1 \in 0..Len(rest)
      BY <2>3, <2>4
    <3> QED BY <2>4, <3>1, DropType
  <2>6. Len(drop(rest, 1)) <= Len(primary_)
    <3> HIDE DEF keys, below, sigs, rest
    <3> QED BY <1>0, <2>1, <2>2, <2>3, <2>4, <2>5
  <2>7. count \in Nat
    <3>1. ops_increment(code) \in Nat
      BY DEF ops_increment, Typed, TypeOK
    <3> HIDE DEF keys
    <3> QED BY <2>1, <3>1
  <2>8. count <= MaxCountedOps
    <3> HIDE DEF count
    <3> QED BY <1>3, <2>7, BoundsAssumption DEF Exceeded
  <2>9. status = "run"
    BY DEF op_check_multisig, Run, Fetch
  <2> HIDE DEF rest, count
  <2> QED BY <1>3, <2>6, <2>8, <2>9 DEF Tries, uncache
<1> QED
  BY <1>1, <1>2, <1>3

LEMMA TryKeyStep ==
    ASSUME Typed, TryKey
    PROVE  /\ status = "trial"
           /\ UNCHANGED <<program, status, pc, primary_, alternate_, scope, operations_,
                          budget_, offset, charged, trial.sigs>>
           /\ Hashes(EndorsementSet) \/ UNCHANGED <<multisig_, verified>>
<1> DEFINE sig == trial.sigs[trial.it]
           flags == Sighash[sig.val]
           cache == IF cached(multisig_, flags) THEN multisig_
                    ELSE Cached(EndorsementSet, flags)
<1>1. \/ UNCHANGED <<multisig_, verified>>
      \/ /\ multisig_' = cache
         /\ verified' = verified \union {Verified(cache, EndorsementSet, flags)}
  BY DEF TryKey
<1>2. Hashes(EndorsementSet) \/ UNCHANGED <<multisig_, verified>>
  <2> HIDE DEF flags
  <2> QED BY <1>1 DEF Hashes
<1>3. trial'.sigs = trial.sigs
  <2>1. \/ trial' = [trial EXCEPT !.key = @ + 1]
        \/ trial' = [trial EXCEPT !.key = @ + 1, !.it = @ + 1]
        \/ trial' = [trial EXCEPT !.key = @ + 1, !.it = @]
    BY DEF TryKey
  <2>2. trial \in [code : MultisigCodes \union {"none"}, keys : Seq(Element),
                   sigs : Seq(Element), key : Nat, it : Nat]
    BY DEF Typed, TypeOK
  <2> QED BY <2>1, <2>2
<1> QED
  BY <1>2, <1>3 DEF TryKey, stacks

LEMMA EndTrialStep ==
    ASSUME EndTrial
    PROVE  /\ status = "trial"
           /\ \/ Quits
              \/ /\ pc' = pc + 1
                 /\ status' = IF is_stack_overflow(primary_', alternate_')
                              THEN "invalid_stack_size" ELSE "run"
                 /\ UNCHANGED <<program, operations_, budget_, offset, multisig_,
                                verified, charged>>
<1>1. status = "trial"
  BY DEF EndTrial
<1>2. \/ End("op_check_multisig_decode_signature")
      \/ End("op_check_multisig_mismatch")
      \/ /\ pc' = pc + 1
         /\ status' = IF is_stack_overflow(primary_', alternate_)
                      THEN "invalid_stack_size" ELSE "run"
         /\ UNCHANGED <<program, alternate_, scope, operations_,
                        budget_, sighashing, history>>
  BY DEF EndTrial
<1> QED
  BY <1>1, <1>2, EndQuits DEF Going, BudgetEnds, sighashing, history

\* Every step of a run is one of these.
Steps ==
    \/ UNCHANGED vars
    \/ Begins
    \/ Plain
    \/ \E code : Skip(code)
    \/ Separates
    \/ BudgetQuits
    \/ /\ Returns
       /\ Pays \/ UNCHANGED <<budget_, charged>>
       /\ offset' = offset
       /\ \/ is_enabled("bip342") /\ Hashes({})
          \/ UNCHANGED <<multisig_, verified>>
    \/ status = "run" /\ Tries
    \/ /\ status = "trial"
       /\ UNCHANGED <<program, status, pc, primary_, alternate_, scope, operations_,
                      budget_, offset, charged, trial.sigs>>
       /\ Hashes(EndorsementSet) \/ UNCHANGED <<multisig_, verified>>
    \/ /\ status = "trial"
       /\ pc' = pc + 1
       /\ status' = IF is_stack_overflow(primary_', alternate_')
                    THEN "invalid_stack_size" ELSE "run"
       /\ UNCHANGED <<program, operations_, budget_, offset, multisig_, verified, charged>>

LEMMA NextSteps ==
    ASSUME Typed, [Next]_vars
    PROVE  Steps
<1>1. CASE UNCHANGED vars
  BY <1>1 DEF Steps
<1>2. ASSUME NEW prevalid, NEW underflow, NEW push_size, NEW oversized, NEW prefail,
             initialize(prevalid, underflow, push_size, oversized, prefail)
      PROVE  Steps
  <2>1. PICK ec : /\ End(ec) /\ status = "new"
                  /\ \/ ec = "run"
                     \/ ec \in {"prevalid_script", "invalid_script", "invalid_stack_size",
                               "invalid_witness_stack", "invalid_script_size",
                               "prefail_script"}
    BY <1>2 DEF initialize
  <2>2. CASE ec = "run"
    BY <2>1, <2>2 DEF End, Begins, Steps, stacks, scope, sighashing, history
  <2>3. CASE ec # "run"
    BY <2>1, <2>3, EndQuits DEF Going, BudgetEnds, Plain, Steps
  <2> QED BY <2>2, <2>3
<1>3. CASE Oversized \/ Finish \/ \E code \in Codes : OverCount(code)
  <2>1. \E ec \in {"invalid_push_data_size", "invalid_operation_count", "script_success",
                   "invalid_stack_scope"} : End(ec)
    BY <1>3 DEF Oversized, Finish, OverCount
  <2> QED BY <2>1, EndQuits DEF Going, BudgetEnds, Plain, Steps
<1>4. CASE \E code \in Codes : Skip(code)
  BY <1>4 DEF Steps
<1>5. CASE StackHandlers
  BY <1>5, StackHandlersPlain DEF Steps
<1>6. CASE ScopeHandlers \/ op_to_alt_stack \/ op_from_alt_stack
  BY <1>6, ScopeHandlersPlain DEF Steps
<1>7. CASE op_codeseparator
  BY <1>7 DEF op_codeseparator, uncache, history, Separates, Returns, Steps
<1>8. ASSUME NEW code, op_check_sig(code) PROVE Steps
  BY <1>8, CheckSigStep DEF Steps, Plain
<1>9. CASE op_check_sig_add
  BY <1>9, CheckSigAddStep DEF Steps, Plain
<1>10. ASSUME NEW code, op_check_multisig(code) PROVE Steps
  BY <1>10, MultisigStep DEF Steps, Plain
<1>11. CASE TryKey
  BY <1>11, TryKeyStep DEF Steps
<1>12. CASE EndTrial
  BY <1>12, EndTrialStep DEF Steps, Plain
<1>13. CASE Terminated
  BY <1>13 DEF Terminated, Steps
<1> QED
  BY <1>1, <1>2, <1>3, <1>4, <1>5, <1>6, <1>7, <1>8, <1>9, <1>10, <1>11, <1>12, <1>13
     DEF Next, SignatureHandlers

-------------------------------------------------------------------------------
(* The budget: what is left and what was charged add up to the budget that *)
(* was given, and one is always left.                                      *)

Given == SignatureCost + 1 + program.witness

BudgetInv ==
    /\ is_enabled("bip342") =>
        budget_ >= 1 /\ budget_ + SignatureCost * charged = Given
    /\ status \in BudgetEnds => is_enabled("bip342") /\ budget_ <= SignatureCost

LEMMA BudgetInit == Init => BudgetInv
<1> SUFFICES ASSUME Init PROVE BudgetInv
  OBVIOUS
<1>1. program \in Programs /\ budget_ = InitialBudget /\ charged = 0 /\ status = "new"
  BY DEF Init
<1>2. program.witness \in Nat /\ SignatureCost \in Nat
      /\ ("bip342" \in program.rules => program.version = "taproot")
  BY <1>1, ProgramAssumption, BoundsAssumption
<1> QED
  BY <1>1, <1>2 DEF BudgetInv, BudgetEnds, Given, InitialBudget, is_enabled

LEMMA PaysBudget ==
    ASSUME Typed, BudgetInv, Pays, program' = program
    PROVE  budget_' >= 1 /\ budget_' + SignatureCost * charged' = Given'
<1>1. budget_ \in Nat /\ charged \in Nat /\ SignatureCost \in Nat /\ program.witness \in Nat
  BY ProgramAssumption, BoundsAssumption DEF Typed, TypeOK
<1>2. budget_' = budget_ - SignatureCost /\ budget_' >= 1
  BY <1>1 DEF Pays, Charged, floored_subtract
<1>3. SignatureCost * (charged + 1) = SignatureCost * charged + SignatureCost
      /\ SignatureCost * charged \in Nat
  BY <1>1
<1>4. budget_ + SignatureCost * charged = Given /\ charged' = charged + 1 /\ Given' = Given
  BY DEF Pays, BudgetInv, Given
<1>5. Given \in Nat
  BY <1>1 DEF Given
<1> DEFINE paid == SignatureCost * charged
<1>6. SignatureCost * charged' = paid + SignatureCost
  BY <1>3, <1>4
<1>7. paid \in Nat /\ budget_ + paid = Given
  BY <1>3, <1>4
<1> HIDE DEF paid
<1> QED
  BY <1>1, <1>2, <1>4, <1>5, <1>6, <1>7

LEMMA ReturnsGoing ==
    ASSUME Returns
    PROVE  /\ status' \in {"run", "invalid_stack_size"}
           /\ status = "run"
           /\ program' = program /\ pc' = pc + 1
           /\ trial' = trial
  BY DEF Returns, Return, Run, Fetch

LEMMA BudgetNext ==
    ASSUME Typed, BudgetInv, Steps
    PROVE  BudgetInv'
<1> DEFINE Kept == UNCHANGED <<program, budget_, charged>> /\ status' \notin BudgetEnds
<1>0. budget_ \in Nat /\ SignatureCost \in Nat
  BY BoundsAssumption DEF Typed, TypeOK
<1>1. CASE Kept
  BY <1>1 DEF BudgetInv, Given, is_enabled
<1>2. CASE UNCHANGED <<program, budget_, charged, status>>
  BY <1>2 DEF BudgetInv, Given, is_enabled
<1>3. CASE Returns /\ Pays
  <2>1. status' \notin BudgetEnds /\ program' = program
    BY <1>3, ReturnsGoing DEF BudgetEnds
  <2> QED BY <1>3, <2>1, PaysBudget DEF BudgetInv
<1>4. CASE BudgetQuits
  <2>1. budget_ <= SignatureCost
    BY <1>0, <1>4 DEF BudgetQuits, Spent, Charged, floored_subtract
  <2> QED BY <1>4, <2>1 DEF BudgetQuits, Spent, BudgetInv, Given, is_enabled
<1>5. Returns => status' \notin BudgetEnds /\ program' = program
  BY ReturnsGoing DEF BudgetEnds
<1>6. \/ Kept
      \/ UNCHANGED <<program, budget_, charged, status>>
      \/ Returns /\ Pays
      \/ BudgetQuits
  <2>1. CASE UNCHANGED vars
    BY <2>1 DEF vars, history
  <2>2. CASE Begins \/ Plain \/ Separates
    BY <1>5, <2>2 DEF Begins, Plain, Quits, Separates, BudgetEnds
  <2>3. ASSUME NEW code, Skip(code) PROVE Kept
    BY <2>3 DEF Skip, Fetch, history, BudgetEnds
  <2>4. CASE status = "run" /\ Tries
    BY <2>4 DEF Tries, BudgetEnds
  <2>5. CASE /\ status = "trial"
             /\ status' = IF is_stack_overflow(primary_', alternate_')
                          THEN "invalid_stack_size" ELSE "run"
             /\ UNCHANGED <<program, operations_, budget_, offset, multisig_, verified, charged>>
    BY <2>5 DEF BudgetEnds
  <2> QED BY <1>5, <2>1, <2>2, <2>3, <2>4, <2>5 DEF Steps
<1> QED
  BY <1>1, <1>2, <1>3, <1>4, <1>6

LEMMA BudgetSigned ==
    ASSUME Typed, BudgetInv
    PROVE  BudgetIsSigned
<1>1. budget_ \in Nat /\ charged \in Nat /\ SignatureCost \in Nat /\ program.witness \in Nat
  BY ProgramAssumption, BoundsAssumption DEF Typed, TypeOK
<1> DEFINE paid == SignatureCost * charged
<1>2. paid \in Nat /\ SignatureCost * (charged + 1) = paid + SignatureCost
  BY <1>1
<1>3. /\ is_enabled("bip342") => budget_ >= 1 /\ budget_ + paid = Given
      /\ status \in BudgetEnds => is_enabled("bip342") /\ budget_ <= SignatureCost
  BY DEF BudgetInv
<1> HIDE DEF paid
<1>4. is_enabled("bip342") => paid <= SignatureCost + program.witness
  BY <1>1, <1>2, <1>3 DEF Given
<1>5. status \in BudgetEnds => paid + SignatureCost > SignatureCost + program.witness
  BY <1>1, <1>2, <1>3 DEF Given
<1> QED
  BY <1>2, <1>4, <1>5 DEF BudgetIsSigned, BudgetEnds, paid

-------------------------------------------------------------------------------
(* The limits.  An operation that is skipped leaves the stack unchecked,   *)
(* but the first of a run is never skipped.                                *)

LimitsInv ==
    /\ LimitsKept
    /\ status = "new" => operations_ = 0
    /\ status \in Going /\ pc = 0 => negative_conditions_ = 0
    /\ status = "new" => pc = 0

LEMMA LimitsInit == Init => LimitsInv
  BY DEF Init, LimitsInv, LimitsKept

LEMMA LimitsNext ==
    ASSUME Typed, LimitsInv, Steps
    PROVE  LimitsInv'
<1>0. /\ pc \in Nat /\ operations_ \in Nat
      /\ Len(primary_) \in Nat /\ Len(alternate_) \in Nat
      /\ MaxCountedOps \in Nat /\ MaxStack \in Nat
  BY BoundsAssumption, LenProperties DEF Typed, TypeOK
<1>1. CASE UNCHANGED <<program, status, pc, primary_, alternate_, operations_, scope>>
  BY <1>1 DEF LimitsInv, LimitsKept, is_enabled, scope
<1>2. CASE Begins
  BY <1>0, <1>2 DEF Begins, LimitsInv, LimitsKept, Going, scope
<1>3. CASE status' \notin Going
  BY <1>3 DEF LimitsInv, LimitsKept, Going
<1>4. ASSUME NEW code, Skip(code) PROVE LimitsInv'
  <2>1. /\ status = "run" /\ status' = "run" /\ pc' = pc + 1
        /\ UNCHANGED <<program, primary_, alternate_>>
        /\ operations_' = ops_increment(code) /\ ~Exceeded(ops_increment(code))
        /\ negative_conditions_ # 0
    BY <1>4 DEF Skip, Fetch, is_success, stacks
  <2>2. pc > 0
    BY <1>0, <2>1 DEF LimitsInv, Going
  <2>3. Len(primary_) + Len(alternate_) <= MaxStack
    BY <2>1, <2>2 DEF LimitsInv, LimitsKept
  <2>4. ops_increment(code) \in Nat
    BY <1>0 DEF ops_increment
  <2>5. ~is_enabled("bip342") => operations_' <= MaxCountedOps
    BY <1>0, <2>1, <2>4 DEF Exceeded
  <2> QED BY <1>0, <2>1, <2>3, <2>5 DEF LimitsInv, LimitsKept, is_enabled
<1>6. CASE Returns
  <2> PICK code : Run(code) /\ Return(code)
    BY <1>6 DEF Returns
  <2>1. /\ pc' = pc + 1 /\ program' = program
        /\ operations_' = ops_increment(code) /\ ~Exceeded(ops_increment(code))
        /\ status' = IF is_stack_overflow(primary_', alternate_')
                     THEN "invalid_stack_size" ELSE "run"
    BY DEF Run, Return
  <2>2. ops_increment(code) \in Nat
    BY <1>0 DEF ops_increment
  <2>3. ~is_enabled("bip342") => operations_' <= MaxCountedOps
    BY <1>0, <2>1, <2>2 DEF Exceeded
  <2>4. status' = "run" => ~(Len(primary_') + Len(alternate_') > MaxStack)
    BY <2>1 DEF is_stack_overflow
  <2> QED BY <1>0, <2>1, <2>3, <2>4 DEF LimitsInv, LimitsKept, is_enabled
<1>7. CASE status = "run" /\ Tries
  BY <1>0, <1>7 DEF Tries, LimitsInv, LimitsKept, Going, scope, is_enabled
<1>8. CASE /\ status = "trial"
           /\ pc' = pc + 1
           /\ status' = IF is_stack_overflow(primary_', alternate_')
                        THEN "invalid_stack_size" ELSE "run"
           /\ UNCHANGED <<program, operations_, budget_, offset, multisig_, verified, charged>>
  BY <1>0, <1>8 DEF LimitsInv, LimitsKept, is_enabled, is_stack_overflow
<1>9. UNCHANGED vars => UNCHANGED <<program, status, pc, primary_, alternate_, operations_, scope>>
  BY DEF vars, stacks
<1>10. CASE Plain \/ Separates \/ BudgetQuits
  BY <1>3, <1>6, <1>10 DEF Plain, Quits, Separates, BudgetQuits, Going, BudgetEnds
<1> QED
  BY <1>1, <1>2, <1>4, <1>6, <1>7, <1>8, <1>9, <1>10 DEF Steps

-------------------------------------------------------------------------------
(* The cache: what it holds is the hash of the current subscript, stripped *)
(* of the endorsements of the operation that may read it.                  *)

CacheInv ==
    /\ CacheFresh
    /\ status = "trial" => ~is_enabled("bip342")
    /\ multisig_.set =>
        /\ is_enabled("bip342") =>
                multisig_.hash = signature_hash({}, multisig_.flags)
        /\ status = "trial" =>
                multisig_.hash = signature_hash(EndorsementSet, multisig_.flags)

LEMMA CacheInit == Init => CacheInv
  BY DEF Init, CacheInv, CacheFresh, Uncached

\* A verification with a fresh cache leaves it fresh and uses the hash due.
LEMMA HashesFresh ==
    ASSUME NEW strip, Hashes(strip), CacheFresh, program' = program, offset' = offset,
           multisig_.set => multisig_.hash = signature_hash(strip, multisig_.flags)
    PROVE  /\ CacheFresh'
           /\ multisig_'.set =>
                multisig_'.hash = signature_hash(strip, multisig_.flags)'
<1> PICK flags :
        LET cache == IF cached(multisig_, flags) THEN multisig_ ELSE Cached(strip, flags)
        IN  multisig_' = cache
            /\ verified' \subseteq verified \union {Verified(cache, strip, flags)}
  BY DEF Hashes
<1> DEFINE cache == IF cached(multisig_, flags) THEN multisig_ ELSE Cached(strip, flags)
<1>1. cache.hash = signature_hash(strip, flags) /\ cache.flags = flags
  BY DEF cached, Cached
<1>2. multisig_' = cache /\ verified' \subseteq verified \union {Verified(cache, strip, flags)}
  OBVIOUS
<1> HIDE DEF cache
<1>3. CacheFresh'
  BY <1>1, <1>2 DEF CacheFresh, Verified
<1>4. signature_hash(strip, flags) =
        [offset |-> offset', strip |-> Stripped(strip)', flags |-> flags]
  BY DEF signature_hash, Stripped, is_enabled
<1> QED
  BY <1>1, <1>2, <1>3, <1>4 DEF signature_hash

LEMMA CacheNext ==
    ASSUME Typed, CacheInv, Steps
    PROVE  CacheInv'
<1>1. CASE /\ UNCHANGED <<program, offset, multisig_, verified>>
           /\ status' # "trial"
  BY <1>1 DEF CacheInv, CacheFresh, signature_hash, Stripped, is_enabled
<1>2. CASE UNCHANGED <<program, status, offset, multisig_, verified, trial.sigs>>
  <2>1. EndorsementSet' = EndorsementSet
    BY <1>2 DEF EndorsementSet
  <2> QED BY <1>2, <2>1 DEF CacheInv, CacheFresh, signature_hash, Stripped, is_enabled
<1>3. Returns => status' # "trial" /\ program' = program
  BY ReturnsGoing
<1>4. CASE Separates
  BY <1>3, <1>4 DEF Separates, CacheInv, CacheFresh, Uncached
<1>5. CASE status = "run" /\ Tries
  BY <1>5 DEF Tries, CacheInv, CacheFresh, Uncached, is_enabled
<1>6. CASE Returns /\ offset' = offset /\ is_enabled("bip342") /\ Hashes({})
  <2>1. /\ CacheFresh'
        /\ multisig_'.set => multisig_'.hash = signature_hash({}, multisig_.flags)'
    BY <1>3, <1>6, HashesFresh DEF CacheInv
  <2> QED BY <1>3, <1>6, <2>1 DEF CacheInv
<1>7. CASE /\ status = "trial"
           /\ UNCHANGED <<program, status, offset, trial.sigs>>
           /\ Hashes(EndorsementSet)
  <2>1. PICK e : e = EndorsementSet /\ e = EndorsementSet'
    BY <1>7 DEF EndorsementSet
  <2>2. Hashes(e)
    BY <1>7, <2>1 DEF Hashes
  <2>3. multisig_.set => multisig_.hash = signature_hash(e, multisig_.flags)
    BY <1>7, <2>1 DEF CacheInv, signature_hash
  <2>4. /\ CacheFresh'
        /\ multisig_'.set => multisig_'.hash = signature_hash(e, multisig_.flags)'
    BY <1>7, <2>2, <2>3, HashesFresh DEF CacheInv
  <2>5. multisig_'.set =>
            multisig_'.hash = signature_hash(EndorsementSet, multisig_.flags)'
    BY <2>1, <2>4 DEF signature_hash
  <2>6. ~is_enabled("bip342")' /\ status' = "trial"
    BY <1>7 DEF CacheInv, is_enabled
  <2> QED BY <2>4, <2>5, <2>6 DEF CacheInv
<1>8. CASE UNCHANGED vars
  BY <1>2, <1>8 DEF vars, sighashing, history
<1>9. CASE Begins \/ Plain \/ BudgetQuits
  BY <1>1, <1>3, <1>9 DEF Begins, Plain, Quits, BudgetQuits, Going, BudgetEnds
<1>10. ASSUME NEW code, Skip(code) PROVE CacheInv'
  BY <1>1, <1>10 DEF Skip, Fetch, sighashing, history
<1>11. CASE /\ status = "trial"
            /\ status' = IF is_stack_overflow(primary_', alternate_')
                         THEN "invalid_stack_size" ELSE "run"
            /\ UNCHANGED <<program, operations_, budget_, offset, multisig_, verified, charged>>
  BY <1>1, <1>11
<1>12. CASE Returns /\ UNCHANGED <<offset, multisig_, verified>>
  BY <1>1, <1>3, <1>12
<1> QED
  BY <1>2, <1>4, <1>5, <1>6, <1>7, <1>8, <1>9, <1>10, <1>11, <1>12 DEF Steps

-------------------------------------------------------------------------------
(* The rearrangements, element by element.                                 *)

LEMMA PushAt ==
    ASSUME NEW S, NEW s \in Seq(S), NEW e \in S
    PROVE  /\ push(s, e) \in Seq(S)
           /\ Len(push(s, e)) = Len(s) + 1
           /\ push(s, e)[1] = e
           /\ \A i \in 1..Len(s) : push(s, e)[i + 1] = s[i]
<1>1. <<e>> \in Seq(S) /\ Len(<<e>>) = 1 /\ <<e>>[1] = e
  OBVIOUS
<1>2. Len(s) \in Nat
  BY LenProperties
<1>3. \A i \in 1..(Len(<<e>>) + Len(s)) :
        (<<e>> \o s)[i] = IF i <= Len(<<e>>) THEN <<e>>[i] ELSE s[i - Len(<<e>>)]
  BY <1>1, ConcatProperties
<1>4. \A i \in 1..(1 + Len(s)) : push(s, e)[i] = IF i <= 1 THEN <<e>>[i] ELSE s[i - 1]
  BY <1>1, <1>3 DEF push
<1>5. push(s, e)[1] = e
  BY <1>1, <1>2, <1>4
<1>6. ASSUME NEW i \in 1..Len(s) PROVE push(s, e)[i + 1] = s[i]
  BY <1>2, <1>4, <1>6
<1> QED
  BY <1>5, <1>6, PushType

LEMMA SwapAt ==
    ASSUME NEW S, NEW s \in Seq(S), NEW i \in Nat, NEW j \in Nat,
           i < Len(s), j < Len(s)
    PROVE  /\ swap(s, i, j) \in Seq(S) /\ Len(swap(s, i, j)) = Len(s)
           /\ \A k \in 1..Len(s) :
                swap(s, i, j)[k] = IF k = j + 1 THEN s[i + 1]
                                   ELSE IF k = i + 1 THEN s[j + 1] ELSE s[k]
<1>1. Len(s) \in Nat /\ DOMAIN s = 1..Len(s)
  BY LenProperties
<1> QED
  BY <1>1, SwapType DEF swap

LEMMA CopyAt ==
    ASSUME NEW S, NEW s \in Seq(S), NEW i \in Nat, i < Len(s)
    PROVE  /\ Copy(s, i) \in Seq(S) /\ Len(Copy(s, i)) = Len(s) + 1
           /\ Copy(s, i)[1] = s[i + 1]
           /\ \A k \in 1..Len(s) : Copy(s, i)[k + 1] = s[k]
<1> DEFINE e == s[i + 1]
<1>1. e \in S
  BY PeekType DEF peek
<1>2. Copy(s, i) = push(s, e)
  BY DEF Copy, peek
<1> HIDE DEF e
<1>3. push(s, e) \in Seq(S) /\ Len(push(s, e)) = Len(s) + 1 /\ push(s, e)[1] = e
  BY <1>1, PushAt
<1>4. ASSUME NEW k \in 1..Len(s) PROVE push(s, e)[k + 1] = s[k]
  BY <1>1, PushAt
<1> QED
  BY <1>2, <1>3, <1>4 DEF e

LEMMA DropAt ==
    ASSUME NEW S, NEW s \in Seq(S), Len(s) >= 1
    PROVE  /\ drop(s, 1) \in Seq(S) /\ Len(drop(s, 1)) = Len(s) - 1
           /\ \A i \in 1..(Len(s) - 1) : drop(s, 1)[i] = s[i + 1]
<1>1. Len(s) \in Nat
  BY LenProperties
<1>2. PICK n \in 0..Len(s) : n = 1
  BY <1>1
<1>3. /\ drop(s, n) \in Seq(S) /\ Len(drop(s, n)) = Len(s) - n
      /\ \A i \in 1..(Len(s) - n) : drop(s, n)[i] = s[i + n]
  BY DropType
<1> QED
  BY <1>2, <1>3

\* The elements of a stack at the listed places, above the rest of it.
Listed(s, places, n) == [i \in 1..Len(places) |-> s[places[i]]] \o drop(s, n)

\* A stack has the listed elements of another in its first places, and then
\* those under the first n.
HasListed(r, s, places, n) ==
    /\ Len(r) = Len(places) + Len(s) - n
    /\ \A i \in 1..Len(places) : places[i] \in 1..Len(s) /\ r[i] = s[places[i]]
    /\ \A i \in 1..(Len(s) - n) : r[Len(places) + i] = s[n + i]

LEMMA ListedAbove ==
    ASSUME NEW S, NEW s \in Seq(S), NEW r \in Seq(S), NEW d \in Seq(Nat),
           NEW n \in 0..Len(s), HasListed(r, s, d, n)
    PROVE  r = Listed(s, d, n)
<1> USE DEF HasListed
<1> DEFINE above == [i \in 1..Len(d) |-> s[d[i]]]
           under == drop(s, n)
<1>1. Len(s) \in Nat /\ Len(d) \in Nat
  BY LenProperties
<1>2. \A i \in 1..Len(d) : s[d[i]] \in S
  BY ElementOfSeq
<1>3. above \in Seq(S) /\ Len(above) = Len(d)
  BY <1>1, <1>2, IsASeq
<1>4. \A i \in 1..Len(d) : above[i] = s[d[i]]
  OBVIOUS
<1>5. /\ under \in Seq(S) /\ Len(under) = Len(s) - n
      /\ \A i \in 1..(Len(s) - n) : under[i] = s[i + n]
  BY DropType
<1> HIDE DEF above, under
<1>6. /\ above \o under \in Seq(S) /\ Len(above \o under) = Len(d) + (Len(s) - n)
      /\ \A i \in 1..(Len(d) + (Len(s) - n)) :
            (above \o under)[i] = IF i <= Len(d) THEN above[i] ELSE under[i - Len(d)]
  BY <1>3, <1>5, ConcatProperties
<1>7. ASSUME NEW i \in 1..Len(r) PROVE r[i] = (above \o under)[i]
  <2>1. i \in 1..(Len(d) + (Len(s) - n)) /\ i \in Int
    BY <1>1
  <2>2. CASE i <= Len(d)
    BY <1>1, <1>4, <1>6, <2>1, <2>2
  <2>3. CASE ~(i <= Len(d))
    <3>1. PICK k \in 1..(Len(s) - n) : i = Len(d) + k
      <4>1. i - Len(d) \in 1..(Len(s) - n) /\ i = Len(d) + (i - Len(d))
        BY <1>1, <2>1, <2>3
      <4> QED BY <4>1
    <3>2. r[i] = s[n + k] /\ under[k] = s[k + n] /\ i - Len(d) = k /\ n + k = k + n
      BY <1>1, <1>5, <3>1
    <3>3. (above \o under)[i] = under[i - Len(d)]
      BY <1>6, <2>1, <2>3
    <3> QED BY <3>2, <3>3
  <2> QED BY <2>2, <2>3
<1>8. Len(r) = Len(above \o under)
  BY <1>1, <1>6
<1>9. r = above \o under
  BY <1>6, <1>7, <1>8, SeqEqual
<1> QED
  BY <1>9 DEF above, under, Listed

\* What each rearrangement leaves is what is documented of it.
LEMMA RearrangedIs ==
    ASSUME NEW S, NEW s \in Seq(S), NEW code \in DOMAIN Needs, Len(s) >= Needs[code]
    PROVE  Rearranged(code, s) = Listed(s, Documented[code], Needs[code])
<1>0. Len(s) \in Nat
  BY LenProperties
<1>1. CASE code = "drop2"
  <2> DEFINE a == drop(s, 1)
             b == drop(a, 1)
  <2>0. Len(s) >= 2 /\ Needs[code] = 2
    BY <1>1 DEF Needs
  <2>1. Rearranged(code, s) = b
    BY <1>1 DEF Rearranged
  <2>2. /\ a \in Seq(S) /\ Len(a) = Len(s) - 1
        /\ a[1] = s[2]
        /\ \A i \in 1..(Len(s) - 2) : a[1 + i] = s[2 + i]
    <3>1. /\ a \in Seq(S) /\ Len(a) = Len(s) - 1
          /\ \A i \in 1..(Len(s) - 1) : a[i] = s[i + 1]
      <4>1. Len(s) >= 1
        BY <1>0, <2>0
      <4> QED BY <1>0, <2>0, <4>1, DropAt
    <3> HIDE DEF a
    <3> QED BY <1>0, <2>0, <3>1
  <2>3. /\ b \in Seq(S) /\ Len(b) = Len(s) - 2
        /\ \A i \in 1..(Len(s) - 2) : b[0 + i] = s[2 + i]
    <3> HIDE DEF a
    <3>1. /\ b \in Seq(S) /\ Len(b) = Len(a) - 1
          /\ \A i \in 1..(Len(a) - 1) : b[i] = a[i + 1]
      <4>1. Len(a) >= 1
        BY <1>0, <2>0, <2>2
      <4> QED BY <1>0, <2>0, <2>2, <4>1, DropAt
    <3> HIDE DEF b
    <3> QED BY <1>0, <2>0, <2>2, <3>1
  <2> HIDE DEF a, b
  <2> DEFINE d == <<>>
  <2>4. Documented[code] = d
    BY <1>1 DEF Documented
  <2>5. d \in Seq(Nat) /\ Len(d) = 0
    OBVIOUS
  <2>6. \A i \in 1..0 : d[i] \in 1..Len(s) /\ b[i] = s[d[i]]
    OBVIOUS
  <2> HIDE DEF d
  <2>7. HasListed(b, s, d, 2)
    <3>1. Len(b) = Len(d) + Len(s) - 2
      BY <1>0, <2>0, <2>3, <2>5
    <3>2. \A i \in 1..Len(d) : d[i] \in 1..Len(s) /\ b[i] = s[d[i]]
      BY <2>5, <2>6
    <3>3. \A i \in 1..(Len(s) - 2) : b[Len(d) + i] = s[2 + i]
      BY <2>3, <2>5
    <3> QED BY <3>1, <3>2, <3>3 DEF HasListed
  <2>8. 2 \in 0..Len(s)
    BY <1>0, <2>0
  <2>9. b = Listed(s, d, 2)
    BY <2>3, <2>5, <2>7, <2>8, ListedAbove
  <2> QED BY <2>0, <2>1, <2>4, <2>9
<1>2. CASE code = "dup2"
  <2> DEFINE a == Copy(s, 1)
             b == Copy(a, 1)
  <2>0. Len(s) >= 2 /\ Needs[code] = 2
    BY <1>2 DEF Needs
  <2>1. Rearranged(code, s) = b
    BY <1>2 DEF Rearranged
  <2>2. /\ a \in Seq(S) /\ Len(a) = Len(s) + 1
        /\ a[1] = s[2] /\ a[2] = s[1] /\ a[3] = s[2]
        /\ \A i \in 1..(Len(s) - 2) : a[3 + i] = s[2 + i]
    <3>1. /\ a \in Seq(S) /\ Len(a) = Len(s) + 1
          /\ a[1] = s[2]
          /\ \A i \in 1..Len(s) : a[i + 1] = s[i]
      BY <1>0, <2>0, CopyAt
    <3> HIDE DEF a
    <3> QED BY <1>0, <2>0, <3>1
  <2>3. /\ b \in Seq(S) /\ Len(b) = Len(s) + 2
        /\ b[1] = s[1] /\ b[2] = s[2] /\ b[3] = s[1] /\ b[4] = s[2]
        /\ \A i \in 1..(Len(s) - 2) : b[4 + i] = s[2 + i]
    <3> HIDE DEF a
    <3>1. /\ b \in Seq(S) /\ Len(b) = Len(a) + 1
          /\ b[1] = a[2]
          /\ \A i \in 1..Len(a) : b[i + 1] = a[i]
      BY <1>0, <2>0, <2>2, CopyAt
    <3> HIDE DEF b
    <3> QED BY <1>0, <2>0, <2>2, <3>1
  <2> HIDE DEF a, b
  <2> DEFINE d == <<1, 2, 1, 2>>
  <2>4. Documented[code] = d
    BY <1>2 DEF Documented
  <2>5. d \in Seq(Nat) /\ Len(d) = 4
    OBVIOUS
  <2>6. ASSUME NEW i \in 1..4 PROVE d[i] \in 1..Len(s) /\ b[i] = s[d[i]]
    <3>1. i = 1 \/ i = 2 \/ i = 3 \/ i = 4
      OBVIOUS
    <3>2. d[1] = 1 /\ d[2] = 2 /\ d[3] = 1 /\ d[4] = 2
      OBVIOUS
    <3> HIDE DEF d
    <3> QED BY <1>0, <2>0, <2>3, <3>1, <3>2
  <2> HIDE DEF d
  <2>7. HasListed(b, s, d, 2)
    <3>1. Len(b) = Len(d) + Len(s) - 2
      BY <1>0, <2>0, <2>3, <2>5
    <3>2. \A i \in 1..Len(d) : d[i] \in 1..Len(s) /\ b[i] = s[d[i]]
      BY <2>5, <2>6
    <3>3. \A i \in 1..(Len(s) - 2) : b[Len(d) + i] = s[2 + i]
      BY <2>3, <2>5
    <3> QED BY <3>1, <3>2, <3>3 DEF HasListed
  <2>8. 2 \in 0..Len(s)
    BY <1>0, <2>0
  <2>9. b = Listed(s, d, 2)
    BY <2>3, <2>5, <2>7, <2>8, ListedAbove
  <2> QED BY <2>0, <2>1, <2>4, <2>9
<1>3. CASE code = "dup3"
  <2> DEFINE a == Copy(s, 2)
             b == Copy(a, 2)
             c == Copy(b, 2)
  <2>0. Len(s) >= 3 /\ Needs[code] = 3
    BY <1>3 DEF Needs
  <2>1. Rearranged(code, s) = c
    BY <1>3 DEF Rearranged
  <2>2. /\ a \in Seq(S) /\ Len(a) = Len(s) + 1
        /\ a[1] = s[3] /\ a[2] = s[1] /\ a[3] = s[2] /\ a[4] = s[3]
        /\ \A i \in 1..(Len(s) - 3) : a[4 + i] = s[3 + i]
    <3>1. /\ a \in Seq(S) /\ Len(a) = Len(s) + 1
          /\ a[1] = s[3]
          /\ \A i \in 1..Len(s) : a[i + 1] = s[i]
      BY <1>0, <2>0, CopyAt
    <3> HIDE DEF a
    <3> QED BY <1>0, <2>0, <3>1
  <2>3. /\ b \in Seq(S) /\ Len(b) = Len(s) + 2
        /\ b[1] = s[2] /\ b[2] = s[3] /\ b[3] = s[1] /\ b[4] = s[2] /\ b[5] = s[3]
        /\ \A i \in 1..(Len(s) - 3) : b[5 + i] = s[3 + i]
    <3> HIDE DEF a
    <3>1. /\ b \in Seq(S) /\ Len(b) = Len(a) + 1
          /\ b[1] = a[3]
          /\ \A i \in 1..Len(a) : b[i + 1] = a[i]
      BY <1>0, <2>0, <2>2, CopyAt
    <3> HIDE DEF b
    <3> QED BY <1>0, <2>0, <2>2, <3>1, SMTT(30)
  <2>4. /\ c \in Seq(S) /\ Len(c) = Len(s) + 3
        /\ c[1] = s[1] /\ c[2] = s[2] /\ c[3] = s[3] /\ c[4] = s[1] /\ c[5] = s[2] /\ c[6] = s[3]
        /\ \A i \in 1..(Len(s) - 3) : c[6 + i] = s[3 + i]
    <3> HIDE DEF a, b
    <3>1. /\ c \in Seq(S) /\ Len(c) = Len(b) + 1
          /\ c[1] = b[3]
          /\ \A i \in 1..Len(b) : c[i + 1] = b[i]
      BY <1>0, <2>0, <2>3, CopyAt
    <3> HIDE DEF c
    <3> QED BY <1>0, <2>0, <2>3, <3>1
  <2> HIDE DEF a, b, c
  <2> DEFINE d == <<1, 2, 3, 1, 2, 3>>
  <2>5. Documented[code] = d
    BY <1>3 DEF Documented
  <2>6. d \in Seq(Nat) /\ Len(d) = 6
    OBVIOUS
  <2>7. ASSUME NEW i \in 1..6 PROVE d[i] \in 1..Len(s) /\ c[i] = s[d[i]]
    <3>1. i = 1 \/ i = 2 \/ i = 3 \/ i = 4 \/ i = 5 \/ i = 6
      OBVIOUS
    <3>2. d[1] = 1 /\ d[2] = 2 /\ d[3] = 3 /\ d[4] = 1 /\ d[5] = 2 /\ d[6] = 3
      OBVIOUS
    <3> HIDE DEF d
    <3> QED BY <1>0, <2>0, <2>4, <3>1, <3>2
  <2> HIDE DEF d
  <2>8. HasListed(c, s, d, 3)
    <3>1. Len(c) = Len(d) + Len(s) - 3
      BY <1>0, <2>0, <2>4, <2>6
    <3>2. \A i \in 1..Len(d) : d[i] \in 1..Len(s) /\ c[i] = s[d[i]]
      BY <2>6, <2>7
    <3>3. \A i \in 1..(Len(s) - 3) : c[Len(d) + i] = s[3 + i]
      BY <2>4, <2>6
    <3> QED BY <3>1, <3>2, <3>3 DEF HasListed
  <2>9. 3 \in 0..Len(s)
    BY <1>0, <2>0
  <2>10. c = Listed(s, d, 3)
    BY <2>4, <2>6, <2>8, <2>9, ListedAbove
  <2> QED BY <2>0, <2>1, <2>5, <2>10
<1>4. CASE code = "over2"
  <2> DEFINE a == Copy(s, 3)
             b == Copy(a, 3)
  <2>0. Len(s) >= 4 /\ Needs[code] = 4
    BY <1>4 DEF Needs
  <2>1. Rearranged(code, s) = b
    BY <1>4 DEF Rearranged
  <2>2. /\ a \in Seq(S) /\ Len(a) = Len(s) + 1
        /\ a[1] = s[4] /\ a[2] = s[1] /\ a[3] = s[2] /\ a[4] = s[3] /\ a[5] = s[4]
        /\ \A i \in 1..(Len(s) - 4) : a[5 + i] = s[4 + i]
    <3>1. /\ a \in Seq(S) /\ Len(a) = Len(s) + 1
          /\ a[1] = s[4]
          /\ \A i \in 1..Len(s) : a[i + 1] = s[i]
      BY <1>0, <2>0, CopyAt
    <3> HIDE DEF a
    <3> QED BY <1>0, <2>0, <3>1
  <2>3. /\ b \in Seq(S) /\ Len(b) = Len(s) + 2
        /\ b[1] = s[3] /\ b[2] = s[4] /\ b[3] = s[1] /\ b[4] = s[2] /\ b[5] = s[3] /\ b[6] = s[4]
        /\ \A i \in 1..(Len(s) - 4) : b[6 + i] = s[4 + i]
    <3> HIDE DEF a
    <3>1. /\ b \in Seq(S) /\ Len(b) = Len(a) + 1
          /\ b[1] = a[4]
          /\ \A i \in 1..Len(a) : b[i + 1] = a[i]
      BY <1>0, <2>0, <2>2, CopyAt
    <3> HIDE DEF b
    <3> QED BY <1>0, <2>0, <2>2, <3>1
  <2> HIDE DEF a, b
  <2> DEFINE d == <<3, 4, 1, 2, 3, 4>>
  <2>4. Documented[code] = d
    BY <1>4 DEF Documented
  <2>5. d \in Seq(Nat) /\ Len(d) = 6
    OBVIOUS
  <2>6. ASSUME NEW i \in 1..6 PROVE d[i] \in 1..Len(s) /\ b[i] = s[d[i]]
    <3>1. i = 1 \/ i = 2 \/ i = 3 \/ i = 4 \/ i = 5 \/ i = 6
      OBVIOUS
    <3>2. d[1] = 3 /\ d[2] = 4 /\ d[3] = 1 /\ d[4] = 2 /\ d[5] = 3 /\ d[6] = 4
      OBVIOUS
    <3> HIDE DEF d
    <3> QED BY <1>0, <2>0, <2>3, <3>1, <3>2
  <2> HIDE DEF d
  <2>7. HasListed(b, s, d, 4)
    <3>1. Len(b) = Len(d) + Len(s) - 4
      BY <1>0, <2>0, <2>3, <2>5
    <3>2. \A i \in 1..Len(d) : d[i] \in 1..Len(s) /\ b[i] = s[d[i]]
      BY <2>5, <2>6
    <3>3. \A i \in 1..(Len(s) - 4) : b[Len(d) + i] = s[4 + i]
      BY <2>3, <2>5
    <3> QED BY <3>1, <3>2, <3>3 DEF HasListed
  <2>8. 4 \in 0..Len(s)
    BY <1>0, <2>0
  <2>9. b = Listed(s, d, 4)
    BY <2>3, <2>5, <2>7, <2>8, ListedAbove
  <2> QED BY <2>0, <2>1, <2>4, <2>9
<1>5. CASE code = "rot2"
  <2> DEFINE a == swap(s, 0, 4)
             b == swap(a, 1, 5)
             c == swap(b, 2, 4)
             e == swap(c, 3, 5)
  <2>0. Len(s) >= 6 /\ Needs[code] = 6
    BY <1>5 DEF Needs
  <2>1. Rearranged(code, s) = e
    BY <1>5 DEF Rearranged
  <2>2. /\ a \in Seq(S) /\ Len(a) = Len(s)
        /\ a[1] = s[5] /\ a[2] = s[2] /\ a[3] = s[3] /\ a[4] = s[4] /\ a[5] = s[1] /\ a[6] = s[6]
        /\ \A i \in 1..(Len(s) - 6) : a[6 + i] = s[6 + i]
    <3>1. /\ a \in Seq(S) /\ Len(a) = Len(s)
          /\ \A i \in 1..Len(s) :
                a[i] = IF i = 5 THEN s[1]
                       ELSE IF i = 1 THEN s[5] ELSE s[i]
      BY <1>0, <2>0, SwapAt
    <3> HIDE DEF a
    <3> QED BY <1>0, <2>0, <3>1
  <2>3. /\ b \in Seq(S) /\ Len(b) = Len(s)
        /\ b[1] = s[5] /\ b[2] = s[6] /\ b[3] = s[3] /\ b[4] = s[4] /\ b[5] = s[1] /\ b[6] = s[2]
        /\ \A i \in 1..(Len(s) - 6) : b[6 + i] = s[6 + i]
    <3> HIDE DEF a
    <3>1. /\ b \in Seq(S) /\ Len(b) = Len(a)
          /\ \A i \in 1..Len(a) :
                b[i] = IF i = 6 THEN a[2]
                       ELSE IF i = 2 THEN a[6] ELSE a[i]
      BY <1>0, <2>0, <2>2, SwapAt
    <3> HIDE DEF b
    <3> QED BY <1>0, <2>0, <2>2, <3>1
  <2>4. /\ c \in Seq(S) /\ Len(c) = Len(s)
        /\ c[1] = s[5] /\ c[2] = s[6] /\ c[3] = s[1] /\ c[4] = s[4] /\ c[5] = s[3] /\ c[6] = s[2]
        /\ \A i \in 1..(Len(s) - 6) : c[6 + i] = s[6 + i]
    <3> HIDE DEF a, b
    <3>1. /\ c \in Seq(S) /\ Len(c) = Len(b)
          /\ \A i \in 1..Len(b) :
                c[i] = IF i = 5 THEN b[3]
                       ELSE IF i = 3 THEN b[5] ELSE b[i]
      BY <1>0, <2>0, <2>3, SwapAt
    <3> HIDE DEF c
    <3> QED BY <1>0, <2>0, <2>3, <3>1
  <2>5. /\ e \in Seq(S) /\ Len(e) = Len(s)
        /\ e[1] = s[5] /\ e[2] = s[6] /\ e[3] = s[1] /\ e[4] = s[2] /\ e[5] = s[3] /\ e[6] = s[4]
        /\ \A i \in 1..(Len(s) - 6) : e[6 + i] = s[6 + i]
    <3> HIDE DEF a, b, c
    <3>1. /\ e \in Seq(S) /\ Len(e) = Len(c)
          /\ \A i \in 1..Len(c) :
                e[i] = IF i = 6 THEN c[4]
                       ELSE IF i = 4 THEN c[6] ELSE c[i]
      BY <1>0, <2>0, <2>4, SwapAt
    <3> HIDE DEF e
    <3> QED BY <1>0, <2>0, <2>4, <3>1
  <2> HIDE DEF a, b, c, e
  <2> DEFINE d == <<5, 6, 1, 2, 3, 4>>
  <2>6. Documented[code] = d
    BY <1>5 DEF Documented
  <2>7. d \in Seq(Nat) /\ Len(d) = 6
    OBVIOUS
  <2>8. ASSUME NEW i \in 1..6 PROVE d[i] \in 1..Len(s) /\ e[i] = s[d[i]]
    <3>1. i = 1 \/ i = 2 \/ i = 3 \/ i = 4 \/ i = 5 \/ i = 6
      OBVIOUS
    <3>2. d[1] = 5 /\ d[2] = 6 /\ d[3] = 1 /\ d[4] = 2 /\ d[5] = 3 /\ d[6] = 4
      OBVIOUS
    <3> HIDE DEF d
    <3> QED BY <1>0, <2>0, <2>5, <3>1, <3>2
  <2> HIDE DEF d
  <2>9. HasListed(e, s, d, 6)
    <3>1. Len(e) = Len(d) + Len(s) - 6
      BY <1>0, <2>0, <2>5, <2>7
    <3>2. \A i \in 1..Len(d) : d[i] \in 1..Len(s) /\ e[i] = s[d[i]]
      BY <2>7, <2>8
    <3>3. \A i \in 1..(Len(s) - 6) : e[Len(d) + i] = s[6 + i]
      BY <2>5, <2>7
    <3> QED BY <3>1, <3>2, <3>3 DEF HasListed
  <2>10. 6 \in 0..Len(s)
    BY <1>0, <2>0
  <2>11. e = Listed(s, d, 6)
    BY <2>5, <2>7, <2>9, <2>10, ListedAbove
  <2> QED BY <2>0, <2>1, <2>6, <2>11
<1>6. CASE code = "swap2"
  <2> DEFINE a == swap(s, 1, 3)
             b == swap(a, 0, 2)
  <2>0. Len(s) >= 4 /\ Needs[code] = 4
    BY <1>6 DEF Needs
  <2>1. Rearranged(code, s) = b
    BY <1>6 DEF Rearranged
  <2>2. /\ a \in Seq(S) /\ Len(a) = Len(s)
        /\ a[1] = s[1] /\ a[2] = s[4] /\ a[3] = s[3] /\ a[4] = s[2]
        /\ \A i \in 1..(Len(s) - 4) : a[4 + i] = s[4 + i]
    <3>1. /\ a \in Seq(S) /\ Len(a) = Len(s)
          /\ \A i \in 1..Len(s) :
                a[i] = IF i = 4 THEN s[2]
                       ELSE IF i = 2 THEN s[4] ELSE s[i]
      BY <1>0, <2>0, SwapAt
    <3> HIDE DEF a
    <3> QED BY <1>0, <2>0, <3>1
  <2>3. /\ b \in Seq(S) /\ Len(b) = Len(s)
        /\ b[1] = s[3] /\ b[2] = s[4] /\ b[3] = s[1] /\ b[4] = s[2]
        /\ \A i \in 1..(Len(s) - 4) : b[4 + i] = s[4 + i]
    <3> HIDE DEF a
    <3>1. /\ b \in Seq(S) /\ Len(b) = Len(a)
          /\ \A i \in 1..Len(a) :
                b[i] = IF i = 3 THEN a[1]
                       ELSE IF i = 1 THEN a[3] ELSE a[i]
      BY <1>0, <2>0, <2>2, SwapAt
    <3> HIDE DEF b
    <3> QED BY <1>0, <2>0, <2>2, <3>1
  <2> HIDE DEF a, b
  <2> DEFINE d == <<3, 4, 1, 2>>
  <2>4. Documented[code] = d
    BY <1>6 DEF Documented
  <2>5. d \in Seq(Nat) /\ Len(d) = 4
    OBVIOUS
  <2>6. ASSUME NEW i \in 1..4 PROVE d[i] \in 1..Len(s) /\ b[i] = s[d[i]]
    <3>1. i = 1 \/ i = 2 \/ i = 3 \/ i = 4
      OBVIOUS
    <3>2. d[1] = 3 /\ d[2] = 4 /\ d[3] = 1 /\ d[4] = 2
      OBVIOUS
    <3> HIDE DEF d
    <3> QED BY <1>0, <2>0, <2>3, <3>1, <3>2
  <2> HIDE DEF d
  <2>7. HasListed(b, s, d, 4)
    <3>1. Len(b) = Len(d) + Len(s) - 4
      BY <1>0, <2>0, <2>3, <2>5
    <3>2. \A i \in 1..Len(d) : d[i] \in 1..Len(s) /\ b[i] = s[d[i]]
      BY <2>5, <2>6
    <3>3. \A i \in 1..(Len(s) - 4) : b[Len(d) + i] = s[4 + i]
      BY <2>3, <2>5
    <3> QED BY <3>1, <3>2, <3>3 DEF HasListed
  <2>8. 4 \in 0..Len(s)
    BY <1>0, <2>0
  <2>9. b = Listed(s, d, 4)
    BY <2>3, <2>5, <2>7, <2>8, ListedAbove
  <2> QED BY <2>0, <2>1, <2>4, <2>9
<1>7. CASE code = "drop"
  <2> DEFINE a == drop(s, 1)
  <2>0. Len(s) >= 1 /\ Needs[code] = 1
    BY <1>7 DEF Needs
  <2>1. Rearranged(code, s) = a
    BY <1>7 DEF Rearranged
  <2>2. /\ a \in Seq(S) /\ Len(a) = Len(s) - 1
        /\ \A i \in 1..(Len(s) - 1) : a[0 + i] = s[1 + i]
    <3>1. /\ a \in Seq(S) /\ Len(a) = Len(s) - 1
          /\ \A i \in 1..(Len(s) - 1) : a[i] = s[i + 1]
      <4>1. Len(s) >= 1
        BY <1>0, <2>0
      <4> QED BY <1>0, <2>0, <4>1, DropAt
    <3> HIDE DEF a
    <3> QED BY <1>0, <2>0, <3>1
  <2> HIDE DEF a
  <2> DEFINE d == <<>>
  <2>3. Documented[code] = d
    BY <1>7 DEF Documented
  <2>4. d \in Seq(Nat) /\ Len(d) = 0
    OBVIOUS
  <2>5. \A i \in 1..0 : d[i] \in 1..Len(s) /\ a[i] = s[d[i]]
    OBVIOUS
  <2> HIDE DEF d
  <2>6. HasListed(a, s, d, 1)
    <3>1. Len(a) = Len(d) + Len(s) - 1
      BY <1>0, <2>0, <2>2, <2>4
    <3>2. \A i \in 1..Len(d) : d[i] \in 1..Len(s) /\ a[i] = s[d[i]]
      BY <2>4, <2>5
    <3>3. \A i \in 1..(Len(s) - 1) : a[Len(d) + i] = s[1 + i]
      BY <2>2, <2>4
    <3> QED BY <3>1, <3>2, <3>3 DEF HasListed
  <2>7. 1 \in 0..Len(s)
    BY <1>0, <2>0
  <2>8. a = Listed(s, d, 1)
    BY <2>2, <2>4, <2>6, <2>7, ListedAbove
  <2> QED BY <2>0, <2>1, <2>3, <2>8
<1>8. CASE code = "dup"
  <2> DEFINE a == Copy(s, 0)
  <2>0. Len(s) >= 1 /\ Needs[code] = 1
    BY <1>8 DEF Needs
  <2>1. Rearranged(code, s) = a
    BY <1>8 DEF Rearranged
  <2>2. /\ a \in Seq(S) /\ Len(a) = Len(s) + 1
        /\ a[1] = s[1] /\ a[2] = s[1]
        /\ \A i \in 1..(Len(s) - 1) : a[2 + i] = s[1 + i]
    <3>1. /\ a \in Seq(S) /\ Len(a) = Len(s) + 1
          /\ a[1] = s[1]
          /\ \A i \in 1..Len(s) : a[i + 1] = s[i]
      BY <1>0, <2>0, CopyAt
    <3> HIDE DEF a
    <3> QED BY <1>0, <2>0, <3>1
  <2> HIDE DEF a
  <2> DEFINE d == <<1, 1>>
  <2>3. Documented[code] = d
    BY <1>8 DEF Documented
  <2>4. d \in Seq(Nat) /\ Len(d) = 2
    OBVIOUS
  <2>5. ASSUME NEW i \in 1..2 PROVE d[i] \in 1..Len(s) /\ a[i] = s[d[i]]
    <3>1. i = 1 \/ i = 2
      OBVIOUS
    <3>2. d[1] = 1 /\ d[2] = 1
      OBVIOUS
    <3> HIDE DEF d
    <3> QED BY <1>0, <2>0, <2>2, <3>1, <3>2
  <2> HIDE DEF d
  <2>6. HasListed(a, s, d, 1)
    <3>1. Len(a) = Len(d) + Len(s) - 1
      BY <1>0, <2>0, <2>2, <2>4
    <3>2. \A i \in 1..Len(d) : d[i] \in 1..Len(s) /\ a[i] = s[d[i]]
      BY <2>4, <2>5
    <3>3. \A i \in 1..(Len(s) - 1) : a[Len(d) + i] = s[1 + i]
      BY <2>2, <2>4
    <3> QED BY <3>1, <3>2, <3>3 DEF HasListed
  <2>7. 1 \in 0..Len(s)
    BY <1>0, <2>0
  <2>8. a = Listed(s, d, 1)
    BY <2>2, <2>4, <2>6, <2>7, ListedAbove
  <2> QED BY <2>0, <2>1, <2>3, <2>8
<1>9. CASE code = "nip"
  <2> DEFINE a == swap(s, 0, 1)
             b == drop(a, 1)
  <2>0. Len(s) >= 2 /\ Needs[code] = 2
    BY <1>9 DEF Needs
  <2>1. Rearranged(code, s) = b
    BY <1>9 DEF Rearranged
  <2>2. /\ a \in Seq(S) /\ Len(a) = Len(s)
        /\ a[1] = s[2] /\ a[2] = s[1]
        /\ \A i \in 1..(Len(s) - 2) : a[2 + i] = s[2 + i]
    <3>1. /\ a \in Seq(S) /\ Len(a) = Len(s)
          /\ \A i \in 1..Len(s) :
                a[i] = IF i = 2 THEN s[1]
                       ELSE IF i = 1 THEN s[2] ELSE s[i]
      BY <1>0, <2>0, SwapAt
    <3> HIDE DEF a
    <3> QED BY <1>0, <2>0, <3>1
  <2>3. /\ b \in Seq(S) /\ Len(b) = Len(s) - 1
        /\ b[1] = s[1]
        /\ \A i \in 1..(Len(s) - 2) : b[1 + i] = s[2 + i]
    <3> HIDE DEF a
    <3>1. /\ b \in Seq(S) /\ Len(b) = Len(a) - 1
          /\ \A i \in 1..(Len(a) - 1) : b[i] = a[i + 1]
      <4>1. Len(a) >= 1
        BY <1>0, <2>0, <2>2
      <4> QED BY <1>0, <2>0, <2>2, <4>1, DropAt
    <3> HIDE DEF b
    <3> QED BY <1>0, <2>0, <2>2, <3>1
  <2> HIDE DEF a, b
  <2> DEFINE d == <<1>>
  <2>4. Documented[code] = d
    BY <1>9 DEF Documented
  <2>5. d \in Seq(Nat) /\ Len(d) = 1
    OBVIOUS
  <2>6. ASSUME NEW i \in 1..1 PROVE d[i] \in 1..Len(s) /\ b[i] = s[d[i]]
    <3>1. i = 1
      OBVIOUS
    <3>2. d[1] = 1
      OBVIOUS
    <3> HIDE DEF d
    <3> QED BY <1>0, <2>0, <2>3, <3>1, <3>2
  <2> HIDE DEF d
  <2>7. HasListed(b, s, d, 2)
    <3>1. Len(b) = Len(d) + Len(s) - 2
      BY <1>0, <2>0, <2>3, <2>5
    <3>2. \A i \in 1..Len(d) : d[i] \in 1..Len(s) /\ b[i] = s[d[i]]
      BY <2>5, <2>6
    <3>3. \A i \in 1..(Len(s) - 2) : b[Len(d) + i] = s[2 + i]
      BY <2>3, <2>5
    <3> QED BY <3>1, <3>2, <3>3 DEF HasListed
  <2>8. 2 \in 0..Len(s)
    BY <1>0, <2>0
  <2>9. b = Listed(s, d, 2)
    BY <2>3, <2>5, <2>7, <2>8, ListedAbove
  <2> QED BY <2>0, <2>1, <2>4, <2>9
<1>10. CASE code = "over"
  <2> DEFINE a == Copy(s, 1)
  <2>0. Len(s) >= 2 /\ Needs[code] = 2
    BY <1>10 DEF Needs
  <2>1. Rearranged(code, s) = a
    BY <1>10 DEF Rearranged
  <2>2. /\ a \in Seq(S) /\ Len(a) = Len(s) + 1
        /\ a[1] = s[2] /\ a[2] = s[1] /\ a[3] = s[2]
        /\ \A i \in 1..(Len(s) - 2) : a[3 + i] = s[2 + i]
    <3>1. /\ a \in Seq(S) /\ Len(a) = Len(s) + 1
          /\ a[1] = s[2]
          /\ \A i \in 1..Len(s) : a[i + 1] = s[i]
      BY <1>0, <2>0, CopyAt
    <3> HIDE DEF a
    <3> QED BY <1>0, <2>0, <3>1
  <2> HIDE DEF a
  <2> DEFINE d == <<2, 1, 2>>
  <2>3. Documented[code] = d
    BY <1>10 DEF Documented
  <2>4. d \in Seq(Nat) /\ Len(d) = 3
    OBVIOUS
  <2>5. ASSUME NEW i \in 1..3 PROVE d[i] \in 1..Len(s) /\ a[i] = s[d[i]]
    <3>1. i = 1 \/ i = 2 \/ i = 3
      OBVIOUS
    <3>2. d[1] = 2 /\ d[2] = 1 /\ d[3] = 2
      OBVIOUS
    <3> HIDE DEF d
    <3> QED BY <1>0, <2>0, <2>2, <3>1, <3>2
  <2> HIDE DEF d
  <2>6. HasListed(a, s, d, 2)
    <3>1. Len(a) = Len(d) + Len(s) - 2
      BY <1>0, <2>0, <2>2, <2>4
    <3>2. \A i \in 1..Len(d) : d[i] \in 1..Len(s) /\ a[i] = s[d[i]]
      BY <2>4, <2>5
    <3>3. \A i \in 1..(Len(s) - 2) : a[Len(d) + i] = s[2 + i]
      BY <2>2, <2>4
    <3> QED BY <3>1, <3>2, <3>3 DEF HasListed
  <2>7. 2 \in 0..Len(s)
    BY <1>0, <2>0
  <2>8. a = Listed(s, d, 2)
    BY <2>2, <2>4, <2>6, <2>7, ListedAbove
  <2> QED BY <2>0, <2>1, <2>3, <2>8
<1>11. CASE code = "rot"
  <2> DEFINE a == swap(s, 1, 2)
             b == swap(a, 0, 1)
  <2>0. Len(s) >= 3 /\ Needs[code] = 3
    BY <1>11 DEF Needs
  <2>1. Rearranged(code, s) = b
    BY <1>11 DEF Rearranged
  <2>2. /\ a \in Seq(S) /\ Len(a) = Len(s)
        /\ a[1] = s[1] /\ a[2] = s[3] /\ a[3] = s[2]
        /\ \A i \in 1..(Len(s) - 3) : a[3 + i] = s[3 + i]
    <3>1. /\ a \in Seq(S) /\ Len(a) = Len(s)
          /\ \A i \in 1..Len(s) :
                a[i] = IF i = 3 THEN s[2]
                       ELSE IF i = 2 THEN s[3] ELSE s[i]
      BY <1>0, <2>0, SwapAt
    <3> HIDE DEF a
    <3> QED BY <1>0, <2>0, <3>1
  <2>3. /\ b \in Seq(S) /\ Len(b) = Len(s)
        /\ b[1] = s[3] /\ b[2] = s[1] /\ b[3] = s[2]
        /\ \A i \in 1..(Len(s) - 3) : b[3 + i] = s[3 + i]
    <3> HIDE DEF a
    <3>1. /\ b \in Seq(S) /\ Len(b) = Len(a)
          /\ \A i \in 1..Len(a) :
                b[i] = IF i = 2 THEN a[1]
                       ELSE IF i = 1 THEN a[2] ELSE a[i]
      BY <1>0, <2>0, <2>2, SwapAt
    <3> HIDE DEF b
    <3> QED BY <1>0, <2>0, <2>2, <3>1
  <2> HIDE DEF a, b
  <2> DEFINE d == <<3, 1, 2>>
  <2>4. Documented[code] = d
    BY <1>11 DEF Documented
  <2>5. d \in Seq(Nat) /\ Len(d) = 3
    OBVIOUS
  <2>6. ASSUME NEW i \in 1..3 PROVE d[i] \in 1..Len(s) /\ b[i] = s[d[i]]
    <3>1. i = 1 \/ i = 2 \/ i = 3
      OBVIOUS
    <3>2. d[1] = 3 /\ d[2] = 1 /\ d[3] = 2
      OBVIOUS
    <3> HIDE DEF d
    <3> QED BY <1>0, <2>0, <2>3, <3>1, <3>2
  <2> HIDE DEF d
  <2>7. HasListed(b, s, d, 3)
    <3>1. Len(b) = Len(d) + Len(s) - 3
      BY <1>0, <2>0, <2>3, <2>5
    <3>2. \A i \in 1..Len(d) : d[i] \in 1..Len(s) /\ b[i] = s[d[i]]
      BY <2>5, <2>6
    <3>3. \A i \in 1..(Len(s) - 3) : b[Len(d) + i] = s[3 + i]
      BY <2>3, <2>5
    <3> QED BY <3>1, <3>2, <3>3 DEF HasListed
  <2>8. 3 \in 0..Len(s)
    BY <1>0, <2>0
  <2>9. b = Listed(s, d, 3)
    BY <2>3, <2>5, <2>7, <2>8, ListedAbove
  <2> QED BY <2>0, <2>1, <2>4, <2>9
<1>12. CASE code = "swap"
  <2> DEFINE a == swap(s, 0, 1)
  <2>0. Len(s) >= 2 /\ Needs[code] = 2
    BY <1>12 DEF Needs
  <2>1. Rearranged(code, s) = a
    BY <1>12 DEF Rearranged
  <2>2. /\ a \in Seq(S) /\ Len(a) = Len(s)
        /\ a[1] = s[2] /\ a[2] = s[1]
        /\ \A i \in 1..(Len(s) - 2) : a[2 + i] = s[2 + i]
    <3>1. /\ a \in Seq(S) /\ Len(a) = Len(s)
          /\ \A i \in 1..Len(s) :
                a[i] = IF i = 2 THEN s[1]
                       ELSE IF i = 1 THEN s[2] ELSE s[i]
      BY <1>0, <2>0, SwapAt
    <3> HIDE DEF a
    <3> QED BY <1>0, <2>0, <3>1
  <2> HIDE DEF a
  <2> DEFINE d == <<2, 1>>
  <2>3. Documented[code] = d
    BY <1>12 DEF Documented
  <2>4. d \in Seq(Nat) /\ Len(d) = 2
    OBVIOUS
  <2>5. ASSUME NEW i \in 1..2 PROVE d[i] \in 1..Len(s) /\ a[i] = s[d[i]]
    <3>1. i = 1 \/ i = 2
      OBVIOUS
    <3>2. d[1] = 2 /\ d[2] = 1
      OBVIOUS
    <3> HIDE DEF d
    <3> QED BY <1>0, <2>0, <2>2, <3>1, <3>2
  <2> HIDE DEF d
  <2>6. HasListed(a, s, d, 2)
    <3>1. Len(a) = Len(d) + Len(s) - 2
      BY <1>0, <2>0, <2>2, <2>4
    <3>2. \A i \in 1..Len(d) : d[i] \in 1..Len(s) /\ a[i] = s[d[i]]
      BY <2>4, <2>5
    <3>3. \A i \in 1..(Len(s) - 2) : a[Len(d) + i] = s[2 + i]
      BY <2>2, <2>4
    <3> QED BY <3>1, <3>2, <3>3 DEF HasListed
  <2>7. 2 \in 0..Len(s)
    BY <1>0, <2>0
  <2>8. a = Listed(s, d, 2)
    BY <2>2, <2>4, <2>6, <2>7, ListedAbove
  <2> QED BY <2>0, <2>1, <2>3, <2>8
<1>13. CASE code = "tuck"
  <2> DEFINE a == swap(s, 0, 1)
             b == Copy(a, 1)
  <2>0. Len(s) >= 2 /\ Needs[code] = 2
    BY <1>13 DEF Needs
  <2>1. Rearranged(code, s) = b
    BY <1>13 DEF Rearranged
  <2>2. /\ a \in Seq(S) /\ Len(a) = Len(s)
        /\ a[1] = s[2] /\ a[2] = s[1]
        /\ \A i \in 1..(Len(s) - 2) : a[2 + i] = s[2 + i]
    <3>1. /\ a \in Seq(S) /\ Len(a) = Len(s)
          /\ \A i \in 1..Len(s) :
                a[i] = IF i = 2 THEN s[1]
                       ELSE IF i = 1 THEN s[2] ELSE s[i]
      BY <1>0, <2>0, SwapAt
    <3> HIDE DEF a
    <3> QED BY <1>0, <2>0, <3>1
  <2>3. /\ b \in Seq(S) /\ Len(b) = Len(s) + 1
        /\ b[1] = s[1] /\ b[2] = s[2] /\ b[3] = s[1]
        /\ \A i \in 1..(Len(s) - 2) : b[3 + i] = s[2 + i]
    <3> HIDE DEF a
    <3>1. /\ b \in Seq(S) /\ Len(b) = Len(a) + 1
          /\ b[1] = a[2]
          /\ \A i \in 1..Len(a) : b[i + 1] = a[i]
      BY <1>0, <2>0, <2>2, CopyAt
    <3> HIDE DEF b
    <3> QED BY <1>0, <2>0, <2>2, <3>1
  <2> HIDE DEF a, b
  <2> DEFINE d == <<1, 2, 1>>
  <2>4. Documented[code] = d
    BY <1>13 DEF Documented
  <2>5. d \in Seq(Nat) /\ Len(d) = 3
    OBVIOUS
  <2>6. ASSUME NEW i \in 1..3 PROVE d[i] \in 1..Len(s) /\ b[i] = s[d[i]]
    <3>1. i = 1 \/ i = 2 \/ i = 3
      OBVIOUS
    <3>2. d[1] = 1 /\ d[2] = 2 /\ d[3] = 1
      OBVIOUS
    <3> HIDE DEF d
    <3> QED BY <1>0, <2>0, <2>3, <3>1, <3>2
  <2> HIDE DEF d
  <2>7. HasListed(b, s, d, 2)
    <3>1. Len(b) = Len(d) + Len(s) - 2
      BY <1>0, <2>0, <2>3, <2>5
    <3>2. \A i \in 1..Len(d) : d[i] \in 1..Len(s) /\ b[i] = s[d[i]]
      BY <2>5, <2>6
    <3>3. \A i \in 1..(Len(s) - 2) : b[Len(d) + i] = s[2 + i]
      BY <2>3, <2>5
    <3> QED BY <3>1, <3>2, <3>3 DEF HasListed
  <2>8. 2 \in 0..Len(s)
    BY <1>0, <2>0
  <2>9. b = Listed(s, d, 2)
    BY <2>3, <2>5, <2>7, <2>8, ListedAbove
  <2> QED BY <2>0, <2>1, <2>4, <2>9
<1>14. DOMAIN Needs = {"drop2", "dup2", "dup3", "over2", "rot2", "swap2", "drop",
                       "dup", "nip", "over", "rot", "swap", "tuck"}
  BY DEF Needs
<1> QED
  BY <1>1, <1>2, <1>3, <1>4, <1>5, <1>6, <1>7, <1>8, <1>9, <1>10, <1>11,
     <1>12, <1>13, <1>14

-------------------------------------------------------------------------------
(* Each of the invariants needs the types, and none needs another.         *)

\* A tapscript run goes on exactly while its signatures cost no more than its
\* budget, however many it has and in whatever order: the unsigned budget with
\* its floor is the signed one of bip342 (sigops_increment, floored_subtract).
THEOREM BudgetCorrect == Spec => []BudgetIsSigned
<1>1. IndInv => Typed
  BY DEF IndInv
<1>2. IndInv /\ BudgetInv /\ [Next]_vars => BudgetInv'
  BY <1>1, NextSteps, BudgetNext
<1>3. IndInv /\ BudgetInv => BudgetIsSigned
  BY <1>1, BudgetSigned
<1> QED
  BY IndInit, IndNext, BudgetInit, <1>2, <1>3, PTL DEF Spec

\* A run goes on only within its limits of stack size and of counted operations,
\* for limits and scripts of any size: the first operation of a run is executed,
\* so that a stack given too large is found before anything is skipped
\* (run, ops_increment, is_stack_overflow).
THEOREM LimitsCorrect == Spec => []LimitsKept
<1>1. IndInv => Typed
  BY DEF IndInv
<1>2. IndInv /\ LimitsInv /\ [Next]_vars => LimitsInv'
  BY <1>1, NextSteps, LimitsNext
<1>3. LimitsInv => LimitsKept
  BY DEF LimitsInv
<1> QED
  BY IndInit, IndNext, LimitsInit, <1>2, <1>3, PTL DEF Spec

\* No signature is ever verified with a stale hash: what the cache yields is the
\* hash of the current subscript for the endorsements of the operation at hand
\* (cached, uncache, set_hash, set_subscript).
THEOREM CacheCorrect == Spec => []CacheFresh
<1>1. IndInv => Typed
  BY DEF IndInv
<1>2. IndInv /\ CacheInv /\ [Next]_vars => CacheInv'
  BY <1>1, NextSteps, CacheNext
<1>3. CacheInv => CacheFresh
  BY DEF CacheInv
<1> QED
  BY IndInit, IndNext, CacheInit, <1>2, <1>3, PTL DEF Spec

\* The swaps, copies and drops of the stack handlers amount to the documented
\* rearrangements on stacks of any size (stack::swap, peek, push, drop).
THEOREM RearrangedCorrect == Spec => []RearrangedAsDocumented
<1>1. IndInv => RearrangedAsDocumented
  <2> SUFFICES ASSUME IndInv, NEW code \in program.scripts.codes \intersect DOMAIN Needs,
                      size >= Needs[code]
               PROVE  Rearranged(code, primary_) =
                        Listed(primary_, Documented[code], Needs[code])
    BY DEF RearrangedAsDocumented, Listed
  <2>1. primary_ \in Seq(Element) /\ Len(primary_) >= Needs[code] /\ code \in DOMAIN Needs
    BY DEF IndInv, Typed, TypeOK, size
  <2> QED BY <2>1, RearrangedIs
<1> QED
  BY IndInit, IndNext, <1>1, PTL DEF Spec

-------------------------------------------------------------------------------
(* The conditional stack of a program and its count of false conditions    *)
(* implement ConditionalScope, in scripts of any length and nesting.       *)

\* FirstFalse of a given conditional stack.
FirstOf(c) ==
    IF \E i \in 1..Len(c) : ~c[i]
    THEN CHOOSE i \in 1..Len(c) : ~c[i] /\ \A j \in 1..(i - 1) : c[j]
    ELSE 0

\* A branch is the outermost one not taken.
IsFirst(c, k) == k \in 1..Len(c) /\ ~c[k] /\ \A j \in 1..(k - 1) : c[j]

\* There is at most one such branch.
LEMMA FirstUnique ==
    ASSUME NEW c \in Seq(BOOLEAN), NEW k, IsFirst(c, k)
    PROVE  FirstOf(c) = k
<1> DEFINE f == CHOOSE i \in 1..Len(c) : ~c[i] /\ \A j \in 1..(i - 1) : c[j]
<1>0. Len(c) \in Nat
  BY LenProperties
<1>1. f \in 1..Len(c) /\ ~c[f] /\ \A j \in 1..(f - 1) : c[j]
  <2>1. \E i \in 1..Len(c) : ~c[i] /\ \A j \in 1..(i - 1) : c[j]
    BY Zenon DEF IsFirst
  <2> QED BY <2>1, Zenon
<1>2. FirstOf(c) = f
  BY <1>1, Zenon DEF FirstOf
<1> HIDE DEF f
<1>3. f < k => f \in 1..(k - 1)
  BY <1>0, <1>1 DEF IsFirst
<1>4. k < f => k \in 1..(f - 1)
  BY <1>0, <1>1 DEF IsFirst
<1>5. ~(f < k)
  BY <1>1, <1>3, Zenon DEF IsFirst
<1>6. ~(k < f)
  BY <1>1, <1>4, Zenon DEF IsFirst
<1> QED
  BY <1>0, <1>1, <1>2, <1>5, <1>6 DEF IsFirst

\* There is one if any branch is not taken: natural numbers are well founded.
LEMMA FirstExists ==
    ASSUME NEW c \in Seq(BOOLEAN), FalseOf(c) # {}
    PROVE  IsFirst(c, FirstOf(c))
<1>0. Len(c) \in Nat /\ FalseOf(c) \subseteq 1..Len(c) /\ FalseOf(c) \subseteq Nat
  BY LenProperties DEF FalseOf
<1>1. PICK x \in FalseOf(c) : \A y \in FalseOf(c) : ~(<<y, x>> \in OpToRel(<, Nat))
  BY <1>0, NatLessThanWellFounded, WFMin
<1>2. \A y \in FalseOf(c) : ~(y < x)
  BY <1>0, <1>1 DEF OpToRel
<1>3. ~c[x]
  BY Zenon DEF FalseOf
<1>4. \A j \in 1..(x - 1) : c[j]
  <2> TAKE j \in 1..(x - 1)
  <2>1. j < x /\ j \in 1..Len(c)
    BY <1>0
  <2>2. j \notin FalseOf(c)
    BY <1>2, <2>1
  <2> QED BY <2>1, <2>2, Zenon DEF FalseOf
<1>5. IsFirst(c, x)
  BY <1>0, <1>3, <1>4, Zenon DEF IsFirst
<1> QED
  BY <1>5, FirstUnique

\* With every branch taken there is none.
LEMMA FirstZero ==
    ASSUME NEW c \in Seq(BOOLEAN)
    PROVE  FirstOf(c) = 0 <=> FalseOf(c) = {}
<1>1. FalseOf(c) = {} => FirstOf(c) = 0
  BY Zenon DEF FalseOf, FirstOf
<1>2. ASSUME FalseOf(c) # {} PROVE FirstOf(c) # 0
  <2>1. FirstOf(c) \in 1..Len(c) /\ Len(c) \in Nat
    BY <1>2, FirstExists, LenProperties DEF IsFirst
  <2> QED BY <2>1
<1> QED
  BY <1>1, <1>2

-------------------------------------------------------------------------------
(* How the outermost branch not taken moves.                               *)

LEMMA FirstAppend ==
    ASSUME NEW c \in Seq(BOOLEAN), NEW v \in BOOLEAN
    PROVE  FirstOf(Append(c, v)) =
              IF FirstOf(c) # 0 THEN FirstOf(c)
              ELSE IF v THEN 0 ELSE Len(c) + 1
<1> DEFINE d == Append(c, v)
<1>0. Len(c) \in Nat
  BY LenProperties
<1>1. d \in Seq(BOOLEAN) /\ Len(d) = Len(c) + 1 /\ d[Len(c) + 1] = v
      /\ \A i \in 1..Len(c) : d[i] = c[i]
  BY AppendProperties
<1> HIDE DEF d
<1>2. CASE FirstOf(c) # 0
  <2> DEFINE k == FirstOf(c)
  <2>1. IsFirst(c, k)
    BY <1>2, FirstZero, FirstExists
  <2> HIDE DEF k
  <2>2. k \in 1..Len(d) /\ \A j \in 1..(k - 1) : j \in 1..Len(c)
    BY <1>0, <1>1, <2>1 DEF IsFirst
  <2>3. IsFirst(d, k)
    BY <1>1, <2>1, <2>2, Zenon DEF IsFirst
  <2>4. FirstOf(d) = k
    BY <1>1, <2>3, FirstUnique
  <2> QED BY <1>2, <2>4 DEF d, k
<1>3. CASE FirstOf(c) = 0
  <2>1. FalseOf(c) = {}
    BY <1>3, FirstZero
  <2>2. \A j \in 1..Len(c) : c[j]
    BY <2>1, Zenon DEF FalseOf
  <2>3. CASE v
    <3>1. FalseOf(d) = {}
      BY <2>1, <2>3, FalseAppend DEF d
    <3>2. FirstOf(d) = 0
      BY <1>1, <3>1, FirstZero
    <3> QED BY <1>3, <2>3, <3>2 DEF d
  <2>4. CASE ~v
    <3>1. Len(c) + 1 \in 1..Len(d) /\ (Len(c) + 1) - 1 = Len(c)
      BY <1>0, <1>1
    <3>2. IsFirst(d, Len(c) + 1)
      BY <1>1, <2>2, <2>4, <3>1, Zenon DEF IsFirst
    <3>3. FirstOf(d) = Len(c) + 1
      BY <1>1, <3>2, FirstUnique
    <3> QED BY <1>3, <2>4, <3>3 DEF d
  <2> QED BY <2>3, <2>4
<1> QED
  BY <1>2, <1>3

LEMMA FirstToggle ==
    ASSUME NEW c \in Seq(BOOLEAN), Len(c) > 0, NEW d \in Seq(BOOLEAN),
           d = [c EXCEPT ![Len(c)] = ~c[Len(c)]]
    PROVE  /\ Len(d) = Len(c)
           /\ FirstOf(d) = IF FirstOf(c) = 0 THEN Len(c)
                           ELSE IF FirstOf(c) = Len(c) THEN 0
                           ELSE FirstOf(c)
<1> DEFINE n == Len(c)
           k == FirstOf(c)
<1>0. n \in Nat /\ n \in 1..n
  BY LenProperties
<1>1. Len(d) = n /\ d[n] = ~c[n] /\ \A i \in 1..n : i # n => d[i] = c[i]
  <2>1. c = [i \in 1..n |-> c[i]] /\ DOMAIN c = 1..n
    BY <1>0, LenProperties
  <2>2. d[n] = ~c[n] /\ \A i \in 1..n : i # n => d[i] = c[i]
    BY <1>0, <2>1, Zenon
  <2>3. Len(d) = n
    <3>1. (~c[n]) \in BOOLEAN
      BY Zenon
    <3> QED BY <1>0, <3>1, ExceptSeq
  <2> QED BY <2>2, <2>3
<1> HIDE DEF n
<1>a. \A j \in 1..(n - 1) : j \in 1..n /\ j # n
  BY <1>0
<1>2. CASE k = 0
  <2>1. \A j \in 1..n : c[j]
    <3>1. FalseOf(c) = {}
      BY <1>2, FirstZero
    <3> QED BY <3>1, Zenon DEF FalseOf, n
  <2>2. IsFirst(d, n)
    <3>1. ~d[n]
      BY <1>0, <1>1, <2>1, Zenon
    <3>2. \A j \in 1..(n - 1) : d[j]
      BY <1>1, <1>a, <2>1, Zenon
    <3> QED BY <1>0, <1>1, <3>1, <3>2, Zenon DEF IsFirst
  <2>3. FirstOf(d) = n
    BY <2>2, FirstUnique
  <2> QED BY <1>1, <1>2, <2>3 DEF n
<1>3. CASE k # 0
  <2>1. IsFirst(c, k)
    BY <1>3, FirstZero, FirstExists
  <2> HIDE DEF k
  <2>2. k \in 1..n /\ ~c[k] /\ \A j \in 1..(k - 1) : c[j]
    BY <2>1 DEF IsFirst, n
  <2>3. CASE k = n
    <3>1. \A j \in 1..n : d[j]
      <4> TAKE j \in 1..n
      <4>1. CASE j = n
        BY <1>1, <2>2, <2>3, <4>1, Zenon
      <4>2. CASE j # n
        <5>1. j \in 1..(k - 1)
          BY <1>0, <2>3, <4>2
        <5> QED BY <1>1, <2>2, <4>2, <5>1, Zenon
      <4> QED BY <4>1, <4>2
    <3>2. FalseOf(d) = {}
      BY <1>1, <3>1, Zenon DEF FalseOf
    <3>3. FirstOf(d) = 0
      BY <3>2, FirstZero
    <3> QED BY <1>1, <1>3, <2>3, <3>3 DEF n, k
  <2>4. CASE k # n
    <3>1. \A j \in 1..(k - 1) : j \in 1..n /\ j # n
      BY <1>0, <2>2
    <3>2. IsFirst(d, k)
      <4>1. ~d[k]
        BY <1>1, <2>2, <2>4, Zenon
      <4>2. \A j \in 1..(k - 1) : d[j]
        BY <1>1, <2>2, <3>1, Zenon
      <4> QED BY <1>1, <2>2, <4>1, <4>2, Zenon DEF IsFirst
    <3>3. FirstOf(d) = k
      BY <3>2, FirstUnique
    <3> QED BY <1>1, <1>3, <2>4, <3>3 DEF n, k
  <2> QED BY <2>3, <2>4
<1> QED
  BY <1>2, <1>3

LEMMA FirstPop ==
    ASSUME NEW c \in Seq(BOOLEAN), Len(c) > 0, NEW d \in Seq(BOOLEAN),
           d = SubSeq(c, 1, Len(c) - 1)
    PROVE  /\ Len(d) = Len(c) - 1
           /\ FirstOf(d) = IF FirstOf(c) = Len(c) THEN 0 ELSE FirstOf(c)
<1> DEFINE n == Len(c)
           k == FirstOf(c)
<1>0. n \in Nat /\ n \in 1..n
  BY LenProperties
<1>1. Len(d) = n - 1 /\ \A i \in 1..(n - 1) : d[i] = c[i]
  <2>1. \A i \in 1..(n - 1) : c[i] \in BOOLEAN
    BY <1>0, ElementOfSeq
  <2>2. 1 \in Int /\ n - 1 \in Int
    BY <1>0
  <2>3. /\ Len(d) = IF 1 <= n - 1 THEN (n - 1) - 1 + 1 ELSE 0
        /\ \A i \in 1..((n - 1) - 1 + 1) : d[i] = c[1 + i - 1]
    BY <2>1, <2>2, SubSeqProperties
  <2> HIDE DEF n
  <2>4. \A i \in 1..(n - 1) : i \in 1..((n - 1) - 1 + 1) /\ 1 + i - 1 = i
    BY <1>0
  <2>5. \A i \in 1..(n - 1) : d[i] = c[i]
    BY <2>3, <2>4, Zenon
  <2>6. Len(d) = n - 1
    BY <1>0, <2>3
  <2> QED BY <2>5, <2>6
<1>2. FalseOf(d) = FalseOf(c) \ {n}
  BY FalsePop
<1> HIDE DEF n
<1>3. CASE k = 0
  <2>1. FalseOf(c) = {}
    BY <1>3, FirstZero
  <2>2. FirstOf(d) = 0
    BY <1>2, <2>1, FirstZero
  <2> QED BY <1>0, <1>1, <1>3, <2>2 DEF n
<1>4. CASE k # 0
  <2>1. IsFirst(c, k)
    BY <1>4, FirstZero, FirstExists
  <2> HIDE DEF k
  <2>2. k \in 1..n /\ ~c[k] /\ \A j \in 1..(k - 1) : c[j]
    BY <2>1 DEF IsFirst, n
  <2>3. CASE k = n
    <3>1. \A j \in 1..(n - 1) : d[j]
      BY <1>1, <2>2, <2>3, Zenon
    <3>2. FalseOf(d) = {}
      BY <1>1, <3>1, Zenon DEF FalseOf
    <3>3. FirstOf(d) = 0
      BY <3>2, FirstZero
    <3> QED BY <1>1, <2>3, <3>3 DEF n, k
  <2>4. CASE k # n
    <3>1. k \in 1..(n - 1) /\ \A j \in 1..(k - 1) : j \in 1..(n - 1)
      BY <1>0, <2>2, <2>4
    <3>2. IsFirst(d, k)
      BY <1>1, <2>2, <3>1, Zenon DEF IsFirst
    <3>3. FirstOf(d) = k
      BY <3>2, FirstUnique
    <3> QED BY <1>1, <2>4, <3>3 DEF n, k
  <2> QED BY <2>3, <2>4
<1> QED
  BY <1>3, <1>4

-------------------------------------------------------------------------------
(* The refinement.                                                         *)

\* A count of zero is what no branch not taken amounts to (is_success).
LEMMA SuccessIsScope ==
    ASSUME NEW c \in Seq(BOOLEAN)
    PROVE  Cardinality(FalseOf(c)) = 0 <=> FirstOf(c) = 0
<1>1. Cardinality(FalseOf(c)) = 0 <=> FalseOf(c) = {}
  BY FalseFinite, FS_EmptySet
<1> QED
  BY <1>1, FirstZero

LEMMA ScopeInit == Init => Scope!Init
<1> SUFFICES ASSUME Init PROVE Scope!Init
  OBVIOUS
<1>1. condition_ = <<>> /\ Len(condition_) = 0 /\ negative_conditions_ = 0
  BY DEF Init
<1>2. FirstFalse = 0
  BY <1>1 DEF FirstFalse
<1>3. is_success = TRUE
  BY <1>1 DEF is_success
<1> QED
  BY <1>1, <1>2, <1>3 DEF Scope!Init

LEMMA ScopeNext ==
    ASSUME IndInv, IndInv', [Next]_vars
    PROVE  [Scope!Next]_(Scope!scopeVars)
<1> DEFINE n == Len(condition_)
           k == FirstFalse
<1>0. /\ condition_ \in Seq(BOOLEAN) /\ condition_' \in Seq(BOOLEAN)
      /\ n \in Nat
  BY LenProperties DEF IndInv, Typed, TypeOK
<1>1. k = FirstOf(condition_) /\ k' = FirstOf(condition_')
  BY DEF FirstFalse, FirstOf
<1>2. (is_success <=> k = 0) /\ (is_success' <=> k' = 0)
  <2>1. /\ negative_conditions_ = Cardinality(FalseOf(condition_))
        /\ negative_conditions_' = Cardinality(FalseOf(condition_'))
    BY DEF IndInv, NegativeCount, FalseOf
  <2> QED BY <1>0, <1>1, <2>1, SuccessIsScope DEF is_success
<1>3. ~is_balanced => n > 0
  BY <1>0, EmptySeq DEF is_balanced
<1>4. is_success \in BOOLEAN /\ is_success' \in BOOLEAN
  BY DEF is_success
<1>5. CASE UNCHANGED scope
  BY <1>5 DEF scope, Scope!scopeVars, FirstFalse, is_success
<1>6. ASSUME NEW v \in BOOLEAN, begin_if(v) PROVE Scope!Next
  <2>1. condition_' = Append(condition_, v)
    BY <1>6 DEF begin_if
  <2>2. n' = n + 1
    BY <1>0, <2>1, AppendProperties
  <2>3. k' = IF k # 0 THEN k ELSE IF v THEN 0 ELSE n + 1
    BY <1>0, <1>1, <2>1, FirstAppend
  <2>4. CASE k = 0
    <3>1. is_success /\ is_success' = (k' = 0)
      BY <1>2, <1>4, <2>4
    <3>2. Scope!Enter(v)
      BY <2>2, <2>3, <2>4, <3>1 DEF Scope!Enter, Scope!Settle
    <3> QED BY <3>2 DEF Scope!Next
  <2>5. CASE k # 0
    <3>1. ~is_success /\ is_success' = is_success
      BY <1>2, <1>4, <2>3, <2>5
    <3>2. Scope!EnterSkipped
      BY <2>2, <2>3, <2>5, <3>1 DEF Scope!EnterSkipped
    <3> QED BY <3>2 DEF Scope!Next
  <2> QED BY <2>4, <2>5
<1>7. CASE ~is_balanced /\ else_if_
  <2>1. condition_' = [condition_ EXCEPT ![n] = ~condition_[n]]
    BY <1>7 DEF else_if_, Back
  <2>2. n' = n /\ k' = IF k = 0 THEN n ELSE IF k = n THEN 0 ELSE k
    BY <1>0, <1>1, <1>3, <1>7, <2>1, FirstToggle
  <2>3. is_success' = (k' = 0)
    BY <1>2, <1>4
  <2>4. Scope!Toggle
    BY <1>3, <1>7, <2>2, <2>3 DEF Scope!Toggle, Scope!Settle
  <2> QED BY <2>4 DEF Scope!Next
<1>8. CASE ~is_balanced /\ end_if_
  <2>1. condition_' = SubSeq(condition_, 1, n - 1)
    BY <1>8 DEF end_if_
  <2>2. n' = n - 1 /\ k' = IF k = n THEN 0 ELSE k
    BY <1>0, <1>1, <1>3, <1>8, <2>1, FirstPop
  <2>3. is_success' = (k' = 0)
    BY <1>2, <1>4
  <2>4. Scope!Leave
    BY <1>3, <1>8, <2>2, <2>3 DEF Scope!Leave, Scope!Settle
  <2> QED BY <2>4 DEF Scope!Next
<1> QED
  BY <1>5, <1>6, <1>7, <1>8, NextScopeStep DEF ScopeStep

\* The conditional stack and its counter implement the scope rule: operations
\* run exactly while no enclosing branch is a branch not taken, and only the
\* ELSE or ENDIF of the outermost branch not taken resumes execution, for
\* scripts of any length and nesting (begin_if, else_if_, end_if_, is_success).
THEOREM ScopeRefined == Spec => ScopeImplemented
<1>1. IndInv /\ IndInv' /\ [Next]_vars => [Scope!Next]_(Scope!scopeVars)
  BY ScopeNext
<1> QED
  BY IndInit, IndNext, ScopeInit, <1>1, PTL DEF Spec, ScopeImplemented, Scope!Spec
===============================================================================
