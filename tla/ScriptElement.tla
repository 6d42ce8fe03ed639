---------------------------- MODULE ScriptElement ----------------------------
(***************************************************************************)
(* The elements of a script stack, and how operations read them.           *)
(*                                                                         *)
(* The stack holds a variant (bool, 64 bit integer or byte vector) which   *)
(* every operation reads through a conversion.  Bytes are abstracted to    *)
(* what the conversions tell apart:                                        *)
(*   "min"   the minimal encoding of the number val (zero is the empty     *)
(*           vector, and the booleans are the numbers 0 and 1);            *)
(*   "pad"   a longer encoding of the number val (val = 0 is the negative  *)
(*           zero, which is not empty but is false);                       *)
(*   "blob"  anything longer than a number: a key, a signature, a hash.    *)
(* A boolean, an integer and a vector with the same bytes are one element, *)
(* since the conversions read them alike.                                  *)
(***************************************************************************)
EXTENDS Integers, Sequences

CONSTANTS
    Int4Max,            \* greatest number of four bytes
    Int5Max             \* greatest number of five bytes

Element == [form : {"min", "pad", "blob"}, val : Int]

Number(n) == [form |-> "min", val |-> n]
Blob(b) == [form |-> "blob", val |-> b]
Empty == Number(0)
Boolean(b) == IF b THEN Number(1) ELSE Empty

\* Sums of two four byte numbers need no more than five bytes.
ASSUME IntAssumption ==
    /\ Int4Max \in Nat \ {0}
    /\ Int5Max \in Nat
    /\ Int5Max >= 2 * Int4Max

-------------------------------------------------------------------------------
(* Conversions.                                                            *)

\* peek_signed<Bytes>, integer<Bytes>::from_integer and from_chunk: the domain
\* is symmetric, as the sign takes one bit.
Readable(e, max) == e.form # "blob" /\ -max <= e.val /\ e.val <= max
IsSigned4(e) == Readable(e, Int4Max)
IsSigned5(e) == Readable(e, Int5Max)

\* peek_bool: false is any encoding of zero, the negative zero included.
ToBool(e) == e.form = "blob" \/ e.val # 0

\* peek_strict_bool: false is only the empty vector.
ToStrictBool(e) == e # Empty

\* peek_minimal_bool: fails unless the empty vector or a one.
IsMinimalBool(e) == e \in {Empty, Number(1)}

\* peek_size, in the classes of size that the conversions tell apart.
SizeOf(e) ==
    IF e = Empty THEN 0
    ELSE IF IsSigned4(e) THEN 1
    ELSE IF IsSigned5(e) THEN 2 ELSE 3

\* rmd160_chunk, sha1_chunk, sha256_chunk, bitcoin_short_chunk, bitcoin_chunk:
\* a digest is known only by its function and preimage (no two collide).
HashIndex == [ripemd160 |-> 0, sha1 |-> 1, sha256 |-> 2, hash160 |-> 3,
              hash256 |-> 4]
FormIndex == [min |-> 0, pad |-> 1, blob |-> 2]
Digest(code, e) == Blob(15 * e.val + 5 * FormIndex[e.form] + HashIndex[code])

-------------------------------------------------------------------------------
(* The stack is a sequence whose first element is the top, so that peek(i) *)
(* of the code is element i + 1.                                           *)

peek(s, i) == s[i + 1]
push(s, e) == <<e>> \o s
drop(s, n) == SubSeq(s, n + 1, Len(s))
\* Mutant: the second assignment reads what the first has overwritten.
swap_overwrites(s, i, j) == [s EXCEPT ![i + 1] = s[j + 1]]
swap(s, i, j) == [s EXCEPT ![i + 1] = s[j + 1], ![j + 1] = s[i + 1]]
erase(s, i) == SubSeq(s, 1, i) \o SubSeq(s, i + 2, Len(s))

===============================================================================
