-------------------------------- MODULE MCBatch --------------------------------
(***************************************************************************)
(* One block or two, and two threads.  Blocks are chosen so that every way *)
(* of capture meets every way to fail, groups with the same number in      *)
(* two blocks are neighbours in a table, and ordinals are used up.         *)
(***************************************************************************)
EXTENDS SignatureCapture, TLC

CONSTANTS b1, b2

E(ok) == [kind |-> "ecdsa", batchable |-> TRUE, compressible |-> TRUE, ok |-> ok]
S(ok) == [kind |-> "schnorr", batchable |-> TRUE, ok |-> ok]
M(m, n, match) ==
    [kind |-> "multisig", batchable |-> TRUE, parsed |-> TRUE, m |-> m, n |-> n, match |-> match]
T(op, min, elements, junk) ==
    [kind |-> "threshold", batchable |-> TRUE, op |-> op, min |-> min, max |-> min + 1,
     elements |-> elements, junk |-> junk]

Oks(make(_)) == {make(ok) : ok \in BOOLEAN}
Singles ==
    Oks(E) \union Oks(S)
    \union {[in EXCEPT !.compressible = FALSE] : in \in Oks(E)}
    \union {[in EXCEPT !.batchable = FALSE] : in \in Oks(E) \union Oks(S)}

\* Every way in which the signatures of the band may match.
Multisigs ==
    {M(2, 3, match) : match \in SUBSET {<<0, 0>>, <<0, 1>>, <<1, 1>>, <<1, 2>>}}
    \union {M(1, 2, match) : match \in SUBSET {<<0, 0>>, <<0, 1>>}}
    \union {M(2, 2, match) : match \in SUBSET {<<0, 0>>, <<1, 1>>}}
Unparsed == {[in EXCEPT !.parsed = FALSE] : in \in {M(2, 3, {<<0, 0>>, <<1, 2>>}), M(2, 2, {<<0, 0>>})}}

Elements == {<<"good", "empty", "good">>, <<"empty", "good", "good">>,
             <<"good", "bad", "empty">>, <<"good", "malformed", "good">>,
             <<"good", "good", "good">>, <<"empty", "good", "empty">>}
Thresholds ==
    {T(op, 2, elements, 0) : op \in {"numequal", "greaterthanorequal", "lessthan", "within",
                                     "numequalverify"}, elements \in Elements}
    \union {T("numequal", 2, elements, 1) : elements \in Elements}
    \union {T("checksig", 3, elements, 0) : elements \in Elements}

\* Neighbours in the tables, and more groups than ordinals.
Neighbours ==
    {b1 :> <<E(x), S(x)>> @@ b2 :> <<E(TRUE), M(2, 3, match)>> :
        x \in BOOLEAN, match \in {{<<0, 0>>, <<1, 1>>}, {<<0, 1>>, <<1, 1>>}}}
    \union {b1 :> <<M(1, 2, match)>> @@ b2 :> <<M(1, 2, {<<0, 1>>}), S(y)>> :
        y \in BOOLEAN, match \in {{}, {<<0, 0>>}}}
    \union {b1 :> <<E(TRUE), E(TRUE), E(y), M(1, 2, {<<0, 1>>})>> @@ b2 :> <<S(TRUE)>> :
        y \in BOOLEAN}

MCBlockSets ==
    {b1 :> <<in>> : in \in Singles \union Multisigs \union Unparsed \union Thresholds}
    \union Neighbours
===============================================================================
