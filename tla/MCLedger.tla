------------------------------- MODULE MCLedger -------------------------------
(***************************************************************************)
(* A chain of up to four blocks above genesis, for Confirmation.  Values   *)
(* are three bits wide and the subsidies 2, 1, 0 and then 2 again, or      *)
(* nothing with bip42; what is minted can be spent after two blocks.       *)
(***************************************************************************)
EXTENDS Confirmation, TLC

Plain == [final |-> TRUE, off |-> TRUE, timed |-> FALSE, age |-> 0]
Aged(blocks) == [final |-> FALSE, off |-> FALSE, timed |-> FALSE, age |-> blocks]
Timed(time) == [final |-> FALSE, off |-> FALSE, timed |-> TRUE, age |-> time]

In(id, i) == [point |-> <<<<id>>, i>>, sequence |-> Plain, kind |-> "plain", sigops |-> 0]
NoHead == [sized |-> TRUE, height |-> 0, commit |-> <<>>]
Tx(id, ins, outs) ==
    [id |-> <<id>>, ins |-> ins, outs |-> outs, version |-> 2, locktime |-> 0,
     legacy |-> 0, size |-> 10, light |-> 0, witness |-> "none", head |-> NoHead]
Coinbase(id, height, outs) ==
    [Tx(id, <<[In(id, 1) EXCEPT !.point = NullPoint]>>, outs) EXCEPT !.head.height = height]

MCGenesis == Coinbase("c0", 0, <<2>>)
c1 == Coinbase("c1", 1, <<1, 0>>)
c2 == Coinbase("c2", 2, <<0>>)
c3 == Coinbase("c3", 3, <<0>>)
c3fee == Coinbase("c3fee", 3, <<1>>)
c4 == Coinbase("c4", 4, <<0>>)
c4wrap == Coinbase("c4wrap", 4, <<1>>)

\* Spends of the outputs of the first coinbase, and of theirs.
s == Tx("s", <<In("c1", 1)>>, <<1, 0>>)
s2 == Tx("s2", <<In("c1", 1)>>, <<0>>)
t == Tx("t", <<[In("s", 1) EXCEPT !.sequence = Aged(1)]>>, <<1>>)
u == Tx("u", <<In("s", 1), In("s", 2)>>, <<1>>)
twice == Tx("twice", <<In("s", 1), In("s", 1)>>, <<1>>)
over == Tx("over", <<In("c1", 2)>>, <<7, 1>>)
late == [Tx("late", <<[In("c1", 2) EXCEPT !.sequence = Aged(3)]>>, <<0>>) EXCEPT !.legacy = 1]
timed == Tx("timed", <<[In("c1", 2) EXCEPT !.sequence = Timed(7)]>>, <<0>>)
locked == [Tx("locked", <<[In("c1", 2) EXCEPT !.sequence = Aged(0)]>>, <<0>>)
            EXCEPT !.locktime = 105]
paysh == Tx("paysh", <<[In("c1", 2) EXCEPT !.kind = "embedded", !.sigops = 3]>>, <<0>>)
young == Tx("young", <<In("c3", 1)>>, <<0>>)
first == Tx("first", <<In("c0", 1)>>, <<2>>)

\* A witness, good or bad, and the coinbase that commits to it.
w(mark) == [paysh EXCEPT !.witness = mark, !.light = 5, !.ins[1].kind = "witness", !.ins[1].sigops = 2]
Committed(cb, tx) ==
    LET bare == [cb EXCEPT !.witness = "good", !.light = 3]
    IN  <<[bare EXCEPT !.head.commit = <<WitnessRoot(<<bare, tx>>), "good">>], tx>>

\* Chains of spends within a block, for lists of five and six.
a == Tx("a", <<In("x", 1)>>, <<0>>)
b == Tx("b", <<In("x", 2)>>, <<0>>)
d == Tx("d", <<In("x", 3)>>, <<0>>)
e == Tx("e", <<In("d", 1)>>, <<0>>)
f == Tx("f", <<In("x", 4)>>, <<0>>)

MCLists(height) ==
    CASE height = 1 -> {<<c1>>, <<Coinbase("c1over", 1, <<2>>)>>,
                        <<Coinbase("c1wrap", 1, <<7, 2>>)>>,
                        <<c1, Tx("same", <<In("c1", 1)>>, <<0>>)>>,
                        <<c1, a, b, d, f>>, <<c1, a, b, f, d, e>>}
      [] height = 2 -> {<<c2>>}
      [] height = 3 -> {<<c3, s>>, <<c3fee, s2>>}
      [] height = 4 -> {<<c4, s>>, <<c4, t>>, <<c4, twice>>, <<c4, s, u>>, <<c4, s, t>>,
                        <<c4, t, s>>, <<c4, over>>, <<c4, late>>, <<c4, young>>,
                        <<c4, first>>, <<c4, paysh>>, <<c4, locked>>, <<c4, timed>>,
                        <<c3>>, <<c4wrap>>, Committed(c4, w("good")), Committed(c4, w("bad"))}
      [] OTHER -> {}

MCPoolTxs == {s, t, late, young, timed, first}
MCRuleSets ==
    {{"bip16", "bip34", "bip42", "bip50", "bip68", "bip113", "bip141"}, {"bip34"}}
MCMaxHeaders == <<1, 1, 2, 1>>
MCTimestamp == [height \in 0..4 |-> 100 + 2 * height]
MCMedianTime == [height \in 0..4 |-> 98 + 2 * height]
===============================================================================
