------------------------------ MODULE MCConnect ------------------------------
(***************************************************************************)
(* Spends of every kind of output, good and bad, connected under the rules *)
(* in the order of their activation, latest first, beside a second thread  *)
(* that connects an input of another transaction.                          *)
(***************************************************************************)
EXTENDS ScriptConnection

CONSTANTS t1, t2

MCThreads == {t1, t2}

Script(ops, type, target) == [ops |-> ops, type |-> type, target |-> target]
Plain(ops) == Script(ops, "plain", "")

\* The names of embedded and witness scripts are also the elements that hold
\* them.
MCScripts == [
    empty |-> Plain(<<>>),
    pay_key |-> Plain(<<"checksig">>),
    pay_split |-> Plain(<<"checksig", "drop", "separator", "checksig">>),
    pay_lock |-> Plain(<<"locktime", "true">>),
    pay_two |-> Plain(<<"true", "true">>),
    sign |-> Plain(<<"signature">>),
    sign_twice |-> Plain(<<"signature", "separator", "signature">>),
    sign_wrong |-> Plain(<<"other">>),

    pay_hash |-> Script(<<"hash">>, "script_hash", "pay_key"),
    open_hash |-> Plain(<<"signature", "pay_key">>),
    open_wrong |-> Plain(<<"other", "pay_key">>),
    open_dirty |-> Plain(<<"signature", "pay_key", "separator">>),
    open_other |-> Plain(<<"signature", "pay_two">>),

    pay_nested |-> Script(<<"hash">>, "script_hash", "wit_script"),
    nested |-> Plain(<<"wit_script">>),
    nested_dirty |-> Plain(<<"true", "wit_script">>),
    pay_nested_tap |-> Script(<<"hash">>, "script_hash", "tap_key"),
    nested_tap |-> Plain(<<"tap_key">>),

    wit_key |-> Script(<<"false", "program">>, "v0_key", ""),
    wit_script |-> Script(<<"false", "program">>, "v0_script", "pay_split"),
    wit_other |-> Script(<<"false", "program">>, "v0_other", ""),
    tap_key |-> Script(<<"true", "program">>, "v1_key", "pay_split"),
    tap_ready |-> Script(<<"true", "program">>, "v1_key", "leaf_ready"),
    tap_other |-> Script(<<"true", "program">>, "v1_other", ""),
    wit_next |-> Script(<<"true", "program">>, "reserved", ""),
    leaf_ready |-> Plain(<<"fail", "success">>),

    key_hash_script |-> Plain(<<"checkkey", "checksig">>),
    checksig_script |-> Plain(<<"checksig">>),
    success_script |-> Plain(<<"success">>)]

Spending(input, prevout, witness) ==
    [input |-> input, prevout |-> prevout, witness |-> witness]

Witnesses == {
    <<>>, <<"signature">>, <<"other">>, <<"signature", "annex">>,
    <<"signature", "key">>, <<"other", "key">>, <<"signature", "other">>,
    <<"signature", "signature", "pay_split">>, <<"other", "signature", "pay_split">>,
    <<"true", "signature", "signature", "pay_split">>, <<"pay_two">>,
    <<"signature", "signature", "pay_split", "control">>,
    <<"signature", "signature", "pay_split", "control", "annex">>,
    <<"other", "pay_split", "control_leaf">>, <<"pay_two", "control">>,
    <<"leaf_ready", "control">>}

Bare ==
    {Spending(input, prevout, witness) :
        input \in {"empty", "sign", "sign_twice", "sign_wrong"},
        prevout \in {"pay_key", "pay_split", "pay_lock", "pay_two"},
        witness \in {<<>>, <<"other">>}}
Hashed ==
    {Spending(input, "pay_hash", witness) :
        input \in {"empty", "open_hash", "open_wrong", "open_dirty", "open_other"},
        witness \in {<<>>, <<"other">>}}
Nested ==
    {Spending(input, prevout, witness) :
        input \in {"nested", "nested_dirty", "nested_tap"},
        prevout \in {"pay_nested", "pay_nested_tap"}, witness \in Witnesses}
Segregated ==
    {Spending(input, prevout, witness) :
        input \in {"empty", "sign"},
        prevout \in {"wit_key", "wit_script", "wit_other", "tap_key", "tap_ready",
                     "tap_other", "wit_next"},
        witness \in Witnesses}

\* Rules in the order of their activation.
History == <<{"bip16", "bip65", "bip141", "bip341", "bip342"},
             {"bip16", "bip65", "bip141"}, {"bip16", "bip65"}, {"bip16"}, {}>>

\* The other thread: one spend whose script has separators, and one of taproot
\* by key, whose script is the object that all such spends share.
Beside == {Spending("sign_twice", "pay_split", <<>>), Spending("empty", "tap_key", <<"signature">>)}

MCWorks ==
    {[t \in MCThreads |-> IF t = t1 THEN [spend |-> spend, rules |-> History]
                                    ELSE [spend |-> other, rules |-> <<Head(History)>>]] :
        spend \in Bare \union Hashed \union Nested \union Segregated, other \in Beside}
===============================================================================
