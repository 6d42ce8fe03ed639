------------------------------- MODULE MCScript -------------------------------
(***************************************************************************)
(* A small instance of ScriptMachine.  Each program names the operation    *)
(* codes of its scripts, so that every handler is explored together with   *)
(* those that matter to it, in scripts of a few operations.                *)
(***************************************************************************)
EXTENDS ScriptMachine, TLC

Pad(n) == [form |-> "pad", val |-> n]

\* Blobs: two schnorr keys, another key, and endorsements by sighash flags.
MCKeys32 == {-101, -102}
MCSighash == (-201 :> "all") @@ (-202 :> "all") @@ (-203 :> "single")
Key == Blob(-101)
OtherKey == Blob(-103)

NoTx == [final |-> FALSE, locktime |-> 0, version |-> 2, sequence |-> 0]
MCBits == [mask |-> 2, type |-> 2, disabled |-> 4, width |-> 8]

Scripts(codes, pushes, length) ==
    [codes |-> codes, pushes |-> pushes, length |-> length]
Legacy(rules, stack, scripts) ==
    [rules |-> rules, version |-> "unversioned", witness |-> 0,
     stack |-> stack, tx |-> NoTx, scripts |-> scripts]
Segwit(rules, stack, scripts) ==
    [rules |-> rules \union {"bip141", "bip143", "bip147", "bip66"},
     version |-> "segwit", witness |-> 0, stack |-> stack, tx |-> NoTx,
     scripts |-> scripts]
Tapscript(witness, stack, scripts) ==
    [rules |-> {"bip66", "bip141", "bip143", "bip147", "bip341", "bip342"},
     version |-> "taproot", witness |-> witness, stack |-> stack, tx |-> NoTx,
     scripts |-> scripts]

Numbers(n) == [i \in 1..n |-> Number(i)]
Ones(n) == [i \in 1..n |-> Number(1)]

-------------------------------------------------------------------------------
(* Conditional scope, with limits small enough to be exceeded.             *)

ScopeCodes == {"if", "notif", "else", "endif", "push", "verify", "toaltstack",
               "fromaltstack", "nop", "reserved", "push_oversized",
               "push_underclaimed"}
ScopeData == {Empty, Number(1), Pad(0)}
ScopeScripts == Scripts(ScopeCodes, ScopeData, 6)
ScopePrograms ==
    {Legacy({}, <<>>, ScopeScripts), Segwit({}, Ones(MaxStack + 1), ScopeScripts),
     Tapscript(0, Ones(MaxStack - 1), ScopeScripts),
     Tapscript(0, Ones(MaxStack + 1), ScopeScripts)}

-------------------------------------------------------------------------------
(* Stack, number, hash and locktime handlers.                              *)

StackCodes ==
    DOMAIN Needs \union UnaryCodes \union BinaryCodes \union {"sha256", "hash160"}
    \union {"push", "ifdup", "depth", "size", "pick", "roll", "equal",
            "equalverify", "numequalverify", "within", "verify",
            "checklocktimeverify", "checksequenceverify"}
StackData == {Number(-1), Number(2), Number(4), Pad(1), Key}
StackScripts == Scripts(StackCodes, StackData, 3)
Locked(rules, final, locktime, version, sequence) ==
    [rules |-> rules, version |-> "unversioned", witness |-> 0, stack |-> <<>>,
     tx |-> [final |-> final, locktime |-> locktime, version |-> version,
             sequence |-> sequence],
     scripts |-> StackScripts]
StackPrograms ==
    {Legacy({}, stack, StackScripts) :
        stack \in {<<>>, Numbers(6), Numbers(3),
                   <<Number(-2), Number(2), Pad(1), Pad(0)>>}}
    \union {Locked({"bip65", "bip112"}, final, locktime, version, sequence) :
              final \in BOOLEAN, locktime \in {1, 3}, version \in 1..2,
              sequence \in {1, 3, 4}}

-------------------------------------------------------------------------------
(* Signature handlers.                                                     *)

TapCodes == {"push", "checksig", "checksigverify", "checksigadd",
             "codeseparator", "checkmultisig", "if", "endif", "drop"}
TapData == {Key, OtherKey, Empty}
TapSigs == {<<Empty, Blob(-201), Blob(-202), Blob(-201)>>,
            <<Empty, Blob(-201), Empty, Blob(-203)>>,
            <<Number(20), Blob(-204), Number(1)>>}

Multisig(keys, sigs, dummy) ==
    <<Number(Len(keys))>> \o keys \o <<Number(Len(sigs))>> \o sigs \o <<dummy>>
TwoKeys == <<Key, OtherKey>>
A == Blob(-201)
B == Blob(-202)
S == Blob(-203)
MultisigCode == {"checkmultisig", "checkmultisigverify", "verify", "checksig",
                 "checksigadd", "codeseparator", "push", "endif"}
TapScripts == Scripts(TapCodes, TapData, 6)
MultisigScripts == Scripts(MultisigCode, TapData, 5)
TapPrograms ==
    {Tapscript(witness, stack, TapScripts) :
        witness \in 0..3, stack \in TapSigs}
MultisigStacks ==
    {Multisig(TwoKeys, <<A, S>>, Empty) \o Multisig(TwoKeys, <<B>>, Empty),
     Multisig(TwoKeys, <<A>>, Empty) \o Multisig(TwoKeys, <<B, S>>, Empty),
     Multisig(TwoKeys, <<Empty, A>>, Pad(0)) \o <<Key, A>>,
     Multisig(TwoKeys, <<A, Number(1)>>, Empty) \o <<Key, Number(1)>>,
     Multisig(<<Key>>, <<A, B>>, Empty),
     Multisig(TwoKeys \o TwoKeys, <<>>, Empty),
     Multisig(<<>>, <<>>, Empty) \o <<OtherKey, S>>,
     <<Number(-1), Empty, Empty>>, <<Number(1), Key, Number(1)>>}
MultisigPrograms ==
    {Legacy(rules, stack, MultisigScripts) :
        rules \in {{}, {"bip66", "bip147"}}, stack \in MultisigStacks}
    \union {Segwit({}, stack, MultisigScripts) : stack \in MultisigStacks}

-------------------------------------------------------------------------------
MCCodes == ScopeCodes \union StackCodes \union TapCodes \union MultisigCode
MCPushData == ScopeData \union StackData \union TapData
MCPrograms ==
    ScopePrograms \union StackPrograms \union TapPrograms \union MultisigPrograms
===============================================================================
