------------------------------- MODULE MCChain -------------------------------
(***************************************************************************)
(* Networks of ChainState: periods of three blocks, a factor of two for    *)
(* four, compact numbers with a mantissa of one bit, samples of three.     *)
(***************************************************************************)
EXTENDS ChainState

MCExpand == [b \in 0 .. 7 |-> IF b = 0 THEN 0 ELSE 2 ^ (b - 1)]
MCVersionOf == [bip34 |-> 2, bip66 |-> 3, bip65 |-> 4]
MCFreeze == [bip34 |-> 2, bip66 |-> 3, bip65 |-> 5]

\* Every network configures the rules of bitcoin.
Rules == {f \in ForkNames : f \notin {"retarget", "difficult", "time_warp_patch",
            "block_storm_patch", "ltc_time_warp_patch", "ltc_retarget_overflow_patch",
            "ltc_scrypt_proof_of_work"}}

Far == [p \in Checkpoints |-> 100]
Near == [p \in Checkpoints |->
            CASE p = "bip9_bit1" -> 3 [] p = "bip9_bit2" -> 4 [] OTHER -> 2]
AtGenesis == [p \in Checkpoints |-> 0]

\* Work: timestamps that go back, advance and are late; one version.
Work(own, points) ==
    [forks |-> Rules \cup own, proof_of_work_limit |-> 6, checkpoint_height |-> points,
     bip30_exceptions |-> {}, constructors |-> Constructors,
     versions |-> {4}, delays |-> {-4, 1, 5}, max_height |-> 9]

Main == Work({"retarget", "difficult"}, Far)
Test3 == Work({"retarget"}, Far)
Test4 == Work({"retarget", "time_warp_patch", "block_storm_patch"}, Far)
Reg == Work({"difficult"}, AtGenesis)

\* A limit so high that the product of target and timespan overflows.
Litecoin(constructors) ==
    [Work({"retarget", "difficult", "ltc_time_warp_patch", "ltc_retarget_overflow_patch",
           "ltc_scrypt_proof_of_work"}, Far)
     EXCEPT !.proof_of_work_limit = 7, !.constructors = constructors]

\* Versions, a negative one included, before and after bip90.
Signalled(own) ==
    [Work({"difficult"}, Far)
     EXCEPT !.forks = (Rules \ {"bip90"}) \cup own,
            !.versions = {1, 2, 3, 4, 60}, !.delays = {1}, !.max_height = 6]

\* Both branches at every checkpoint.
Branches(constructors) ==
    [Main EXCEPT !.checkpoint_height = Near, !.bip30_exceptions = {1},
                 !.constructors = constructors, !.delays = {1}, !.max_height = 7]

AllNetworks ==
    {Main, Test3, Test4, Reg, Litecoin(Constructors \ {"restart"}),
     Signalled({}), Signalled({"bip90"}), Branches(Constructors \ {"block"})}
PoolBlocks == {[Branches(Constructors) EXCEPT !.bip30_exceptions = {}]}
LitecoinRestarts == {Litecoin({"header", "restart"})}
=============================================================================
