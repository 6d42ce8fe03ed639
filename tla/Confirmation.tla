----------------------------- MODULE Confirmation -----------------------------
(***************************************************************************)
(* Blocks on their way from a header to the confirmed chain: downloaded    *)
(* from peers that may send anything, identified and checked, validated    *)
(* against the outputs that the store has archived, confirmed in order,    *)
(* and unconfirmed again for a branch with more work.                      *)
(*                                                                         *)
(* The rules are those of BlockRules.  The node that applies them and the  *)
(* store that answers for prevouts and metadata are outside this           *)
(* repository: they are modelled from what block.hpp, transaction.cpp and  *)
(* prevout.hpp say of them.  A block is validated once its ancestors are   *)
(* archived, and not again; it may be confirmed much later, above a chain  *)
(* that has changed in between.                                            *)
(***************************************************************************)
EXTENDS BlockRules

CONSTANTS
    Genesis,        \* the coinbase of the genesis block
    Lists(_),       \* lists of transactions that are mined at a height
    PoolTxs,        \* transactions that are sent to the pool
    RuleSets,       \* rules that may be active
    Timestamp,      \* of the block, and median time past, at each height
    MedianTime,
    MaxClones,      \* bound of the model: transactions a peer appends
    MaxHeaders      \* bound of the model: headers at each height

\* What is mined is of transactions: their hashes are of no pair of hashes, and those
\* of one hash make the same outputs, as it is of all but their witnesses.  A block is later than the median of
\* those before it (header::accept), and heights are below the null height.
Mined ==
    {Genesis}
        \union UNION {UNION {Range(txs) : txs \in Lists(height)} : height \in DOMAIN MaxHeaders}
ASSUME ConfirmationAssumption ==
    /\ MaxClones \in Nat /\ MaxHeaders \in Seq(Nat)
    /\ \A height \in DOMAIN MaxHeaders : Lists(height) \subseteq Seq(Mined)
    /\ \A tx \in Mined \union PoolTxs : IsTransaction(tx)
    /\ \A tx \in Mined : tx.id = Leaf(tx.id[1])
    /\ \A tx, other \in Mined : tx.id = other.id => tx.outs = other.outs
    /\ is_coinbase(Genesis)
    /\ DOMAIN Timestamp \subseteq 0..(MaxHeight - 1)
    /\ 1..Len(MaxHeaders) \subseteq DOMAIN Timestamp \intersect DOMAIN MedianTime
    /\ \A height \in 1..Len(MaxHeaders) :
        /\ {Timestamp[height], MedianTime[height]} \subseteq Nat
        /\ MedianTime[height] < Timestamp[height]

VARIABLES
    rules,
    headers,        \* [parent, height, txs]: txs is what its miner committed to
    state,          \* "announced", "refused", "archived", "valid", "invalid"
    body,           \* what a peer sent, when it was not discarded
    chain           \* confirmed headers above genesis

vars == <<rules, headers, state, body, chain>>

Known == DOMAIN headers
Context(height) ==
    [rules |-> rules, height |-> height, timestamp |-> Timestamp[height],
     median |-> MedianTime[height]]
ContextOf(h) == Context(headers[h].height)

-------------------------------------------------------------------------------
(* The store.                                                              *)

IsArchived(h) == state[h] \in {"archived", "valid", "invalid"}
ArchivedTxs ==
    {Genesis} \union UNION {Range(body[h]) : h \in {k \in Known : IsArchived(k)}}

ValueAt(txs, point) ==
    (CHOOSE tx \in txs : tx.id = point[1] /\ point[2] \in DOMAIN tx.outs).outs[point[2]]
Prevouts(txs) ==
    LET created == UNION {Created(tx) : tx \in ArchivedTxs \union Range(txs)}
        spent == Listed(points, txs)
    IN  [p \in spent \intersect created |-> ValueAt(ArchivedTxs \union Range(txs), p)]

\* The lists of a chain by height.  A block that is being confirmed is marked
\* first: it finds itself, which the comparisons of heights allow for.
Confirmed(blocks) ==
    [height \in 0..Len(blocks) |->
        IF height = 0 THEN <<Genesis>> ELSE body[blocks[height]]]
HeightOf(lists, test(_)) ==
    LET heights == {height \in DOMAIN lists : Some(test, lists[height])}
    IN  IF heights = {} THEN MaxHeight ELSE Min(heights)
Metadata(lists, txs) ==
    LET spent == Listed(points, txs)
        height == [p \in spent |-> HeightOf(lists, LAMBDA tx : tx.id = p[1])]
    IN  [height |-> height,
         median |-> [p \in spent |-> IF height[p] = MaxHeight THEN MaxHeight
                                     ELSE MedianTime[height[p]]],
         coinbase |-> [p \in spent |-> \E tx \in ArchivedTxs :
                                            tx.id = p[1] /\ is_coinbase(tx)],
         spender |-> [p \in spent |-> HeightOf(lists, LAMBDA tx : p \in points(tx))]]

\* Metadata for the pool: a spender that is not confirmed has height zero.
PoolMetadata(txs) ==
    LET confirmed == Metadata(Confirmed(chain), txs)
        others == ArchivedTxs \ Range(txs)
    IN  [confirmed EXCEPT !.spender =
            [p \in DOMAIN @ |->
                IF @[p] = MaxHeight /\ \E tx \in others : p \in points(tx) THEN 0 ELSE @[p]]]

-------------------------------------------------------------------------------
(* Peers.                                                                  *)

\* Lists that a peer may send for a header: the one mined, it with clones
\* appended, without its last, as half as many transactions whose bytes are
\* pairs of hashes, or with the witness of one changed.
Clones(txs) == UNION {[1..n -> Range(txs)] : n \in 1..MaxClones}
Paired64(left, right) ==
    [Genesis EXCEPT !.id = Node(left.id, right.id), !.size = TwoHashes,
                    !.ins = <<[Genesis.ins[1] EXCEPT !.point = <<left.id, 1>>]>>]
Halved(txs) ==
    IF is_odd(Len(txs)) THEN {}
    ELSE {[i \in 1..(Len(txs) \div 2) |-> Paired64(txs[2 * i - 1], txs[2 * i])]}
Rewitnessed(txs) ==
    {[txs EXCEPT ![i].witness = w] : i \in DOMAIN txs, w \in {"none", "good", "bad"}}
Offers(txs) ==
    {txs, Front(txs)} \union {txs \o clones : clones \in Clones(txs)}
        \union Halved(txs) \union Rewitnessed(txs)

-------------------------------------------------------------------------------
Init ==
    /\ rules \in RuleSets
    /\ headers = <<>>
    /\ state = <<>>
    /\ body = <<>>
    /\ chain = <<>>

\* A header arrives: on genesis, or on a header not known to be bad.  One block
\* is downloaded at a time: a download reads and writes nothing of another.
Announce(parent, txs) ==
    /\ "announced" \notin Range(state)
    /\ parent # 0 => IsArchived(parent) /\ state[parent] # "invalid"
    /\ LET header == [parent |-> parent, txs |-> txs, height |->
                        IF parent = 0 THEN 1 ELSE headers[parent].height + 1]
       IN  /\ header.height \in DOMAIN MaxHeaders
           /\ Cardinality({h \in Known : headers[h].height = header.height})
                < MaxHeaders[header.height]
           /\ txs \in Lists(header.height)
           /\ header \notin Range(headers)
           /\ headers' = Append(headers, header)
    /\ state' = Append(state, "announced")
    /\ body' = Append(body, <<>>)
    /\ UNCHANGED <<rules, chain>>

\* The first failure of a sequence of codes.
FirstOf(codes) == FirstFailure(LAMBDA code : code, codes)

Verdict(h, txs) ==
    LET root == MerkleRoot(headers[h].txs)
        ctx == ContextOf(h)
        identified == FirstOf(<<identify(txs, root), identify_context(txs, ctx)>>)
        checked == check(txs, root, TRUE)
    IN  IF identified # "success" THEN identified
        ELSE IF checked # "success" THEN checked
        ELSE check_context(txs, ctx, TRUE)
Discarded == {"invalid_transaction_commitment", "invalid_witness_commitment"}

\* A block of another identity says nothing of the header: it is discarded and
\* asked of another peer.  Any other failure is that of the header.
Download(h, txs) ==
    /\ state[h] = "announced"
    /\ LET verdict == Verdict(h, txs)
       IN  /\ verdict \notin Discarded
           /\ state' = [state EXCEPT ![h] = IF verdict = "success" THEN "archived"
                                                                  ELSE "refused"]
    /\ body' = [body EXCEPT ![h] = txs]
    /\ UNCHANGED <<rules, headers, chain>>

\* populate, accept and connect, once the ancestors are archived.
Validate(h) ==
    /\ state[h] = "archived"
    /\ LET ctx == ContextOf(h)
           prevouts == Prevouts(body[h])
           verdict == FirstOf(<<populate(body[h], ctx), accept(body[h], ctx, prevouts),
                                connect(body[h])>>)
       IN  state' = [state EXCEPT ![h] = IF verdict = "success" THEN "valid" ELSE "invalid"]
    /\ UNCHANGED <<rules, headers, body, chain>>

Top == IF chain = <<>> THEN 0 ELSE Last(chain)

Confirm(h) ==
    /\ state[h] = "valid"
    /\ headers[h].parent = Top
    /\ LET lists == Confirmed(Append(chain, h))
       IN  IF confirm(body[h], ContextOf(h), Metadata(lists, body[h])) = "success"
           THEN chain' = Append(chain, h) /\ UNCHANGED state
           ELSE state' = [state EXCEPT ![h] = "invalid"] /\ UNCHANGED chain
    /\ UNCHANGED <<rules, headers, body>>

\* The top is unconfirmed for another branch.
Reorganize ==
    /\ chain # <<>>
    /\ chain' = Front(chain)
    /\ UNCHANGED <<rules, headers, state, body>>

Next ==
    \/ \E parent \in {0} \union Known :
        \E height \in DOMAIN MaxHeaders : \E txs \in Lists(height) : Announce(parent, txs)
    \/ \E h \in Known : \E txs \in Offers(headers[h].txs) : Download(h, txs)
    \/ \E h \in Known : Validate(h) \/ Confirm(h)
    \/ Reorganize

Spec == Init /\ [][Next]_vars

-------------------------------------------------------------------------------
(* Properties.                                                             *)

\* The confirmed chain as an account book.
Take(in, tx) ==
    LET applied == "bip68" \in rules /\ tx.version >= 2 /\ ~in.sequence.off
    IN  [point |-> in.point,
         blocks |-> IF applied /\ ~in.sequence.timed THEN in.sequence.age ELSE 0,
         time |-> IF applied /\ in.sequence.timed THEN in.sequence.age ELSE 0]
Transfer(tx) ==
    [id |-> tx.id, makes |-> tx.outs,
     takes |-> IF is_coinbase(tx) THEN <<>>
               ELSE [i \in DOMAIN tx.ins |-> Take(tx.ins[i], tx)]]
Book ==
    LET lists == Confirmed(chain)
    IN  [i \in 1..(Len(chain) + 1) |->
            [median |-> MedianTime[i - 1],
             subsidy |-> subsidy(Context(i - 1)),
             transfers |-> [k \in DOMAIN lists[i - 1] |-> Transfer(lists[i - 1][k])]]]

AccountBook == INSTANCE Ledger WITH book <- Book

\* The confirmed chain is an account book that can be replayed: blocks whose
\* rules compare heights of prevouts and spenders, read when they were
\* confirmed, never spend what is spent, absent or too young, and never make
\* value, over all reorganizations (accept, populate, confirm).
LedgerImplemented == AccountBook!Spec

\* A header is archived or refused only for the list that its miner committed
\* to, whatever peers append, cut, fold or rewitness (identify, identify_context).
\* That list must itself have the identity of its header, and no coinbase but the
\* first: the hash of a coinbase with a witness commits to none.
HasIdentity(h) ==
    LET txs == headers[h].txs
    IN  /\ identify(txs, MerkleRoot(txs)) = "success"
        /\ identify_context(txs, ContextOf(h)) = "success"
        /\ \A i \in 2..Len(txs) : ~is_coinbase(txs[i])
OnlyGenuine ==
    \A h \in Known : body[h] # <<>> /\ HasIdentity(h) => body[h] = headers[h].txs

\* A list is found to be malleated exactly if a shorter one has its root
\* (is_malleated32, merkle_index).
MalleationDetected ==
    \A h \in Known : state[h] = "announced" =>
        \A txs \in Offers(headers[h].txs) :
            is_malleated32(txids(txs)) <=>
                \E n \in 1..(Len(txs) - 1) :
                    MerkleRoot(SubSeq(txs, 1, n)) = MerkleRoot(txs)

\* A branch proves its leaf: hashed along the bits of its position it ends in
\* the root (merkle_branch).
BranchProves ==
    \A h \in Known : state[h] = "announced" =>
        \A at \in DOMAIN headers[h].txs :
            LET leaves == txids(headers[h].txs)
                branch == merkle_branch(at - 1, leaves)
            IN  Ascended(leaves[at], at - 1, branch)[Len(branch)].hash = merkle_root(leaves)

\* Every rule is a soft fork: a block that passes when it is validated would pass
\* without the rule, with its witnesses removed if that is bip141 (check_context,
\* populate, accept).
Passes(txs, ctx) ==
    /\ identify_context(txs, ctx) = "success"
    /\ check_context(txs, ctx, FALSE) = "success"
    /\ populate(txs, ctx) = "success"
    /\ accept(txs, ctx, Prevouts(txs)) = "success"
    /\ connect(txs) = "success"
Stripped(txs) == [i \in DOMAIN txs |-> [txs[i] EXCEPT !.witness = "none", !.light = 0]]
SoftForkOnly ==
    [][\A h \in Known : state[h] = "archived" /\ state'[h] = "valid" =>
        \A rule \in rules :
            Passes(IF rule = "bip141" THEN Stripped(body[h]) ELSE body[h],
                   [ContextOf(h) EXCEPT !.rules = rules \ {rule}])]_vars

\* The lists of a chain with one more block.
Extended(lists, top, txs) ==
    [height \in DOMAIN lists \union {top} |-> IF height = top THEN txs ELSE lists[height]]

\* A pool transaction whose prevouts are confirmed, and which passes the checks
\* and the guards for the next block, is confirmed by that block's rules
\* (check_guard, accept_guard, confirm_guard).
PoolConfirms ==
    \A tx \in PoolTxs :
        LET height == Len(chain) + 1
            ctx == Context(height)
            prevouts == Prevouts(<<tx>>)
            lists == Confirmed(chain)
        IN  /\ height \in DOMAIN Timestamp
            /\ \A p \in points(tx) : p[1] \in UNION {Range(txids(lists[k])) : k \in DOMAIN lists}
            /\ "success" = FirstOf(<<check_guard(tx), TxCheck(tx),
                    check_guard_context(tx, ctx), TxCheckContext(tx, ctx),
                    accept_guard(tx, ctx, prevouts), TxAccept(tx, prevouts),
                    confirm_guard(tx, ctx, PoolMetadata(<<tx>>))>>)
            => "success" = FirstOf(<<TxAccept(tx, prevouts),
                    TxConfirm(tx, ctx, Metadata(Extended(lists, height, <<tx>>), <<tx>>))>>)
===============================================================================
