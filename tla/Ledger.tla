-------------------------------- MODULE Ledger --------------------------------
(***************************************************************************)
(* What the rules of blocks and transactions are for: an account book that *)
(* can be replayed, entry by entry and transfer by transfer, against a set *)
(* of coins.  A transfer takes coins that are there, old enough to be      *)
(* taken, and worth at least what it makes; the first of an entry mints no *)
(* more than the entry's subsidy and what its transfers leave over.        *)
(***************************************************************************)
EXTENDS Integers, Sequences, SequencesExt, FiniteSetsExt

CONSTANTS
    Maturity    \* entries until minted coins can be taken

VARIABLE
    book        \* entries: [median, subsidy, transfers]

\* A transfer: [id, takes, makes], with what it takes as [point, blocks, time],
\* the ages that it waits for, and what it makes as a sequence of values.
Worth(coins) == MapThenSumSet(LAMBDA c : c.value, coins)
Made(transfer) == FoldLeft(LAMBDA sum, value : sum + value, 0, transfer.makes)

At(coins, point) == {c \in coins : c.point = point}
Points(transfer) == {transfer.takes[i].point : i \in DOMAIN transfer.takes}
Taken(coins, transfer) == UNION {At(coins, p) : p \in Points(transfer)}

Coin(height, median, transfer, minted, i) ==
    [point |-> <<transfer.id, i>>, value |-> transfer.makes[i], height |-> height,
     median |-> median, minted |-> minted]

\* The coins after the first n transfers of an entry at this height.
After(coins, height, entry, n) ==
    LET replay[k \in 0..n] ==
            IF k = 0 THEN coins
            ELSE LET transfer == entry.transfers[k]
                     before == replay[k - 1]
                 IN  (before \ Taken(before, transfer))
                     \union {Coin(height, entry.median, transfer, k = 1, i) :
                                i \in DOMAIN transfer.makes}
    IN  replay[n]

\* A coin may be taken: it has the age that the taker waits for, and was not
\* minted just now or at the very beginning.
Ripe(coin, height, median, take) ==
    /\ height - coin.height >= take.blocks
    /\ median - coin.median >= take.time
    /\ coin.minted => coin.height > 0 /\ height - coin.height >= Maturity

LegalTransfer(coins, height, median, transfer) ==
    /\ Cardinality(Points(transfer)) = Len(transfer.takes)
    /\ \A i \in DOMAIN transfer.takes :
        \E coin \in At(coins, transfer.takes[i].point) :
            Ripe(coin, height, median, transfer.takes[i])
    /\ Worth(Taken(coins, transfer)) >= Made(transfer)

Legal(coins, height, entry) ==
    LET before(k) == After(coins, height, entry, k - 1)
        left(k) == Worth(Taken(before(k), entry.transfers[k])) - Made(entry.transfers[k])
        others == 2..Len(entry.transfers)
    IN  /\ entry.transfers # <<>>
        /\ \A k \in others :
            LegalTransfer(before(k), height, entry.median, entry.transfers[k])
        /\ \A k \in DOMAIN entry.transfers : \A i \in DOMAIN entry.transfers[k].makes :
            At(before(k), <<entry.transfers[k].id, i>>) = {}
        /\ Made(entry.transfers[1]) <= entry.subsidy + MapThenSumSet(left, others)

\* The coins of a whole book; its first entry has height zero.
Coins(entries) ==
    LET replay[k \in 0..Len(entries)] ==
            IF k = 0 THEN {}
            ELSE After(replay[k - 1], k - 1, entries[k], Len(entries[k].transfers))
    IN  replay[Len(entries)]

Init == Len(book) = 1

Extend ==
    /\ Len(book') = Len(book) + 1
    /\ Front(book') = book
    /\ Legal(Coins(book), Len(book), Last(book'))

Retract ==
    /\ Len(book) > 1
    /\ book' = Front(book)

Spec == Init /\ [][Extend \/ Retract]_book
===============================================================================
