------------------------------ MODULE Queries ------------------------------
(***************************************************************************)
(* Read requests of the API against a chain that moves: blocks by number   *)
(* and by hash, transactions, and the fee history of the gas price oracle  *)
(* (eth/api_backend.go, core/blockchain_reader.go, eth/gasprice).  A       *)
(* request reads the acceptor tip, the canonical index and the caches one  *)
(* at a time and holds no lock between them, so that preference changes    *)
(* and accepts fall between its reads.                                     *)
(***************************************************************************)
EXTENDS Integers, Sequences, SequencesExt, FiniteSets

CONSTANTS
    Block,               \* the blocks that are verified, in any order
    Genesis,             \* the accepted block the node starts from
    Parent,              \* parent of every other block
    Txs,                 \* block -> its transactions, <<[tx, gas, tip], ...>>
    NoReceipts,          \* blocks state sync wrote, without receipts
    Reader,              \* requests that may be under way together
    Wanted,              \* what each of them may ask, see Request
    MaxBlockHistory,     \* gasprice Config.MaxBlockHistory
    MaxCallBlockHistory  \* gasprice Config.MaxCallBlockHistory

VARIABLES
    allow,       \* "unset" or the value of allow-unfinalized-queries
    chain,       \* [known, head, accepted, queue, tip] of core.BlockChain
    canon,       \* canonical hash of every height, "none" if there is none
    index,       \* transaction -> height in the lookup index, -1 if absent
    lookups,     \* txLookupCache: set of <<transaction, block>>
    history,     \* historyCache: set of <<height, block>>
    mail,        \* head events not yet seen by the oracle's goroutine
    lastHead,    \* the last head that goroutine saw
    reader       \* one request per caller

vars == <<allow, chain, canon, index, lookups, history, mail, lastHead, reader>>

Latest == -2
Pending == -1

RECURSIVE Number(_)
Number(b) == IF b = Genesis THEN 0 ELSE 1 + Number(Parent[b])

RECURSIVE AncestorAt(_, _)
AncestorAt(b, n) == IF Number(b) = n THEN b ELSE AncestorAt(Parent[b], n)

Heights == {Number(b) : b \in Block}
Tx == UNION {{Txs[b][i].tx : i \in 1..Len(Txs[b])} : b \in Block}
Holds(b, t) == \E i \in 1..Len(Txs[b]) : Txs[b][i].tx = t

(* Whether b is on the chain that ends in top. *)
OnChain(b, top) == Number(b) <= Number(top) /\ AncestorAt(top, Number(b)) = b

Extends(b, top) == b # Genesis /\ Parent[b] = top

(* A request: by number, by hash, of a transaction, or a fee history of    *)
(* blocks heights that ends in number with the given reward percentiles.   *)
Request(kind, number, hash, tx, blocks, percentiles) ==
    [kind |-> kind, number |-> number, hash |-> hash, tx |-> tx,
     blocks |-> blocks, percentiles |-> percentiles]

ByNumber(n) == Request("number", n, "none", "none", 0, <<>>)
Fees(blocks, last, percentiles) ==
    Request("fees", last, "none", "none", blocks, percentiles)

(* A request that has not come yet.  blk is the block in hand, next and last the *)
(* heights still to be walked by a fee history, rows what it has gathered, *)
(* began the acceptor tip when the request arrived (for the properties).   *)
Idle == [pc |-> "idle", q |-> ByNumber(0), blk |-> "none", next |-> 0,
         last |-> 0, rows |-> <<>>, began |-> Genesis]

Init ==
    /\ allow = "unset"
    /\ chain = [known |-> {Genesis}, head |-> Genesis, accepted |-> Genesis,
                queue |-> <<>>, tip |-> Genesis]
    /\ canon = [n \in Heights |-> IF n = 0 THEN Genesis ELSE "none"]
    /\ index = [t \in Tx |-> -1]
    /\ lookups = {}
    /\ history = {}
    /\ mail = <<>>
    /\ lastHead = "none"
    /\ reader = [r \in Reader |-> Idle]

(* The backend is built with the configured answer to unfinalized queries. *)
New(a) ==
    /\ allow = "unset"
    /\ allow' = a
    /\ UNCHANGED <<chain, canon, index, lookups, history, mail, lastHead, reader>>

----------------------------------------------------------------------------
(* The chain.                                                              *)

(* The canonical index after b became the head: its ancestors below it and *)
(* nothing above.                                                          *)
CanonicalWith(b) ==
    [n \in Heights |-> IF n <= Number(b) THEN AncestorAt(b, n) ELSE "none"]

(* The head event is put in the oracle's channel of one place; the sender  *)
(* waits for the place.                                                    *)
HeadMoves(b) ==
    /\ mail = <<>>
    /\ mail' = <<b>>
    /\ canon' = CanonicalWith(b)

(* A verified block is written, and becomes the head if it extends it. *)
InsertBlock(b) ==
    /\ allow # "unset"
    /\ b \notin chain.known /\ Parent[b] \in chain.known
    /\ IF Parent[b] = chain.head
       THEN /\ HeadMoves(b)
            /\ chain' = [chain EXCEPT !.known = @ \cup {b}, !.head = b]
       ELSE /\ chain' = [chain EXCEPT !.known = @ \cup {b}]
            /\ UNCHANGED <<mail, canon>>
    /\ UNCHANGED <<allow, index, lookups, history, lastHead, reader>>

(* Lookups are dropped by a reorg, not by a mere extension of the head. *)
LookupsAfter(b) == IF Extends(b, chain.head) THEN lookups ELSE {}

SetPreference(b) ==
    /\ allow # "unset"
    /\ b \in chain.known /\ b # chain.head /\ OnChain(chain.accepted, b)
    /\ HeadMoves(b)
    /\ chain' = [chain EXCEPT !.head = b]
    /\ lookups' = LookupsAfter(b)
    /\ UNCHANGED <<allow, index, history, lastHead, reader>>

Accept(b) ==
    /\ allow # "unset"
    /\ b \in chain.known \ {Genesis} /\ Parent[b] = chain.accepted
    /\ IF canon[Number(b)] # b
       THEN /\ HeadMoves(b)
            /\ chain' = [chain EXCEPT !.head = b, !.accepted = b,
                                      !.queue = Append(@, b)]
            /\ lookups' = LookupsAfter(b)
       ELSE /\ chain' = [chain EXCEPT !.accepted = b, !.queue = Append(@, b)]
            /\ UNCHANGED <<mail, canon, lookups>>
    /\ UNCHANGED <<allow, index, history, lastHead, reader>>

(* The acceptor indexes the transactions of the next block ... *)
IndexBlock ==
    /\ chain.queue # <<>>
    /\ LET b == Head(chain.queue) IN
       /\ \E t \in Tx : Holds(b, t) /\ index[t] # Number(b)
       /\ index' = [t \in Tx |-> IF Holds(b, t) THEN Number(b) ELSE index[t]]
    /\ UNCHANGED <<allow, chain, canon, lookups, history, mail, lastHead, reader>>

(* ... and then moves the tip that the API calls accepted. *)
MoveTip ==
    /\ chain.queue # <<>>
    /\ LET b == Head(chain.queue) IN
       /\ \A t \in Tx : Holds(b, t) => index[t] = Number(b)
       /\ chain' = [chain EXCEPT !.queue = Tail(@), !.tip = b]
    /\ UNCHANGED <<allow, canon, index, lookups, history, mail, lastHead, reader>>

(* The oracle's goroutine drops the history when a head does not extend    *)
(* the last one it saw.                                                    *)
HeadEvent ==
    /\ mail # <<>>
    /\ LET b == mail[1] IN
       /\ history' = IF Extends(b, lastHead) THEN history ELSE {}
       /\ lastHead' = b
    /\ mail' = <<>>
    /\ UNCHANGED <<allow, chain, canon, index, lookups, reader>>

ChainStep ==
    \/ \E b \in Block \ {Genesis} : InsertBlock(b)
    \/ \E b \in Block : SetPreference(b)
    \/ \E b \in Block : Accept(b)
    \/ IndexBlock
    \/ MoveTip
    \/ HeadEvent

----------------------------------------------------------------------------
(* Requests.                                                               *)

IsAccepted(n) == n < 0 /\ n >= -4
IsLatest(n) == n \in {Latest, Pending}
isLatestAndAllowed(n) == IsLatest(n) /\ allow = "yes"

(* A height the caller may not be told about yet. *)
Unfinalized(n) == allow # "yes" /\ n > Number(chain.tip)

Step(r, pc) == reader[r].pc = pc
Goes(r, new) ==
    /\ reader' = [reader EXCEPT ![r] = new]
    /\ UNCHANGED <<allow, chain, canon, index, mail, lastHead>>
Silent == UNCHANGED <<lookups, history>>
With(r, pc, b) == [reader[r] EXCEPT !.pc = pc, !.blk = b]

Ask(r) ==
    /\ allow # "unset" /\ reader[r].pc = "idle"
    /\ \E q \in Wanted[r] :
         Goes(r, [Idle EXCEPT !.pc = q.kind, !.q = q, !.began = chain.tip])
    /\ Silent

(* By number: the tip is read first, then the canonical index. *)
HeaderByNumber(r) ==
    /\ Step(r, "number")
    /\ LET n == reader[r].q.number IN
       Goes(r, CASE isLatestAndAllowed(n) -> With(r, "done", chain.head)
                 [] IsAccepted(n) /\ ~isLatestAndAllowed(n) ->
                      With(r, "done", chain.tip)
                 [] ~IsAccepted(n) /\ Unfinalized(n) ->
                      With(r, "done", "unfinalized")
                 [] OTHER -> With(r, "canonical", "none"))
    /\ Silent


CanonicalAt(n) == IF n \in Heights THEN canon[n] ELSE "none"

GetHeaderByNumber(r) ==
    /\ Step(r, "canonical")
    /\ Goes(r, With(r, "done", CanonicalAt(reader[r].q.number)))
    /\ Silent

(* By hash: the block is found and must be canonical; then its height is   *)
(* held against the tip.                                                   *)
HeaderByHash(r) ==
    /\ Step(r, "hash")
    /\ LET b == reader[r].q.hash IN
       Goes(r, IF b \in chain.known /\ canon[Number(b)] = b
               THEN With(r, "height", b)
               ELSE With(r, "done", "none"))
    /\ Silent

HeightAccepted(r) ==
    /\ Step(r, "height")
    /\ LET b == reader[r].blk IN
       Goes(r, With(r, "done", IF Unfinalized(Number(b)) THEN "unfinalized" ELSE b))
    /\ Silent

(* A transaction: from the cache, or through the index, the canonical      *)
(* block at the height found there, and into the cache.                    *)
GetTransactionLookup(r) ==
    /\ Step(r, "tx")
    /\ LET t == reader[r].q.tx
           hits == {e \in lookups : e[1] = t} IN
       Goes(r, IF hits # {} THEN With(r, "indexed", (CHOOSE e \in hits : TRUE)[2])
               ELSE IF index[t] = -1 THEN With(r, "done", "none")
               ELSE [With(r, "body", "none") EXCEPT !.next = index[t]])
    /\ Silent

ReadCanonicalTransaction(r) ==
    /\ Step(r, "body")
    /\ LET b == CanonicalAt(reader[r].next) IN
       Goes(r, IF b # "none" /\ Holds(b, reader[r].q.tx)
               THEN With(r, "cache", b) ELSE With(r, "done", "none"))
    /\ Silent

CacheLookup(r) ==
    /\ Step(r, "cache")
    /\ Goes(r, With(r, "indexed", reader[r].blk))
    /\ lookups' = {e \in lookups : e[1] # reader[r].q.tx}
                    \cup {<<reader[r].q.tx, reader[r].blk>>}
    /\ UNCHANGED history

GetTransaction(r) ==
    /\ Step(r, "indexed")
    /\ LET b == reader[r].blk IN
       Goes(r, With(r, "done", IF Unfinalized(Number(b)) THEN "none" ELSE b))
    /\ Silent

----------------------------------------------------------------------------
(* Fee history.                                                            *)

Least(a, b) == IF a < b THEN a ELSE b

\* (A variant that counts from the preferred head.)
FromHead == chain.head

(* The block the range is held against. *)
LastAccepted == chain.tip

(* The last height and the number of heights of a fee history, or why      *)
(* there is none.                                                          *)
resolveBlockRange(last, asked) ==
    LET blocks == IF last = Pending THEN asked - 1 ELSE asked
        tip == Number(LastAccepted)
        depth == MaxBlockHistory - 1
        end == IF IsAccepted(last) THEN tip ELSE last
        oldest == end - Least(blocks, end + 1) + 1
        over == (tip - oldest) - depth IN
    CASE blocks = 0 -> [err |-> "empty", last |-> 0, blocks |-> 0]
      [] blocks > 0 /\ tip > depth /\ tip - depth > end ->
           [err |-> "historic", last |-> 0, blocks |-> 0]
      [] blocks > 0 /\ ~(tip > depth /\ tip - depth > end) /\ end > tip ->
           [err |-> "beyond", last |-> 0, blocks |-> 0]
      [] OTHER -> [err |-> "", last |-> end,
                   blocks |-> Least(blocks, end + 1)
                                - (IF over > 0 THEN over ELSE 0)]

Increasing(ps) ==
    \A i \in 1..Len(ps) :
        /\ ps[i] \in 0..100
        /\ i > 1 => ps[i] > ps[i - 1]

FeeHistory(r) ==
    /\ Step(r, "fees")
    /\ LET q == reader[r].q
           range == resolveBlockRange(q.number, Least(q.blocks, MaxCallBlockHistory)) IN
       Goes(r, IF q.blocks < 1 THEN With(r, "done", "empty")
               ELSE IF ~Increasing(q.percentiles) THEN With(r, "done", "percentile")
               ELSE IF range.err # "" THEN With(r, "done", range.err)
               ELSE [With(r, "walk", "none") EXCEPT
                        !.next = range.last + 1 - range.blocks,
                        !.last = range.last])
    /\ Silent

(* The transactions of a block by increasing tip, equal tips in order. *)
processBlock(b) == SortSeq(Txs[b], LAMBDA x, y : x.tip < y.tip)
GasUsed(b) == FoldLeft(LAMBDA sum, x : sum + x.gas, 0, Txs[b])

(* One pass over the sorted transactions: for each percentile the index    *)
(* and the gas sum go on from where the last one left them.                *)
RECURSIVE Advance(_, _, _, _)
Advance(txs, i, sum, threshold) ==
    IF sum < threshold /\ i < Len(txs)
    THEN Advance(txs, i + 1, sum + txs[i + 1].gas, threshold)
    ELSE <<i, sum>>

processPercentiles(b, ps) ==
    LET txs == processBlock(b)
        At[k \in 0..Len(ps)] ==
            IF k = 0 THEN <<1, txs[1].gas>>
            ELSE Advance(txs, At[k - 1][1], At[k - 1][2],
                         (GasUsed(b) * ps[k]) \div 100) IN
    [k \in 1..Len(ps) |-> IF txs = <<>> THEN 0 ELSE txs[At[k][1]].tip]

(* A row of the answer, and on to the next height. *)
Row(r, b) ==
    LET x == reader[r]
        more == [x EXCEPT !.rows = Append(@, <<b, processPercentiles(b, x.q.percentiles)>>),
                          !.next = @ + 1, !.blk = "none"] IN
    [more EXCEPT !.pc = IF x.next = x.last THEN "done" ELSE "walk"]

Cached(n) == {e \in history : e[1] = n}

CachedRow(r) ==
    /\ Step(r, "walk") /\ Cached(reader[r].next) # {}
    /\ Goes(r, Row(r, (CHOOSE e \in Cached(reader[r].next) : TRUE)[2]))
    /\ Silent

(* BlockByNumber, which checks the height again, and the receipts: missing *)
(* ones are an index out of range for a block with transactions.           *)
FetchBlock(r) ==
    /\ Step(r, "walk") /\ Cached(reader[r].next) = {}
    /\ LET n == reader[r].next
           b == CanonicalAt(n) IN
       Goes(r, IF Unfinalized(n) THEN With(r, "done", "unfinalized")
               ELSE IF b = "none"
                    THEN With(r, "done", IF reader[r].rows = <<>> THEN "empty" ELSE "short")
               ELSE IF b \in NoReceipts /\ Txs[b] # <<>> THEN With(r, "done", "crash")
               ELSE With(r, "add", b))
    /\ Silent

AddRow(r) ==
    /\ Step(r, "add")
    /\ LET b == reader[r].blk IN
       /\ Goes(r, Row(r, b))
       /\ history' = {e \in history : e[1] # reader[r].next}
                        \cup {<<reader[r].next, b>>}
    /\ UNCHANGED lookups

ReaderStep(r) ==
    \/ HeaderByNumber(r) \/ GetHeaderByNumber(r)
    \/ HeaderByHash(r) \/ HeightAccepted(r)
    \/ GetTransactionLookup(r) \/ ReadCanonicalTransaction(r)
    \/ CacheLookup(r) \/ GetTransaction(r)
    \/ FeeHistory(r) \/ CachedRow(r) \/ FetchBlock(r) \/ AddRow(r)

Next ==
    \/ \E a \in {"yes", "no"} : New(a)
    \/ ChainStep
    \/ \E r \in Reader : Ask(r) \/ ReaderStep(r)

Spec == Init /\ [][Next]_vars

----------------------------------------------------------------------------
(* Properties.                                                             *)

Answered(r, kind) ==
    reader[r].pc = "done" /\ reader[r].q.kind = kind /\ reader[r].blk \in Block

IsFinal(b) == OnChain(b, chain.tip)

(* A block asked for by number is the accepted one of that height, however *)
(* preferences and accepts fall between the reads.                         *)
NumberFinal ==
    \A r \in Reader : Answered(r, "number") /\ allow = "no" =>
        /\ IsFinal(reader[r].blk)
        /\ LET n == reader[r].q.number IN ~IsAccepted(n) => Number(reader[r].blk) = n

(* A block asked for by hash that is not accepted was above the acceptor   *)
(* tip when the request came: it lost its place while the request was      *)
(* between its two checks.                                                 *)
HashFinal ==
    \A r \in Reader : Answered(r, "hash") /\ allow = "no" =>
        \/ IsFinal(reader[r].blk)
        \/ Number(reader[r].blk) > Number(reader[r].began)

(* A transaction is answered with the accepted block that holds it, and    *)
(* the lookup cache holds only such pairs though nothing keeps a slow      *)
(* reader from adding to it after a reorg has emptied it.                  *)
LookupsFinal ==
    /\ \A e \in lookups : OnChain(e[2], chain.accepted) /\ Holds(e[2], e[1])
    /\ \A r \in Reader : Answered(r, "tx") /\ allow = "no" =>
          IsFinal(reader[r].blk) /\ Holds(reader[r].blk, reader[r].q.tx)

(* Every cached slice of history is of the accepted block of its height,   *)
(* even where unfinalized queries are allowed.                             *)
HistoryFinal == \A e \in history : IsFinal(e[2]) /\ Number(e[2]) = e[1]

(* The tip of each transaction, taken by the definition: the first sorted  *)
(* transaction with which the gas used reaches the share, else the last.   *)
RewardOf(b, p) ==
    LET txs == processBlock(b)
        sum(k) == FoldLeft(LAMBDA s, x : s + x.gas, 0, SubSeq(txs, 1, k))
        reach == {k \in 1..Len(txs) : sum(k) >= (GasUsed(b) * p) \div 100
                                        \/ k = Len(txs)} IN
    IF txs = <<>> THEN 0
    ELSE txs[CHOOSE k \in reach : \A j \in reach : k <= j].tip

(* A fee history covers a gapless run of accepted heights, no more than    *)
(* asked for and none older than the history limit, with the rewards of    *)
(* the definition; it is never cut short, and fails only on a block whose  *)
(* receipts state sync did not fetch.                                      *)
FeeHistoryRight ==
    \A r \in Reader : LET x == reader[r] IN
        x.pc = "done" /\ x.q.kind = "fees" =>
            /\ x.blk \notin {"unfinalized", "short"}
            /\ x.blk = "crash" => \E b \in NoReceipts : IsFinal(b)
            /\ x.blk = "none" =>
                 LET len == Len(x.rows) IN
                 /\ len \in 1..x.q.blocks
                 /\ \A i \in 1..len :
                      LET b == x.rows[i][1] IN
                      /\ IsFinal(b) /\ Number(b) = x.last - len + i
                      /\ Number(b) > Number(x.began) - MaxBlockHistory
                      /\ x.rows[i][2] = [k \in 1..Len(x.q.percentiles) |->
                                            RewardOf(b, x.q.percentiles[k])]

Safety ==
    /\ NumberFinal
    /\ HashFinal
    /\ LookupsFinal
    /\ HistoryFinal
    /\ FeeHistoryRight

(* Without allow-unfinalized-queries a block asked for by hash is an       *)
(* accepted block.                                                         *)
OnlyAccepted ==
    \A r \in Reader : Answered(r, "hash") /\ allow = "no" => IsFinal(reader[r].blk)
=============================================================================
