---------------------------- MODULE BlockChainProofs ----------------------------
(***************************************************************************)
(* The canonical index never loses an accepted block: AcceptedCanonical,   *)
(* and CanonicalIsHeadChain, for every block tree and every configuration  *)
(* in which the hashes above a new head fit one indexesBatch; and the type *)
(* correctness of BlockChain, for every value of the constants.            *)
(***************************************************************************)
EXTENDS BlockChain, SequenceTheorems, TLAPS

\* reorg deletes the hashes above a new head in one batch.
OneBatch == MaxBatchSize >= MaxNumber

ChainType ==
    /\ canonical \in [Height -> Block \cup {NoBlock}]
    /\ headBlock \in Block /\ durable \in Block /\ lastAccepted \in Block

\* No number above n has a canonical hash.
NothingAbove(n) == \A m \in Height : m > n => canonical[m] = NoBlock

\* The canonical numbers have no gap.
GapFree ==
    \A n \in Height : canonical[n] # NoBlock =>
        \A m \in 0..n : canonical[m] # NoBlock

\* The canonical index is the chain of the head.
Synced ==
    /\ \A b \in ancestors[headBlock] : canonical[number[b]] = b
    /\ NothingAbove(number[headBlock])

\* What holds between the steps of writeKnownBlock(target).
Reorganising ==
    /\ target \in Block /\ lastAccepted \in ancestors[target]
    /\ \A b \in ancestors[headBlock] :
          number[b] <= number[target] => canonical[number[b]] = b
    /\ op \in {"prefer", "accept", "load"}
    /\ op = "accept" => parent[target] = lastAccepted
    /\ phase = "link" => trimFrom = number[target] + 1
    /\ phase = "head" => /\ NothingAbove(number[target])
                         /\ ancestors[target] \ {target} \subseteq ancestors[headBlock]

\* The inductive invariant: the last accepted block is on the chain of the
\* head, the one on disk is its ancestor, and a head left at the last accepted
\* block (where a restart returns early, trimming nothing) has no junk above.
ChainInv ==
    /\ ChainType
    /\ AcceptedCanonical
    /\ GapFree
    /\ durable \in ancestors[lastAccepted]
    /\ lastAccepted \in ancestors[headBlock]
    /\ headBlock = lastAccepted => NothingAbove(number[headBlock])
    /\ phase # "commit" => lastAccepted = durable
    /\ phase # "trim"
    /\ mode \in {"down", "failed"} => phase = "idle"
    /\ phase \in {"insert", "enqueue", "commit", "search", "reexecute"} => Synced
    /\ phase = "idle" /\ mode \notin {"down", "failed"} => Synced
    /\ phase \in {"link", "head"} => Reorganising
    /\ phase = "insert" => target \in Block \ {Genesis}
    /\ phase = "enqueue" => /\ target \in ancestors[headBlock]
                            /\ parent[target] = lastAccepted
    /\ phase = "commit" => target = lastAccepted

-----------------------------------------------------------------------------
(* The block tree.                                                         *)

\* A block is its own ancestor.
LEMMA SelfAncestor == \A b \in Block : b \in ancestors[b]
BY BlockTree

\* Proper ancestors are lower.
LEMMA AncestorLower ==
    \A b \in Block : \A a \in ancestors[b] : a # b => number[a] < number[b]
<1> SUFFICES ASSUME NEW b \in Block, NEW a \in ancestors[b], a # b
             PROVE  number[a] < number[b]
    BY Zenon
<1>1. b # Genesis
    BY Zenon, BlockTree
<1>2. parent[b] \in Block /\ number[b] = number[parent[b]] + 1
      /\ ancestors[b] = {b} \cup ancestors[parent[b]]
    BY Zenon, <1>1, BlockTree
<1>3. number[a] <= number[parent[b]]
    BY Zenon, <1>2, BlockTree
<1>4. number[a] \in Nat /\ number[parent[b]] \in Nat
    BY <1>2, BlockTree DEF Height
<1> QED
    BY <1>2, <1>3, <1>4

\* Two ancestors of one block at one height are the same block.
LEMMA OnePerHeight ==
    \A h \in Block : \A a, b \in ancestors[h] : number[a] = number[b] => a = b
<1> SUFFICES ASSUME NEW h \in Block, NEW a \in ancestors[h], NEW b \in ancestors[h],
                    number[a] = number[b], a # b
             PROVE  FALSE
    BY Zenon
<1>1. a \in Block /\ b \in Block /\ number[a] \in Nat
    BY BlockTree DEF Height
<1>2. a \in ancestors[b]
    BY ZenonT(30), <1>1, BlockTree
<1> QED
    BY <1>1, <1>2, AncestorLower

\* The blocks on one chain are ordered by their heights.
LEMMA ChainOrder ==
    ASSUME NEW h \in Block, NEW a \in ancestors[h], NEW b \in ancestors[h],
           a \notin ancestors[b]
    PROVE  number[b] < number[a]
<1>1. a \in Block /\ b \in Block /\ number[a] \in Nat /\ number[b] \in Nat
    BY BlockTree DEF Height
<1> QED
    BY <1>1, BlockTree

\* Nothing else is read by ChainInv.
chainVars == <<canonical, headBlock, durable, lastAccepted, mode, phase, op,
               target, trimFrom>>

\* A step that leaves these variables alone keeps the invariant.
LEMMA ChainFrame == ChainInv /\ UNCHANGED chainVars => ChainInv'
BY ZenonT(30) DEF ChainInv, ChainType, AcceptedCanonical, GapFree, NothingAbove, Synced,
       Reorganising, chainVars

\* The invariant holds of a fresh database.
LEMMA ChainInit == Init => ChainInv
<1> SUFFICES ASSUME Init PROVE ChainInv
    BY Zenon
<1>1. ChainType
    BY Zenon, BlockTree DEF Init, ChainType, Height
<1>2. AcceptedCanonical
    BY Zenon, BlockTree DEF Init, AcceptedCanonical, Height
<1>3. GapFree
    BY BlockTree DEF Init, GapFree, Height
<1>4. NothingAbove(number[headBlock])
    BY BlockTree DEF Init, NothingAbove, Height
<1> QED
    BY Zenon, <1>1, <1>2, <1>3, <1>4, SelfAncestor, BlockTree DEF Init, ChainInv

-----------------------------------------------------------------------------
(* The steps.                                                              *)

\* writeHeadBlock of a block whose parent's number is canonical, at a height
\* above the last accepted block, keeps the accepted part and opens no gap.
LEMMA WriteHeadSafe ==
    ASSUME ChainType, AcceptedCanonical, GapFree,
           NEW b \in Block, b # Genesis, writeHeadBlock(b),
           lastAccepted' = lastAccepted,
           number[b] > number[lastAccepted],
           canonical[number[b] - 1] # NoBlock
    PROVE  AcceptedCanonical' /\ GapFree' /\ ChainType!1'
<1>1. number[b] \in Height /\ number[lastAccepted] \in Height /\ MaxNumber \in Nat
    BY Zenon, BlockTree DEF ChainType
<1>2. canonical' = [canonical EXCEPT ![number[b]] = b]
    BY Zenon DEF writeHeadBlock
<1>3. ChainType!1'
    BY Zenon, <1>1, <1>2 DEF ChainType
<1>4. ASSUME NEW a \in ancestors[lastAccepted]
      PROVE  canonical'[number[a]] = a
    <2>1. a \in Block /\ number[a] <= number[lastAccepted] /\ number[a] \in Height
        BY Zenon, BlockTree DEF ChainType
    <2>2. number[a] # number[b]
        BY <2>1, <1>1 DEF Height
    <2> QED
        BY Zenon, <2>1, <2>2, <1>2 DEF AcceptedCanonical, ChainType
<1>5. ASSUME NEW n \in Height, canonical'[n] # NoBlock, NEW m \in 0..n
      PROVE  canonical'[m] # NoBlock
    <2>1. m \in Height /\ number[b] - 1 \in Height
        BY <1>1 DEF Height
    <2>2. CASE m = number[b]
        BY <2>1, <2>2, <1>2, BlockTree DEF ChainType
    <2>3. CASE m # number[b] /\ n # number[b]
        BY Zenon, <1>5, <2>1, <2>3, <1>2 DEF ChainType, GapFree
    <2>4. CASE m # number[b] /\ n = number[b]
        <3>1. m \in 0..(number[b] - 1)
            BY <2>4, <1>1 DEF Height
        <3>2. canonical[m] # NoBlock
            BY Zenon, <2>1, <3>1 DEF GapFree
        <3> QED
            BY Zenon, <3>2, <2>1, <2>4, <1>2 DEF ChainType
    <2> QED
        BY Zenon, <2>2, <2>3, <2>4
<1> QED
    BY Zenon, <1>3, <1>4, <1>5 DEF AcceptedCanonical, GapFree

\* One block of the new chain.
LEMMA LinkStep == ChainInv /\ ReorgLink => ChainInv'
<1> SUFFICES ASSUME ChainInv, ReorgLink PROVE ChainInv'
    BY Zenon
<1>1. PICK x \in Pending : IsLowest(x, Pending) /\ writeHeadBlock(x)
    BY Zenon DEF ReorgLink
<1>2. /\ phase = "link" /\ Reorganising /\ ChainType
      /\ UNCHANGED <<durable, lastAccepted, mode, phase, op, target, trimFrom>>
    BY Zenon DEF ReorgLink, ChainInv, call
<1>3. /\ target \in Block /\ x \in ancestors[target] /\ x \in Block
      /\ x \notin ancestors[headBlock] /\ x # target
    BY Zenon, <1>2, BlockTree DEF Pending, Reorganising
<1>4. /\ lastAccepted \in Block /\ headBlock \in Block
      /\ lastAccepted \in ancestors[headBlock] /\ lastAccepted \in ancestors[target]
    BY Zenon, <1>2 DEF ChainInv, ChainType, Reorganising
<1>5. x \notin ancestors[lastAccepted]
    BY Zenon, <1>3, <1>4, BlockTree
<1>6. number[x] > number[lastAccepted] /\ number[x] < number[target]
    BY Zenon, <1>3, <1>4, <1>5, ChainOrder, AncestorLower
<1>7. lastAccepted \in ancestors[x]
    BY <1>3, <1>4, <1>6, BlockTree DEF Height
<1>8. x # Genesis
    BY <1>4, <1>6, BlockTree DEF Height
<1>9. ASSUME NEW b \in ancestors[x], b # x
      PROVE  canonical[number[b]] = b /\ number[b] # number[x] /\ number[b] \in Height
    <2>1. b \in Block /\ number[b] < number[x] /\ b \in ancestors[target]
        BY Zenon, <1>3, <1>9, AncestorLower, BlockTree
    <2>2. number[b] \in Nat /\ number[x] \in Nat /\ number[target] \in Nat
        BY <2>1, <1>3, BlockTree DEF Height
    <2>3. b \notin Pending
        BY <1>1, <2>1, <2>2 DEF IsLowest
    <2>4. b # target
        BY <2>1, <2>2, <1>6
    <2>5. b \in ancestors[headBlock]
        BY Zenon, <2>1, <2>3, <2>4 DEF Pending
    <2> QED
        BY <2>1, <2>2, <2>5, <1>2, <1>6, BlockTree DEF Reorganising
<1>10. canonical[number[x] - 1] # NoBlock
    <2>1. /\ parent[x] \in Block /\ number[x] = number[parent[x]] + 1
          /\ parent[x] \in ancestors[x]
        BY <1>3, <1>8, BlockTree, SelfAncestor
    <2>2. number[parent[x]] \in Nat
        BY <2>1, BlockTree DEF Height
    <2>3. parent[x] # x /\ number[x] - 1 = number[parent[x]]
        BY <2>1, <2>2
    <2> QED
        BY ZenonT(30), <2>1, <2>3, <1>9, BlockTree
<1>11. AcceptedCanonical' /\ GapFree' /\ ChainType!1'
    BY Zenon, <1>1, <1>2, <1>3, <1>6, <1>8, <1>10, WriteHeadSafe DEF ChainInv
<1>12. headBlock' = x /\ canonical' = [canonical EXCEPT ![number[x]] = x]
    BY Zenon, <1>1 DEF writeHeadBlock
<1>13. ChainType'
    BY Zenon, <1>2, <1>3, <1>11, <1>12 DEF ChainType
<1>14. Reorganising'
    <2>1. ASSUME NEW b \in ancestors[x] PROVE canonical'[number[b]] = b
        <3>1. CASE b = x
            BY ZenonT(30), <3>1, <1>2, <1>3, <1>12, BlockTree DEF ChainType
        <3>2. CASE b # x
            BY Zenon, <3>2, <1>9, <1>2, <1>12 DEF ChainType
        <3> QED
            BY Zenon, <3>1, <3>2
    <2> QED
        BY Zenon, <2>1, <1>2, <1>12 DEF Reorganising
<1>15. headBlock' # lastAccepted'
    BY Zenon, <1>2, <1>5, <1>12, SelfAncestor, <1>4
<1> QED
    BY Zenon, <1>2, <1>7, <1>11, <1>12, <1>13, <1>14, <1>15 DEF ChainInv

\* The deletion above the new head: with no gap below it, one batch is all.
LEMMA TrimStep == OneBatch /\ ChainInv /\ ReorgTrim => ChainInv'
<1> SUFFICES ASSUME OneBatch, ChainInv, ReorgTrim PROVE ChainInv'
    BY Zenon
<1>1. /\ phase = "link" /\ Reorganising /\ ChainType /\ Pending = {}
      /\ trimFrom = number[target] + 1 /\ target \in Block
      /\ UNCHANGED <<headBlock, durable, lastAccepted, mode, op, target>>
    BY Zenon DEF ReorgTrim, ChainInv, Reorganising
<1>2. /\ number[target] \in Nat /\ MaxNumber \in Nat /\ MaxBatchSize \in Nat
      /\ number[target] <= MaxNumber
    BY <1>1, BlockTree, CacheConfig DEF Height
<1>3. TrimRun = TrimSet
    BY <1>1, <1>2 DEF TrimRun, TrimSet, OneBatch, Height
<1>4. phase' = "head"
    BY Zenon, <1>3 DEF ReorgTrim
<1>5. \A n \in Height : /\ n <= number[target] => canonical'[n] = canonical[n]
                        /\ n > number[target] => canonical'[n] = NoBlock
    <2> SUFFICES ASSUME NEW n \in Height
                 PROVE  /\ n <= number[target] => canonical'[n] = canonical[n]
                        /\ n > number[target] => canonical'[n] = NoBlock
        BY Zenon
    <2>1. canonical'[n] = IF n \in TrimSet THEN NoBlock ELSE canonical[n]
        BY Zenon DEF ReorgTrim
    <2>2. n <= number[target] => n \notin TrimSet
        BY <1>1, <1>2 DEF TrimSet, TrimRun, Height
    <2>3. n > number[target] /\ canonical[n] # NoBlock => n \in TrimRun
        <3>1. ASSUME n > number[target], canonical[n] # NoBlock, NEW m \in trimFrom..n
              PROVE  canonical[m] # NoBlock
            BY <3>1, <1>1, <1>2 DEF ChainInv, GapFree, Height
        <3> QED
            BY <3>1, <1>1, <1>2 DEF TrimRun, Height
    <2> QED
        BY Zenon, <2>1, <2>2, <2>3, <1>3
<1>6. canonical' \in [Height -> Block \cup {NoBlock}]
    BY Zenon, <1>1 DEF ReorgTrim, ChainType
<1>7. GapFree'
    <2> SUFFICES ASSUME NEW n \in Height, canonical'[n] # NoBlock, NEW m \in 0..n
                 PROVE  canonical'[m] # NoBlock
        BY Zenon DEF GapFree
    <2>1. n <= number[target] /\ m <= number[target] /\ m \in Height
        BY <1>2, <1>5 DEF Height
    <2> QED
        BY Zenon, <2>1, <1>5 DEF ChainInv, GapFree
<1>8. NothingAbove(number[target])'
    BY Zenon, <1>1, <1>5 DEF NothingAbove
<1>9. headBlock' = lastAccepted' => NothingAbove(number[headBlock])'
    <2> SUFFICES ASSUME headBlock = lastAccepted, NEW m \in Height,
                        m > number[headBlock]
                 PROVE  canonical'[m] = NoBlock
        BY Zenon, <1>1 DEF NothingAbove
    <2>1. canonical[m] = NoBlock
        BY Zenon DEF ChainInv, NothingAbove
    <2> QED
        BY <2>1, <1>2, <1>5 DEF Height
<1>10. \A b \in Block : number[b] <= number[target] =>
          canonical'[number[b]] = canonical[number[b]]
    BY Zenon, <1>5, BlockTree
<1>11. AcceptedCanonical'
    <2> SUFFICES ASSUME NEW a \in ancestors[lastAccepted]
                 PROVE  canonical'[number[a]] = a
        BY Zenon, <1>1 DEF AcceptedCanonical
    <2>1. a \in Block /\ a \in ancestors[target]
        BY Zenon, <1>1, BlockTree DEF Reorganising, ChainType
    <2>2. number[a] <= number[target]
        BY Zenon, <1>1, <2>1, BlockTree
    <2> QED
        BY Zenon, <2>1, <2>2, <1>10 DEF ChainInv, AcceptedCanonical
<1>12. Reorganising'
    <2>1. ancestors[target] \ {target} \subseteq ancestors[headBlock]
        BY Zenon, <1>1 DEF Pending
    <2>2. ASSUME NEW b \in ancestors[headBlock], number[b] <= number[target]
          PROVE  canonical'[number[b]] = b
        BY ZenonT(30), <2>2, <1>1, <1>10, BlockTree DEF Reorganising, ChainType
    <2> QED
        BY Zenon, <2>1, <2>2, <1>1, <1>4, <1>8 DEF Reorganising
<1> QED
    BY Zenon, <1>1, <1>4, <1>6, <1>7, <1>9, <1>11, <1>12 DEF ChainInv, ChainType

\* The head write that ends writeKnownBlock.
LEMMA HeadStep == ChainInv /\ WriteHead => ChainInv'
<1> SUFFICES ASSUME ChainInv, WriteHead PROVE ChainInv'
    BY Zenon
<1>1. /\ phase = "head" /\ Reorganising /\ ChainType
      /\ UNCHANGED <<durable, lastAccepted, mode, trimFrom>>
      /\ writeHeadBlock(target) /\ target \in Block
      /\ lastAccepted \in ancestors[target] /\ NothingAbove(number[target])
      /\ ancestors[target] \ {target} \subseteq ancestors[headBlock]
    BY Zenon DEF WriteHead, ChainInv, Reorganising
<1>2. headBlock' = target /\ canonical' = [canonical EXCEPT ![number[target]] = target]
    BY Zenon, <1>1 DEF writeHeadBlock
<1>3. number[target] \in Height /\ canonical' \in [Height -> Block \cup {NoBlock}]
    BY Zenon, <1>1, <1>2, BlockTree DEF ChainType
<1>4. ASSUME NEW b \in ancestors[target] PROVE canonical'[number[b]] = b
    <2>1. CASE b = target
        BY Zenon, <2>1, <1>1, <1>2, <1>3 DEF ChainType
    <2>2. CASE b # target
        <3>1. b \in ancestors[headBlock] /\ b \in Block /\ number[b] < number[target]
            BY Zenon, <2>2, <1>1, AncestorLower, BlockTree
        <3>2. number[b] \in Height /\ number[b] # number[target]
              /\ number[b] <= number[target]
            BY SMTT(30), <3>1, <1>3, BlockTree DEF Height
        <3> QED
            BY Zenon, <3>1, <3>2, <1>1, <1>2 DEF Reorganising, ChainType
    <2> QED
        BY Zenon, <2>1, <2>2
<1>5. \A m \in Height : m > number[target] => canonical'[m] = NoBlock
    BY <1>1, <1>2, <1>3 DEF NothingAbove, ChainType, Height
<1>6. Synced' /\ NothingAbove(number[headBlock])'
    BY Zenon, <1>2, <1>4, <1>5 DEF Synced, NothingAbove
<1>7. AcceptedCanonical'
    <2>1. ancestors[lastAccepted] \subseteq ancestors[target]
        BY Zenon, <1>1, BlockTree
    <2> QED
        BY Zenon, <2>1, <1>1, <1>4 DEF AcceptedCanonical
<1>8. GapFree'
    <2> SUFFICES ASSUME NEW n \in Height, canonical'[n] # NoBlock, NEW m \in 0..n
                 PROVE  canonical'[m] # NoBlock
        BY Zenon DEF GapFree
    <2>1. m \in 0..number[target]
        BY SMTT(30), <1>3, <1>5 DEF Height
    <2>2. PICK a \in ancestors[target] : number[a] = m
        BY Zenon, <2>1, <1>1, BlockTree
    <2> QED
        BY <2>2, <1>1, <1>4, BlockTree
<1>9. ChainType'
    BY Zenon, <1>1, <1>2, <1>3 DEF ChainType
<1>10. /\ phase' \in {"idle", "enqueue", "search"}
       /\ phase' = "enqueue" => op = "accept" /\ target' = target
    BY Zenon, <1>1 DEF WriteHead, Return, Reorganising
<1>11. phase' = "enqueue" => target' \in ancestors[headBlock'] /\ parent[target'] = lastAccepted'
    BY Zenon, <1>1, <1>2, <1>10, SelfAncestor DEF Reorganising
<1>12. mode' \notin {"down", "failed"}
    BY Zenon, <1>1 DEF ChainInv
<1> QED
    BY Zenon, <1>1, <1>2, <1>6, <1>7, <1>8, <1>9, <1>10, <1>11, <1>12 DEF ChainInv

\* A reorg that passes the finalized check keeps the last accepted block: it
\* is an ancestor of the new head too.
LEMMA ReorgKeepsAccepted ==
    ASSUME ChainInv, NEW b \in Block, ReorgAllowed(b, lastAccepted)
    PROVE  lastAccepted \in ancestors[b]
<1>1. PICK c \in Block : /\ c \in ancestors[headBlock] /\ c \in ancestors[b]
                         /\ number[c] >= number[lastAccepted]
    BY Zenon DEF ReorgAllowed, IsHighest
<1>2. lastAccepted \in Block /\ headBlock \in Block
      /\ lastAccepted \in ancestors[headBlock]
    BY Zenon DEF ChainInv, ChainType
<1>3. number[lastAccepted] <= number[c]
    BY Zenon, <1>1, <1>2, BlockTree DEF Height
<1>4. lastAccepted \in ancestors[c]
    BY Zenon, <1>1, <1>2, <1>3, BlockTree
<1> QED
    BY Zenon, <1>1, <1>4, BlockTree

-----------------------------------------------------------------------------
(* The other steps.                                                        *)

\* The first step of writeKnownBlock(b), whoever calls it.
LEMMA BeginStep ==
    ASSUME ChainInv, NEW b \in Block, NEW why \in {"prefer", "accept", "load"},
           BeginWriteKnown(b, why, lastAccepted),
           why = "accept" => parent[b] = lastAccepted,
           Synced \/ (b = lastAccepted /\ b # headBlock),
           UNCHANGED <<canonical, headBlock, durable, lastAccepted>>,
           mode' \notin {"down", "failed"}, phase # "commit"
    PROVE  ChainInv'
<1>1. /\ lastAccepted \in Block /\ headBlock \in Block /\ ChainType
      /\ lastAccepted \in ancestors[headBlock] /\ lastAccepted = durable
    BY Zenon DEF ChainInv, ChainType
<1>2. op' = why /\ target' = b /\ phase' \in {"head", "link"}
      /\ (phase' = "link" => trimFrom' = number[b] + 1)
    BY Zenon DEF BeginWriteKnown
<1>3. Reorganising'
    <2>1. CASE parent[b] = headBlock
        <3>1. b # Genesis
            BY Zenon, <2>1, <1>1, BlockTree
        <3>2. /\ number[b] = number[headBlock] + 1
              /\ ancestors[b] = {b} \cup ancestors[headBlock]
            BY Zenon, <3>1, <2>1, BlockTree
        <3>3. number[headBlock] \in Nat /\ number[b] \in Nat
            BY <1>1, BlockTree DEF Height
        <3>4. lastAccepted \in ancestors[b]
            BY Zenon, <3>2, <1>1
        <3>5. b # lastAccepted
            BY <3>2, <3>3, <1>1, BlockTree
        <3>6. Synced
            BY Zenon, <3>5
        <3>7. NothingAbove(number[b])
            BY <3>6, <3>2, <3>3 DEF Synced, NothingAbove, Height
        <3>8. phase' = "head"
            BY Zenon, <2>1 DEF BeginWriteKnown
        <3> QED
            BY Zenon, <1>2, <3>2, <3>4, <3>6, <3>7, <3>8
               DEF Reorganising, Synced, NothingAbove
    <2>2. CASE parent[b] # headBlock
        <3>1. ReorgAllowed(b, lastAccepted) /\ phase' = "link"
            BY Zenon, <2>2 DEF BeginWriteKnown
        <3>2. lastAccepted \in ancestors[b]
            BY Zenon, <3>1, ReorgKeepsAccepted
        <3>3. ASSUME NEW a \in ancestors[headBlock], number[a] <= number[b]
              PROVE  canonical[number[a]] = a
            <4>1. CASE Synced
                BY Zenon, <4>1 DEF Synced
            <4>2. CASE b = lastAccepted
                BY ZenonT(30), <4>2, <3>3, <1>1, BlockTree DEF ChainInv, AcceptedCanonical
            <4> QED
                BY Zenon, <4>1, <4>2
        <3> QED
            BY Zenon, <1>2, <3>1, <3>2, <3>3 DEF Reorganising
    <2> QED
        BY Zenon, <2>1, <2>2
<1> QED
    BY Zenon, <1>1, <1>2, <1>3 DEF ChainInv, ChainType, AcceptedCanonical, GapFree,
                            NothingAbove

\* The engine prefers a block.
LEMMA PreferStep ==
    ASSUME ChainInv, NEW b \in Block, SetPreference(b)
    PROVE  ChainInv'
<1>1. /\ BeginWriteKnown(b, "prefer", lastAccepted)
      /\ UNCHANGED <<canonical, headBlock, durable, lastAccepted, mode>>
      /\ phase = "idle" /\ mode = "running"
    BY Zenon DEF SetPreference, Ready, disk
<1>2. Synced
    BY Zenon, <1>1 DEF ChainInv
<1> QED
    BY Zenon, <1>1, <1>2, BeginStep

\* The engine accepts a block: it is canonical already, or a reorg begins.
LEMMA AcceptStep ==
    ASSUME ChainInv, NEW b \in Block, Accept(b)
    PROVE  ChainInv'
<1>1. /\ UNCHANGED <<canonical, headBlock, durable, lastAccepted, mode>>
      /\ phase = "idle" /\ mode = "running" /\ parent[b] = lastAccepted
    BY Zenon DEF Accept, Ready, disk
<1>2. Synced /\ headBlock \in Block /\ lastAccepted \in Block /\ ChainType
    BY Zenon, <1>1 DEF ChainInv, ChainType
<1>3. CASE canonical[number[b]] = b
    <2>1. phase' = "enqueue" /\ target' = b
        BY Zenon, <1>3 DEF Accept
    <2>2. b # Genesis /\ b # NoBlock /\ number[b] \in Height /\ number[headBlock] \in Height
        BY ZenonT(30), <1>1, <1>2, BlockTree
    <2>3. number[b] \in 0..number[headBlock]
        BY <1>2, <1>3, <2>2 DEF Synced, NothingAbove, Height
    <2>4. PICK a \in ancestors[headBlock] : number[a] = number[b]
        BY Zenon, <1>2, <2>3, BlockTree
    <2>5. b \in ancestors[headBlock]
        BY Zenon, <1>2, <1>3, <2>4 DEF Synced
    <2> QED
        BY Zenon, <1>1, <1>2, <2>1, <2>5
           DEF ChainInv, ChainType, AcceptedCanonical, GapFree, NothingAbove, Synced
<1>4. CASE canonical[number[b]] # b
    BY Zenon, <1>1, <1>2, <1>4, BeginStep DEF Accept
<1> QED
    BY Zenon, <1>3, <1>4

\* A start rewinds the head it finds to the last accepted block.
LEMMA StartStep == ChainInv /\ Start => ChainInv'
<1> SUFFICES ASSUME ChainInv, Start PROVE ChainInv'
    BY Zenon
<1>1. /\ mode \in {"down", "failed"} /\ phase = "idle" /\ lastAccepted = durable
      /\ UNCHANGED <<canonical, headBlock, durable, lastAccepted>>
      /\ mode' = "loading" /\ durable \in Block
    BY Zenon DEF Start, ChainInv, ChainType, disk
<1>2. CASE headBlock = durable
    <2>1. phase' = "search"
        BY Zenon, <1>2 DEF Start
    <2>2. Synced
        BY Zenon, <1>1, <1>2 DEF ChainInv, Synced, AcceptedCanonical
    <2> QED
        BY Zenon, <1>1, <2>1, <2>2
           DEF ChainInv, ChainType, AcceptedCanonical, GapFree, NothingAbove, Synced
<1>3. CASE headBlock # durable
    BY Zenon, <1>1, <1>3, BeginStep DEF Start
<1> QED
    BY Zenon, <1>2, <1>3

\* A verified block that extends the head becomes the head.
LEMMA InsertTipStep == ChainInv /\ InsertTip => ChainInv'
<1> SUFFICES ASSUME ChainInv, InsertTip PROVE ChainInv'
    BY Zenon
<1>1. /\ phase = "insert" /\ Synced /\ ChainType /\ target \in Block \ {Genesis}
      /\ UNCHANGED <<durable, lastAccepted, mode, trimFrom>> /\ phase' = "idle"
      /\ lastAccepted \in ancestors[headBlock]
    BY Zenon DEF InsertTip, ChainInv, Return
<1>2. CASE parent[target] # headBlock
    BY Zenon, <1>1, <1>2 DEF InsertTip, ChainInv, ChainType, AcceptedCanonical, GapFree,
                      NothingAbove, Synced
<1>3. CASE parent[target] = headBlock
    <2>1. /\ writeHeadBlock(target) /\ headBlock' = target
          /\ canonical' = [canonical EXCEPT ![number[target]] = target]
        BY Zenon, <1>3 DEF InsertTip, writeHeadBlock
    <2>2. /\ number[target] = number[headBlock] + 1
          /\ ancestors[target] = {target} \cup ancestors[headBlock]
          /\ number[headBlock] \in Nat /\ number[target] \in Height
        BY SMTT(30), <1>1, <1>3, BlockTree DEF ChainType, Height
    <2>3. /\ number[target] > number[lastAccepted]
          /\ number[target] - 1 = number[headBlock] /\ target # lastAccepted
        <3>1. /\ number[lastAccepted] <= number[headBlock]
              /\ number[lastAccepted] \in Nat
            BY SMTT(30), <1>1, BlockTree DEF ChainType, Height
        <3> QED
            BY <3>1, <2>2
    <2>4. canonical[number[target] - 1] # NoBlock
        BY SMTT(30), <1>1, <2>3, SelfAncestor, BlockTree DEF Synced, ChainType
    <2>5. AcceptedCanonical' /\ GapFree' /\ ChainType!1'
        BY Zenon, <1>1, <2>1, <2>3, <2>4, WriteHeadSafe DEF ChainInv
    <2>6. ASSUME NEW b \in ancestors[target] PROVE canonical'[number[b]] = b
        <3>1. CASE b = target
            BY Zenon, <3>1, <2>1, <2>2, <1>1 DEF ChainType
        <3>2. CASE b # target
            <4>1. b \in ancestors[headBlock] /\ number[b] < number[target]
                  /\ number[b] \in Height
                BY Zenon, <3>2, <2>2, <1>1, AncestorLower, BlockTree DEF ChainType
            <4>2. number[b] # number[target]
                BY <4>1, <2>2 DEF Height
            <4> QED
                BY Zenon, <4>1, <4>2, <2>1, <1>1 DEF Synced, ChainType
        <3> QED
            BY Zenon, <3>1, <3>2
    <2>7. \A m \in Height : m > number[target] => canonical'[m] = NoBlock
        BY <1>1, <2>1, <2>2 DEF Synced, NothingAbove, ChainType, Height
    <2>8. Synced' /\ ChainType'
        BY Zenon, <1>1, <2>1, <2>5, <2>6, <2>7 DEF Synced, NothingAbove, ChainType
    <2> QED
        BY Zenon, <1>1, <2>1, <2>2, <2>3, <2>5, <2>8 DEF ChainInv
<1> QED
    BY Zenon, <1>2, <1>3

\* The accepted block becomes the last accepted one and is queued.
LEMMA EnqueueStep == ChainInv /\ Enqueue => ChainInv'
<1> SUFFICES ASSUME ChainInv, Enqueue PROVE ChainInv'
    BY Zenon
<1>1. /\ phase = "enqueue" /\ Synced /\ ChainType /\ target \in ancestors[headBlock]
      /\ parent[target] = lastAccepted /\ lastAccepted = durable
      /\ UNCHANGED <<canonical, headBlock, durable, mode, target, trimFrom>>
      /\ lastAccepted' = target /\ phase' = "commit"
    BY Zenon DEF Enqueue, ChainInv, disk
<1>2. target \in Block /\ target # Genesis
    BY ZenonT(90), <1>1, BlockTree DEF ChainType
<1>3. durable \in ancestors[target] /\ ancestors[target] \subseteq ancestors[headBlock]
    BY ZenonT(30), <1>1, <1>2, BlockTree, SelfAncestor DEF ChainType
<1>4. AcceptedCanonical'
    BY Zenon, <1>1, <1>3 DEF AcceptedCanonical, Synced
<1>5. Synced' /\ NothingAbove(number[headBlock])' /\ GapFree' /\ ChainType'
    BY Zenon, <1>1, <1>2 DEF ChainInv, Synced, NothingAbove, GapFree, ChainType
<1>6. mode' \notin {"down", "failed"}
    BY Zenon, <1>1 DEF ChainInv
<1> QED
    BY Zenon, <1>1, <1>2, <1>3, <1>4, <1>5, <1>6 DEF ChainInv

\* The process ends, by a crash anywhere or a clean stop: the next start
\* loads the last accepted ID on disk.
LEMMA EndStep ==
    ASSUME ChainInv, MemoryLost, UNCHANGED <<canonical, headBlock, durable>>
    PROVE  ChainInv'
<1>1. /\ lastAccepted' = durable /\ phase' = "idle" /\ mode' = "down"
      /\ durable \in ancestors[lastAccepted] /\ lastAccepted \in ancestors[headBlock]
      /\ lastAccepted \in Block /\ headBlock \in Block /\ durable \in Block
    BY Zenon DEF MemoryLost, ChainInv, ChainType
<1>2. /\ ancestors[durable] \subseteq ancestors[lastAccepted]
      /\ durable \in ancestors[headBlock] /\ durable \in ancestors[durable]
    BY Zenon, <1>1, BlockTree, SelfAncestor
<1>3. AcceptedCanonical'
    BY Zenon, <1>1, <1>2 DEF ChainInv, AcceptedCanonical
<1>4. headBlock = durable => headBlock = lastAccepted
    <2> SUFFICES ASSUME headBlock = durable, headBlock # lastAccepted PROVE FALSE
        BY Zenon
    <2>1. number[lastAccepted] < number[durable] /\ number[durable] <= number[lastAccepted]
        BY Zenon, <1>1, AncestorLower, BlockTree
    <2> QED
        BY <2>1, <1>1, BlockTree DEF Height
<1>5. headBlock' = lastAccepted' => NothingAbove(number[headBlock])'
    BY Zenon, <1>1, <1>4 DEF ChainInv, NothingAbove
<1> QED
    BY Zenon, <1>1, <1>2, <1>3, <1>5 DEF ChainInv, ChainType, GapFree

\* Every step keeps the invariant.
LEMMA ChainNext == OneBatch /\ ChainInv /\ [Next]_vars => ChainInv'
<1> SUFFICES ASSUME OneBatch, ChainInv, [Next]_vars PROVE ChainInv'
    BY Zenon
<1> USE DEF disk, chain, indices, acceptor, layers, call, recovery, env
<1>1. CASE Writer
    <2>1. CASE CommitLastAccepted
        BY Zenon, <2>1, SelfAncestor
           DEF CommitLastAccepted, Return, ChainInv, ChainType,
               AcceptedCanonical, GapFree, NothingAbove, Synced
    <2> QED
        BY Zenon, <1>1, <2>1, LinkStep, TrimStep, HeadStep, InsertTipStep, EnqueueStep
           DEF Writer
<1>2. CASE Acceptor
    <2>1. UNCHANGED chainVars
        BY Zenon, <1>2 DEF Acceptor, AcceptorTake, AcceptorTrie, AcceptorFlatten,
                    AcceptorIndex, AcceptorTip, AcceptorNotify, chainVars
    <2> QED
        BY Zenon, <2>1, ChainFrame
<1>3. CASE Load
    <2>1. CASE Search
        BY Zenon, <2>1 DEF Search, ChainInv, ChainType, AcceptedCanonical, GapFree,
                    NothingAbove, Synced
    <2>2. CASE Reexecute
        <3>1. UNCHANGED chainVars
            BY ZenonT(30), <2>2 DEF Reexecute, chainVars
        <3> QED
            BY Zenon, <3>1, ChainFrame
    <2>3. CASE Loaded
        BY Zenon, <2>3 DEF Loaded, Return, ChainInv, ChainType, AcceptedCanonical,
                    GapFree, NothingAbove, Synced
    <2> QED
        BY Zenon, <1>3, <2>1, <2>2, <2>3, StartStep DEF Load
<1>4. CASE Engine
    <2> SUFFICES ASSUME NEW b \in Block,
                        InsertBlock(b) \/ SetPreference(b) \/ Accept(b) \/ Reject(b)
                 PROVE  ChainInv'
        BY Zenon, <1>4 DEF Engine
    <2>1. CASE InsertBlock(b)
        BY ZenonT(40), <2>1 DEF InsertBlock, Ready, Verifiable, ChainInv, ChainType,
                    AcceptedCanonical, GapFree, NothingAbove, Synced
    <2>2. CASE Reject(b)
        <3>1. UNCHANGED chainVars
            BY Zenon, <2>2 DEF Reject, chainVars
        <3> QED
            BY Zenon, <3>1, ChainFrame
    <2> QED
        BY Zenon, <2>1, <2>2, PreferStep, AcceptStep
<1>5. CASE Stop
    BY ZenonT(30), <1>5 DEF Stop, Ready, ChainInv, ChainType, AcceptedCanonical, GapFree,
                NothingAbove, Synced
<1>6. CASE StopDrained \/ Crash
    BY Zenon, <1>6, EndStep DEF StopDrained, Crash
<1>7. CASE UNCHANGED vars
    <2>1. UNCHANGED chainVars
        BY Zenon, <1>7 DEF vars, chainVars
    <2> QED
        BY Zenon, <2>1, ChainFrame
<1> QED
    BY Zenon, <1>1, <1>2, <1>3, <1>4, <1>5, <1>6, <1>7 DEF Next

\* The canonical index names every accepted block at its height, in every
\* state of every behaviour: reorg, Accept, SetPreference, crashes and
\* restarts never orphan an accepted block (blockchain.go, reorg).
THEOREM AcceptedStaysCanonical ==
    ASSUME OneBatch PROVE Spec => []AcceptedCanonical
<1>1. ChainInv => AcceptedCanonical
    BY Zenon DEF ChainInv
<1>2. ChainInv /\ [Next]_vars => ChainInv'
    BY Zenon, ChainNext
<1> QED
    BY <1>1, <1>2, ChainInit, PTL DEF Spec

\* Between calls the canonical index is exactly the chain of the head
\* (blockchain.go, writeHeadBlock and reorg).
THEOREM CanonicalFollowsHead ==
    ASSUME OneBatch PROVE Spec => []CanonicalIsHeadChain
<1>1. ChainInv => CanonicalIsHeadChain
    <2> SUFFICES ASSUME ChainInv, Ready, NEW n \in Height
                 PROVE  canonical[n] = IF n > number[headBlock] THEN NoBlock
                          ELSE CHOOSE b \in ancestors[headBlock] : number[b] = n
        BY Zenon DEF CanonicalIsHeadChain
    <2>1. Synced /\ headBlock \in Block
        BY Zenon DEF ChainInv, ChainType, Ready
    <2>2. CASE n > number[headBlock]
        BY Zenon, <2>1, <2>2 DEF Synced, NothingAbove
    <2>3. CASE ~(n > number[headBlock])
        <3>1. n \in 0..number[headBlock]
            BY <2>1, <2>3, BlockTree DEF Height
        <3>2. PICK a \in ancestors[headBlock] : number[a] = n
            BY Zenon, <2>1, <3>1, BlockTree
        <3>3. (CHOOSE b \in ancestors[headBlock] : number[b] = n) = a
            BY Zenon, <2>1, <3>2, OnePerHeight
        <3> QED
            BY Zenon, <2>1, <2>3, <3>2, <3>3 DEF Synced
    <2> QED
        BY Zenon, <2>2, <2>3
<1>2. ChainInv /\ [Next]_vars => ChainInv'
    BY Zenon, ChainNext
<1> QED
    BY <1>1, <1>2, ChainInit, PTL DEF Spec

-----------------------------------------------------------------------------
(* Types.                                                                 *)

\* The optional variables have a value where a step reads them.
TypeInv ==
    /\ TypeOK
    /\ phase \notin {"idle", "search", "reexecute"} => target \in Block
    /\ phase \in {"link", "trim", "head"} => op \in {"prefer", "accept", "load"}
    /\ phase = "reexecute" => cursor \in Block
    /\ acceptorAt # "idle" => accepting \in Block

\* Taking a root out of the trie database's memory.
LEMMA ForgetType ==
    ASSUME NEW S, NEW s \in Seq(S), NEW r
    PROVE  Forget(s, r) \in Seq(S)
<1>1. CASE r \in Range(s)
    <2> DEFINE i == CHOOSE j \in DOMAIN s : s[j] = r
    <2>1. i \in 1..Len(s) /\ Len(s) \in Nat
        BY SMTT(30), <1>1 DEF Range
    <2> HIDE DEF i
    <2>2. SubSeq(s, 1, i - 1) \in Seq(S) /\ SubSeq(s, i + 1, Len(s)) \in Seq(S)
        <3>1. 1 \in 1..(Len(s) + 1) /\ i - 1 \in 0..Len(s)
            BY <2>1
        <3>2. i + 1 \in 1..(Len(s) + 1) /\ Len(s) \in i..Len(s)
            BY <2>1
        <3> QED
            BY <2>1, <3>1, <3>2, SubSeqProperties
    <2> QED
        BY <1>1, <2>2 DEF Forget, i
<1> QED
    BY Zenon, <1>1 DEF Forget

\* Adding a root, flushing a prefix and committing a root keep the types.
LEMMA TrieTypes ==
    ASSUME NEW s \in Seq(Root), diskRoots \in SUBSET Root, NEW r
    PROVE  /\ r \in Root => TrieUpdate(s, r) \in Seq(Root)
           /\ MayCap(s) => dirty' \in Seq(Root) /\ diskRoots' \in SUBSET Root
           /\ CommitRoot(s, r) => dirty' \in Seq(Root) /\ diskRoots' \in SUBSET Root
<1>1. Range(s) \subseteq Root
    BY DEF Range
<1>2. ASSUME NEW k \in 0..Len(s), CapAt(s, k)
      PROVE  dirty' \in Seq(Root) /\ diskRoots' \in SUBSET Root
    BY <1>2 DEF CapAt
<1>3. MayCap(s) => \E k \in 0..Len(s) : CapAt(s, k)
    BY DEF MayCap
<1> QED
    BY SMTT(30), <1>1, <1>2, <1>3, ForgetType DEF TrieUpdate, CommitRoot

\* The acceptor's writes to the tries and its buffer.
LEMMA AcceptTrieType ==
    ASSUME TypeOK, NEW b \in Block, AcceptTrie(b)
    PROVE  /\ dirty' \in Seq(Root) /\ diskRoots' \in SUBSET Root
           /\ tipBuffer' \in Seq(Root)
<1>1. /\ root[b] \in Root /\ dirty \in Seq(Root) /\ tipBuffer \in Seq(Root)
      /\ diskRoots \in SUBSET Root /\ StateHistory \in Nat \ {0}
    BY Zenon, CacheConfig DEF TypeOK, Root
<1>2. Dereferenced \in Seq(Root)
    BY Zenon, <1>1, ForgetType DEF Dereferenced
<1>3. Pruning => tipBuffer' \in Seq(Root)
    <2>1. Len(tipBuffer) = StateHistory => Tail(tipBuffer) \in Seq(Root)
        BY <1>1
    <2>2. /\ Append(tipBuffer, root[b]) \in Seq(Root)
          /\ Len(tipBuffer) = StateHistory =>
                Append(Tail(tipBuffer), root[b]) \in Seq(Root)
        BY <1>1, <2>1
    <2> QED
        BY Zenon, <2>2 DEF AcceptTrie, InsertTipBuffer
<1>4. ~Pruning => tipBuffer' = tipBuffer
    BY Zenon DEF AcceptTrie
<1>5. /\ MayCap(Dereferenced) \/ CommitRoot(Dereferenced, root[b])
         \/ CommitRoot(dirty, root[b])
    BY Zenon DEF AcceptTrie
<1> QED
    BY Zenon, <1>1, <1>2, <1>3, <1>4, <1>5, TrieTypes

\* A head write keeps the index's type.
LEMMA WriteHeadType ==
    ASSUME TypeOK, NEW b \in Block, writeHeadBlock(b)
    PROVE  canonical' \in [Height -> Block \cup {NoBlock}] /\ headBlock' \in Block
BY Zenon, BlockTree DEF TypeOK, writeHeadBlock

\* The first step of writeKnownBlock.
LEMMA BeginType ==
    ASSUME NEW b \in Block, NEW why, NEW a, BeginWriteKnown(b, why, a)
    PROVE  /\ phase' \in {"head", "link"} /\ op' = why /\ target' = b
           /\ trimFrom' \in Nat
<1>1. number[b] \in Nat
    BY BlockTree DEF Height
<1> QED
    BY <1>1 DEF BeginWriteKnown

\* What is left of the types when the process ends.
LEMMA EndType ==
    ASSUME MemoryLost, blocks' \in SUBSET Block, headBlock' \in Block,
           durable' \in Block, canonical' \in [Height -> Block \cup {NoBlock}],
           diskTip' \in Block \cup {NoBlock}, txLookup' \in SUBSET Block,
           diskRoots' \in SUBSET Root, decided' \in Block,
           crashes' \in 0..MaxCrashes, clean' \in BOOLEAN
    PROVE  TypeInv'
<1>1. acceptorQueue' \in Seq(Block) /\ tipBuffer' \in Seq(Root) /\ dirty' \in Seq(Root)
    BY DEF MemoryLost
<1> QED
    BY Zenon, <1>1 DEF MemoryLost, TypeInv, TypeOK

\* Every step keeps the types.
LEMMA TypeNext == TypeInv /\ [Next]_vars => TypeInv'
<1> SUFFICES ASSUME TypeInv, [Next]_vars PROVE TypeInv'
    BY Zenon
<1>0. TypeOK
    BY Zenon DEF TypeInv
<1> USE DEF disk, chain, indices, acceptor, layers, tries, call, recovery, env
<1>1. CASE ReorgLink
    <2>1. PICK b \in Block : writeHeadBlock(b)
        BY <1>1, BlockTree DEF ReorgLink, Pending, TypeInv, TypeOK
    <2>2. canonical' \in [Height -> Block \cup {NoBlock}] /\ headBlock' \in Block
        BY ZenonT(30), <1>0, <2>1, WriteHeadType
    <2> QED
        BY SMTT(30), <1>1, <2>2 DEF ReorgLink, TypeInv, TypeOK
<1>2. CASE ReorgTrim
    BY SMTT(30), <1>2, CacheConfig DEF ReorgTrim, TypeInv, TypeOK
<1>3. CASE WriteHead
    <2>1. canonical' \in [Height -> Block \cup {NoBlock}] /\ headBlock' \in Block
        BY Zenon, <1>0, <1>3, WriteHeadType DEF WriteHead, TypeInv
    <2>2. target \in Block /\ op \in {"prefer", "accept", "load"}
        BY Zenon, <1>3 DEF WriteHead, TypeInv
    <2>3. \/ phase' = "idle" /\ op' = "none" /\ target' = NoBlock
          \/ phase' \in {"enqueue", "search"} /\ UNCHANGED <<op, target>>
        BY Zenon, <1>3, <2>2 DEF WriteHead, Return
    <2>4. /\ UNCHANGED <<blocks, indices, diskRoots, durable, mode, lastAccepted,
                        acceptor, tipBuffer, dirty, layers, processing, trimFrom,
                        recovery, env>>
        BY ZenonT(30), <1>3 DEF WriteHead
    <2> QED
        BY <2>1, <2>2, <2>3, <2>4 DEF TypeInv, TypeOK
<1>4. CASE InsertTip
    <2>1. canonical' \in [Height -> Block \cup {NoBlock}] /\ headBlock' \in Block
          /\ target \in Block
        BY Zenon, <1>0, <1>4, WriteHeadType DEF InsertTip, TypeInv, TypeOK
    <2> QED
        BY <1>4, <2>1 DEF InsertTip, Return, TypeInv, TypeOK
<1>5. CASE Enqueue
    BY SMTT(30), <1>5 DEF Enqueue, TypeInv, TypeOK
<1>6. CASE CommitLastAccepted
    BY SMTT(30), <1>6 DEF CommitLastAccepted, Return, TypeInv, TypeOK
<1>7. CASE AcceptorTake
    BY SMTT(30), <1>7 DEF AcceptorTake, TypeInv, TypeOK
<1>8. CASE AcceptorTrie
    <2>1. /\ dirty' \in Seq(Root) /\ diskRoots' \in SUBSET Root
          /\ tipBuffer' \in Seq(Root)
        BY ZenonT(30), <1>0, <1>8, AcceptTrieType DEF AcceptorTrie, TypeInv
    <2> QED
        BY <1>8, <2>1 DEF AcceptorTrie, TypeInv, TypeOK
<1>9. CASE AcceptorFlatten \/ AcceptorIndex \/ AcceptorTip \/ AcceptorNotify
    BY SMTT(30), <1>9 DEF AcceptorFlatten, AcceptorIndex, AcceptorTip, AcceptorNotify,
                writeBlockAcceptedIndices, TypeInv, TypeOK
<1>10. CASE Start
    <2>1. /\ phase' \in {"head", "link", "search"} /\ op' = "load"
          /\ target' = durable /\ trimFrom' \in Nat
        BY SMTT(30), <1>0, <1>10, BeginType DEF Start, TypeOK
    <2> QED
        BY SMTT(30), <1>10, <2>1 DEF Start, TypeInv, TypeOK
<1>11. CASE Search
    <2>1. lastAccepted \in Block /\ (diskTip # NoBlock => diskTip \in Block)
        BY Zenon, <1>0 DEF TypeOK
    <2>2. \/ cursor' = lastAccepted
          \/ cursor' \in ancestors[lastAccepted]
          \/ diskTip # NoBlock /\ cursor' \in ancestors[diskTip]
        BY ZenonT(30), <1>11 DEF Search
    <2>3. cursor' \in Block
        BY ZenonT(30), <2>1, <2>2, BlockTree
    <2> QED
        BY <1>11, <2>3 DEF Search, TypeInv, TypeOK
<1>12. CASE Reexecute
    <2> DEFINE next == canonical[number[cursor] + 1]
    <2>1. next \in Block /\ root[next] \in Root
        <3>1. next \in blocks
            BY Zenon, <1>12 DEF Reexecute
        <3> HIDE DEF next
        <3> QED
            BY Zenon, <1>0, <3>1 DEF TypeOK, Root
    <2>2. dirty' \in Seq(Root)
        BY Zenon, <1>0, <1>12, <2>1, TrieTypes, ForgetType DEF Reexecute, TypeOK
    <2>3. writeIndices' \in BOOLEAN
        BY Zenon, <1>12 DEF Reexecute, TypeInv, TypeOK
    <2> HIDE DEF next
    <2>4. /\ previousRoot' \in Root \cup {NoRoot} /\ cursor' \in Block
          /\ diskLayer' \in Block \cup {NoBlock}
          /\ txLookup' \in SUBSET Block /\ diskTip' \in Block \cup {NoBlock}
        BY Zenon, <1>0, <1>12, <2>1
           DEF Reexecute, writeBlockAcceptedIndices, TypeOK, next
    <2> QED
        BY SMTT(30), <1>12, <2>2, <2>3, <2>4 DEF Reexecute, TypeInv, TypeOK
<1>13. CASE Loaded
    <2>1. dirty' \in Seq(Root) /\ diskRoots' \in SUBSET Root
        BY Zenon, <1>0, <1>13, TrieTypes DEF Loaded, TypeOK
    <2> QED
        BY ZenonT(30), <1>13, <2>1 DEF Loaded, Return, TypeInv, TypeOK
<1>14. CASE Engine
    <2> SUFFICES ASSUME NEW b \in Block,
                        InsertBlock(b) \/ SetPreference(b) \/ Accept(b) \/ Reject(b)
                 PROVE  TypeInv'
        BY ZenonT(30), <1>14 DEF Engine
    <2>1. CASE InsertBlock(b)
        <3>1. TrieUpdate(dirty, root[b]) \in Seq(Root)
            BY Zenon, <1>0, TrieTypes DEF TypeOK, Root
        <3>2. dirty' \in Seq(Root) /\ diskRoots' \in SUBSET Root
            BY Zenon, <1>0, <2>1, <3>1, TrieTypes DEF InsertBlock, TypeOK
        <3>3. /\ blocks' \in SUBSET Block /\ diffLayers' \in SUBSET Block
              /\ phase' = "insert" /\ target' = b
            BY Zenon, <1>0, <2>1 DEF InsertBlock, TypeOK
        <3>4. UNCHANGED <<canonical, headBlock, indices, durable, mode,
                          lastAccepted, acceptor, tipBuffer, diskLayer,
                          processing, op, trimFrom, recovery, env>>
            BY ZenonT(30), <2>1 DEF InsertBlock
        <3> QED
            BY SMTT(30), <3>2, <3>3, <3>4 DEF TypeInv, TypeOK
    <2>2. CASE SetPreference(b)
        <3>1. /\ BeginWriteKnown(b, "prefer", lastAccepted)
              /\ UNCHANGED <<disk, mode, lastAccepted, acceptor, tipBuffer, dirty,
                             layers, processing, recovery, env>>
            BY ZenonT(30), <2>2 DEF SetPreference
        <3>2. /\ phase' \in {"head", "link"} /\ op' = "prefer" /\ target' = b
              /\ trimFrom' \in Nat
            BY ZenonT(30), <3>1, BeginType
        <3> QED
            BY SMTT(30), <3>1, <3>2 DEF TypeInv, TypeOK
    <2>3. CASE Accept(b)
        <3>1. /\ phase' \in {"head", "link", "enqueue"} /\ op' = "accept"
              /\ target' = b /\ trimFrom' \in Nat
            <4>1. CASE canonical[number[b]] = b
                <5>1. phase' = "enqueue" /\ op' = "accept" /\ target' = b /\ trimFrom' = 0
                    BY ZenonT(30), <2>3, <4>1 DEF Accept
                <5> QED
                    BY <5>1
            <4>2. CASE canonical[number[b]] # b
                <5>1. BeginWriteKnown(b, "accept", lastAccepted)
                    BY ZenonT(30), <2>3, <4>2 DEF Accept
                <5>2. /\ phase' \in {"head", "link"} /\ op' = "accept" /\ target' = b
                      /\ trimFrom' \in Nat
                    BY ZenonT(30), <5>1, BeginType
                <5> QED
                    BY <5>2
            <4> QED
                BY Zenon, <4>1, <4>2
        <3>2. /\ decided' \in Block
              /\ UNCHANGED <<disk, mode, lastAccepted, acceptor, tipBuffer, dirty,
                             layers, processing, recovery, crashes, clean>>
            BY ZenonT(30), <1>0, <2>3 DEF Accept, TypeOK
        <3> QED
            BY SMTT(30), <3>1, <3>2 DEF TypeInv, TypeOK
    <2>4. CASE Reject(b)
        BY SMTT(30), <2>4 DEF Reject, TypeInv, TypeOK
    <2> QED
        BY Zenon, <2>1, <2>2, <2>3, <2>4
<1>15. CASE Stop
    BY <1>15 DEF Stop, TypeInv, TypeOK
<1>16. CASE StopDrained
    <2>1. Range(dirty) \subseteq Root
        BY <1>0 DEF TypeOK, Range
    <2>2. diskRoots' \in SUBSET Root
        BY Zenon, <1>0, <1>16, <2>1 DEF StopDrained, TypeOK
    <2>3. /\ MemoryLost /\ clean' \in BOOLEAN
          /\ UNCHANGED <<chain, indices, decided, crashes>>
        BY Zenon, <1>16 DEF StopDrained
    <2> QED
        BY ZenonT(30), <1>0, <2>2, <2>3, EndType DEF TypeOK
<1>17. CASE Crash
    <2>1. MemoryLost /\ UNCHANGED <<disk, decided>> /\ clean' \in BOOLEAN
        BY ZenonT(30), <1>17 DEF Crash
    <2>2. crashes' \in 0..MaxCrashes
        BY SMTT(30), <1>0, <1>17, BlockTree DEF Crash, TypeOK
    <2> QED
        BY Zenon, <1>0, <2>1, <2>2, EndType DEF TypeOK
<1>18. CASE UNCHANGED vars
    BY <1>18 DEF vars, TypeInv, TypeOK
<1> QED
    BY ZenonT(30), <1>1, <1>2, <1>3, <1>4, <1>5, <1>6, <1>7, <1>8, <1>9, <1>10, <1>11,
       <1>12, <1>13, <1>14, <1>15, <1>16, <1>17, <1>18
       DEF Next, Writer, Acceptor, Load

\* The types hold of a fresh database.
LEMMA TypeInit == Init => TypeInv
<1> SUFFICES ASSUME Init PROVE TypeInv
    BY Zenon
<1>1. root[Genesis] \in Root /\ 0 \in 0..MaxCrashes /\ Genesis \in Block
    BY SMTT(30), BlockTree DEF Root
<1>2. canonical \in [Height -> Block \cup {NoBlock}]
    BY Zenon, <1>1 DEF Init
<1>3. acceptorQueue \in Seq(Block) /\ tipBuffer \in Seq(Root) /\ dirty \in Seq(Root)
    BY DEF Init
<1> QED
    BY ZenonT(30), <1>1, <1>2, <1>3 DEF Init, TypeInv, TypeOK

\* Every variable keeps its type: no step reads an absent block or root.
THEOREM TypeCorrect == Spec => []TypeOK
<1>1. TypeInv => TypeOK
    BY Zenon DEF TypeInv
<1> QED
    BY <1>1, TypeInit, TypeNext, PTL DEF Spec
=============================================================================
