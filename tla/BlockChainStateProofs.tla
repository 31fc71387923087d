------------------------ MODULE BlockChainStateProofs ------------------------
(***************************************************************************)
(* The blocks, state tries and snapshot layers that the engine, the        *)
(* acceptor and a restart need are there, for every block tree and every   *)
(* configuration in which the hashes above a head fit one indexesBatch.    *)
(***************************************************************************)
EXTENDS BlockChainAcceptorProofs

-----------------------------------------------------------------------------
(* Invariants.                                                             *)

\* Blocks that may still be accepted.
Live == {b \in processing \cup (IF phase = "insert" THEN {target} ELSE {}) :
            lastAccepted \in ancestors[b] /\ b # lastAccepted}

\* What is stored: the chains of the head, of live blocks and of a reorg's target.
BlocksInv ==
    /\ ancestors[headBlock] \subseteq blocks
    /\ \A b \in Live : ancestors[b] \subseteq blocks
    /\ phase \in {"link", "head"} => ancestors[target] \subseteq blocks
    /\ phase = "insert" => target \in blocks /\ target \notin ancestors[lastAccepted]
    /\ processing \cap ancestors[lastAccepted] \subseteq
          (IF phase = "commit" THEN {lastAccepted} ELSE {})
    /\ ~Up => processing = {}

\* The last blocks whose trie and whose layer the acceptor has handled.
Stored == IF acceptorAt \in {"idle", "trie"} THEN acceptorTip ELSE accepting
Flattened == IF acceptorAt \in {"idle", "trie", "flatten"} THEN acceptorTip ELSE accepting

\* Accepted blocks whose trie the acceptor holds or will ask for.
StatesInv ==
    /\ Up => \A b \in Live : HasState(b)
    /\ Up => \A b \in ancestors[lastAccepted] : Stored \in ancestors[b] => HasState(b)
    /\ phase = "reexecute" => HasState(cursor)
    /\ ~Up /\ phase # "reexecute" => dirty = <<>>
    /\ phase # "reexecute" => previousRoot = NoRoot
    /\ phase = "reexecute" =>
          \/ previousRoot = NoRoot /\ dirty = <<>>
          \/ /\ previousRoot = root[cursor] /\ dirty = <<root[cursor]>>
             /\ cursor \in ancestors[lastAccepted]
    /\ FailureIsOvertakenAccept
    /\ mode = "down" /\ clean =>
          root[durable] \in diskRoots /\ (diskTip # NoBlock => durable \in ancestors[diskTip])

\* The tip buffer holds the roots of the last blocks stored, each once.
BufferInv ==
    /\ ~Up \/ ~Pruning => tipBuffer = <<>>
    /\ Range(tipBuffer) \subseteq diskRoots \cup Range(dirty)
    /\ \A i, j \in 1..Len(tipBuffer) : tipBuffer[i] = tipBuffer[j] => i = j
    /\ \A i \in 1..Len(tipBuffer) : \E a \in ancestors[Stored] : root[a] = tipBuffer[i]
    /\ Up => IF tipBuffer = <<>> THEN root[Stored] \in diskRoots
             ELSE tipBuffer[Len(tipBuffer)] = root[Stored]

\* The disk layer is that of the last block flattened, and the blocks above it have layers.
LayersInv ==
    /\ Up => /\ diskLayer = Flattened
             /\ Live \subseteq diffLayers
             /\ \A b \in ancestors[lastAccepted] :
                   Flattened \in ancestors[b] /\ b # Flattened => b \in diffLayers
    /\ ~Up => \/ diskLayer \in {NoBlock, lastAccepted}
              \/ phase = "reexecute" /\ writeIndices /\ diskLayer = cursor

StateInv == BlocksInv /\ StatesInv /\ BufferInv /\ (Snapshots => LayersInv)

-----------------------------------------------------------------------------
(* The stored blocks.                                                      *)

\* What the engine may still accept only shrinks, but by an insertion.
LEMMA LiveShrinks ==
    ASSUME lastAccepted' = lastAccepted, processing' \subseteq processing, phase' # "insert"
    PROVE  Live' \subseteq Live
BY Zenon DEF Live

\* Inserting a block stores it above the chain of its parent.
LEMMA InsertBlocks ==
    ASSUME AcceptorInv, ChainInv, BlocksInv, NEW b \in Block, InsertBlock(b)
    PROVE  BlocksInv' /\ Live' \subseteq Live \cup {b}
<1> USE DEF indices, acceptor, recovery, env
<1>1. /\ mode = "running" /\ phase = "idle" /\ phase' = "insert" /\ target' = b
      /\ blocks' = blocks \cup {b} /\ b # Genesis
      /\ parent[b] \in processing \cup {lastAccepted}
      /\ UNCHANGED <<headBlock, lastAccepted, processing, mode>>
    BY Zenon DEF InsertBlock, Ready, Verifiable
<1>2. /\ lastAccepted \in Block /\ headBlock \in Block /\ parent[b] \in Block
      /\ lastAccepted \in ancestors[headBlock]
    BY Zenon, <1>1, BlockTree DEF AcceptorInv, TypeInv, TypeOK, ChainInv
<1>3. /\ number[b] = number[parent[b]] + 1 /\ ancestors[b] = {b} \cup ancestors[parent[b]]
      /\ parent[b] \in ancestors[parent[b]]
    BY Zenon, <1>2, Child, SelfAncestor
<1>4. processing \cap ancestors[lastAccepted] = {}
    BY Zenon, <1>1 DEF BlocksInv
<1>5. b \notin ancestors[lastAccepted]
    <2> SUFFICES ASSUME b \in ancestors[lastAccepted] PROVE FALSE
        BY Zenon
    <2>1. parent[b] \in ancestors[lastAccepted] /\ number[b] <= number[lastAccepted]
        BY Zenon, <1>2, <1>3, ChainFacts
    <2>2. parent[b] = lastAccepted
        BY Zenon, <1>1, <1>4, <2>1
    <2> QED
        BY <1>2, <1>3, <2>1, <2>2, NumberType
<1>6. Live' \subseteq Live \cup {b}
    BY Zenon, <1>1 DEF Live
<1>7. ASSUME lastAccepted \in ancestors[b], b # lastAccepted
      PROVE  ancestors[b] \subseteq blocks'
    <2>1. CASE parent[b] = lastAccepted
        BY ZenonT(30), <1>1, <1>2, <1>3, <2>1, ChainFacts DEF BlocksInv
    <2>2. CASE parent[b] \in processing
        <3>1. parent[b] # lastAccepted
            BY Zenon, <1>2, <1>4, <2>2, SelfAncestor
        <3>2. parent[b] \in Live
            BY Zenon, <1>3, <1>7, <2>2, <3>1 DEF Live
        <3> QED
            BY Zenon, <1>1, <1>3, <3>2 DEF BlocksInv
    <2> QED
        BY Zenon, <1>1, <2>1, <2>2
<1>8. \A c \in Live' : ancestors[c] \subseteq blocks'
    <2> SUFFICES ASSUME NEW c \in Live' PROVE ancestors[c] \subseteq blocks'
        BY Zenon
    <2>1. CASE c \in Live
        BY Zenon, <1>1, <2>1 DEF BlocksInv
    <2>2. CASE c = b
        <3>1. lastAccepted \in ancestors[b] /\ b # lastAccepted
            BY Zenon, <1>1, <2>2 DEF Live
        <3> QED
            BY Zenon, <1>7, <2>2, <3>1
    <2> QED
        BY Zenon, <1>6, <2>1, <2>2
<1>9. ~Up' => processing' = {}
    BY Zenon, <1>1 DEF Up
<1> QED
    BY Zenon, <1>1, <1>4, <1>5, <1>6, <1>8, <1>9 DEF BlocksInv

\* A block that is rejected is on no chain above the last accepted block.
LEMMA RejectedApart ==
    ASSUME AcceptorInv, BlocksInv, NEW b \in Block, Reject(b), NEW h \in Block,
           lastAccepted \in ancestors[h]
    PROVE  b \notin ancestors[h]
<1> SUFFICES ASSUME b \in ancestors[h] PROVE FALSE
    BY Zenon
<1>1. b \in processing /\ lastAccepted \notin ancestors[b] /\ phase = "idle"
    BY Zenon DEF Reject, Ready
<1>2. number[b] < number[lastAccepted]
    BY Zenon, <1>1, ChainOrder
<1>3. lastAccepted \in Block /\ b \in ancestors[lastAccepted]
    BY <1>2, NumberType, ChainFacts
<1> QED
    BY Zenon, <1>1, <1>3 DEF BlocksInv

\* A block that writeKnownBlock makes the head has its chain stored.
LEMMA PreferBlocks ==
    ASSUME AcceptorInv, ChainInv, BlocksInv, phase = "idle",
           NEW b \in processing \cup {lastAccepted}, NEW why,
           BeginWriteKnown(b, why, lastAccepted)
    PROVE  ancestors[b] \subseteq blocks
<1>1. /\ b \in Block /\ lastAccepted \in Block /\ headBlock \in Block
      /\ lastAccepted \in ancestors[headBlock]
    BY Zenon DEF AcceptorInv, TypeInv, TypeOK, ChainInv
<1>2. CASE b = lastAccepted
    BY Zenon, <1>1, <1>2, ChainFacts DEF BlocksInv
<1>3. CASE b # lastAccepted
    <2>1. lastAccepted \in ancestors[b]
        <3>1. CASE parent[b] = headBlock
            BY Zenon, <1>1, <3>1, Child
        <3>2. CASE parent[b] # headBlock
            BY Zenon, <1>1, <3>2, ReorgKeepsAccepted DEF BeginWriteKnown
        <3> QED
            BY Zenon, <3>1, <3>2
    <2> QED
        BY Zenon, <1>3, <2>1 DEF BlocksInv, Live
<1> QED
    BY Zenon, <1>2, <1>3

\* Every step keeps the blocks that are needed.
LEMMA BlocksNext == AcceptorInv /\ ChainInv /\ BlocksInv /\ [Next]_vars => BlocksInv'
<1> SUFFICES ASSUME AcceptorInv, ChainInv, BlocksInv, [Next]_vars PROVE BlocksInv'
    BY Zenon
<1> USE DEF disk, chain, indices, acceptor, layers, tries, call, recovery, env
<1>0. /\ CallInv /\ TypeInv /\ lastAccepted \in Block /\ headBlock \in Block /\ durable \in Block
      /\ lastAccepted \in ancestors[headBlock] /\ phase # "trim"
    BY Zenon DEF AcceptorInv, TypeInv, TypeOK, ChainInv
<1>1. ASSUME UNCHANGED <<blocks, headBlock, lastAccepted, processing>>,
             phase' # "insert", phase' # "commit", phase # "commit", ~Up' => ~Up,
             phase' \in {"link", "head"} => ancestors[target'] \subseteq blocks
      PROVE  BlocksInv'
    <2>1. Live' \subseteq Live
        BY Zenon, <1>1, LiveShrinks
    <2> QED
        BY Zenon, <1>1, <2>1 DEF BlocksInv
<1>2. CASE ReorgLink
    <2>1. PICK b \in Pending : headBlock' = b
        BY Zenon, <1>2 DEF ReorgLink, writeHeadBlock
    <2>2. /\ target \in Block /\ phase = "link"
          /\ UNCHANGED <<blocks, lastAccepted, processing, phase, target, mode>>
        BY Zenon, <1>0, <1>2 DEF ReorgLink, TypeInv
    <2>3. ancestors[b] \subseteq blocks
        BY Zenon, <2>1, <2>2, ChainFacts DEF Pending, BlocksInv
    <2>4. Live' \subseteq Live
        BY Zenon, <2>2, LiveShrinks
    <2> QED
        BY Zenon, <2>1, <2>2, <2>3, <2>4 DEF BlocksInv, Up
<1>3. CASE ReorgTrim
    <2>1. /\ phase = "link" /\ phase' \in {"head", "trim"}
          /\ UNCHANGED <<blocks, headBlock, lastAccepted, processing, target, mode>>
        BY Zenon, <1>0, <1>3 DEF ReorgTrim
    <2> QED
        BY Zenon, <1>1, <2>1 DEF BlocksInv, Up
<1>4. CASE WriteHead
    <2>1. /\ phase = "head" /\ headBlock' = target /\ phase' \in {"idle", "enqueue", "search"}
          /\ UNCHANGED <<blocks, lastAccepted, processing, mode>>
        BY Zenon, <1>0, <1>4 DEF WriteHead, writeHeadBlock, Return, TypeInv
    <2>2. Live' \subseteq Live
        BY Zenon, <2>1, LiveShrinks
    <2> QED
        BY Zenon, <2>1, <2>2 DEF BlocksInv, Up
<1>5. CASE InsertTip
    <2>1. /\ phase = "insert" /\ phase' = "idle" /\ processing' = processing \cup {target}
          /\ (headBlock' = headBlock \/ (headBlock' = target /\ parent[target] = headBlock))
          /\ UNCHANGED <<blocks, lastAccepted, mode>> /\ target \in Block /\ mode = "running"
        BY Zenon, <1>0, <1>5 DEF InsertTip, writeHeadBlock, Return, TypeInv, CallInv
    <2>2. Live' = Live
        BY Zenon, <2>1 DEF Live
    <2>3. ancestors[headBlock'] \subseteq blocks
        BY ZenonT(90), <1>0, <2>1, Child DEF BlocksInv
    <2> QED
        BY Zenon, <2>1, <2>2, <2>3 DEF BlocksInv, Up
<1>6. CASE Enqueue
    <2>1. /\ phase = "enqueue" /\ phase' = "commit" /\ lastAccepted' = target
          /\ parent[target] = lastAccepted /\ target \in Block
          /\ UNCHANGED <<blocks, headBlock, processing, mode>>
        BY Zenon, <1>0, <1>6 DEF Enqueue, CallInv, TypeInv
    <2>2. ancestors[target] = {target} \cup ancestors[lastAccepted]
        BY Zenon, <1>0, <2>1, Child
    <2>3. Live' \subseteq Live
        <3> SUFFICES ASSUME NEW c \in Live' PROVE c \in Live
            BY Zenon
        <3>1. c \in processing /\ target \in ancestors[c] /\ c # target /\ c \in Block
            BY Zenon, <2>1 DEF Live, AcceptorInv, TypeInv, TypeOK
        <3>2. lastAccepted \in ancestors[c]
            BY Zenon, <1>0, <2>2, <3>1, ChainFacts, SelfAncestor
        <3>3. c # lastAccepted
            BY Zenon, <1>0, <2>1, <3>1, SelfAncestor DEF BlocksInv
        <3> QED
            BY Zenon, <3>1, <3>2, <3>3 DEF Live
    <2> QED
        BY Zenon, <2>1, <2>2, <2>3 DEF BlocksInv, Up
<1>7. CASE CommitLastAccepted
    <2>1. /\ phase = "commit" /\ phase' = "idle" /\ processing' = processing \ {target}
          /\ target = lastAccepted
          /\ UNCHANGED <<blocks, headBlock, lastAccepted, mode>>
        BY Zenon, <1>0, <1>7 DEF CommitLastAccepted, Return, CallInv
    <2>2. Live' \subseteq Live
        BY Zenon, <2>1, LiveShrinks
    <2> QED
        BY Zenon, <2>1, <2>2 DEF BlocksInv, Up
<1>8. CASE Acceptor
    <2>1. UNCHANGED <<blocks, headBlock, lastAccepted, processing, phase, target, mode>>
        BY Zenon, <1>8 DEF Acceptor, AcceptorTake, AcceptorTrie, AcceptorFlatten, AcceptorIndex,
                    AcceptorTip, AcceptorNotify
    <2>2. Live' = Live
        BY Zenon, <2>1 DEF Live
    <2> QED
        BY Zenon, <2>1, <2>2 DEF BlocksInv, Up
<1>9. CASE Start
    <2>1. /\ phase' \in {"head", "link", "search"} /\ target' = durable /\ phase = "idle"
          /\ mode \in {"down", "failed"} /\ durable = lastAccepted
          /\ UNCHANGED <<blocks, headBlock, lastAccepted, processing>>
        BY Zenon, <1>0, <1>9, BeginCall DEF Start, CallInv
    <2>2. ancestors[durable] \subseteq blocks
        BY Zenon, <1>0, <2>1, ChainFacts DEF BlocksInv
    <2> QED
        BY Zenon, <1>1, <2>1, <2>2 DEF Up
<1>10. CASE Search \/ Reexecute \/ Loaded
    <2>1. /\ phase \in {"search", "reexecute"} /\ phase' \in {"idle", "reexecute"}
          /\ mode = "loading" /\ UNCHANGED <<blocks, headBlock, lastAccepted, processing>>
        BY Zenon, <1>0, <1>10 DEF Search, Reexecute, Loaded, Return, CallInv
    <2> QED
        BY Zenon, <1>1, <2>1 DEF Up
<1>11. CASE Engine
    <2> SUFFICES ASSUME NEW b \in Block,
                        InsertBlock(b) \/ SetPreference(b) \/ Accept(b) \/ Reject(b)
                 PROVE  BlocksInv'
        BY Zenon, <1>11 DEF Engine
    <2>1. CASE SetPreference(b)
        <3>1. /\ phase = "idle" /\ b \in processing \cup {lastAccepted} /\ mode = "running"
              /\ BeginWriteKnown(b, "prefer", lastAccepted)
              /\ UNCHANGED <<blocks, headBlock, lastAccepted, processing, mode>>
            BY Zenon, <2>1 DEF SetPreference, Ready
        <3>2. ancestors[b] \subseteq blocks /\ phase' \in {"link", "head"} /\ target' = b
            BY Zenon, <3>1, PreferBlocks, BeginCall
        <3> QED
            BY Zenon, <1>1, <3>1, <3>2 DEF Up
    <2>2. CASE Accept(b)
        <3>1. /\ phase = "idle" /\ b \in processing /\ parent[b] = lastAccepted
              /\ phase' \in {"link", "head", "enqueue"} /\ target' = b /\ mode = "running"
              /\ UNCHANGED <<blocks, headBlock, lastAccepted, processing, mode>>
            BY Zenon, <2>2, BeginCall DEF Accept, Ready
        <3>2. lastAccepted \in ancestors[b] /\ b # lastAccepted
            BY <1>0, <3>1, Child, SelfAncestor DEF BlocksInv
        <3>3. ancestors[b] \subseteq blocks
            BY Zenon, <3>1, <3>2 DEF BlocksInv, Live
        <3> QED
            BY Zenon, <1>1, <3>1, <3>3 DEF Up
    <2>3. CASE Reject(b)
        <3>1. /\ phase = "idle" /\ blocks' = blocks \ {b} /\ processing' = processing \ {b}
              /\ mode = "running" /\ UNCHANGED <<headBlock, lastAccepted, phase, target, mode>>
            BY Zenon, <2>3 DEF Reject, Ready
        <3>2. b \notin ancestors[headBlock]
            BY Zenon, <1>0, <2>3, RejectedApart
        <3>3. Live' \subseteq Live
            BY Zenon, <3>1, LiveShrinks
        <3>4. ASSUME NEW c \in Live' PROVE ancestors[c] \subseteq blocks'
            <4>1. c \in Live /\ c \in Block /\ lastAccepted \in ancestors[c]
                BY Zenon, <3>1, <3>3 DEF Live, AcceptorInv, TypeInv, TypeOK
            <4>2. b \notin ancestors[c]
                BY Zenon, <2>3, <4>1, RejectedApart
            <4> QED
                BY Zenon, <3>1, <4>1, <4>2 DEF BlocksInv
        <3> QED
            BY Zenon, <3>1, <3>2, <3>4 DEF BlocksInv, Up
    <2> QED
        BY Zenon, <2>1, <2>2, <2>3, InsertBlocks
<1>12. CASE Stop
    BY Zenon, <1>1, <1>12 DEF Stop, Ready, Up
<1>13. CASE StopDrained \/ Crash
    <2>1. /\ processing' = {} /\ phase' = "idle" /\ UNCHANGED <<blocks, headBlock>>
        BY Zenon, <1>13 DEF StopDrained, Crash, MemoryLost
    <2>2. Live' = {}
        BY Zenon, <2>1 DEF Live
    <2> QED
        BY Zenon, <2>1, <2>2 DEF BlocksInv
<1>14. CASE UNCHANGED vars
    BY Zenon, <1>14 DEF vars, BlocksInv, Live, Up
<1> QED
    BY ZenonT(30), <1>2, <1>3, <1>4, <1>5, <1>6, <1>7, <1>8, <1>9, <1>10, <1>11, <1>12, <1>13,
       <1>14
       DEF Next, Writer, Load

-----------------------------------------------------------------------------
(* The state tries.                                                        *)

\* Dereferencing takes one root out of memory and no other.
LEMMA ForgetRange ==
    ASSUME NEW S, NEW s \in Seq(S), NEW r
    PROVE  \A x \in Range(s) : x = r \/ x \in Range(Forget(s, r))
<1>1. CASE r \in Range(s)
    <2> DEFINE i == CHOOSE j \in DOMAIN s : s[j] = r
    <2>1. i \in 1..Len(s) /\ Len(s) \in Nat /\ s[i] = r
        BY <1>1 DEF Range
    <2>2. Forget(s, r) = SubSeq(s, 1, i - 1) \o SubSeq(s, i + 1, Len(s))
        BY Zenon, <1>1 DEF Forget
    <2> HIDE DEF i
    <2> DEFINE u == SubSeq(s, 1, i - 1)
               v == SubSeq(s, i + 1, Len(s))
    <2>3. /\ u \in Seq(S) /\ Len(u) = i - 1
          /\ \A j \in 1..(i - 1) : u[j] = s[j]
        BY <2>1
    <2>4. /\ v \in Seq(S) /\ Len(v) = Len(s) - i
          /\ \A j \in 1..(Len(s) - i) : v[j] = s[i + j]
        BY <2>1
    <2> HIDE DEF u, v
    <2>5. /\ DOMAIN (u \o v) = 1..(Len(s) - 1)
          /\ \A j \in 1..(i - 1) : (u \o v)[j] = s[j]
          /\ \A j \in 1..(Len(s) - i) : (u \o v)[i - 1 + j] = s[i + j]
        <3>1. /\ u \o v \in Seq(S) /\ Len(u \o v) = Len(u) + Len(v)
              /\ \A j \in 1..(Len(u) + Len(v)) :
                    (u \o v)[j] = IF j <= Len(u) THEN u[j] ELSE v[j - Len(u)]
            BY Zenon, <2>3, <2>4, ConcatProperties
        <3>2. Len(u) + Len(v) = Len(s) - 1 /\ DOMAIN (u \o v) = 1..(Len(s) - 1)
            BY <2>1, <2>3, <2>4, <3>1
        <3>3. ASSUME NEW j \in 1..(i - 1) PROVE (u \o v)[j] = s[j]
            BY <2>1, <2>3, <3>1, <3>2
        <3>4. ASSUME NEW j \in 1..(Len(s) - i) PROVE (u \o v)[i - 1 + j] = s[i + j]
            <4>1. /\ i - 1 + j \in 1..(Len(u) + Len(v)) /\ ~(i - 1 + j <= Len(u))
                  /\ (i - 1 + j) - Len(u) = j
                BY <2>1, <2>3, <2>4
            <4> QED
                BY Zenon, <2>4, <3>1, <4>1
        <3> QED
            BY Zenon, <3>2, <3>3, <3>4
    <2>6. ASSUME NEW x \in Range(s), x # r PROVE x \in Range(u \o v)
        <3>1. PICK k \in 1..Len(s) : s[k] = x
            BY DEF Range
        <3>2. k < i \/ k > i
            BY <2>1, <2>6, <3>1
        <3>3. CASE k < i
            <4>1. k \in 1..(i - 1) /\ k \in 1..(Len(s) - 1)
                BY <2>1, <3>3
            <4> QED
                BY Zenon, <2>5, <3>1, <4>1 DEF Range
        <3>4. CASE k > i
            <4>1. /\ k - i \in 1..(Len(s) - i) /\ i - 1 + (k - i) = k - 1 /\ i + (k - i) = k
                  /\ k - 1 \in 1..(Len(s) - 1)
                BY <2>1, <3>4
            <4>2. (u \o v)[k - 1] = s[k]
                BY Zenon, <2>5, <4>1
            <4> QED
                BY Zenon, <2>5, <3>1, <4>1, <4>2 DEF Range
        <3> QED
            BY Zenon, <3>2, <3>3, <3>4
    <2> QED
        BY Zenon, <2>2, <2>6 DEF u, v
<1>2. CASE r \notin Range(s)
    BY Zenon, <1>2 DEF Forget
<1> QED
    BY Zenon, <1>1, <1>2

\* A root given to the trie database is in memory.
LEMMA UpdateRange ==
    ASSUME NEW S, NEW s \in Seq(S), NEW r \in S
    PROVE  /\ r \in Range(TrieUpdate(s, r))
           /\ \A x \in Range(s) : x \in Range(TrieUpdate(s, r))
<1>1. CASE r \in Range(s)
    BY Zenon, <1>1 DEF TrieUpdate
<1>2. CASE r \notin Range(s)
    <2>1. /\ DOMAIN Append(s, r) = 1..(Len(s) + 1) /\ Append(s, r)[Len(s) + 1] = r
          /\ Len(s) \in Nat /\ DOMAIN s = 1..Len(s)
          /\ \A i \in 1..Len(s) : Append(s, r)[i] = s[i]
        OBVIOUS
    <2>2. TrieUpdate(s, r) = Append(s, r)
        BY Zenon, <1>2 DEF TrieUpdate
    <2> QED
        BY <2>1, <2>2 DEF Range
<1> QED
    BY Zenon, <1>1, <1>2

Readable == diskRoots \cup Range(dirty)

\* Cap and Commit move roots from memory to disk and lose none.
LEMMA WriterKeeps ==
    ASSUME NEW s \in Seq(Root), NEW r, MayCap(s) \/ CommitRoot(s, r)
    PROVE  /\ diskRoots \subseteq diskRoots' /\ \A x \in Range(s) : x \in Readable'
           /\ CommitRoot(s, r) /\ r \in Range(s) => r \in diskRoots'
<1>1. CASE MayCap(s)
    <2>1. PICK k \in 0..Len(s) : CapAt(s, k)
        BY <1>1 DEF MayCap
    <2>2. /\ Len(s) \in Nat /\ DOMAIN dirty' = 1..(Len(s) - k)
          /\ \A j \in 1..(Len(s) - k) : dirty'[j] = s[k + j]
        BY <2>1 DEF CapAt
    <2>3. ASSUME NEW x \in Range(s) PROVE x \in Readable'
        <3>1. PICK i \in 1..Len(s) : s[i] = x
            BY DEF Range
        <3>2. CASE i <= k
            BY <2>1, <2>2, <3>1, <3>2 DEF CapAt, Readable
        <3>3. CASE i > k
            <4>1. i - k \in 1..(Len(s) - k) /\ k + (i - k) = i
                BY <2>1, <2>2, <3>3
            <4> QED
                BY Zenon, <2>2, <3>1, <4>1 DEF Readable, Range
        <3> QED
            BY <2>1, <2>2, <3>2, <3>3
    <2>4. CommitRoot(s, r) /\ r \in Range(s) => r \in diskRoots'
        BY Zenon DEF CommitRoot
    <2> QED
        BY Zenon, <2>1, <2>3, <2>4 DEF CapAt
<1>2. CASE CommitRoot(s, r)
    BY Zenon, <1>2, ForgetRange DEF CommitRoot, Readable
<1> QED
    BY Zenon, <1>1, <1>2

\* AcceptTrie forgets at most the oldest root of a full tip buffer.
LEMMA AcceptTrieKeeps ==
    ASSUME TypeOK, NEW b \in Block, AcceptTrie(b)
    PROVE  /\ diskRoots \subseteq diskRoots'
           /\ \A x \in Readable :
                 x \in Readable' \/ (Pruning /\ Len(tipBuffer) = StateHistory /\ x = tipBuffer[1])
           /\ ~Pruning /\ root[b] \in Readable => root[b] \in diskRoots'
<1>1. /\ dirty \in Seq(Root) /\ tipBuffer \in Seq(Root) /\ StateHistory \in Nat \ {0}
      /\ Pruning \in BOOLEAN
    BY Zenon, CacheConfig DEF TypeOK
<1>2. CASE Pruning
    <2> DEFINE d == Dereferenced
    <2>1. /\ d \in Seq(Root)
          /\ \A x \in Range(dirty) :
                x \in Range(d) \/ (Len(tipBuffer) = StateHistory /\ x = tipBuffer[1])
        BY <1>1, ForgetType, ForgetRange DEF Dereferenced
    <2>2. MayCap(d) \/ CommitRoot(d, root[b])
        BY Zenon, <1>2 DEF AcceptTrie
    <2> HIDE DEF d
    <2>3. diskRoots \subseteq diskRoots' /\ \A x \in Range(d) : x \in Readable'
        BY Zenon, <2>1, <2>2, WriterKeeps
    <2> QED
        BY Zenon, <1>2, <2>1, <2>3 DEF Readable
<1>3. CASE ~Pruning
    <2>1. CommitRoot(dirty, root[b])
        BY Zenon, <1>3 DEF AcceptTrie
    <2> QED
        BY Zenon, <1>1, <1>3, <2>1, WriterKeeps DEF Readable
<1> QED
    BY Zenon, <1>1, <1>2, <1>3

\* Steps that leave the tries alone while no stop or failed start is reported.
LEMMA StateFrame ==
    ASSUME StatesInv, BufferInv,
           UNCHANGED <<diskRoots, dirty, tipBuffer, previousRoot, cursor, lastAccepted>>,
           Up' <=> Up, Stored' = Stored, Live' \subseteq Live,
           phase' = "reexecute" <=> phase = "reexecute", mode' \notin {"down", "failed"}
    PROVE  StatesInv' /\ BufferInv'
<1>1. StatesInv'
    BY Zenon DEF StatesInv, HasState, FailureIsOvertakenAccept
<1>2. BufferInv'
    BY DEF BufferInv
<1> QED
    BY Zenon, <1>1, <1>2

\* The root that leaves the tip buffer is that of no block from the accepted one on.
LEMMA EvictedRoot ==
    ASSUME AcceptorInv, BufferInv, acceptorAt = "trie", NEW c \in Block,
           accepting \in ancestors[c], NEW i \in 1..Len(tipBuffer)
    PROVE  root[c] # tipBuffer[i]
<1>1. /\ accepting \in Block /\ acceptorTip \in Block /\ parent[accepting] = acceptorTip
      /\ Stored = acceptorTip
    BY Zenon DEF AcceptorInv, TypeInv, QueueInv, Stored, Up
<1>2. PICK a \in ancestors[acceptorTip] : root[a] = tipBuffer[i]
    BY Zenon, <1>1 DEF BufferInv
<1>3. /\ a \in ancestors[accepting] /\ number[accepting] = number[acceptorTip] + 1
      /\ number[a] <= number[acceptorTip] /\ a \in Block
    BY <1>1, <1>2, Child, ChainFacts
<1>4. a \in ancestors[c] /\ number[accepting] <= number[c]
    BY Zenon, <1>1, <1>3, ChainFacts
<1>5. a # c
    BY SMTT(30), <1>1, <1>3, <1>4, NumberType
<1> QED
    BY SMTT(30), <1>2, <1>4, <1>5, BlockTree

\* The acceptor writes the trie of its block.
LEMMA TrieStates ==
    ASSUME AcceptorInv, StatesInv, BufferInv, AcceptorTrie
    PROVE  StatesInv' /\ BufferInv'
<1> USE DEF indices, layers, call, recovery, env
<1>1. /\ acceptorAt = "trie" /\ acceptorAt' = "flatten" /\ AcceptTrie(accepting)
      /\ UNCHANGED <<mode, lastAccepted, accepting, acceptorTip, phase, target, processing,
                     previousRoot, cursor, durable, diskTip, clean>>
    BY Zenon DEF AcceptorTrie
<1>2. /\ Up /\ accepting \in Block /\ acceptorTip \in Block /\ lastAccepted \in Block
      /\ parent[accepting] = acceptorTip /\ accepting \in ancestors[lastAccepted]
      /\ Stored = acceptorTip /\ Stored' = accepting /\ TypeOK
    BY Zenon, <1>1 DEF AcceptorInv, TypeInv, TypeOK, QueueInv, Taken, Stored, Up
<1>3. ancestors[accepting] = {accepting} \cup ancestors[acceptorTip]
    BY Zenon, <1>2, Child
<1>4. /\ diskRoots \subseteq diskRoots'
      /\ \A x \in Readable :
            x \in Readable' \/ (Pruning /\ Len(tipBuffer) = StateHistory /\ x = tipBuffer[1])
      /\ ~Pruning /\ root[accepting] \in Readable => root[accepting] \in diskRoots'
    BY Zenon, <1>1, <1>2, AcceptTrieKeeps
<1>5. /\ tipBuffer \in Seq(Root) /\ StateHistory \in Nat \ {0} /\ Pruning \in BOOLEAN
      /\ root[accepting] \in Root
    BY Zenon, <1>2, CacheConfig DEF TypeOK, Root
<1>6. ASSUME NEW c \in Block, accepting \in ancestors[c], HasState(c)
      PROVE  root[c] \in Readable'
    <2>1. root[c] \in Readable
        BY Zenon, <1>6 DEF HasState, Readable
    <2>2. Len(tipBuffer) = StateHistory => root[c] # tipBuffer[1]
        BY SMTT(30), <1>1, <1>5, <1>6, EvictedRoot
    <2> QED
        BY Zenon, <1>4, <2>1, <2>2
<1>7. HasState(accepting) /\ root[accepting] \in Readable'
    <2>1. acceptorTip \in ancestors[accepting] /\ accepting \in ancestors[accepting]
        BY Zenon, <1>2, <1>3, SelfAncestor
    <2>2. HasState(accepting)
        BY Zenon, <1>2, <2>1 DEF StatesInv
    <2> QED
        BY Zenon, <1>2, <1>6, <2>1, <2>2
<1>8. Up' /\ phase # "reexecute" /\ mode \notin {"down", "failed"}
    BY Zenon, <1>1, <1>2 DEF AcceptorInv, CallInv, Up
<1>9. ASSUME NEW c \in Live' PROVE HasState(c)'
    <2>1. c \in Live /\ c \in Block /\ lastAccepted \in ancestors[c]
        BY Zenon, <1>1 DEF Live, AcceptorInv, TypeInv, TypeOK
    <2>2. accepting \in ancestors[c]
        BY Zenon, <1>2, <2>1, ChainFacts
    <2>3. HasState(c)
        BY Zenon, <1>2, <2>1 DEF StatesInv
    <2> QED
        BY Zenon, <1>6, <2>1, <2>2, <2>3 DEF HasState, Readable
<1>10. ASSUME NEW c \in ancestors[lastAccepted], accepting \in ancestors[c] PROVE HasState(c)'
    <2>1. c \in Block /\ acceptorTip \in ancestors[c]
        BY Zenon, <1>2, <1>3, <1>10, ChainFacts, SelfAncestor
    <2>2. HasState(c)
        BY Zenon, <1>2, <2>1 DEF StatesInv
    <2> QED
        BY Zenon, <1>6, <1>10, <2>1, <2>2 DEF HasState, Readable
<1>11. StatesInv'
    BY Zenon, <1>1, <1>2, <1>8, <1>9, <1>10 DEF StatesInv, FailureIsOvertakenAccept
<1>12. BufferInv'
    <2>1. CASE ~Pruning
        <3>1. tipBuffer' = tipBuffer /\ tipBuffer = <<>>
            BY Zenon, <1>1, <2>1 DEF AcceptTrie, BufferInv
        <3>2. root[accepting] \in diskRoots'
            BY Zenon, <1>4, <1>7, <2>1 DEF HasState, Readable
        <3>3. tipBuffer' = <<>>
            BY Zenon, <3>1
        <3> QED
            BY <1>2, <1>8, <3>2, <3>3 DEF BufferInv, Range
    <2>2. CASE Pruning
        <3> DEFINE full == Len(tipBuffer) = StateHistory
                   old == IF full THEN Tail(tipBuffer) ELSE tipBuffer
                   k == IF full THEN 1 ELSE 0
                   r == root[accepting]
        <3>1. tipBuffer' = Append(old, r)
            BY Zenon, <1>1, <2>2 DEF AcceptTrie, InsertTipBuffer
        <3>2. /\ old \in Seq(Root) /\ Len(old) = Len(tipBuffer) - k /\ k \in {0, 1}
              /\ \A i \in 1..Len(old) : i + k \in 1..Len(tipBuffer) /\ old[i] = tipBuffer[i + k]
            BY <1>5
        <3>3. /\ full => k = 1 /\ Len(tipBuffer) \in Nat
            OBVIOUS
        <3> HIDE DEF old, k
        <3>4. /\ Len(tipBuffer') = Len(old) + 1 /\ tipBuffer'[Len(old) + 1] = r
              /\ DOMAIN tipBuffer' = 1..(Len(old) + 1) /\ Len(old) \in Nat
              /\ \A i \in 1..Len(old) : tipBuffer'[i] = old[i]
            BY SMTT(30), <1>5, <3>1, <3>2
        <3>5. ASSUME NEW i \in 1..Len(old)
              PROVE  /\ old[i] \in Readable' /\ old[i] # r
                     /\ \E a \in ancestors[accepting] : root[a] = old[i]
                     /\ \A j \in 1..Len(old) : old[i] = old[j] => i = j
            <4>1. i + k \in 1..Len(tipBuffer) /\ old[i] = tipBuffer[i + k]
                BY Zenon, <3>2
            <4>2. tipBuffer[i + k] \in Readable
                BY <4>1 DEF BufferInv, Readable, Range
            <4>3. full => tipBuffer[i + k] # tipBuffer[1]
                BY <1>5, <3>2, <3>3, <4>1 DEF BufferInv
            <4>4. tipBuffer[i + k] \in Readable'
                BY Zenon, <1>4, <4>2, <4>3
            <4>5. r # tipBuffer[i + k]
                BY Zenon, <1>1, <1>2, <4>1, SelfAncestor, EvictedRoot
            <4>6. \E a \in ancestors[accepting] : root[a] = tipBuffer[i + k]
                BY Zenon, <1>2, <1>3, <4>1 DEF BufferInv
            <4>7. ASSUME NEW j \in 1..Len(old), old[i] = old[j] PROVE i = j
                <5>1. j + k \in 1..Len(tipBuffer) /\ old[j] = tipBuffer[j + k]
                    BY Zenon, <3>2
                <5>2. i + k = j + k
                    BY Zenon, <4>1, <4>7, <5>1 DEF BufferInv
                <5> QED
                    BY SMTT(30), <3>2, <3>4, <5>2
            <4> QED
                BY ZenonT(30), <4>1, <4>4, <4>5, <4>6, <4>7
        <3>6. tipBuffer' # <<>>
            BY <3>4
        <3>7. Range(tipBuffer') \subseteq Readable'
            <4> SUFFICES ASSUME NEW i \in 1..(Len(old) + 1) PROVE tipBuffer'[i] \in Readable'
                BY Zenon, <3>4 DEF Range
            <4> QED
                BY <1>7, <3>4, <3>5
        <3>8. \A i, j \in 1..Len(tipBuffer') : tipBuffer'[i] = tipBuffer'[j] => i = j
            <4> SUFFICES ASSUME NEW i \in 1..(Len(old) + 1), NEW j \in 1..(Len(old) + 1),
                                tipBuffer'[i] = tipBuffer'[j], i # j
                         PROVE  FALSE
                BY Zenon, <3>4
            <4> QED
                BY SMTT(30), <3>4, <3>5
        <3>9. \A i \in 1..Len(tipBuffer') : \E a \in ancestors[accepting] : root[a] = tipBuffer'[i]
            <4> SUFFICES ASSUME NEW i \in 1..(Len(old) + 1)
                         PROVE  \E a \in ancestors[accepting] : root[a] = tipBuffer'[i]
                BY Zenon, <3>4
            <4>1. CASE i = Len(old) + 1
                BY Zenon, <1>2, <3>4, <4>1, SelfAncestor
            <4>2. CASE i # Len(old) + 1
                BY <3>4, <3>5, <4>2
            <4> QED
                BY Zenon, <4>1, <4>2
        <3>10. tipBuffer'[Len(tipBuffer')] = r
            BY Zenon, <3>4
        <3> QED
            BY ZenonT(30), <1>2, <1>8, <2>2, <3>6, <3>7, <3>8, <3>9, <3>10 DEF BufferInv, Readable
    <2> QED
        BY Zenon, <2>1, <2>2
<1> QED
    BY Zenon, <1>11, <1>12

\* The state of an inserted block is in memory or on disk, and none is lost.
LEMMA InsertStates ==
    ASSUME AcceptorInv, ChainInv, BlocksInv, StatesInv, BufferInv, NEW b \in Block, InsertBlock(b)
    PROVE  StatesInv' /\ BufferInv'
<1> USE DEF indices, acceptor, recovery, env
<1>1. /\ mode = "running" /\ phase' = "insert" /\ phase = "idle"
      /\ MayCap(TrieUpdate(dirty, root[b]))
      /\ UNCHANGED <<tipBuffer, previousRoot, cursor, lastAccepted, mode, acceptorTip, accepting,
                     acceptorAt>>
    BY Zenon DEF InsertBlock, Ready
<1>2. dirty \in Seq(Root) /\ root[b] \in Root /\ diskRoots \in SUBSET Root
    BY Zenon DEF AcceptorInv, TypeInv, TypeOK, Root
<1> DEFINE s == TrieUpdate(dirty, root[b])
<1>3. s \in Seq(Root) /\ root[b] \in Range(s) /\ \A x \in Range(dirty) : x \in Range(s)
    BY Zenon, <1>2, TrieTypes, UpdateRange
<1>4. MayCap(s)
    BY Zenon, <1>1
<1> HIDE DEF s
<1>5. diskRoots \subseteq diskRoots' /\ \A x \in Range(s) : x \in Readable'
    BY Zenon, <1>3, <1>4, WriterKeeps
<1>6. Readable \subseteq Readable' /\ root[b] \in Readable'
    BY Zenon, <1>3, <1>5 DEF Readable
<1>7. Live' \subseteq Live \cup {b}
    BY Zenon, InsertBlocks
<1>8. Stored' = Stored /\ Up /\ Up'
    BY Zenon, <1>1 DEF Stored, Up
<1>9. StatesInv'
    BY ZenonT(30), <1>1, <1>6, <1>7, <1>8
       DEF StatesInv, HasState, Readable, FailureIsOvertakenAccept
<1>10. BufferInv'
    BY <1>1, <1>5, <1>6, <1>8 DEF BufferInv, Readable
<1> QED
    BY Zenon, <1>9, <1>10

\* Enqueue makes a live block the last accepted one.
LEMMA EnqueueStates ==
    ASSUME AcceptorInv, BlocksInv, StatesInv, BufferInv, Enqueue
    PROVE  /\ StatesInv' /\ BufferInv' /\ Live' \subseteq Live /\ target \in Live
           /\ ancestors[target] = {target} \cup ancestors[lastAccepted]
<1> USE DEF disk, layers, recovery, env
<1>1. /\ phase = "enqueue" /\ phase' = "commit" /\ lastAccepted' = target /\ mode = "running"
      /\ parent[target] = lastAccepted /\ target \in Block /\ target \in processing
      /\ UNCHANGED <<processing, mode, diskRoots, dirty, tipBuffer, previousRoot, cursor,
                     acceptorTip, accepting, acceptorAt, durable, diskTip, clean>>
    BY Zenon DEF Enqueue, AcceptorInv, CallInv, TypeInv
<1>2. lastAccepted \in Block /\ processing \subseteq Block
    BY Zenon DEF AcceptorInv, TypeInv, TypeOK
<1>3. ancestors[target] = {target} \cup ancestors[lastAccepted]
    BY Zenon, <1>1, <1>2, Child
<1>4. lastAccepted \in ancestors[target] /\ lastAccepted \notin processing
    BY Zenon, <1>1, <1>2, <1>3, SelfAncestor DEF BlocksInv
<1>5. target \in Live
    BY Zenon, <1>1, <1>4 DEF Live
<1>6. Live' \subseteq Live
    <2> SUFFICES ASSUME NEW c \in Live' PROVE c \in Live
        BY Zenon
    <2>1. c \in processing /\ target \in ancestors[c] /\ c \in Block
        BY Zenon, <1>1, <1>2 DEF Live
    <2> QED
        BY Zenon, <1>1, <1>4, <2>1, ChainFacts DEF Live
<1>7. Up /\ Up' /\ Stored' = Stored
    BY Zenon, <1>1 DEF Up, Stored
<1>8. StatesInv'
    BY ZenonT(30), <1>1, <1>3, <1>5, <1>6, <1>7 DEF StatesInv, HasState, FailureIsOvertakenAccept
<1>9. BufferInv'
    BY SMTT(30), <1>1, <1>7 DEF BufferInv
<1> QED
    BY Zenon, <1>3, <1>5, <1>6, <1>8, <1>9

\* The state re-execution begins with is on disk.
LEMMA SearchStates ==
    ASSUME AcceptorInv, StatesInv, BufferInv, Search
    PROVE  StatesInv' /\ BufferInv'
<1> USE DEF disk, acceptor, layers, env
<1>1. /\ phase = "search" /\ phase' = "reexecute" /\ mode = "loading"
      /\ UNCHANGED <<mode, lastAccepted, diskRoots, dirty, tipBuffer, previousRoot, acceptorTip,
                     accepting, acceptorAt>>
    BY Zenon DEF Search, AcceptorInv, CallInv
<1>2. ~Up /\ ~Up' /\ Stored' = Stored /\ dirty = <<>> /\ previousRoot = NoRoot
    BY Zenon, <1>1 DEF Up, Stored, StatesInv
<1>3. root[cursor'] \in diskRoots \cup Range(dirty)
    <2>1. CASE HasState(lastAccepted) /\ diskTip \in {NoBlock, lastAccepted}
        BY Zenon, <2>1 DEF Search, HasState
    <2>2. CASE ~(HasState(lastAccepted) /\ diskTip \in {NoBlock, lastAccepted})
        BY Zenon, <2>2 DEF Search, IsHighest, HasState
    <2> QED
        BY Zenon, <2>1, <2>2
<1>4. HasState(cursor)'
    BY Zenon, <1>1, <1>3 DEF HasState
<1>5. StatesInv'
    BY Zenon, <1>1, <1>2, <1>4 DEF StatesInv, FailureIsOvertakenAccept
<1>6. BufferInv'
    BY <1>1, <1>2 DEF BufferInv
<1> QED
    BY Zenon, <1>5, <1>6

\* Where re-execution stands when there is a block left: on the accepted chain.
LEMMA CursorAccepted ==
    ASSUME AcceptorInv, ChainInv, IndexInv, phase = "reexecute",
           number[cursor] < number[lastAccepted]
    PROVE  cursor \in ancestors[lastAccepted]
<1>1. /\ cursor \in Block /\ lastAccepted \in Block /\ decided \in Block
      /\ lastAccepted \in ancestors[decided] /\ diskTip \in Block \cup {NoBlock}
    BY Zenon DEF AcceptorInv, TypeInv, TypeOK, IndexInv
<1>2. CASE diskTip = NoBlock
    BY Zenon, <1>2 DEF IndexInv
<1>3. CASE diskTip # NoBlock
    <2>1. cursor \in ancestors[diskTip] /\ diskTip \in ancestors[decided] /\ diskTip \in Block
        BY Zenon, <1>1, <1>3 DEF IndexInv
    <2>2. cursor \in ancestors[decided]
        BY Zenon, <1>1, <2>1, ChainFacts
    <2> QED
        BY SMTT(30), <1>1, <2>2, ChainFacts, NumberType
<1> QED
    BY Zenon, <1>2, <1>3

\* Dereferencing the oldest root leaves the others.
LEMMA ForgetOldest ==
    ASSUME NEW s \in Seq(Root), s # <<>>, \A j \in 1..Len(s) : s[j] = s[1] => j = 1
    PROVE  Forget(s, s[1]) = Tail(s)
<1> DEFINE i == CHOOSE j \in DOMAIN s : s[j] = s[1]
<1>1. Len(s) \in Nat \ {0} /\ DOMAIN s = 1..Len(s) /\ 1 \in 1..Len(s)
    OBVIOUS
<1>2. i = 1 /\ s[1] \in Range(s)
    BY <1>1 DEF Range
<1>3. Forget(s, s[1]) = SubSeq(s, 1, i - 1) \o SubSeq(s, i + 1, Len(s))
    BY Zenon, <1>2 DEF Forget
<1> HIDE DEF i
<1>4. i - 1 = 0 /\ i + 1 = 2 /\ 0 < 1 /\ 0 \in Int /\ 1 \in Int
    BY <1>2
<1>5. SubSeq(s, 1, 0) = <<>>
    BY Zenon, <1>4, SubSeqEmpty
<1>6. SubSeq(s, 2, Len(s)) = Tail(s) /\ Tail(s) \in Seq(Root)
    BY Zenon, TailIsSubSeq, HeadTailProperties
<1>7. <<>> \o Tail(s) = Tail(s)
    BY Zenon, <1>6, ConcatEmptySeq
<1> QED
    BY Zenon, <1>3, <1>4, <1>5, <1>6, <1>7

\* Appending to a sequence of one root.
LEMMA AppendSecond ==
    ASSUME NEW S, NEW u \in Seq(S), NEW b \in S, Len(u) = 1
    PROVE  /\ Append(u, b) \in Seq(S) /\ Len(Append(u, b)) = 2
           /\ Append(u, b)[1] = u[1] /\ Append(u, b)[2] = b
BY SMTT(30), AppendProperties

\* Of two roots the second is left, and of one none.
LEMMA ForgetShort ==
    ASSUME NEW a \in Root, NEW b \in Root, a # b
    PROVE  /\ Forget(TrieUpdate(<<a>>, b), a) = <<b>>
           /\ Forget(TrieUpdate(<<>>, b), NoRoot) = <<b>>
<1>1. /\ <<a>> \in Seq(Root) /\ Len(<<a>>) = 1 /\ <<a>>[1] = a /\ DOMAIN <<a>> = 1..1
      /\ <<b>> \in Seq(Root) /\ Len(<<b>>) = 1 /\ <<b>>[1] = b /\ DOMAIN <<b>> = 1..1
      /\ <<>> \in Seq(Root) /\ DOMAIN <<>> = {} /\ Len(<<>>) = 0 /\ 1..1 = {1}
    OBVIOUS
<1>2. b \notin Range(<<a>>) /\ b \notin Range(<<>>) /\ NoRoot \notin Range(<<b>>)
    BY Zenon, <1>1, CacheConfig DEF Range
<1> DEFINE s == Append(<<a>>, b)
<1>3. TrieUpdate(<<a>>, b) = s /\ TrieUpdate(<<>>, b) = Append(<<>>, b)
    BY Zenon, <1>2 DEF TrieUpdate
<1>4. s \in Seq(Root) /\ Len(s) = 2 /\ s[1] = a /\ s[2] = b
    <2> DEFINE u == <<a>>
    <2>1. u \in Seq(Root) /\ Len(u) = 1 /\ u[1] = a /\ s = Append(u, b)
        BY Zenon, <1>1
    <2> HIDE DEF s, u
    <2>2. /\ Append(u, b) \in Seq(Root) /\ Len(Append(u, b)) = 2
          /\ Append(u, b)[1] = u[1] /\ Append(u, b)[2] = b
        BY ZenonT(30), <2>1, AppendSecond
    <2> QED
        BY Zenon, <2>1, <2>2
<1> HIDE DEF s
<1>5. s # <<>> /\ \A j \in 1..Len(s) : s[j] = s[1] => j = 1
    <2>1. 1..2 = {1, 2} /\ 2 # 0
        OBVIOUS
    <2> QED
        BY Zenon, <1>1, <1>4, <2>1
<1>6. Forget(s, a) = Tail(s)
    BY Zenon, <1>4, <1>5, ForgetOldest
<1>7. Tail(s) = <<b>>
    <2>1. /\ Tail(s) \in Seq(Root) /\ Len(Tail(s)) = Len(s) - 1
          /\ \A i \in 1..Len(Tail(s)) : Tail(s)[i] = s[i + 1]
        BY Zenon, <1>4, <1>5, HeadTailProperties
    <2> DEFINE v == Tail(s)
    <2> HIDE DEF v
    <2>2. v \in Seq(Root) /\ Len(v) = 1 /\ v[1] = b
        BY SMTT(30), <1>4, <2>1 DEF v
    <2>3. \A i \in 1..Len(v) : v[i] = <<b>>[i]
        BY Zenon, <1>1, <2>2
    <2> QED
        BY Zenon, <1>1, <2>2, <2>3, SeqEqual DEF v
<1>8. Append(<<>>, b) = <<b>>
    OBVIOUS
<1>9. Forget(<<b>>, NoRoot) = <<b>>
    BY Zenon, <1>2 DEF Forget
<1> QED
    BY Zenon, <1>3, <1>6, <1>7, <1>8, <1>9

\* Dereferencing the only root leaves none.
LEMMA ForgetOnly ==
    ASSUME NEW a \in Root
    PROVE  Forget(<<a>>, a) = <<>> /\ Forget(<<>>, NoRoot) = <<>> /\ a \in Range(<<a>>)
           /\ Range(<<>>) = {}
<1>1. /\ <<a>> \in Seq(Root) /\ Len(<<a>>) = 1 /\ <<a>>[1] = a /\ DOMAIN <<a>> = 1..1
      /\ 1..1 = {1} /\ <<a>> # <<>> /\ DOMAIN <<>> = {} /\ Tail(<<a>>) = <<>>
    OBVIOUS
<1>2. a \in Range(<<a>>) /\ Range(<<>>) = {}
    BY Zenon, <1>1 DEF Range
<1>3. Forget(<<a>>, <<a>>[1]) = Tail(<<a>>)
    BY Zenon, <1>1, ForgetOldest
<1>4. Forget(<<>>, NoRoot) = <<>>
    BY Zenon, <1>2 DEF Forget
<1> QED
    BY Zenon, <1>1, <1>2, <1>3, <1>4

\* One block is re-executed: its root is the only one in memory.
LEMMA ReexecuteStates ==
    ASSUME AcceptorInv, ChainInv, IndexInv, StatesInv, BufferInv, Reexecute
    PROVE  StatesInv' /\ BufferInv'
<1> USE DEF chain, indices, acceptor, call, env
<1> DEFINE next == canonical[number[cursor] + 1]
<1>1. /\ phase = "reexecute" /\ phase' = phase /\ number[cursor] < number[lastAccepted]
      /\ dirty' = Forget(TrieUpdate(dirty, root[next]), previousRoot)
      /\ previousRoot' = root[next] /\ cursor' = next
      /\ UNCHANGED <<mode, lastAccepted, diskRoots, tipBuffer, acceptorTip, accepting, acceptorAt>>
    BY Zenon DEF Reexecute
<1>2. mode = "loading" /\ ~Up /\ ~Up' /\ Stored' = Stored
    BY Zenon, <1>1 DEF AcceptorInv, CallInv, Up, Stored
<1>3. cursor \in ancestors[lastAccepted]
    BY Zenon, <1>1, CursorAccepted
<1>4. /\ next \in ancestors[lastAccepted] /\ parent[next] = cursor /\ cursor \in Block
      /\ next \in Block /\ number[next] = number[cursor] + 1
    BY Zenon, <1>1, <1>3, NextAccepted
<1> HIDE DEF next
<1>5. cursor \in ancestors[next] /\ cursor # next
    BY <1>4, Child, SelfAncestor, NumberType
<1>6. root[cursor] # root[next] /\ root[cursor] \in Root /\ root[next] \in Root
    BY ZenonT(30), <1>4, <1>5, BlockTree DEF Root
<1>7. dirty' = <<root[next]>>
    <2>1. CASE previousRoot = NoRoot /\ dirty = <<>>
        <3>1. Forget(TrieUpdate(<<>>, root[next]), NoRoot) = <<root[next]>>
            BY Zenon, <1>6, ForgetShort
        <3> QED
            BY Zenon, <1>1, <2>1, <3>1
    <2>2. CASE previousRoot = root[cursor] /\ dirty = <<root[cursor]>>
        <3>1. Forget(TrieUpdate(<<root[cursor]>>, root[next]), root[cursor]) = <<root[next]>>
            BY Zenon, <1>6, ForgetShort
        <3> QED
            BY Zenon, <1>1, <2>2, <3>1
    <2> QED
        BY Zenon, <1>1, <2>1, <2>2 DEF StatesInv
<1>8. HasState(cursor)'
    BY <1>1, <1>7 DEF HasState, Range
<1>9. StatesInv'
    BY ZenonT(30), <1>1, <1>2, <1>4, <1>7, <1>8 DEF StatesInv, FailureIsOvertakenAccept
<1>10. BufferInv'
    <2>1. tipBuffer = <<>>
        BY Zenon, <1>2 DEF BufferInv
    <2> QED
        BY <1>1, <1>2, <2>1 DEF BufferInv, Range
<1> QED
    BY Zenon, <1>9, <1>10

\* The end of a start: the state is there, or the tip on disk is above the last accepted block.
LEMMA LoadedStates ==
    ASSUME AcceptorInv, ChainInv, IndexInv, BlocksInv, StatesInv, BufferInv, Loaded
    PROVE  StatesInv' /\ BufferInv' /\ Live' = {} /\ headBlock = lastAccepted
<1> USE DEF chain, indices, env
<1>1. /\ phase = "reexecute" /\ phase' = "idle" /\ number[cursor] >= number[lastAccepted]
      /\ CommitRoot(dirty, previousRoot) /\ acceptorTip' = lastAccepted
      /\ mode' = (IF root[headBlock] \in diskRoots' \cup Range(dirty') THEN "running" ELSE "failed")
      /\ previousRoot' = NoRoot
      /\ UNCHANGED <<lastAccepted, tipBuffer, acceptorAt, processing, durable, diskTip>>
    BY Zenon DEF Loaded, Return
<1>2. /\ headBlock = lastAccepted /\ lastAccepted = durable /\ ~Up /\ acceptorAt = "idle"
      /\ cursor \in Block /\ lastAccepted \in Block /\ decided \in Block
      /\ diskTip \in Block \cup {NoBlock} /\ root[cursor] \in Root
      /\ diskRoots \in SUBSET Root
    BY Zenon, <1>1 DEF AcceptorInv, TypeInv, TypeOK, CallInv, QueueInv, Up, Root
<1>3. Live' = {} /\ Stored' = lastAccepted /\ tipBuffer' = <<>>
    BY Zenon, <1>1, <1>2 DEF Live, Stored, BufferInv, BlocksInv
<1>4. /\ dirty' = <<>>
      /\ \/ previousRoot = NoRoot /\ dirty = <<>> /\ diskRoots' = diskRoots
         \/ cursor \in ancestors[lastAccepted] /\ root[cursor] \in diskRoots'
    <2>1. CASE previousRoot = NoRoot /\ dirty = <<>>
        <3>1. Forget(<<>>, NoRoot) = <<>> /\ Range(<<>>) = {}
            BY Zenon, <1>2, ForgetOnly
        <3> QED
            BY Zenon, <1>1, <2>1, <3>1 DEF CommitRoot
    <2>2. CASE /\ previousRoot = root[cursor] /\ dirty = <<root[cursor]>>
               /\ cursor \in ancestors[lastAccepted]
        <3>1. Forget(<<root[cursor]>>, root[cursor]) = <<>> /\ root[cursor] \in Range(<<root[cursor]>>)
            BY Zenon, <1>2, ForgetOnly
        <3> QED
            BY Zenon, <1>1, <2>2, <3>1 DEF CommitRoot
    <2> QED
        BY Zenon, <1>1, <2>1, <2>2 DEF StatesInv
<1>5. Range(dirty') = {}
    BY SMTT(30), <1>4 DEF Range
<1>6. cursor \in ancestors[lastAccepted] => cursor = lastAccepted
    BY SMTT(30), <1>1, <1>2, AncestorLower, NumberType
<1>7. CASE mode' = "running"
    <2>1. root[lastAccepted] \in diskRoots' /\ Up'
        BY Zenon, <1>1, <1>2, <1>5, <1>7 DEF Up
    <2>2. ASSUME NEW b \in ancestors[lastAccepted], lastAccepted \in ancestors[b]
          PROVE  b = lastAccepted
        BY SMTT(30), <1>2, <2>2, ChainFacts, AncestorLower, NumberType
    <2>3. StatesInv'
        BY ZenonT(30), <1>1, <1>3, <1>4, <1>7, <2>1, <2>2
           DEF StatesInv, HasState, FailureIsOvertakenAccept
    <2>4. BufferInv'
        BY SMTT(30), <1>3, <2>1 DEF BufferInv, Range
    <2> QED
        BY Zenon, <1>2, <1>3, <2>3, <2>4
<1>8. CASE mode' = "failed"
    <2>1. root[lastAccepted] \notin diskRoots' /\ ~Up'
        BY ZenonT(30), <1>1, <1>2, <1>8 DEF Up
    <2>2. /\ cursor \notin ancestors[lastAccepted] /\ dirty = <<>> /\ diskRoots' = diskRoots
        BY SMTT(30), <1>4, <1>6, <2>1, <1>1 DEF StatesInv, HasState, Range
    <2>3. root[cursor] \in diskRoots
        BY <1>1, <2>2 DEF StatesInv, HasState, Range
    <2>4. /\ diskTip # NoBlock /\ diskTip \in Block /\ cursor \in ancestors[diskTip]
          /\ diskTip \in ancestors[decided] /\ number[diskTip] <= number[durable] + 1
          /\ lastAccepted \in ancestors[decided]
        BY Zenon, <1>1, <1>2, <2>2 DEF IndexInv
    <2>5. number[cursor] <= number[diskTip] /\ cursor \in ancestors[decided]
        BY Zenon, <1>2, <2>4, ChainFacts
    <2>6. number[cursor] # number[lastAccepted]
        BY ZenonT(30), <1>2, <2>2, <2>4, <2>5, OnePerHeight, SelfAncestor
    <2>7. number[cursor] = number[diskTip] /\ number[diskTip] > number[durable]
        BY SMTT(30), <1>1, <1>2, <2>4, <2>5, <2>6, NumberType
    <2>8. cursor = diskTip
        BY Zenon, <2>4, <2>7, OnePerHeight, SelfAncestor
    <2>9. FailureIsOvertakenAccept'
        BY ZenonT(30), <1>1, <1>2, <2>1, <2>2, <2>3, <2>4, <2>7, <2>8 DEF FailureIsOvertakenAccept
    <2>10. StatesInv'
        BY ZenonT(30), <1>1, <1>4, <1>8, <2>1, <2>9 DEF StatesInv
    <2>11. BufferInv'
        BY <1>3, <2>1 DEF BufferInv, Range
    <2> QED
        BY Zenon, <1>2, <1>3, <2>10, <2>11
<1> QED
    BY Zenon, <1>1, <1>7, <1>8

\* A stop leaves the state of the last accepted block on disk.
LEMMA StopStates ==
    ASSUME AcceptorInv, IndexInv, StatesInv, BufferInv, StopDrained
    PROVE  StatesInv' /\ BufferInv'
<1> USE DEF chain, indices
<1>1. /\ mode = "stopping" /\ acceptorQueue = <<>> /\ acceptorAt = "idle" /\ MemoryLost
      /\ diskRoots' = diskRoots \cup
            (IF tipBuffer = <<>> THEN {} ELSE {tipBuffer[Len(tipBuffer)]} \cap Range(dirty))
      /\ UNCHANGED <<durable, diskTip>>
    BY Zenon DEF StopDrained
<1>2. /\ Up /\ phase = "idle" /\ lastAccepted = durable /\ acceptorTip = lastAccepted
      /\ Stored = durable /\ tipBuffer \in Seq(Root)
    BY Zenon, <1>1 DEF AcceptorInv, TypeInv, TypeOK, CallInv, QueueInv, Taken, Up, Stored
<1>3. root[durable] \in diskRoots'
    <2>1. CASE tipBuffer = <<>>
        BY Zenon, <1>1, <1>2, <2>1 DEF BufferInv
    <2>2. CASE tipBuffer # <<>>
        <3>1. Len(tipBuffer) \in 1..Len(tipBuffer) /\ tipBuffer[Len(tipBuffer)] \in Range(tipBuffer)
            BY <1>2, <2>2 DEF Range
        <3>2. tipBuffer[Len(tipBuffer)] = root[durable]
            BY Zenon, <1>2, <2>2 DEF BufferInv
        <3> QED
            BY Zenon, <1>1, <2>2, <3>1, <3>2 DEF BufferInv
    <2> QED
        BY Zenon, <2>1, <2>2
<1>4. diskTip # NoBlock => durable \in ancestors[diskTip]
    BY Zenon, <1>2 DEF IndexInv
<1>5. StatesInv'
    BY ZenonT(30), <1>1, <1>3, <1>4 DEF StatesInv, MemoryLost, Up, FailureIsOvertakenAccept
<1>6. BufferInv'
    BY <1>1 DEF BufferInv, MemoryLost, Up, Range
<1> QED
    BY Zenon, <1>5, <1>6

\* Every step keeps the states that are needed.
LEMMA StatesNext ==
    AcceptorInv /\ ChainInv /\ IndexInv /\ BlocksInv /\ StatesInv /\ BufferInv /\ [Next]_vars
        => StatesInv' /\ BufferInv'
<1> SUFFICES ASSUME AcceptorInv, ChainInv, IndexInv, BlocksInv, StatesInv, BufferInv, [Next]_vars
             PROVE  StatesInv' /\ BufferInv'
    BY Zenon
<1> USE DEF disk, chain, indices, acceptor, layers, tries, call, recovery, env
<1>0. CallInv /\ QueueInv /\ TypeInv
    BY Zenon DEF AcceptorInv
<1>1. CASE ReorgLink \/ ReorgTrim \/ WriteHead \/ InsertTip \/ CommitLastAccepted
    <2>1. /\ UNCHANGED <<diskRoots, dirty, tipBuffer, previousRoot, cursor, lastAccepted, mode,
                         acceptorAt, acceptorTip, accepting>>
          /\ phase \notin {"idle", "reexecute"} /\ phase' \notin {"insert", "reexecute"}
        BY Zenon, <1>0, <1>1
           DEF ReorgLink, ReorgTrim, WriteHead, InsertTip, CommitLastAccepted, Return,
                          TypeInv
    <2>2. Live' \subseteq Live
        BY Zenon, <1>1, <2>1
           DEF Live, ReorgLink, ReorgTrim, WriteHead, InsertTip, CommitLastAccepted
    <2>3. mode' \notin {"down", "failed"}
        BY Zenon, <1>0, <2>1 DEF CallInv
    <2> QED
        BY Zenon, <2>1, <2>2, <2>3, StateFrame DEF Up, Stored
<1>2. CASE Acceptor /\ ~AcceptorTrie
    <2>1. /\ UNCHANGED <<diskRoots, dirty, tipBuffer, previousRoot, cursor, lastAccepted, mode,
                         phase, target, processing>>
          /\ Stored' = Stored /\ Up
        BY Zenon, <1>0, <1>2
           DEF Acceptor, AcceptorTake, AcceptorFlatten, AcceptorIndex, AcceptorTip,
                          AcceptorNotify, QueueInv, Stored
    <2>2. Live' \subseteq Live
        BY Zenon, <2>1 DEF Live
    <2> QED
        BY Zenon, <2>1, <2>2, StateFrame DEF Up
<1>3. CASE Start
    <2>1. /\ UNCHANGED <<diskRoots, dirty, tipBuffer, previousRoot, cursor, lastAccepted,
                         acceptorAt, acceptorTip, accepting, processing>>
          /\ mode \in {"down", "failed"} /\ phase = "idle" /\ mode' = "loading"
          /\ phase' \in {"head", "link", "search"}
        BY Zenon, <1>0, <1>3, BeginCall DEF Start, CallInv
    <2>2. Live' \subseteq Live
        BY Zenon, <2>1, LiveShrinks
    <2> QED
        BY Zenon, <2>1, <2>2, StateFrame DEF Up, Stored
<1>4. CASE Engine
    <2> SUFFICES ASSUME NEW b \in Block,
                        InsertBlock(b) \/ SetPreference(b) \/ Accept(b) \/ Reject(b)
                 PROVE  StatesInv' /\ BufferInv'
        BY Zenon, <1>4 DEF Engine
    <2>1. CASE InsertBlock(b)
        BY Zenon, <2>1, InsertStates
    <2>2. CASE SetPreference(b) \/ Accept(b) \/ Reject(b)
        <3>1. /\ UNCHANGED <<diskRoots, dirty, tipBuffer, previousRoot, cursor, lastAccepted,
                             acceptorAt, acceptorTip, accepting, mode>>
              /\ mode = "running" /\ phase = "idle" /\ processing' \subseteq processing
              /\ phase' \in {"idle", "link", "head", "enqueue"}
            BY Zenon, <2>2, BeginCall DEF SetPreference, Accept, Reject, Ready
        <3>2. Live' \subseteq Live
            BY Zenon, <3>1, LiveShrinks
        <3> QED
            BY Zenon, <3>1, <3>2, StateFrame DEF Up, Stored
    <2> QED
        BY Zenon, <2>1, <2>2
<1>5. CASE Stop
    <2>1. /\ UNCHANGED <<diskRoots, dirty, tipBuffer, previousRoot, cursor, lastAccepted,
                         acceptorAt, acceptorTip, accepting, phase, target, processing>>
          /\ mode = "running" /\ mode' = "stopping"
        BY Zenon, <1>5 DEF Stop, Ready
    <2>2. Live' \subseteq Live
        BY Zenon, <2>1 DEF Live
    <2> QED
        BY Zenon, <2>1, <2>2, StateFrame DEF Up, Stored
<1>6. CASE Crash
    <2>1. MemoryLost /\ clean' = FALSE
        BY Zenon, <1>6 DEF Crash
    <2>2. StatesInv'
        BY Zenon, <2>1 DEF StatesInv, MemoryLost, Up, FailureIsOvertakenAccept
    <2>3. BufferInv'
        BY <2>1 DEF BufferInv, MemoryLost, Up, Range
    <2> QED
        BY Zenon, <2>2, <2>3
<1>7. CASE UNCHANGED vars
    <2>1. StatesInv'
        BY ZenonT(30), <1>7
           DEF vars, StatesInv, HasState, FailureIsOvertakenAccept, Up, Stored, Live
    <2>2. BufferInv'
        BY <1>7 DEF vars, BufferInv, Up, Stored
    <2> QED
        BY Zenon, <2>1, <2>2
<1> QED
    BY ZenonT(30), <1>1, <1>2, <1>3, <1>4, <1>5, <1>6, <1>7, TrieStates, EnqueueStates,
       SearchStates,
       ReexecuteStates, LoadedStates, StopStates
       DEF Next, Writer, Load, Acceptor

-----------------------------------------------------------------------------
(* The snapshot layers.                                                    *)

\* The blocks whose trie and layer were handled last are accepted.
LEMMA HandledAccepted ==
    ASSUME AcceptorInv, Up
    PROVE  /\ Stored \in ancestors[lastAccepted] /\ Flattened \in ancestors[lastAccepted]
           /\ lastAccepted \in Block /\ acceptorTip \in ancestors[lastAccepted]
<1>1. /\ lastAccepted \in Block /\ Taken \in ancestors[lastAccepted] /\ acceptorTip \in Block
      /\ (acceptorAt # "idle" => accepting \in Block)
      /\ acceptorAt \in {"idle", "trie", "flatten", "index", "tip", "notify"}
    BY Zenon DEF AcceptorInv, TypeInv, TypeOK, QueueInv
<1>2. acceptorTip \in ancestors[lastAccepted]
    <2>1. CASE acceptorAt \in {"idle", "notify"}
        BY Zenon, <1>1, <2>1 DEF Taken, AcceptorInv, QueueInv
    <2>2. CASE acceptorAt \notin {"idle", "notify"}
        <3>1. parent[accepting] = acceptorTip /\ accepting \in ancestors[lastAccepted]
            BY Zenon, <1>1, <2>2 DEF Taken, AcceptorInv, QueueInv
        <3>2. acceptorTip \in ancestors[accepting]
            BY Zenon, <1>1, <2>2, <3>1, Child, SelfAncestor
        <3> QED
            BY Zenon, <1>1, <3>1, <3>2, ChainFacts
    <2> QED
        BY Zenon, <2>1, <2>2
<1> QED
    BY Zenon, <1>1, <1>2 DEF Stored, Flattened, Taken

\* Steps that leave the layers alone.
LEMMA LayersFrame ==
    ASSUME LayersInv, UNCHANGED <<diskLayer, diffLayers, lastAccepted, writeIndices, cursor>>,
           Up' <=> Up, Flattened' = Flattened, Live' \subseteq Live,
           phase = "reexecute" => phase' = "reexecute"
    PROVE  LayersInv'
BY Zenon DEF LayersInv

\* Flattening merges the layer of the block after the disk layer.
LEMMA FlattenLayers ==
    ASSUME AcceptorInv, LayersInv, Snapshots, AcceptorFlatten
    PROVE  LayersInv'
<1> USE DEF disk, call, recovery, env
<1>1. /\ acceptorAt = "flatten" /\ acceptorAt' = "index" /\ diskLayer' = accepting
      /\ diffLayers' = diffLayers \ {accepting}
      /\ UNCHANGED <<mode, lastAccepted, accepting, acceptorTip, phase, target, processing>>
    BY Zenon DEF AcceptorFlatten
<1>2. /\ Up /\ Up' /\ accepting \in Block /\ acceptorTip \in Block /\ lastAccepted \in Block
      /\ parent[accepting] = acceptorTip /\ accepting \in ancestors[lastAccepted]
      /\ Flattened = acceptorTip /\ Flattened' = accepting /\ processing \subseteq Block
    BY Zenon, <1>1 DEF AcceptorInv, TypeInv, TypeOK, QueueInv, Taken, Flattened, Up
<1>3. ASSUME NEW c \in Live' PROVE c \in diffLayers'
    <2>1. c \in Live /\ lastAccepted \in ancestors[c] /\ c # lastAccepted /\ c \in Block
        BY Zenon, <1>1, <1>2 DEF Live, AcceptorInv, TypeInv
    <2>2. number[lastAccepted] < number[c] /\ number[accepting] <= number[lastAccepted]
        BY ZenonT(30), <1>2, <2>1, AncestorLower, ChainFacts
    <2>3. c # accepting
        BY <1>2, <2>1, <2>2, NumberType
    <2> QED
        BY Zenon, <1>1, <1>2, <2>1, <2>3 DEF LayersInv
<1>4. ASSUME NEW c \in ancestors[lastAccepted], accepting \in ancestors[c], c # accepting
      PROVE  c \in diffLayers'
    <2>1. c \in Block /\ acceptorTip \in ancestors[accepting]
        BY <1>2, ChainFacts, Child, SelfAncestor
    <2>2. acceptorTip \in ancestors[c] /\ number[accepting] <= number[c]
          /\ number[accepting] = number[acceptorTip] + 1
        BY Zenon, <1>2, <1>4, <2>1, ChainFacts, Child
    <2>3. c # acceptorTip
        BY <1>2, <2>1, <2>2, NumberType
    <2> QED
        BY ZenonT(30), <1>1, <1>2, <1>4, <2>2, <2>3 DEF LayersInv
<1> QED
    BY Zenon, <1>1, <1>2, <1>3, <1>4 DEF LayersInv

\* Every step keeps the layers that are needed.
LEMMA LayersNext ==
    ASSUME Snapshots, AcceptorInv, ChainInv, IndexInv, BlocksInv, StatesInv, BufferInv,
           LayersInv, [Next]_vars
    PROVE  LayersInv'
<1> USE DEF disk, chain, indices, acceptor, layers, tries, call, recovery, env
<1>0. CallInv /\ QueueInv /\ TypeInv
    BY Zenon DEF AcceptorInv
<1>1. CASE ReorgLink \/ ReorgTrim \/ WriteHead \/ InsertTip \/ CommitLastAccepted
    <2>1. /\ UNCHANGED <<diskLayer, diffLayers, writeIndices, cursor, lastAccepted, mode,
                         acceptorAt, acceptorTip, accepting>>
          /\ phase \notin {"idle", "reexecute"} /\ phase' \notin {"insert", "reexecute"}
        BY Zenon, <1>0, <1>1
           DEF ReorgLink, ReorgTrim, WriteHead, InsertTip, CommitLastAccepted, Return,
                          TypeInv
    <2>2. Live' \subseteq Live
        BY Zenon, <1>1, <2>1
           DEF Live, ReorgLink, ReorgTrim, WriteHead, InsertTip, CommitLastAccepted
    <2> QED
        BY Zenon, <2>1, <2>2, LayersFrame DEF Up, Flattened
<1>2. CASE Enqueue
    <2>1. /\ Live' \subseteq Live /\ target \in Live
          /\ ancestors[target] = {target} \cup ancestors[lastAccepted]
        BY Zenon, <1>2, EnqueueStates
    <2>2. /\ lastAccepted' = target /\ mode = "running"
          /\ UNCHANGED <<diskLayer, diffLayers, mode, acceptorAt, acceptorTip, accepting>>
        BY Zenon, <1>0, <1>2 DEF Enqueue, CallInv
    <2>3. Up /\ Up' /\ Flattened' = Flattened
        BY Zenon, <2>2 DEF Up, Flattened
    <2> QED
        BY Zenon, <2>1, <2>2, <2>3 DEF LayersInv
<1>3. CASE Acceptor /\ ~AcceptorFlatten
    <2>1. /\ UNCHANGED <<diskLayer, diffLayers, writeIndices, cursor, lastAccepted, mode,
                         phase, target, processing>>
          /\ Flattened' = Flattened
        BY Zenon, <1>0, <1>3 DEF Acceptor, AcceptorTake, AcceptorTrie, AcceptorIndex, AcceptorTip,
                          AcceptorNotify, QueueInv, Flattened
    <2>2. Live' \subseteq Live
        BY Zenon, <2>1 DEF Live
    <2> QED
        BY Zenon, <2>1, <2>2, LayersFrame DEF Up
<1>4. CASE Start
    <2>1. /\ UNCHANGED <<diskLayer, diffLayers, writeIndices, cursor, lastAccepted,
                         acceptorAt, acceptorTip, accepting, processing>>
          /\ mode \in {"down", "failed"} /\ phase = "idle" /\ mode' = "loading"
          /\ phase' \in {"head", "link", "search"}
        BY Zenon, <1>0, <1>4, BeginCall DEF Start, CallInv
    <2>2. Live' \subseteq Live
        BY Zenon, <2>1, LiveShrinks
    <2> QED
        BY Zenon, <2>1, <2>2, LayersFrame DEF Up, Flattened
<1>5. CASE Search
    <2>1. /\ UNCHANGED <<diskLayer, lastAccepted, mode>> /\ phase = "search" /\ mode = "loading"
        BY Zenon, <1>0, <1>5 DEF Search, CallInv
    <2> QED
        BY Zenon, <2>1 DEF LayersInv, Up
<1>6. CASE Reexecute
    <2>1. /\ UNCHANGED <<lastAccepted, mode>> /\ phase = "reexecute" /\ phase' = "reexecute"
          /\ mode = "loading"
          /\ \/ writeIndices' = TRUE /\ diskLayer' = cursor'
             \/ ~writeIndices /\ diskLayer' = diskLayer
        BY Zenon, <1>0, <1>6 DEF Reexecute, CallInv
    <2> QED
        BY Zenon, <2>1 DEF LayersInv, Up
<1>7. CASE Loaded
    <2>1. /\ phase = "reexecute" /\ number[cursor] >= number[lastAccepted]
          /\ diskLayer' = (IF diskLayer = NoBlock THEN headBlock ELSE diskLayer)
          /\ acceptorTip' = lastAccepted /\ mode = "loading"
          /\ UNCHANGED <<lastAccepted, acceptorAt, diffLayers>>
        BY Zenon, <1>0, <1>7 DEF Loaded, CallInv
    <2>2. Live' = {} /\ headBlock = lastAccepted
        BY Zenon, <1>7, LoadedStates
    <2>3. cursor \in Block /\ lastAccepted \in Block /\ acceptorAt = "idle" /\ ~Up
        BY Zenon, <1>0, <2>1 DEF TypeInv, TypeOK, QueueInv, Up
    <2>4. writeIndices => cursor = lastAccepted
        <3> SUFFICES ASSUME writeIndices PROVE cursor = lastAccepted
            BY Zenon
        <3>1. cursor \in ancestors[lastAccepted]
            BY Zenon DEF IndexInv
        <3> QED
            BY SMTT(30), <2>1, <2>3, <3>1, AncestorLower, NumberType
    <2>5. diskLayer' = lastAccepted /\ Flattened' = lastAccepted
        BY ZenonT(30), <2>1, <2>2, <2>3, <2>4 DEF LayersInv, Flattened
    <2>6. ASSUME NEW c \in ancestors[lastAccepted], lastAccepted \in ancestors[c]
          PROVE  c = lastAccepted
        BY SMTT(30), <2>3, <2>6, ChainFacts, AncestorLower, NumberType
    <2> QED
        BY Zenon, <2>1, <2>2, <2>5, <2>6 DEF LayersInv
<1>8. CASE Engine
    <2> SUFFICES ASSUME NEW b \in Block,
                        InsertBlock(b) \/ SetPreference(b) \/ Accept(b) \/ Reject(b)
                 PROVE  LayersInv'
        BY Zenon, <1>8 DEF Engine
    <2>0. mode = "running" /\ phase = "idle" /\ Up /\ lastAccepted \in Block
        BY Zenon, <1>0 DEF InsertBlock, SetPreference, Accept, Reject, Ready, Up, TypeInv, TypeOK
    <2>1. CASE InsertBlock(b)
        <3>1. /\ diffLayers' = diffLayers \cup {b}
              /\ UNCHANGED <<diskLayer, lastAccepted, mode, acceptorAt, acceptorTip, accepting>>
            BY Zenon, <2>1 DEF InsertBlock
        <3>2. Live' \subseteq Live \cup {b}
            BY Zenon, <2>1, InsertBlocks
        <3>3. Up' /\ Flattened' = Flattened
            BY Zenon, <2>0, <3>1 DEF Up, Flattened
        <3> QED
            BY ZenonT(30), <2>0, <3>1, <3>2, <3>3 DEF LayersInv
    <2>2. CASE SetPreference(b) \/ Accept(b)
        <3>1. /\ UNCHANGED <<diskLayer, diffLayers, writeIndices, cursor, lastAccepted,
                             acceptorAt, acceptorTip, accepting, mode, processing>>
              /\ phase' \in {"link", "head", "enqueue"}
            BY Zenon, <2>2, BeginCall DEF SetPreference, Accept
        <3>2. Live' \subseteq Live
            BY Zenon, <3>1, LiveShrinks
        <3> QED
            BY ZenonT(30), <2>0, <3>1, <3>2, LayersFrame DEF Up, Flattened
    <2>3. CASE Reject(b)
        <3>1. /\ diffLayers' = diffLayers \ {b} /\ processing' = processing \ {b}
              /\ UNCHANGED <<diskLayer, lastAccepted, mode, acceptorAt, acceptorTip, accepting,
                             phase>>
            BY Zenon, <2>3 DEF Reject
        <3>2. Live' \subseteq Live /\ b \notin Live'
            BY Zenon, <2>0, <3>1 DEF Live
        <3>3. b \notin ancestors[lastAccepted]
            BY ZenonT(30), <2>0, <2>3, RejectedApart, SelfAncestor
        <3>4. Up' /\ Flattened' = Flattened
            BY Zenon, <2>0, <3>1 DEF Up, Flattened
        <3> QED
            BY ZenonT(30), <2>0, <3>1, <3>2, <3>3, <3>4 DEF LayersInv
    <2> QED
        BY ZenonT(30), <2>1, <2>2, <2>3
<1>9. CASE Stop
    <2>1. /\ UNCHANGED <<diskLayer, diffLayers, writeIndices, cursor, lastAccepted,
                         acceptorAt, acceptorTip, accepting, phase, target, processing>>
          /\ mode = "running" /\ mode' = "stopping"
        BY Zenon, <1>9 DEF Stop, Ready
    <2>2. Live' \subseteq Live
        BY Zenon, <2>1 DEF Live
    <2> QED
        BY Zenon, <2>1, <2>2, LayersFrame DEF Up, Flattened
<1>10. CASE StopDrained \/ Crash
    BY Zenon, <1>10 DEF StopDrained, Crash, MemoryLost, LayersInv, Up
<1>11. CASE UNCHANGED vars
    BY Zenon, <1>11 DEF vars, LayersInv, Up, Flattened, Live
<1> QED
    BY ZenonT(30), <1>1, <1>2, <1>3, <1>4, <1>5, <1>6, <1>7, <1>8, <1>9, <1>10, <1>11,
       FlattenLayers
       DEF Next, Writer, Load, Acceptor

-----------------------------------------------------------------------------
(* What the engine and a restart find.                                     *)

\* The invariant holds of every reachable state.
LEMMA StateAlways ==
    ASSUME OneBatch PROVE Spec => [](AcceptorInv /\ ChainInv /\ IndexInv /\ StateInv)
<1>1. Init => StateInv
    <2> SUFFICES ASSUME Init PROVE StateInv
        BY Zenon
    <2>1. BlocksInv
        BY Zenon, BlockTree DEF Init, BlocksInv, Live
    <2>2. StatesInv
        BY ZenonT(30), SelfAncestor, BlockTree DEF Init, StatesInv, Up, FailureIsOvertakenAccept
    <2>3. BufferInv
        BY DEF Init, BufferInv, Up, Range
    <2>4. LayersInv
        BY Zenon DEF Init, LayersInv, Up
    <2> QED
        BY Zenon, <2>1, <2>2, <2>3, <2>4 DEF StateInv
<1>2. AcceptorInv /\ ChainInv /\ IndexInv /\ StateInv /\ [Next]_vars => StateInv'
    BY Zenon, BlocksNext, StatesNext, LayersNext DEF StateInv
<1> QED
    BY <1>1, <1>2, IndexAlways, PTL DEF Spec

\* A reorganisation is possible when the two chains are stored and meet at or above the last
\* accepted block.
LEMMA ReorgPossible ==
    ASSUME NEW a \in Block, NEW b \in Block, headBlock \in Block, a \in ancestors[headBlock],
           a \in ancestors[b], ancestors[headBlock] \subseteq blocks, ancestors[b] \subseteq blocks,
           \A c \in ancestors[headBlock] \cap ancestors[b] : c \in ancestors[a]
    PROVE  ReorgAllowed(b, a)
<1>1. IsHighest(a, ancestors[headBlock] \cap ancestors[b])
    BY Zenon, ChainFacts DEF IsHighest
<1>2. Walked(b, a) \subseteq blocks
    BY Zenon DEF Walked
<1>3. number[a] >= number[a]
    BY NumberType
<1> QED
    BY Zenon, <1>1, <1>2, <1>3 DEF ReorgAllowed

\* Whatever the acceptor, a reorganisation or a restart does meanwhile, a block that may still
\* be accepted can be verified, and then accepted (blockchain.go, insertBlock, Accept, Reject
\* and reorg; state_manager.go).
THEOREM LiveBlocksStayUsable == ASSUME OneBatch PROVE Spec => []LiveBlocksUsable
<1>1. AcceptorInv /\ ChainInv /\ StateInv => LiveBlocksUsable
    <2> SUFFICES ASSUME AcceptorInv, ChainInv, StateInv, Ready, NEW b \in Block \ {Genesis}
                 PROVE  /\ Verifiable(b) /\ lastAccepted \in ancestors[b] =>
                              /\ parent[b] \in blocks /\ HasState(parent[b])
                              /\ Snapshots => parent[b] \in Layers
                        /\ b \in processing /\ parent[b] = lastAccepted =>
                              \/ canonical[number[b]] = b /\ b \in ancestors[headBlock]
                              \/ parent[b] = headBlock
                              \/ ReorgAllowed(b, lastAccepted)
        BY Zenon DEF LiveBlocksUsable
    <2>1. /\ BlocksInv /\ StatesInv /\ (Snapshots => LayersInv) /\ Up /\ phase = "idle"
          /\ lastAccepted \in Block /\ headBlock \in Block /\ processing \subseteq Block
          /\ lastAccepted \in ancestors[headBlock]
          /\ \A c \in ancestors[headBlock] : canonical[number[c]] = c
        BY Zenon DEF StateInv, Ready, Up, AcceptorInv, TypeInv, TypeOK, ChainInv, Synced
    <2>2. /\ parent[b] \in Block /\ ancestors[b] = {b} \cup ancestors[parent[b]]
        BY Zenon, BlockTree
    <2>3. processing \cap ancestors[lastAccepted] = {}
        BY Zenon, <2>1 DEF BlocksInv
    <2>4. ASSUME Verifiable(b), lastAccepted \in ancestors[b]
          PROVE  /\ parent[b] \in blocks /\ HasState(parent[b])
                 /\ Snapshots => parent[b] \in Layers
        <3>1. CASE parent[b] = lastAccepted
            <4>1. Stored \in ancestors[lastAccepted] /\ Flattened \in ancestors[lastAccepted]
                BY Zenon, <2>1, HandledAccepted
            <4>2. lastAccepted \in ancestors[lastAccepted] /\ lastAccepted \in blocks
                BY Zenon, <2>1, SelfAncestor DEF BlocksInv
            <4>3. HasState(lastAccepted)
                BY Zenon, <2>1, <4>1, <4>2 DEF StatesInv
            <4>4. Snapshots => lastAccepted \in Layers
                BY Zenon, <2>1, <4>1, <4>2 DEF LayersInv, Layers
            <4> QED
                BY Zenon, <3>1, <4>2, <4>3, <4>4
        <3>2. CASE parent[b] # lastAccepted
            <4>1. parent[b] \in processing
                BY Zenon, <2>4, <3>2 DEF Verifiable
            <4>2. b # lastAccepted
                BY Zenon, <2>2, <2>3, <4>1, SelfAncestor
            <4>3. parent[b] \in Live
                BY Zenon, <2>2, <2>4, <3>2, <4>1, <4>2 DEF Live
            <4>4. parent[b] \in ancestors[parent[b]]
                BY Zenon, <2>2, SelfAncestor
            <4> QED
                BY Zenon, <2>1, <4>3, <4>4 DEF BlocksInv, StatesInv, LayersInv, Layers
        <3> QED
            BY Zenon, <3>1, <3>2
    <2>5. ASSUME b \in processing, parent[b] = lastAccepted, b \notin ancestors[headBlock]
          PROVE  ReorgAllowed(b, lastAccepted)
        <3>1. lastAccepted \in ancestors[b] /\ b # lastAccepted
            BY Zenon, <2>1, <2>2, <2>5, SelfAncestor
        <3>2. ancestors[b] \subseteq blocks /\ ancestors[headBlock] \subseteq blocks
            BY Zenon, <2>1, <2>5, <3>1 DEF BlocksInv, Live
        <3>3. \A c \in ancestors[headBlock] \cap ancestors[b] : c \in ancestors[lastAccepted]
            BY Zenon, <2>2, <2>5
        <3> QED
            BY ZenonT(30), <2>1, <3>1, <3>2, <3>3, ReorgPossible
    <2> QED
        BY Zenon, <2>1, <2>4, <2>5
<1> QED
    BY <1>1, StateAlways, PTL

\* The acceptor can always flatten, and a start after any crash finds its blocks, its backlog
\* and its state, but for an Accept that the acceptor had overtaken (blockchain.go,
\* startAcceptor, loadLastState and reprocessState; state_manager.go, Shutdown).
THEOREM RestartIsSafe == ASSUME OneBatch PROVE Spec => []RestartSafety
<1>1. AcceptorInv /\ ChainInv /\ IndexInv /\ StateInv => RestartSafety
    <2> SUFFICES ASSUME AcceptorInv, ChainInv, IndexInv, StateInv PROVE RestartSafety
        BY Zenon
    <2>1. BlocksInv /\ StatesInv /\ BufferInv /\ (Snapshots => LayersInv)
        BY Zenon DEF StateInv
    <2>2. /\ lastAccepted \in Block /\ headBlock \in Block /\ durable \in Block
          /\ lastAccepted \in ancestors[headBlock]
        BY Zenon DEF AcceptorInv, TypeInv, TypeOK, ChainInv
    <2>3. FlattenPossible
        <3> SUFFICES ASSUME acceptorAt \in {"trie", "flatten"}, Snapshots PROVE CanFlatten(accepting)
            BY Zenon DEF FlattenPossible
        <3>1. /\ Up /\ accepting \in Block /\ acceptorTip \in Block /\ Flattened = acceptorTip
              /\ parent[accepting] = acceptorTip /\ accepting \in ancestors[lastAccepted]
            BY Zenon DEF AcceptorInv, TypeInv, QueueInv, Taken, Flattened
        <3>2. acceptorTip \in ancestors[accepting] /\ accepting # acceptorTip
            BY SMTT(30), <3>1, Child, SelfAncestor, NumberType
        <3> QED
            BY Zenon, <2>1, <3>1, <3>2 DEF LayersInv, CanFlatten
    <2>4. RestartPossible
        <3> SUFFICES ASSUME mode = "down" PROVE /\ {headBlock, durable} \subseteq blocks
                                                /\ ReorgAllowed(durable, durable)
            BY Zenon DEF RestartPossible
        <3>1. durable = lastAccepted
            BY Zenon DEF AcceptorInv, CallInv
        <3>2. ancestors[headBlock] \subseteq blocks /\ ancestors[durable] \subseteq blocks
            BY Zenon, <2>1, <2>2, <3>1, ChainFacts DEF BlocksInv
        <3>3. durable \in ancestors[durable] /\ headBlock \in ancestors[headBlock]
            BY Zenon, <2>2, SelfAncestor
        <3>4. ReorgAllowed(durable, durable)
            BY Zenon, <2>2, <3>1, <3>2, <3>3, ReorgPossible
        <3> QED
            BY Zenon, <3>2, <3>3, <3>4
    <2>5. ReexecutionFollowsChain
        <3> SUFFICES ASSUME phase = "reexecute", number[cursor] < number[lastAccepted]
                     PROVE  LET next == canonical[number[cursor] + 1]
                            IN next \in blocks /\ parent[next] = cursor /\ HasState(cursor)
            BY Zenon DEF ReexecutionFollowsChain
        <3> DEFINE next == canonical[number[cursor] + 1]
        <3>1. cursor \in ancestors[lastAccepted]
            BY Zenon, CursorAccepted
        <3>2. next \in ancestors[lastAccepted] /\ parent[next] = cursor
            BY ZenonT(30), <3>1, NextAccepted
        <3>3. next \in blocks
            BY SMTT(30), <2>1, <2>2, <3>2, ChainFacts DEF BlocksInv
        <3> QED
            BY Zenon, <2>1, <3>2, <3>3 DEF StatesInv
    <2>6. CleanStopKeepsAll /\ FailureIsOvertakenAccept
        BY Zenon, <2>1 DEF StatesInv, CleanStopKeepsAll
    <2>7. RecentStateReadable
        BY Zenon, <2>1 DEF BufferInv, RecentStateReadable
    <2> QED
        BY Zenon, <2>3, <2>4, <2>5, <2>6, <2>7, BacklogFollows DEF RestartSafety
<1> QED
    BY <1>1, StateAlways, PTL
=============================================================================
