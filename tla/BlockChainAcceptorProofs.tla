----------------------- MODULE BlockChainAcceptorProofs -----------------------
(***************************************************************************)
(* The acceptor: its events follow the accepted chain, its queue is the    *)
(* chain above the tip it has handled, and the transaction lookups have no *)
(* hole below the tip on disk, crashes and restarts included.              *)
(***************************************************************************)
EXTENDS BlockChainProofs

-----------------------------------------------------------------------------
(* Invariants.                                                             *)

\* The process accepts blocks.
Up == mode \in {"running", "stopping"}

\* Where the call that holds chainmu stands, and what it is about.
CallInv ==
    /\ mode = "loading" <=> op = "load"
    /\ mode \in {"down", "failed", "stopping"} => phase = "idle"
    /\ phase \in {"idle", "insert"} => op = "none"
    /\ phase = "insert" => mode = "running"
    /\ phase \in {"search", "reexecute"} => op = "load" /\ headBlock = lastAccepted
    /\ phase \in {"enqueue", "commit"} => op = "accept"
    /\ op = "load" => target = lastAccepted
    /\ op = "accept" => /\ mode = "running" /\ target \in processing
                        /\ parent[target] = IF phase = "commit" THEN durable ELSE lastAccepted
    /\ lastAccepted = IF phase = "commit" THEN target ELSE durable

\* The last block that the acceptor took.
Taken == IF acceptorAt = "idle" THEN acceptorTip ELSE accepting

\* The queue continues the chain from the last block taken to the last accepted one, and
\* the last event was sent for the tip, or for its parent while the next one is due.
QueueInv ==
    /\ ~Up => acceptorQueue = <<>> /\ acceptorAt = "idle" /\ announced = NoBlock
    /\ Up => /\ acceptorTip \in Block /\ Taken \in ancestors[lastAccepted]
             /\ \A i \in 1..Len(acceptorQueue) : acceptorQueue[i] \in ancestors[lastAccepted]
             /\ \A i \in 1..Len(acceptorQueue) :
                   parent[acceptorQueue[i]] = IF i = 1 THEN Taken ELSE acceptorQueue[i - 1]
             /\ lastAccepted = IF acceptorQueue = <<>> THEN Taken
                               ELSE acceptorQueue[Len(acceptorQueue)]
    /\ acceptorAt \in {"trie", "flatten", "index", "tip"} => parent[accepting] = acceptorTip
    /\ acceptorAt = "notify" => accepting = acceptorTip
    /\ announced # NoBlock =>
          announced = IF acceptorAt = "notify" THEN parent[accepting] ELSE acceptorTip

AcceptorInv == TypeInv /\ CallInv /\ QueueInv

\* The network's decision is above all that was accepted, and the tip on disk is at most one
\* block above the last accepted ID on disk.  Lookups have no hole below the tip on disk,
\* which a re-execution follows once it has reached it.
IndexInv ==
    /\ lastAccepted \in ancestors[decided]
    /\ op = "accept" => target \in ancestors[decided]
    /\ diskTip = NoBlock => txLookup = {}
    /\ diskTip # NoBlock =>
          /\ diskTip \in ancestors[decided] /\ number[diskTip] <= number[durable] + 1
          /\ \A x \in txLookup, y \in ancestors[diskTip] : number[x] < number[y] => y \in txLookup
          /\ Up => acceptorTip \in ancestors[diskTip]
          /\ phase = "reexecute" => cursor \in ancestors[diskTip]
    /\ acceptorAt \in {"tip", "notify"} => diskTip = accepting
    /\ phase = "reexecute" /\ diskTip = NoBlock => cursor \in ancestors[lastAccepted]
    /\ writeIndices => phase = "reexecute" /\ diskTip = cursor /\ cursor \in ancestors[lastAccepted]

-----------------------------------------------------------------------------
(* The acceptor's queue and its events.                                    *)

\* What a step of writeKnownBlock begins.
LEMMA BeginCall ==
    ASSUME NEW b, NEW why, NEW a, BeginWriteKnown(b, why, a)
    PROVE  phase' \in {"head", "link"} /\ op' = why /\ target' = b
BY Zenon DEF BeginWriteKnown

\* The call that holds chainmu.
LEMMA CallNext == TypeInv /\ CallInv /\ [Next]_vars => CallInv'
<1> SUFFICES ASSUME TypeInv, CallInv, [Next]_vars PROVE CallInv'
    BY Zenon
<1>0. TypeOK
    BY Zenon DEF TypeInv
<1> USE DEF disk, chain, indices, acceptor, layers, tries, call, recovery, env
<1>1. CASE ReorgLink
    BY Zenon, <1>1 DEF ReorgLink, CallInv
<1>2. CASE ReorgTrim
    <2>1. /\ phase \in {"link", "trim"} /\ phase' \in {"head", "trim"}
          /\ UNCHANGED <<headBlock, durable, mode, lastAccepted, processing, op, target>>
        BY Zenon, <1>2 DEF ReorgTrim
    <2> QED
        BY Zenon, <2>1 DEF CallInv
<1>3. CASE WriteHead
    <2>1. /\ phase = "head" /\ headBlock' = target /\ op \in {"prefer", "accept", "load"}
          /\ UNCHANGED <<durable, mode, lastAccepted, processing>>
        BY Zenon, <1>3 DEF WriteHead, writeHeadBlock, TypeInv
    <2>2. CASE op = "prefer"
        BY Zenon, <1>3, <2>1, <2>2 DEF WriteHead, Return, CallInv
    <2>3. CASE op = "accept"
        BY Zenon, <1>3, <2>1, <2>3 DEF WriteHead, CallInv
    <2>4. CASE op = "load"
        BY Zenon, <1>3, <2>1, <2>4 DEF WriteHead, CallInv
    <2> QED
        BY Zenon, <2>1, <2>2, <2>3, <2>4
<1>4. CASE InsertTip
    BY Zenon, <1>4 DEF InsertTip, Return, CallInv
<1>5. CASE Enqueue
    BY Zenon, <1>5 DEF Enqueue, CallInv
<1>6. CASE CommitLastAccepted
    BY Zenon, <1>6 DEF CommitLastAccepted, Return, CallInv
<1>7. CASE Acceptor
    BY Zenon, <1>7 DEF Acceptor, AcceptorTake, AcceptorTrie, AcceptorFlatten, AcceptorIndex,
                AcceptorTip, AcceptorNotify, CallInv
<1>8. CASE Start
    <2>1. /\ mode \in {"down", "failed"} /\ mode' = "loading"
          /\ phase' \in {"head", "link", "search"} /\ op' = "load" /\ target' = durable
          /\ (phase' = "search" => headBlock = durable)
          /\ UNCHANGED <<headBlock, durable, lastAccepted, processing>>
        BY Zenon, <1>8, BeginCall DEF Start
    <2> QED
        BY Zenon, <2>1 DEF CallInv
<1>9. CASE Search
    BY Zenon, <1>9 DEF Search, CallInv
<1>10. CASE Reexecute
    BY Zenon, <1>10 DEF Reexecute, CallInv
<1>11. CASE Loaded
    <2>1. /\ phase = "reexecute" /\ phase' = "idle" /\ op' = "none" /\ target' = NoBlock
          /\ mode' \in {"running", "failed"}
          /\ UNCHANGED <<headBlock, durable, lastAccepted, processing>>
        BY Zenon, <1>11 DEF Loaded, Return
    <2> QED
        BY Zenon, <2>1 DEF CallInv
<1>12. CASE Engine
    <2> SUFFICES ASSUME NEW b \in Block,
                        InsertBlock(b) \/ SetPreference(b) \/ Accept(b) \/ Reject(b)
                 PROVE  CallInv'
        BY Zenon, <1>12 DEF Engine
    <2>1. CASE InsertBlock(b)
        <3>1. /\ mode = "running" /\ phase = "idle" /\ phase' = "insert"
              /\ UNCHANGED <<headBlock, durable, mode, lastAccepted, processing, op>>
            BY Zenon, <2>1 DEF InsertBlock, Ready
        <3> QED
            BY Zenon, <3>1 DEF CallInv
    <2>2. CASE SetPreference(b)
        <3>1. /\ mode = "running" /\ phase = "idle"
              /\ phase' \in {"head", "link"} /\ op' = "prefer"
              /\ UNCHANGED <<headBlock, durable, mode, lastAccepted, processing>>
            BY Zenon, <2>2, BeginCall DEF SetPreference, Ready
        <3> QED
            BY Zenon, <3>1 DEF CallInv
    <2>3. CASE Accept(b)
        <3>1. /\ mode = "running" /\ phase = "idle" /\ b \in processing
              /\ parent[b] = lastAccepted
              /\ phase' \in {"head", "link", "enqueue"} /\ op' = "accept" /\ target' = b
              /\ UNCHANGED <<headBlock, durable, mode, lastAccepted, processing>>
            BY Zenon, <2>3, BeginCall DEF Accept, Ready
        <3> QED
            BY Zenon, <3>1 DEF CallInv
    <2>4. CASE Reject(b)
        <3>1. /\ mode = "running" /\ phase = "idle"
              /\ UNCHANGED <<headBlock, durable, mode, lastAccepted, phase, op, target>>
            BY Zenon, <2>4 DEF Reject, Ready
        <3> QED
            BY Zenon, <3>1 DEF CallInv
    <2> QED
        BY Zenon, <2>1, <2>2, <2>3, <2>4
<1>13. CASE Stop
    BY Zenon, <1>13 DEF Stop, Ready, CallInv
<1>14. CASE StopDrained \/ Crash
    BY Zenon, <1>14 DEF StopDrained, Crash, MemoryLost, CallInv
<1>15. CASE UNCHANGED vars
    BY Zenon, <1>15 DEF vars, CallInv
<1> QED
    BY ZenonT(30), <1>1, <1>2, <1>3, <1>4, <1>5, <1>6, <1>7, <1>8, <1>9, <1>10, <1>11, <1>12,
       <1>13,
       <1>14, <1>15 DEF Next, Writer, Load

\* An accepted block joins the queue.
LEMMA EnqueueQueue ==
    ASSUME AcceptorInv, Enqueue
    PROVE  QueueInv'
<1>1. /\ mode = "running" /\ parent[target] = lastAccepted /\ lastAccepted' = target
      /\ acceptorQueue' = Append(acceptorQueue, target) /\ acceptorQueue \in Seq(Block)
      /\ target \in Block /\ lastAccepted \in Block
      /\ UNCHANGED <<mode, accepting, acceptorAt, acceptorTip, announced>>
    BY Zenon DEF AcceptorInv, CallInv, TypeInv, TypeOK, Enqueue
<1>2. ancestors[target] = {target} \cup ancestors[lastAccepted]
    BY Zenon, <1>1, BlockTree
<1>3. Taken' = Taken /\ Up /\ Up'
    BY Zenon, <1>1 DEF Taken, Up
<1>4. /\ Len(acceptorQueue') = Len(acceptorQueue) + 1 /\ Len(acceptorQueue) \in Nat
      /\ acceptorQueue' # <<>> /\ acceptorQueue'[Len(acceptorQueue) + 1] = target
      /\ \A i \in 1..Len(acceptorQueue) : acceptorQueue'[i] = acceptorQueue[i]
    BY <1>1
<1>5. ASSUME NEW i \in 1..Len(acceptorQueue')
      PROVE  /\ acceptorQueue'[i] \in ancestors[lastAccepted']
             /\ parent[acceptorQueue'[i]] = IF i = 1 THEN Taken' ELSE acceptorQueue'[i - 1]
    <2>1. CASE i = Len(acceptorQueue) + 1
        BY <1>1, <1>2, <1>3, <1>4, <2>1 DEF AcceptorInv, QueueInv
    <2>2. CASE i \in 1..Len(acceptorQueue)
        BY <1>1, <1>2, <1>3, <1>4, <2>2 DEF AcceptorInv, QueueInv
    <2> QED
        BY <1>4, <2>1, <2>2
<1>6. acceptorTip \in Block /\ Taken' \in ancestors[lastAccepted']
    BY Zenon, <1>1, <1>2, <1>3 DEF AcceptorInv, QueueInv
<1>7. lastAccepted' = acceptorQueue'[Len(acceptorQueue')]
    BY Zenon, <1>1, <1>4
<1>8. /\ acceptorAt' \in {"trie", "flatten", "index", "tip"} => parent[accepting'] = acceptorTip'
      /\ acceptorAt' = "notify" => accepting' = acceptorTip'
      /\ announced' # NoBlock =>
            announced' = IF acceptorAt' = "notify" THEN parent[accepting'] ELSE acceptorTip'
    BY Zenon, <1>1 DEF AcceptorInv, QueueInv
<1> QED
    BY Zenon, <1>1, <1>3, <1>4, <1>5, <1>6, <1>7, <1>8 DEF QueueInv

\* The acceptor takes the first block of the queue.
LEMMA TakeQueue ==
    ASSUME AcceptorInv, AcceptorTake
    PROVE  QueueInv'
<1>1. /\ acceptorAt = "idle" /\ acceptorQueue # <<>> /\ acceptorQueue \in Seq(Block)
      /\ accepting' = Head(acceptorQueue) /\ acceptorQueue' = Tail(acceptorQueue)
      /\ acceptorAt' = "trie" /\ UNCHANGED <<mode, lastAccepted, acceptorTip, announced>>
    BY Zenon DEF AcceptorInv, TypeInv, TypeOK, AcceptorTake
<1>2. Up /\ Up' /\ Taken = acceptorTip /\ Taken' = acceptorQueue[1]
    BY <1>1 DEF AcceptorInv, QueueInv, Taken, Up
<1>3. /\ Len(acceptorQueue') = Len(acceptorQueue) - 1 /\ Len(acceptorQueue) \in Nat \ {0}
      /\ \A i \in 1..Len(acceptorQueue') : acceptorQueue'[i] = acceptorQueue[i + 1]
      /\ acceptorQueue' \in Seq(Block)
    BY <1>1
<1>4. ASSUME NEW i \in 1..Len(acceptorQueue')
      PROVE  /\ acceptorQueue'[i] \in ancestors[lastAccepted']
             /\ parent[acceptorQueue'[i]] = IF i = 1 THEN Taken' ELSE acceptorQueue'[i - 1]
    <2>1. i + 1 \in 1..Len(acceptorQueue) /\ i \in Nat /\ i + 1 # 1 /\ (i + 1) - 1 = i
        BY <1>3
    <2>2. /\ acceptorQueue[i + 1] \in ancestors[lastAccepted]
          /\ parent[acceptorQueue[i + 1]] = acceptorQueue[i]
        BY Zenon, <1>2, <2>1 DEF AcceptorInv, QueueInv
    <2>3. i # 1 => acceptorQueue'[i - 1] = acceptorQueue[i]
        BY <1>3
    <2> QED
        BY Zenon, <1>1, <1>2, <1>3, <2>2, <2>3
<1>5. /\ acceptorTip \in Block /\ parent[acceptorQueue[1]] = acceptorTip
      /\ acceptorQueue[1] \in ancestors[lastAccepted]
      /\ lastAccepted = acceptorQueue[Len(acceptorQueue)]
    BY <1>1, <1>2, <1>3 DEF AcceptorInv, QueueInv
<1>6. lastAccepted' = IF acceptorQueue' = <<>> THEN Taken'
                      ELSE acceptorQueue'[Len(acceptorQueue')]
    <2>1. CASE acceptorQueue' = <<>>
        <3>1. Len(acceptorQueue) = 1
            BY <2>1, <1>3
        <3> QED
            BY Zenon, <1>1, <1>2, <1>5, <2>1, <3>1
    <2>2. CASE acceptorQueue' # <<>>
        <3>1. Len(acceptorQueue') \in 1..Len(acceptorQueue')
            BY <1>3, <2>2
        <3> QED
            BY <1>1, <1>3, <1>5, <2>2, <3>1
    <2> QED
        BY Zenon, <2>1, <2>2
<1>7. announced' # NoBlock => announced' = acceptorTip'
    BY Zenon, <1>1 DEF AcceptorInv, QueueInv
<1>8. parent[accepting'] = acceptorTip' /\ acceptorAt' # "notify" /\ acceptorAt' # "idle"
    <2>1. Taken' = accepting'
        BY Zenon, <1>1 DEF Taken
    <2> QED
        BY Zenon, <1>1, <1>2, <1>5, <2>1
<1>9. Taken' \in ancestors[lastAccepted'] /\ acceptorTip' \in Block
    BY Zenon, <1>1, <1>2, <1>5
<1> QED
    BY Zenon, <1>1, <1>2, <1>4, <1>6, <1>7, <1>8, <1>9 DEF QueueInv

\* The queue and the events.
LEMMA QueueNext == AcceptorInv /\ [Next]_vars => QueueInv'
<1> SUFFICES ASSUME AcceptorInv, [Next]_vars PROVE QueueInv'
    BY Zenon
<1>0. QueueInv /\ CallInv
    BY Zenon DEF AcceptorInv
<1> USE DEF disk, chain, indices, acceptor, layers, tries, call, recovery, env
<1>1. ASSUME UNCHANGED <<mode, lastAccepted, acceptor>> PROVE QueueInv'
    BY Zenon, <1>0, <1>1 DEF QueueInv, Taken, Up
<1>2. CASE Writer
    <2>1. CASE ReorgLink \/ ReorgTrim \/ WriteHead \/ InsertTip \/ CommitLastAccepted
        BY Zenon, <2>1, <1>1 DEF ReorgLink, ReorgTrim, WriteHead, InsertTip, CommitLastAccepted
    <2> QED
        BY Zenon, <1>2, <2>1, EnqueueQueue DEF Writer
<1>3. CASE Acceptor
    <2>1. CASE AcceptorTrie \/ AcceptorFlatten \/ AcceptorIndex
        <3>1. /\ acceptorAt \in {"trie", "flatten", "index"}
              /\ acceptorAt' \in {"flatten", "index", "tip"}
              /\ UNCHANGED <<mode, lastAccepted, acceptorQueue, accepting, acceptorTip, announced>>
            BY Zenon, <2>1 DEF AcceptorTrie, AcceptorFlatten, AcceptorIndex
        <3> QED
            BY Zenon, <1>0, <3>1 DEF QueueInv, Taken, Up
    <2>2. CASE AcceptorTip
        <3>1. /\ acceptorAt = "tip" /\ acceptorAt' = "notify" /\ acceptorTip' = accepting
              /\ UNCHANGED <<mode, lastAccepted, acceptorQueue, accepting, announced>>
            BY Zenon, <2>2 DEF AcceptorTip
        <3>2. accepting \in Block
            BY Zenon, <3>1 DEF AcceptorInv, TypeInv
        <3> QED
            BY Zenon, <1>0, <3>1, <3>2 DEF QueueInv, Taken, Up
    <2>3. CASE AcceptorNotify
        <3>1. /\ acceptorAt = "notify" /\ acceptorAt' = "idle" /\ announced' = accepting
              /\ UNCHANGED <<mode, lastAccepted, acceptorQueue, acceptorTip>>
            BY Zenon, <2>3 DEF AcceptorNotify
        <3> QED
            BY Zenon, <1>0, <3>1 DEF QueueInv, Taken, Up
    <2> QED
        BY Zenon, <1>3, <2>1, <2>2, <2>3, TakeQueue DEF Acceptor
<1>4. CASE Load
    <2>1. CASE Start
        BY Zenon, <1>0, <2>1 DEF Start, QueueInv, Taken, Up
    <2>2. CASE Search \/ Reexecute
        BY Zenon, <2>2, <1>1 DEF Search, Reexecute
    <2>3. CASE Loaded
        <3>1. /\ phase = "reexecute" /\ mode' \in {"running", "failed"}
              /\ acceptorTip' = lastAccepted
              /\ UNCHANGED <<lastAccepted, acceptorQueue, accepting, acceptorAt, announced>>
            BY Zenon, <2>3 DEF Loaded
        <3>2. ~Up /\ lastAccepted \in Block
            BY Zenon, <1>0, <3>1 DEF CallInv, Up, AcceptorInv, TypeInv, TypeOK
        <3>3. lastAccepted \in ancestors[lastAccepted]
            BY Zenon, <3>2, SelfAncestor
        <3>4. /\ acceptorQueue' = <<>> /\ acceptorAt' = "idle" /\ announced' = NoBlock
              /\ Taken' = lastAccepted
            BY Zenon, <1>0, <3>1, <3>2 DEF QueueInv, Taken
        <3> QED
            BY <3>1, <3>2, <3>3, <3>4 DEF QueueInv
    <2> QED
        BY Zenon, <1>4, <2>1, <2>2, <2>3 DEF Load
<1>5. CASE Engine
    <2> SUFFICES ASSUME NEW b \in Block,
                        InsertBlock(b) \/ SetPreference(b) \/ Accept(b) \/ Reject(b)
                 PROVE  QueueInv'
        BY Zenon, <1>5 DEF Engine
    <2>1. UNCHANGED <<mode, lastAccepted, acceptor>>
        BY Zenon DEF InsertBlock, SetPreference, Accept, Reject
    <2> QED
        BY Zenon, <2>1, <1>1
<1>6. CASE Stop
    BY Zenon, <1>0, <1>6 DEF Stop, Ready, QueueInv, Taken, Up
<1>7. CASE StopDrained \/ Crash
    BY Zenon, <1>7 DEF StopDrained, Crash, MemoryLost, QueueInv, Up
<1>8. CASE UNCHANGED vars
    BY Zenon, <1>8, <1>1 DEF vars
<1> QED
    BY Zenon, <1>2, <1>3, <1>4, <1>5, <1>6, <1>7, <1>8 DEF Next

\* The invariant of the acceptor holds.
LEMMA AcceptorAlways == Spec => []AcceptorInv
<1>1. Init => AcceptorInv
    <2> SUFFICES ASSUME Init PROVE AcceptorInv
        BY Zenon
    <2>1. CallInv
        BY Zenon DEF Init, CallInv
    <2>2. QueueInv
        BY Zenon DEF Init, QueueInv, Up
    <2> QED
        BY Zenon, <2>1, <2>2, TypeInit DEF AcceptorInv
<1>2. AcceptorInv /\ [Next]_vars => AcceptorInv'
    BY Zenon, TypeNext, CallNext, QueueNext DEF AcceptorInv
<1> QED
    BY <1>1, <1>2, PTL DEF Spec

\* The accepted feeds follow the chain: each event names the child of the block of the event
\* before it, and the acceptor tip is that block when it is sent (blockchain.go,
\* startAcceptor).
THEOREM EventsFollowChain == Spec => EventsInOrder
<1> DEFINE Ordered == announced' \notin {announced, NoBlock} =>
                         /\ acceptorTip' = announced'
                         /\ announced # NoBlock => parent[announced'] = announced
<1>1. AcceptorInv /\ [Next]_vars => [Ordered]_vars
    <2> SUFFICES ASSUME AcceptorInv, [Next]_vars, announced' \notin {announced, NoBlock}
                 PROVE  /\ acceptorTip' = announced'
                        /\ announced # NoBlock => parent[announced'] = announced
        BY Zenon
    <2> USE DEF disk, chain, indices, acceptor, layers, tries, call, recovery, env
    <2>1. AcceptorNotify
        <3>1. CASE Writer
            BY Zenon, <3>1 DEF Writer, ReorgLink, ReorgTrim, WriteHead, InsertTip, Enqueue,
                        CommitLastAccepted
        <3>2. CASE Acceptor
            BY Zenon, <3>2 DEF Acceptor, AcceptorTake, AcceptorTrie, AcceptorFlatten,
                        AcceptorIndex, AcceptorTip
        <3>3. CASE Load
            BY Zenon, <3>3 DEF Load, Start, Search, Reexecute, Loaded
        <3>4. CASE Engine
            BY Zenon, <3>4 DEF Engine, InsertBlock, SetPreference, Accept, Reject
        <3>5. CASE Stop \/ StopDrained \/ Crash
            BY Zenon, <3>5 DEF Stop, StopDrained, Crash, MemoryLost
        <3>6. CASE UNCHANGED vars
            BY Zenon, <3>6 DEF vars
        <3> QED
            BY Zenon, <3>1, <3>2, <3>3, <3>4, <3>5, <3>6 DEF Next
    <2> QED
        BY Zenon, <2>1 DEF AcceptorNotify, AcceptorInv, QueueInv
<1>2. EventsInOrder <=> [][Ordered]_vars
    BY Zenon DEF EventsInOrder
<1> QED
    BY <1>1, <1>2, AcceptorAlways, PTL DEF Spec

\* The backlog is the chain from the tip to the last accepted block.
LEMMA BacklogFollows == AcceptorInv => AcceptorBacklog
<1> SUFFICES ASSUME AcceptorInv, Up PROVE AcceptorBacklog
    BY Zenon DEF AcceptorBacklog, Up
<1> DEFINE taken == IF acceptorAt \in {"idle", "notify"} THEN <<>> ELSE <<accepting>>
           q == acceptorQueue
           backlog == <<acceptorTip>> \o taken \o q
<1>1. /\ q \in Seq(Block) /\ acceptorTip \in Block /\ Len(q) \in Nat
      /\ (acceptorAt # "idle" => accepting \in Block)
      /\ \A i \in 1..Len(q) : parent[q[i]] = IF i = 1 THEN Taken ELSE q[i - 1]
      /\ lastAccepted = IF q = <<>> THEN Taken ELSE q[Len(q)]
    BY DEF AcceptorInv, TypeInv, TypeOK, QueueInv
<1>2. CASE acceptorAt \in {"idle", "notify"}
    <2>1. Taken = acceptorTip
        BY Zenon, <1>2 DEF Taken, AcceptorInv, QueueInv
    <2>2. /\ Len(backlog) = Len(q) + 1 /\ backlog[1] = acceptorTip
          /\ \A i \in 1..Len(q) : backlog[i + 1] = q[i]
        BY <1>1, <1>2
    <2> HIDE DEF backlog, q
    <2>3. \A i \in 1..(Len(backlog) - 1) : parent[backlog[i + 1]] = backlog[i]
        <3> SUFFICES ASSUME NEW i \in 1..Len(q) PROVE parent[backlog[i + 1]] = backlog[i]
            BY <2>2, <1>1
        <3>1. CASE i = 1
            BY Zenon, <1>1, <2>1, <2>2, <3>1
        <3>2. CASE i # 1
            <4>1. i - 1 \in 1..Len(q) /\ (i - 1) + 1 = i
                BY <3>2, <1>1
            <4> QED
                BY SMTT(30), <1>1, <2>2, <3>2, <4>1
        <3> QED
            BY Zenon, <3>1, <3>2
    <2>4. backlog[Len(backlog)] = lastAccepted
        <3>1. CASE q = <<>>
            BY <1>1, <2>1, <2>2, <3>1
        <3>2. CASE q # <<>>
            <4>1. Len(q) \in 1..Len(q)
                BY <1>1, <3>2
            <4> QED
                BY Zenon, <1>1, <2>2, <3>2, <4>1
        <3> QED
            BY Zenon, <3>1, <3>2
    <2> QED
        BY Zenon, <2>3, <2>4 DEF AcceptorBacklog, backlog, q
<1>3. CASE acceptorAt \notin {"idle", "notify"}
    <2>1. Taken = accepting /\ parent[accepting] = acceptorTip
        BY Zenon, <1>3 DEF Taken, AcceptorInv, QueueInv, TypeInv, TypeOK
    <2>2. /\ Len(backlog) = Len(q) + 2 /\ backlog[1] = acceptorTip /\ backlog[2] = accepting
          /\ \A i \in 1..Len(q) : backlog[i + 2] = q[i]
        BY <1>1, <1>3
    <2> HIDE DEF backlog, q
    <2>3. \A i \in 1..(Len(backlog) - 1) : parent[backlog[i + 1]] = backlog[i]
        <3> SUFFICES ASSUME NEW i \in 1..(Len(q) + 1) PROVE parent[backlog[i + 1]] = backlog[i]
            BY <2>2, <1>1
        <3>1. CASE i = 1
            BY <2>1, <2>2, <3>1
        <3>2. CASE i # 1
            <4>1. i - 1 \in 1..Len(q) /\ (i - 1) + 2 = i + 1
                BY <3>2, <1>1
            <4>2. i - 1 # 1 => i - 2 \in 1..Len(q) /\ (i - 2) + 2 = i /\ (i - 1) - 1 = i - 2
                BY <3>2, <1>1
            <4>3. parent[q[i - 1]] = IF i - 1 = 1 THEN Taken ELSE q[i - 2]
                BY Zenon, <1>1, <4>1, <4>2
            <4>4. i - 1 = 1 => i = 2
                BY <1>1
            <4> QED
                BY Zenon, <2>1, <2>2, <4>1, <4>2, <4>3, <4>4
        <3> QED
            BY Zenon, <3>1, <3>2
    <2>4. backlog[Len(backlog)] = lastAccepted
        <3>1. CASE q = <<>>
            BY <1>1, <2>1, <2>2, <3>1
        <3>2. CASE q # <<>>
            <4>1. Len(q) \in 1..Len(q)
                BY <1>1, <3>2
            <4> QED
                BY Zenon, <1>1, <2>2, <3>2, <4>1
        <3> QED
            BY Zenon, <3>1, <3>2
    <2> QED
        BY Zenon, <1>3, <2>3, <2>4 DEF AcceptorBacklog, backlog, q
<1> QED
    BY Zenon, <1>2, <1>3

-----------------------------------------------------------------------------
(* The indices.                                                            *)

\* A block with a parent extends its parent's chain.
LEMMA Child ==
    ASSUME NEW b \in Block, parent[b] \in Block
    PROVE  /\ b # Genesis /\ number[b] = number[parent[b]] + 1
           /\ ancestors[b] = {b} \cup ancestors[parent[b]]
BY Zenon, BlockTree

\* The numbers of blocks are naturals.
LEMMA NumberType == \A b \in Block : number[b] \in Nat /\ number[b] \in Height
BY BlockTree DEF Height

\* Ancestors of an ancestor, and of two blocks of a chain the lower one's place.
LEMMA ChainFacts ==
    ASSUME NEW h \in Block, NEW a \in ancestors[h]
    PROVE  /\ a \in Block /\ ancestors[a] \subseteq ancestors[h] /\ number[a] <= number[h]
           /\ \A b \in ancestors[h] : number[a] <= number[b] => a \in ancestors[b]
BY Zenon, BlockTree

\* The canonical hash after a block of the accepted chain is its child on it.
LEMMA NextAccepted ==
    ASSUME ChainInv, NEW c \in ancestors[lastAccepted], number[c] < number[lastAccepted],
           NEW next, next = canonical[number[c] + 1]
    PROVE  /\ next \in ancestors[lastAccepted] /\ parent[next] = c /\ c \in Block
           /\ next \in Block /\ number[next] = number[c] + 1
<1>1. lastAccepted \in Block /\ c \in Block
    BY Zenon, ChainFacts DEF ChainInv, ChainType
<1>2. number[c] \in Nat /\ number[lastAccepted] \in Nat
    BY Zenon, <1>1, NumberType
<1>3. number[c] + 1 \in 0..number[lastAccepted]
    BY <1>2
<1>4. PICK a \in ancestors[lastAccepted] : number[a] = number[c] + 1
    BY <1>1, <1>3, BlockTree
<1>5. next = a
    BY Zenon, <1>4 DEF ChainInv, AcceptedCanonical
<1>6. a \in Block /\ ancestors[a] \subseteq ancestors[lastAccepted]
    BY Zenon, <1>1, <1>4, ChainFacts
<1>7. a # Genesis
    BY <1>2, <1>4, BlockTree
<1>8. /\ parent[a] \in Block /\ number[a] = number[parent[a]] + 1
      /\ ancestors[a] = {a} \cup ancestors[parent[a]]
    BY Zenon, <1>6, <1>7, BlockTree
<1>9. parent[a] \in ancestors[lastAccepted] /\ number[parent[a]] = number[c]
    BY <1>2, <1>4, <1>6, <1>8, SelfAncestor, NumberType
<1>10. parent[a] = c
    BY Zenon, <1>1, <1>9, OnePerHeight
<1> QED
    BY Zenon, <1>1, <1>4, <1>5, <1>6, <1>10

\* Steps that leave the indices, the decisions and the re-execution alone.
LEMMA IndexFrame ==
    ASSUME IndexInv,
           UNCHANGED <<lastAccepted, decided, diskTip, txLookup, durable, acceptorTip, cursor,
                       writeIndices>>,
           Up' => Up, phase' = "reexecute" <=> phase = "reexecute",
           op' = "accept" => op = "accept" /\ target' = target,
           acceptorAt' \in {"tip", "notify"} =>
               acceptorAt \in {"tip", "notify"} /\ accepting' = accepting
    PROVE  IndexInv'
BY Zenon DEF IndexInv

\* The acceptor writes the indices of its block.
LEMMA AcceptorIndexStep ==
    ASSUME AcceptorInv, ChainInv, IndexInv, AcceptorIndex
    PROVE  IndexInv'
<1> USE DEF chain, tries, layers, call, recovery, env
<1>1. /\ acceptorAt = "index" /\ diskTip' = accepting /\ txLookup' = txLookup \cup {accepting}
      /\ acceptorAt' = "tip"
      /\ UNCHANGED <<lastAccepted, decided, durable, acceptorTip, accepting, cursor,
                     writeIndices, mode, phase, op, target>>
    BY Zenon DEF AcceptorIndex, writeBlockAcceptedIndices
<1>2. /\ accepting \in Block /\ Up /\ accepting \in ancestors[lastAccepted]
      /\ parent[accepting] = acceptorTip /\ acceptorTip \in Block
      /\ lastAccepted \in Block /\ durable \in Block /\ decided \in Block /\ NoBlock \notin Block
    BY Zenon, <1>1, BlockTree DEF AcceptorInv, TypeInv, TypeOK, QueueInv, Taken
<1>3. ancestors[accepting] = {accepting} \cup ancestors[acceptorTip]
    BY Zenon, <1>2, Child
<1>4. accepting \in ancestors[decided]
    BY Zenon, <1>2, ChainFacts DEF IndexInv
<1>5. number[accepting] <= number[durable] + 1
    <2>1. number[lastAccepted] <= number[durable] + 1
        <3>1. CASE phase = "commit"
            <4>1. lastAccepted = target /\ parent[target] = durable
                BY Zenon, <3>1 DEF AcceptorInv, CallInv
            <4> QED
                BY <4>1, <1>2, Child, NumberType
        <3>2. CASE phase # "commit"
            BY <3>2, <1>2, NumberType DEF AcceptorInv, CallInv
        <3> QED
            BY Zenon, <3>1, <3>2
    <2>2. number[accepting] <= number[lastAccepted]
        BY Zenon, <1>2, ChainFacts
    <2> QED
        BY <2>1, <2>2, <1>2, NumberType
<1>6. ASSUME NEW x \in txLookup', NEW y \in ancestors[accepting], number[x] < number[y]
      PROVE  y \in txLookup'
    <2>1. CASE y = accepting
        BY Zenon, <1>1, <2>1
    <2>2. CASE y # accepting
        <3>1. y \in ancestors[acceptorTip] /\ number[y] <= number[accepting] /\ y \in Block
            BY Zenon, <1>2, <1>3, <2>2, ChainFacts
        <3>2. x # accepting
            BY <1>6, <3>1, <1>2, NumberType
        <3>3. diskTip # NoBlock /\ x \in txLookup
            BY ZenonT(30), <1>1, <3>2 DEF IndexInv
        <3>4. y \in ancestors[diskTip]
            BY <1>2, <3>1, <3>3, ChainFacts DEF IndexInv, AcceptorInv, TypeInv, TypeOK
        <3> QED
            BY Zenon, <1>1, <1>6, <3>3, <3>4 DEF IndexInv
    <2> QED
        BY Zenon, <2>1, <2>2
<1>7. phase # "reexecute" /\ acceptorTip \in ancestors[accepting]
    BY Zenon, <1>2, <1>3, SelfAncestor DEF AcceptorInv, CallInv, Up
<1>8. accepting # NoBlock
    BY Zenon, <1>2
<1> QED
    BY Zenon, <1>1, <1>4, <1>5, <1>6, <1>7, <1>8 DEF IndexInv

\* reprocessState finds where to begin.
LEMMA SearchIndex ==
    ASSUME AcceptorInv, ChainInv, IndexInv, Search
    PROVE  IndexInv'
<1> USE DEF disk, acceptor, layers, env
<1>1. /\ phase = "search" /\ phase' = "reexecute" /\ ~Up /\ ~Up' /\ ~writeIndices
      /\ UNCHANGED <<lastAccepted, decided, diskTip, txLookup, durable, acceptorTip, acceptorAt,
                     accepting, writeIndices, mode, op, target>>
    BY Zenon DEF Search, AcceptorInv, CallInv, IndexInv, Up
<1>2. lastAccepted \in Block /\ lastAccepted \in ancestors[lastAccepted]
    BY Zenon, SelfAncestor DEF AcceptorInv, TypeInv, TypeOK
<1>3. /\ diskTip = NoBlock => cursor' \in ancestors[lastAccepted]
      /\ diskTip # NoBlock => cursor' \in ancestors[diskTip]
    <2>1. CASE HasState(lastAccepted) /\ diskTip \in {NoBlock, lastAccepted}
        BY Zenon, <2>1, <1>2 DEF Search
    <2>2. CASE ~(HasState(lastAccepted) /\ diskTip \in {NoBlock, lastAccepted})
        BY Zenon, <2>2 DEF Search
    <2> QED
        BY Zenon, <2>1, <2>2
<1> QED
    BY Zenon, <1>1, <1>3 DEF IndexInv

\* Re-executing a block writes its indices once the tip on disk is reached.
LEMMA ReexecuteIndex ==
    ASSUME AcceptorInv, ChainInv, IndexInv, Reexecute
    PROVE  IndexInv'
<1> USE DEF chain, acceptor, call, env
<1> DEFINE next == canonical[number[cursor] + 1]
           indexing == writeIndices \/ cursor = diskTip
<1>1. /\ phase = "reexecute" /\ number[cursor] < number[lastAccepted] /\ ~Up /\ ~Up'
      /\ UNCHANGED <<lastAccepted, decided, durable, acceptorTip, acceptorAt, accepting, mode,
                     phase, op, target>>
      /\ cursor' = next /\ writeIndices' = indexing
    BY Zenon DEF Reexecute, AcceptorInv, CallInv, Up
<1>2. IF indexing THEN diskTip' = next /\ txLookup' = txLookup \cup {next}
                  ELSE UNCHANGED <<diskTip, txLookup>>
    BY Zenon DEF Reexecute, writeBlockAcceptedIndices, indices
<1>3. /\ cursor \in Block /\ lastAccepted \in Block /\ decided \in Block /\ durable \in Block
      /\ durable = lastAccepted /\ acceptorAt = "idle" /\ op = "load"
      /\ diskTip # NoBlock => diskTip \in Block
    BY Zenon, <1>1 DEF AcceptorInv, TypeInv, TypeOK, CallInv, QueueInv
<1>4. cursor \in ancestors[lastAccepted]
    <2>1. CASE diskTip = NoBlock
        BY Zenon, <1>1, <2>1 DEF IndexInv
    <2>2. CASE diskTip # NoBlock
        <3>1. cursor \in ancestors[decided]
            BY Zenon, <1>1, <1>3, <2>2, ChainFacts DEF IndexInv
        <3> QED
            BY <1>1, <1>3, <3>1, ChainFacts, NumberType DEF IndexInv
    <2> QED
        BY Zenon, <2>1, <2>2
<1>5. /\ next \in ancestors[lastAccepted] /\ parent[next] = cursor
      /\ next \in Block /\ number[next] = number[cursor] + 1
    BY ZenonT(30), <1>1, <1>4, NextAccepted
<1>6. /\ next \in ancestors[decided] /\ ancestors[next] = {next} \cup ancestors[cursor]
      /\ number[next] <= number[lastAccepted] /\ next # NoBlock
    BY <1>3, <1>5, ChainFacts, Child, BlockTree DEF IndexInv
<1> HIDE DEF next
<1>7. CASE indexing
    <2>1. cursor = diskTip /\ diskTip # NoBlock
        BY <1>7, <1>1, <1>3, BlockTree DEF IndexInv
    <2>2. ASSUME NEW x \in txLookup', NEW y \in ancestors[next], number[x] < number[y]
          PROVE  y \in txLookup'
        <3>1. CASE y = next
            BY Zenon, <1>2, <1>7, <3>1
        <3>2. CASE y # next
            <4>1. y \in ancestors[diskTip] /\ number[y] <= number[next] /\ y \in Block
                BY Zenon, <1>5, <1>6, <2>1, <3>2, ChainFacts
            <4>2. x # next
                BY <2>2, <4>1, <1>5, NumberType
            <4> QED
                BY <1>2, <1>7, <2>1, <2>2, <4>1, <4>2 DEF IndexInv
        <3> QED
            BY Zenon, <3>1, <3>2
    <2>3. number[next] <= number[durable] + 1
        BY <1>3, <1>5, <1>6, NumberType
    <2>4. next \in ancestors[next]
        BY Zenon, <1>5, SelfAncestor
    <2> QED
        BY ZenonT(30), <1>1, <1>2, <1>3, <1>5, <1>6, <1>7, <2>2, <2>3, <2>4 DEF IndexInv
<1>8. CASE ~indexing
    <2>1. diskTip # NoBlock => next \in ancestors[diskTip]
        <3> SUFFICES ASSUME diskTip # NoBlock PROVE next \in ancestors[diskTip]
            BY Zenon
        <3>1. cursor \in ancestors[diskTip] /\ cursor # diskTip /\ diskTip \in ancestors[decided]
            BY Zenon, <1>1, <1>8 DEF IndexInv
        <3>2. number[cursor] < number[diskTip]
            BY Zenon, <1>3, <3>1, AncestorLower
        <3>3. number[next] <= number[diskTip]
            BY <1>3, <1>5, <3>2, NumberType
        <3> QED
            BY Zenon, <1>3, <1>6, <3>1, <3>3, ChainFacts
    <2> QED
        BY Zenon, <1>1, <1>2, <1>3, <1>5, <1>8, <2>1 DEF IndexInv
<1> QED
    BY Zenon, <1>7, <1>8

\* The acceptor starts on the last accepted block.
LEMMA LoadedIndex ==
    ASSUME AcceptorInv, ChainInv, IndexInv, Loaded
    PROVE  IndexInv'
<1> USE DEF chain, indices, env, Return
<1>1. /\ phase = "reexecute" /\ number[cursor] >= number[lastAccepted]
      /\ acceptorTip' = lastAccepted /\ phase' = "idle" /\ op' = "none" /\ ~writeIndices'
      /\ UNCHANGED <<lastAccepted, decided, diskTip, txLookup, durable, acceptorAt, accepting>>
    BY Zenon DEF Loaded
<1>2. /\ lastAccepted \in Block /\ cursor \in Block /\ decided \in Block /\ acceptorAt = "idle"
      /\ (diskTip # NoBlock => diskTip \in Block)
    BY Zenon, <1>1 DEF AcceptorInv, TypeInv, TypeOK, CallInv, QueueInv, Up
<1>3. ASSUME diskTip # NoBlock PROVE lastAccepted \in ancestors[diskTip]
    <2>1. cursor \in ancestors[diskTip] /\ diskTip \in ancestors[decided] /\ diskTip \in Block
        BY Zenon, <1>1, <1>2, <1>3 DEF IndexInv
    <2>2. number[lastAccepted] <= number[diskTip]
        BY SMTT(30), <1>1, <1>2, <2>1, ChainFacts, NumberType
    <2> QED
        BY Zenon, <1>2, <2>1, <2>2, ChainFacts DEF IndexInv
<1> QED
    BY Zenon, <1>1, <1>2, <1>3 DEF IndexInv

\* Every step keeps the indices in order.
LEMMA IndexNext == AcceptorInv /\ ChainInv /\ IndexInv /\ [Next]_vars => IndexInv'
<1> SUFFICES ASSUME AcceptorInv, ChainInv, IndexInv, [Next]_vars PROVE IndexInv'
    BY Zenon
<1> USE DEF disk, chain, indices, acceptor, layers, tries, call, recovery, env
<1>0. CallInv /\ TypeOK /\ decided \in Block /\ lastAccepted \in Block /\ durable \in Block
    BY Zenon DEF AcceptorInv, TypeInv, TypeOK
<1>1. CASE Writer
    <2>1. CASE ReorgLink
        BY Zenon, <2>1, IndexFrame DEF ReorgLink, Up
    <2>2. CASE ReorgTrim
        <3>1. phase # "reexecute" /\ phase' # "reexecute"
            BY Zenon, <2>2 DEF ReorgTrim
        <3> QED
            BY Zenon, <2>2, <3>1, IndexFrame DEF ReorgTrim, Up
    <2>3. CASE WriteHead
        <3>1. phase # "reexecute" /\ phase' # "reexecute" /\ (op' = "accept" => op = "accept" /\ target' = target)
            BY Zenon, <2>3 DEF WriteHead, Return, AcceptorInv, TypeInv
        <3> QED
            BY Zenon, <2>3, <3>1, IndexFrame DEF WriteHead, Up
    <2>4. CASE InsertTip
        BY Zenon, <2>4, IndexFrame DEF InsertTip, Return, Up
    <2>5. CASE Enqueue
        <3>1. /\ phase = "enqueue" /\ phase' = "commit" /\ op = "accept" /\ lastAccepted' = target
              /\ UNCHANGED <<decided, diskTip, txLookup, durable, acceptorTip, acceptorAt,
                             accepting, cursor, writeIndices, mode, op, target>>
            BY Zenon, <1>0, <2>5 DEF Enqueue, CallInv
        <3> QED
            BY Zenon, <3>1 DEF IndexInv, Up
    <2>6. CASE CommitLastAccepted
        <3>1. /\ phase = "commit" /\ phase' = "idle" /\ op' = "none" /\ durable' = target
              /\ parent[target] = durable /\ target = lastAccepted
              /\ UNCHANGED <<lastAccepted, decided, diskTip, txLookup, acceptorTip, acceptorAt,
                             accepting, cursor, writeIndices, mode>>
            BY Zenon, <1>0, <2>6 DEF CommitLastAccepted, Return, CallInv
        <3>2. number[durable'] = number[durable] + 1 /\ number[durable] \in Nat
            BY ZenonT(30), <1>0, <3>1, Child, NumberType
        <3>3. diskTip # NoBlock => number[diskTip] <= number[durable'] + 1
            BY <1>0, <3>2, NumberType DEF IndexInv, TypeOK
        <3> QED
            BY Zenon, <3>1, <3>3 DEF IndexInv, Up
    <2> QED
        BY Zenon, <1>1, <2>1, <2>2, <2>3, <2>4, <2>5, <2>6 DEF Writer
<1>2. CASE Acceptor
    <2>1. CASE AcceptorTake \/ AcceptorTrie \/ AcceptorFlatten \/ AcceptorNotify
        <3>1. /\ acceptorAt' \in {"idle", "trie", "flatten", "index"}
              /\ UNCHANGED <<lastAccepted, decided, diskTip, txLookup, durable, acceptorTip,
                             cursor, writeIndices, mode, phase, op, target>>
            BY Zenon, <2>1 DEF AcceptorTake, AcceptorTrie, AcceptorFlatten, AcceptorNotify
        <3> QED
            BY Zenon, <3>1, IndexFrame DEF Up
    <2>2. CASE AcceptorTip
        <3>1. /\ acceptorAt = "tip" /\ acceptorAt' = "notify" /\ acceptorTip' = accepting
              /\ UNCHANGED <<lastAccepted, decided, diskTip, txLookup, durable, accepting,
                             cursor, writeIndices, mode, phase, op, target>>
            BY Zenon, <2>2 DEF AcceptorTip
        <3>2. diskTip = accepting /\ accepting \in ancestors[accepting]
            BY Zenon, <3>1, SelfAncestor DEF IndexInv, AcceptorInv, TypeInv
        <3> QED
            BY Zenon, <3>1, <3>2 DEF IndexInv, Up
    <2> QED
        BY Zenon, <1>2, <2>1, <2>2, AcceptorIndexStep DEF Acceptor
<1>3. CASE Load
    <2>1. CASE Start
        <3>1. /\ phase # "reexecute" /\ phase' # "reexecute" /\ op' = "load" /\ ~Up'
              /\ UNCHANGED <<lastAccepted, decided, diskTip, txLookup, durable, acceptorTip,
                             acceptorAt, accepting, cursor, writeIndices>>
            BY Zenon, <1>0, <2>1, BeginCall DEF Start, CallInv, Up
        <3> QED
            BY Zenon, <3>1, IndexFrame
    <2> QED
        BY Zenon, <1>3, <2>1, SearchIndex, ReexecuteIndex, LoadedIndex DEF Load
<1>4. CASE Engine
    <2> SUFFICES ASSUME NEW b \in Block,
                        InsertBlock(b) \/ SetPreference(b) \/ Accept(b) \/ Reject(b)
                 PROVE  IndexInv'
        BY Zenon, <1>4 DEF Engine
    <2>1. CASE InsertBlock(b) \/ SetPreference(b) \/ Reject(b)
        <3>1. /\ phase = "idle" /\ phase' # "reexecute" /\ op' # "accept"
              /\ UNCHANGED <<lastAccepted, decided, diskTip, txLookup, durable, acceptor,
                             cursor, writeIndices, mode>>
            <4>1. CASE InsertBlock(b)
                BY Zenon, <1>0, <4>1 DEF InsertBlock, Ready, CallInv
            <4>2. CASE SetPreference(b)
                <5>1. phase' \in {"head", "link"} /\ op' = "prefer"
                    BY Zenon, <4>2, BeginCall DEF SetPreference
                <5>2. "prefer" # "accept" /\ "reexecute" \notin {"head", "link"}
                    OBVIOUS
                <5> QED
                    BY Zenon, <4>2, <5>1, <5>2 DEF SetPreference, Ready
            <4>3. CASE Reject(b)
                BY Zenon, <1>0, <4>3 DEF Reject, Ready, CallInv
            <4> QED
                BY Zenon, <2>1, <4>1, <4>2, <4>3
        <3> QED
            BY Zenon, <3>1, IndexFrame DEF Up
    <2>2. CASE Accept(b)
        <3>1. /\ phase = "idle" /\ phase' # "reexecute" /\ op' = "accept" /\ target' = b
              /\ parent[b] = lastAccepted /\ (b \in ancestors[decided] \/ decided = lastAccepted)
              /\ decided' = IF b \in ancestors[decided] THEN decided ELSE b
              /\ UNCHANGED <<lastAccepted, diskTip, txLookup, durable, acceptor,
                             cursor, writeIndices, mode>>
            BY Zenon, <2>2, BeginCall DEF Accept, Ready
        <3>2. b \in ancestors[decided'] /\ ancestors[decided] \subseteq ancestors[decided']
            BY Zenon, <1>0, <3>1, Child, SelfAncestor
        <3> QED
            BY Zenon, <3>1, <3>2 DEF IndexInv, Up
    <2> QED
        BY Zenon, <2>1, <2>2
<1>5. CASE Stop
    BY Zenon, <1>5, IndexFrame DEF Stop, Ready, Up
<1>6. CASE StopDrained \/ Crash
    <2>1. /\ lastAccepted' = durable /\ op' = "none" /\ phase' = "idle" /\ ~Up' /\ ~writeIndices'
          /\ acceptorAt' = "idle" /\ UNCHANGED <<decided, diskTip, txLookup, durable>>
        BY Zenon, <1>6 DEF StopDrained, Crash, MemoryLost, Up
    <2>2. durable \in ancestors[decided]
        BY Zenon, <1>0, ChainFacts DEF ChainInv, IndexInv
    <2> QED
        BY Zenon, <2>1, <2>2 DEF IndexInv
<1>7. CASE UNCHANGED vars
    BY Zenon, <1>7, IndexFrame DEF vars, Up
<1> QED
    BY Zenon, <1>1, <1>2, <1>3, <1>4, <1>5, <1>6, <1>7 DEF Next

\* The indices are in order, always.
LEMMA IndexAlways == ASSUME OneBatch PROVE Spec => [](AcceptorInv /\ ChainInv /\ IndexInv)
<1>1. Init => IndexInv
    BY Zenon, SelfAncestor, BlockTree DEF Init, IndexInv
<1>2. ChainInv /\ [Next]_vars => ChainInv'
    BY Zenon, ChainNext
<1> QED
    BY <1>1, <1>2, ChainInit, IndexNext, AcceptorAlways, PTL DEF Spec

\* Whatever was interrupted, the transactions of an accepted block below the acceptor tip are
\* indexed once those of an earlier one are (blockchain.go, writeBlockAcceptedIndices and
\* reprocessState).
THEOREM IndexHasNoHole == ASSUME OneBatch PROVE Spec => []NoIndexHole
<1>1. AcceptorInv /\ IndexInv => NoIndexHole
    <2> SUFFICES ASSUME AcceptorInv, IndexInv, Up, NEW x \in txLookup,
                        NEW y \in ancestors[acceptorTip], number[x] < number[y]
                 PROVE  y \in txLookup
        BY Zenon DEF NoIndexHole, Up
    <2>1. diskTip # NoBlock /\ diskTip \in Block /\ acceptorTip \in ancestors[diskTip]
        BY Zenon DEF IndexInv, AcceptorInv, TypeInv, TypeOK
    <2>2. y \in ancestors[diskTip]
        BY Zenon, <2>1, ChainFacts
    <2> QED
        BY Zenon, <2>1, <2>2 DEF IndexInv
<1> QED
    BY <1>1, IndexAlways, PTL
===============================================================================
