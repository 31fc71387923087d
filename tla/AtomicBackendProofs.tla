------------------------- MODULE AtomicBackendProofs -------------------------
(***************************************************************************)
(* The atomic backend is safe: shared memory is told of every accepted     *)
(* operation exactly once and the tries follow the chain, for every block  *)
(* tree, commit interval and number of crashes.  Here are the steps of a   *)
(* state sync, the start of the backend, the application to shared memory, *)
(* crashes, and the theorem.                                               *)
(***************************************************************************)
EXTENDS AtomicBackendRunProofs

\* What holds during a sync.
LEMMA SyncState ==
    ASSUME BackendInv, mode = "sync"
    PROVE  /\ TypeOK /\ vdb = disk /\ disk.cursor = NoCursor /\ DOMAIN verifiedRoots = {}
           /\ target \in Canonical /\ number[target] \in Height /\ number[target] \in Nat
           /\ number[target] > At /\ number[target] % commitInterval = 0
           /\ height \in Height /\ height \in Nat /\ trie.committed \in Nat
           /\ trie.committed <= height /\ height <= number[target]
           /\ trie.committed % commitInterval = 0 /\ trie.committed >= nearestCommitHeight(At)
           /\ syncTrie = CanonTo(height)
           /\ ancestors[target] = {a \in Canonical : number[a] <= number[target]}
           /\ At \in Nat /\ nearestCommitHeight(At) \in Nat
<1>1. /\ TypeOK /\ vdb = disk /\ disk.cursor = NoCursor /\ DOMAIN verifiedRoots = {}
      /\ number[target] > At /\ number[target] % commitInterval = 0
      /\ height \in trie.committed..number[target]
      /\ trie.committed % commitInterval = 0 /\ trie.committed >= nearestCommitHeight(At)
      /\ syncTrie = CanonTo(height)
    BY DEF BackendInv, StoreInv, TrieInv, SyncInv
<1>2. target \in Canonical /\ height \in Height /\ trie.committed \in Height
    BY Zenon, <1>1 DEF TypeOK
<1>3. /\ number[target] \in Height /\ number[target] \in Nat /\ height \in Nat
      /\ trie.committed \in Nat /\ At \in Nat /\ nearestCommitHeight(At) \in Nat
    BY Zenon, <1>1, <1>2, HeightType, AtType
<1>4. ancestors[target] = {a \in Canonical : number[a] <= number[target]}
    BY Zenon, <1>2, Tree
<1>5. trie.committed <= height /\ height <= number[target]
    BY <1>1, <1>3
<1> QED
    BY ZenonT(30), <1>1, <1>2, <1>3, <1>4, <1>5

\* When no leaf is left above the height of a sync, the target has no more operations.
LEMMA SyncEnds ==
    ASSUME BackendInv, mode = "sync", ToSync = {}
    PROVE  syncTrie = CanonTo(number[target]) /\ syncTrie = Content(target)
<1>1. /\ target \in Canonical /\ number[target] \in Nat /\ height \in Nat
      /\ height <= number[target] /\ syncTrie = CanonTo(height)
      /\ ancestors[target] = {a \in Canonical : number[a] <= number[target]}
    BY Zenon, SyncState
<1>2. ASSUME NEW a \in Canonical, opsOn[a] # {}, number[a] > height, number[a] <= number[target]
      PROVE  FALSE
    BY Zenon, <1>1, <1>2 DEF ToSync
<1>3. CASE height = number[target]
    BY Zenon, <1>1, <1>3, CanonContent
<1>4. CASE height # number[target]
    <2>1. number[target] > height /\ number[target] <= number[target]
        BY <1>1, <1>4
    <2>2. opsOn[target] = {}
        BY Zenon, <1>1, <1>2, <2>1
    <2>3. AtomicOps(target) = {}
        BY <2>2 DEF AtomicOps
    <2>4. CanonTo(number[target]) = CanonTo(height) \cup AtomicOps(target)
        BY Zenon, <1>1, <1>2, <2>1, CanonNext
    <2> QED
        BY Zenon, <1>1, <2>3, <2>4, CanonContent
<1> QED
    BY Zenon, <1>3, <1>4

\* onLeafs.
LEMMA OnLeafsInv ==
    ASSUME BackendInv, OnLeafs
    PROVE  BackendInv'
<1>0. /\ mode = "sync" /\ mode' = "sync" /\ sharedMemory' = sharedMemory
      /\ AcceptTrie(vdb, Reference(dirty, syncTrie, syncTrie # trie.committedRoot), height, syncTrie)
      /\ lastAcceptedHash' = lastAcceptedHash /\ verifiedRoots' = verifiedRoots
      /\ target' = target /\ crashes' = crashes /\ skipped' = skipped
      /\ IF CommitHeights(height) # {} THEN disk' = vdb' ELSE disk' = disk
    BY Zenon DEF OnLeafs, Flush
<1>1. PICK b \in ToSync : /\ \A c \in ToSync : number[b] <= number[c]
                          /\ height' = number[b] /\ syncTrie' = syncTrie \cup AtomicOps(b)
    BY Zenon DEF OnLeafs
<1>2. /\ TypeOK /\ vdb = disk /\ disk.cursor = NoCursor /\ DOMAIN verifiedRoots = {}
      /\ target \in Canonical /\ number[target] \in Nat
      /\ number[target] > At /\ number[target] % commitInterval = 0
      /\ height \in Height /\ height \in Nat /\ trie.committed \in Nat
      /\ trie.committed >= nearestCommitHeight(At) /\ trie.committed % commitInterval = 0
      /\ syncTrie = CanonTo(height) /\ nearestCommitHeight(At) \in Nat
      /\ ancestors[target] = {a \in Canonical : number[a] <= number[target]}
    BY Zenon, <1>0, SyncState
<1>3. height <= height
    BY <1>2
<1>4. SyncAccepted(height)
    BY Zenon, <1>0, <1>2, <1>3, SyncAccepts
<1>5. disk' = vdb'
    <2>1. CommitHeights(height) = {} => vdb' = disk
        <3>1. disk \in Store /\ trie \in TrieType /\ syncTrie \in SUBSET Key
            BY Zenon, <1>2 DEF TypeOK, TrieType
        <3>2. Committed(vdb, Reference(dirty, syncTrie, syncTrie # trie.committedRoot), height, syncTrie)
            BY Zenon, <1>0, <1>2, <3>1, AcceptTrieStore
        <3> QED
            BY Zenon, <1>2, <3>2 DEF Committed
    <2> QED
        BY Zenon, <1>0, <2>1
<1>6. \A n \in CommitHeights(height) :
          n = height \/ n < height \/ (n \in skipped' /\ n > nearestCommitHeight(At))
    <2>1. CommitHeights(height) \subseteq Height
        BY Zenon, <1>2, CommitHeightsType
    <2> QED
        BY Zenon, <1>2, <2>1, SyncHeights
<1>7. /\ StoreInv' /\ RefInv' /\ At' = At
      /\ \A n \in CommitHeight \ skipped' : n <= trie'.committed => Right(disk', n)
    <2>1. skipped \subseteq skipped' /\ mode' \in {"sync", "mark"}
        BY Zenon, <1>0
    <2> QED
        BY ZenonT(30), <1>0, <1>2, <1>4, <1>5, <1>6, <2>1, SyncStore
<1>8. b \in Canonical /\ number[b] <= number[target] /\ number[b] > height /\ opsOn[b] # {}
    BY Zenon, <1>1, <1>2 DEF ToSync
<1>9. number[b] \in Nat /\ number[b] \in Height
    BY ZenonT(30), <1>8, HeightType
<1>10. ASSUME NEW c \in Canonical, opsOn[c] # {}, number[c] > height, number[c] <= number[b]
       PROVE  c = b
    <2>1. number[c] \in Nat
        BY Zenon, HeightType
    <2>2. number[c] <= number[target]
        BY SMTT(30), <1>2, <1>8, <1>9, <1>10, <2>1
    <2>3. c \in ToSync
        BY Zenon, <1>2, <1>10, <2>2 DEF ToSync
    <2>4. number[c] = number[b]
        BY SMTT(30), <1>1, <1>9, <1>10, <2>1, <2>3
    <2> QED
        BY Zenon, <1>8, <2>4, OneAtHeight
<1>11. /\ CanonTo(number[b]) = CanonTo(height) \cup AtomicOps(b)
       /\ \A n \in Nat : height <= n /\ n < number[b] => CanonTo(n) = CanonTo(height)
    BY ZenonT(30), <1>2, <1>8, <1>10, CanonNext
<1>12. height' \in Height /\ height' \in Nat /\ syncTrie' = CanonTo(height') /\ syncTrie' \subseteq Key
    BY ZenonT(30), <1>1, <1>2, <1>9, <1>11, CanonContent
<1>13. TypeOK'
    <2>1. disk' \in Store /\ vdb' \in Store /\ trie' \in TrieType /\ Counts(dirty')
        BY Zenon, <1>4, <1>5 DEF SyncAccepted
    <2> QED
        BY Zenon, <1>0, <1>2, <1>12, <2>1 DEF TypeOK, TrieType, Counts
<1>14. TrieInv'
    <2>1. trie'.committedRoot \in disk'.nodes /\ DOMAIN verifiedRoots' = {}
        BY Zenon, <1>0, <1>2, <1>4, <1>5 DEF SyncAccepted
    <2> QED
        BY <1>0, <2>1 DEF TrieInv
<1>15. SyncInv'
    <2>1. /\ trie'.committed % commitInterval = 0 /\ trie'.committed >= trie.committed
          /\ trie'.committed <= height /\ trie'.committed \in Nat
          /\ \A n \in CommitHeight : n > trie'.committed => n > height
          /\ trie'.acceptedRoot = syncTrie
        BY Zenon, <1>4, HeightType DEF SyncAccepted, TrieType
    <2>2. /\ trie'.committed >= nearestCommitHeight(At) /\ height' \in trie'.committed..number[target]
        BY SMTT(30), <1>1, <1>2, <1>8, <1>9, <2>1
    <2>3. ASSUME NEW n \in CommitHeight, n > trie'.committed, n < height'
          PROVE  CanonTo(n) = trie'.acceptedRoot
        <3>1. n \in Nat /\ n > height
            BY Zenon, <2>1, <2>3, HeightType
        <3>2. height <= n /\ n < number[b]
            BY SMTT(30), <1>1, <1>2, <2>3, <3>1
        <3> QED
            BY ZenonT(30), <1>2, <1>11, <2>1, <3>1, <3>2
    <2>4. nearestCommitHeight(At)' = nearestCommitHeight(At) /\ number[target'] = number[target]
        BY Zenon, <1>0, <1>7 DEF nearestCommitHeight
    <2>5. mode' # "mark"
        BY <1>0
    <2> QED
        BY ZenonT(30), <1>0, <1>2, <1>7, <1>12, <2>1, <2>2, <2>3, <2>4, <2>5 DEF SyncInv, Right
<1>16. SharedMemoryExact'
    <2>1. disk'.accepted = disk.accepted /\ disk'.cursor = disk.cursor
        BY Zenon, <1>4, <1>5 DEF SyncAccepted
    <2> QED
        BY Zenon, <1>0, <2>1, SharedMemoryKept DEF BackendInv
<1> QED
    BY Zenon, <1>7, <1>13, <1>14, <1>15, <1>16 DEF BackendInv

\* onFinish.
LEMMA OnFinishInv ==
    ASSUME BackendInv, OnFinish
    PROVE  BackendInv'
<1> DEFINE h == number[target]
<1>0. /\ mode = "sync" /\ ToSync = {} /\ sharedMemory' = sharedMemory
      /\ mode' = IF syncTrie = Content(target) THEN "mark" ELSE "failed"
      /\ AcceptTrie(vdb, Reference(dirty, syncTrie, syncTrie # trie.committedRoot), h, syncTrie)
      /\ lastAcceptedHash' = lastAcceptedHash /\ verifiedRoots' = verifiedRoots
      /\ height' = height /\ target' = target /\ syncTrie' = syncTrie /\ crashes' = crashes
      /\ disk' = vdb' /\ skipped' = skipped \cup {n \in Skipped(h) : n >= height}
    BY Zenon DEF OnFinish, Flush
<1>1. /\ TypeOK /\ vdb = disk /\ disk.cursor = NoCursor /\ DOMAIN verifiedRoots = {}
      /\ h \in Height /\ h \in Nat /\ h > At /\ h % commitInterval = 0
      /\ height \in Nat /\ height <= h /\ trie.committed \in Nat
      /\ trie.committed >= nearestCommitHeight(At) /\ trie.committed % commitInterval = 0
      /\ nearestCommitHeight(At) \in Nat
    BY Zenon, <1>0, SyncState
<1>2. syncTrie = CanonTo(h) /\ syncTrie = Content(target)
    BY Zenon, <1>0, SyncEnds
<1>3. mode' = "mark"
    BY Zenon, <1>0, <1>2
<1>4. SyncAccepted(h)
    BY Zenon, <1>0, <1>1, <1>2, SyncAccepts
<1> HIDE DEF h
<1>5. ASSUME NEW n \in CommitHeights(h)
      PROVE  n = h \/ n < height \/ (n \in skipped' /\ n > nearestCommitHeight(At))
    <2>1. n \in Height /\ n \in Nat
        BY Zenon, <1>1, CommitHeightsType, HeightType
    <2>2. n = h \/ n \in Skipped(h)
        BY Zenon DEF CommitHeights, Reached
    <2>3. n \in Skipped(h) => n > trie.committed
        BY Zenon DEF Skipped
    <2>4. n \in Skipped(h) => n > nearestCommitHeight(At)
        BY SMTT(30), <1>1, <2>1, <2>3
    <2>5. n < height \/ n >= height
        BY <1>1, <2>1
    <2> QED
        BY Zenon, <1>0, <2>2, <2>4, <2>5
<1>6. /\ StoreInv' /\ RefInv' /\ At' = At
      /\ \A n \in CommitHeight \ skipped' : n <= trie'.committed => Right(disk', n)
    <2>1. skipped \subseteq skipped' /\ mode' \in {"sync", "mark"}
        BY Zenon, <1>0, <1>3
    <2> QED
        BY ZenonT(30), <1>0, <1>1, <1>4, <1>5, <2>1, SyncStore
<1>7. TypeOK'
    <2>1. disk' \in Store /\ vdb' \in Store /\ trie' \in TrieType /\ Counts(dirty')
        BY Zenon, <1>0, <1>4 DEF SyncAccepted
    <2>2. skipped' \subseteq Height
        BY Zenon, <1>0, <1>1 DEF TypeOK, Skipped
    <2>3. mode' \in {"down", "apply", "init", "boot", "run", "sync", "mark", "finish", "failed"}
        BY <1>3
    <2> QED
        BY Zenon, <1>0, <1>1, <2>1, <2>2, <2>3 DEF TypeOK, TrieType, Counts
<1>8. TrieInv'
    <2>1. trie'.committedRoot \in disk'.nodes /\ DOMAIN verifiedRoots' = {}
        BY Zenon, <1>0, <1>1, <1>4 DEF SyncAccepted
    <2> QED
        BY SMTT(30), <1>3, <2>1 DEF TrieInv
<1>9. SyncInv'
    <2>1. /\ trie'.committed = h /\ disk'.committed = h /\ trie'.committedRoot = CanonTo(h)
          /\ trie'.acceptedRoot = CanonTo(h)
        BY ZenonT(30), <1>0, <1>1, <1>2, <1>4 DEF SyncAccepted
    <2>2. Right(disk', h)
        <3>1. h \in CommitHeights(h)
            BY ZenonT(30), <1>1 DEF CommitHeights, Reached
        <3> QED
            BY ZenonT(30), <1>0, <1>1, <1>4, <3>1 DEF SyncAccepted
    <2>3. mode' # "sync" /\ number[target'] = h
        BY <1>0, <1>3 DEF h
    <2> QED
        BY ZenonT(30), <1>1, <1>3, <1>6, <2>1, <2>2, <2>3 DEF SyncInv, Right
<1>10. SharedMemoryExact'
    <2>1. disk'.accepted = disk.accepted /\ disk'.cursor = disk.cursor
        BY Zenon, <1>0, <1>4 DEF SyncAccepted
    <2> QED
        BY Zenon, <1>0, <2>1, SharedMemoryKept DEF BackendInv
<1> QED
    BY Zenon, <1>6, <1>7, <1>8, <1>9, <1>10 DEF BackendInv

\* finishSync moves the last accepted block to the target and sets the cursor.
LEMMA MarkInv ==
    ASSUME BackendInv, Mark
    PROVE  BackendInv'
<1> USE DEF BackendInv
<1> DEFINE h == number[target]
           c == <<At + 1, 0>>
<1>0. /\ TypeOK /\ StoreInv /\ TrieInv /\ SyncInv /\ RefInv /\ SharedMemoryExact /\ vdb = disk
      /\ mode = "mark" /\ mode' = "finish" /\ disk' = vdb' /\ lastAcceptedHash' = target
      /\ vdb' = [vdb EXCEPT !.accepted = target, !.cursor = <<number[vdb.accepted] + 1, 0>>]
      /\ sharedMemory' = sharedMemory /\ trie' = trie /\ dirty' = dirty
      /\ verifiedRoots' = verifiedRoots /\ height' = height /\ target' = target
      /\ syncTrie' = syncTrie /\ crashes' = crashes /\ skipped' = skipped
    BY Zenon DEF Mark, StoreInv, Flush, syncer
<1>1. /\ h > At /\ h % commitInterval = 0 /\ trie.committed = h /\ disk.committed = h
      /\ trie.committedRoot = CanonTo(h) /\ trie.acceptedRoot = CanonTo(h) /\ Right(disk, h)
      /\ \A n \in CommitHeight \ skipped : n <= h => Right(disk, n)
    BY SMTT(30), <1>0 DEF SyncInv
<1>2. disk.cursor = NoCursor /\ DOMAIN verifiedRoots = {} /\ trie.committedRoot \in disk.nodes
    BY <1>0 DEF StoreInv, TrieInv
<1>3. /\ At \in Nat /\ disk.accepted \in Canonical /\ target \in Canonical
      /\ ancestors[disk.accepted] = {a \in Canonical : number[a] <= At}
    BY Zenon, <1>0, AtType DEF TypeOK
<1>4. /\ h \in Nat /\ h \in Height /\ h <= MaxNumber /\ MaxNumber \in Nat /\ target \in Block
      /\ nearestCommitHeight(h) = h
    BY Zenon, <1>1, <1>3, HeightType, Nearest
<1>5. ancestors[target] = {a \in Canonical : number[a] <= h}
    BY Zenon, <1>3, Tree
<1>6. c \in (0..MaxNumber + 1) \X ({0} \cup Chain) /\ c # NoCursor
    BY SMTT(30), <1>1, <1>3, <1>4 DEF NoCursor
<1>7. vdb' = [disk EXCEPT !.accepted = target, !.cursor = c] /\ disk \in Store
    BY Zenon, <1>0 DEF At, TypeOK
<1> HIDE DEF c, h
<1>8. /\ disk' \in Store /\ vdb' = disk' /\ disk'.accepted = target /\ disk'.cursor = c
      /\ disk'.committed = disk.committed /\ disk'.roots = disk.roots
      /\ disk'.nodes = disk.nodes /\ disk'.index = disk.index
    BY ZenonT(30), <1>0, <1>3, <1>6, <1>7 DEF Store
<1>9. At' = h /\ nearestCommitHeight(At)' = h
    BY Zenon, <1>4, <1>8 DEF At, h, nearestCommitHeight
<1>10. TypeOK'
    <2>1. mode' \in {"down", "apply", "init", "boot", "run", "sync", "mark", "finish", "failed"}
        BY SMTT(30), <1>0
    <2> QED
        BY Zenon, <1>0, <1>4, <1>8, <2>1 DEF TypeOK
<1>11. StoreInv'
    <2>1. disk.index \subseteq ancestors[target]
        <3>1. \A a \in Canonical : number[a] <= At => number[a] <= h
            BY SMTT(30), <1>1, <1>3, <1>4, HeightType DEF h
        <3> QED
            BY Zenon, <1>0, <1>3, <1>5, <3>1 DEF StoreInv
    <2>2. \A a \in ancestors[target] : ~(number[a] > h)
        BY SMTT(30), <1>4, <1>5, HeightType
    <2>3. Right(disk', h) /\ \A n \in CommitHeight \ skipped' : n <= h => Right(disk', n)
        BY ZenonT(90), <1>0, <1>1, <1>8 DEF Right, h
    <2>4. {} \in disk'.nodes
        BY Zenon, <1>0, <1>8 DEF StoreInv
    <2>5. mode' \in {"down", "apply", "finish"} /\ h % commitInterval = 0 /\ disk'.committed = h
        BY Zenon, <1>0, <1>1, <1>8 DEF h
    <2> QED
        BY ZenonT(30), <1>8, <1>9, <2>1, <2>2, <2>3, <2>4, <2>5 DEF StoreInv, Right
<1>12. TrieInv'
    <2>1. /\ trie'.committed = h /\ trie'.committedRoot = CanonTo(h) /\ trie'.acceptedRoot = CanonTo(h)
          /\ trie'.committedRoot \in disk'.nodes /\ DOMAIN verifiedRoots' = {}
        BY ZenonT(30), <1>0, <1>1, <1>2, <1>8 DEF h
    <2> QED
        BY SMTT(30), <1>0, <1>6, <1>8, <1>9, <2>1 DEF TrieInv
<1>13. SyncInv'
    BY <1>0 DEF SyncInv
<1>14. RefInv'
    BY Zenon, <1>0, <1>8 DEF RefInv
<1>15. SharedMemoryExact'
    <2>1. Content(disk.accepted) = CanonTo(At) /\ Content(target) = CanonTo(h)
        BY Zenon, <1>3, CanonContent DEF At, h
    <2>2. ASSUME NEW k \in Key PROVE k \in CanonTo(At) <=> k \in CanonTo(h) /\ ~Past(c, k)
        <3>1. PICK b \in Block : k \in AtomicOps(b)
            BY Zenon DEF Key
        <3>2. k[1] = b /\ k[2] \in Chain /\ number[b] \in Nat
            BY Zenon, <3>1, OpsMember, HeightType
        <3>3. k[2] \in Nat \ {0}
            BY ZenonT(30), <3>2, Tree
        <3>4. ~Past(c, k) <=> number[b] <= At
            BY SMTT(30), <1>3, <3>2, <3>3 DEF Past, c
        <3>5. k \in CanonTo(At) <=> b \in Canonical /\ number[b] <= At
            BY Zenon, <3>1, CanonEntry
        <3>6. k \in CanonTo(h) <=> b \in Canonical /\ number[b] <= h
            BY Zenon, <3>1, CanonEntry
        <3>7. number[b] <= At => number[b] <= h
            BY SMTT(30), <1>1, <1>3, <1>4, <3>2 DEF h
        <3> QED
            BY ZenonT(30), <3>4, <3>5, <3>6, <3>7
    <2>3. ASSUME NEW k \in Key
          PROVE  sharedMemory[k] = IF /\ k \in Content(target) /\ k[1] \notin bonusBlocks
                                      /\ ~Past(c, k)
                                   THEN 1 ELSE 0
        <3>1. sharedMemory[k] = IF k \in Content(disk.accepted) /\ k[1] \notin bonusBlocks
                                THEN 1 ELSE 0
            BY Zenon, <1>0, <1>2 DEF SharedMemoryExact
        <3> QED
            BY Zenon, <2>1, <2>2, <3>1
    <2>4. \A k : Past(disk'.cursor, k) <=> Past(c, k)
        BY ZenonT(30), <1>8
    <2> QED
        BY ZenonT(30), <1>0, <1>6, <1>8, <2>3, <2>4 DEF SharedMemoryExact, Past
<1> QED
    BY ZenonT(30), <1>10, <1>11, <1>12, <1>13, <1>14, <1>15

\* A start takes up the trie at the commit height below the last accepted block.
LEMMA NewAtomicBackendInv ==
    ASSUME BackendInv, NewAtomicBackend
    PROVE  BackendInv'
<1> USE DEF BackendInv
<1> DEFINE n == nearestCommitHeight(At)
           r == IF OpenHeight = 0 THEN {} ELSE vdb.roots[OpenHeight]
<1>0. /\ TypeOK /\ StoreInv /\ TrieInv /\ RefInv /\ SharedMemoryExact /\ vdb = disk
      /\ mode = "down" /\ disk' = disk /\ vdb' = vdb /\ skipped' = skipped
      /\ mode' = IF disk.cursor = NoCursor THEN "init" ELSE "apply"
      /\ trie' = [committed |-> OpenHeight, committedRoot |-> r, acceptedRoot |-> r]
      /\ lastAcceptedHash' = disk.accepted /\ height' = OpenHeight
      /\ sharedMemory' = sharedMemory /\ dirty' = dirty /\ verifiedRoots' = verifiedRoots
      /\ target' = target /\ syncTrie' = syncTrie /\ crashes' = crashes
    BY Zenon DEF NewAtomicBackend, StoreInv, db, syncer
<1>1. /\ disk.accepted \in Canonical /\ At \in Height /\ At \in Nat /\ n \in Height /\ n \in Nat
      /\ n <= At
    BY Zenon, <1>0, AtType
<1>2. OpenHeight = n
    <2>1. disk.committed = n \/ disk.committed > At
        BY Zenon, <1>0 DEF StoreInv
    <2>2. disk.committed > At => OpenHeight = n
        BY Zenon, <1>0 DEF OpenHeight, At
    <2>3. disk.committed = n => ~(disk.committed > At)
        BY <1>1
    <2> QED
        BY Zenon, <1>0, <2>1, <2>2, <2>3 DEF OpenHeight, At
<1>3. r = CanonTo(n) /\ r \in disk.nodes /\ r \in SUBSET Key
    <2>1. CASE n = 0
        BY ZenonT(30), <1>0, <1>2, <2>1, CanonContent DEF StoreInv
    <2>2. CASE n # 0
        <3>1. Right(disk, n)
            BY Zenon, <1>0, <2>2 DEF StoreInv
        <3>2. r = disk.roots[n]
            BY Zenon, <1>0, <1>2, <2>2
        <3> QED
            BY Zenon, <3>1, <3>2, CanonContent DEF Right
    <2> QED
        BY Zenon, <2>1, <2>2
<1> HIDE DEF n, r
<1>4. trie' = [committed |-> n, committedRoot |-> r, acceptedRoot |-> r] /\ height' = n
    BY Zenon, <1>0, <1>2
<1>5. TypeOK'
    <2>1. trie' \in [committed : Height, committedRoot : SUBSET Key, acceptedRoot : SUBSET Key]
        BY SMTT(30), <1>1, <1>3, <1>4
    <2>2. lastAcceptedHash' \in Block /\ mode' \in {"init", "apply"}
        BY ZenonT(30), <1>0, <1>1, HeightType
    <2> QED
        BY ZenonT(30), <1>0, <1>1, <1>4, <2>1, <2>2 DEF TypeOK
<1>6. At' = At /\ n = nearestCommitHeight(At)'
    BY Zenon, <1>0 DEF At, n, nearestCommitHeight
<1>7. StoreInv'
    BY ZenonT(30), <1>0, <1>6 DEF StoreInv, Right, n
<1>8. TrieInv'
    <2>1. mode' # "failed" /\ mode' # "finish" /\ mode' # "boot" /\ mode' # "run"
          /\ mode' # "down" /\ (mode' = "apply" => disk.cursor # NoCursor)
        BY <1>0
    <2>2. n \in n..At
        BY SMTT(30), <1>1
    <2>3. DOMAIN verifiedRoots = {}
        BY <1>0 DEF TrieInv
    <2>4. trie'.committed = n /\ trie'.committedRoot = r /\ trie'.acceptedRoot = r
        BY <1>4
    <2>5. lastAcceptedHash' = disk'.accepted /\ disk'.nodes = disk.nodes
        BY Zenon, <1>0
    <2>6. DOMAIN verifiedRoots' = {}
        BY ZenonT(30), <1>0, <2>3
    <2> QED
        BY SMTT(30), <1>0, <1>3, <1>4, <1>6, <2>1, <2>2, <2>4, <2>5, <2>6 DEF TrieInv
<1>9. SyncInv'
    BY <1>0 DEF SyncInv
<1>10. RefInv'
    <2>1. DOMAIN dirty = {} /\ DOMAIN verifiedRoots = {} /\ IsFiniteSet(DOMAIN verifiedRoots)
        BY SMTT(30), <1>0 DEF TrieInv, RefInv
    <2>2. ASSUME NEW x \in SUBSET Key
          PROVE  /\ Copies(dirty, x) <= Holders(verifiedRoots, x) + One(x, r)
                 /\ x \in disk.nodes \/ Copies(dirty, x) = Holders(verifiedRoots, x) + One(x, r)
        <3>1. Holders(verifiedRoots, x) = 0 /\ Copies(dirty, x) = 0
            BY Zenon, <2>1, HoldersType DEF Copies
        <3> QED
            BY <1>3, <3>1 DEF One
    <2>3. trie'.acceptedRoot = r
        BY SMTT(30), <1>4
    <2> QED
        BY ZenonT(30), <1>0, <2>1, <2>2, <2>3 DEF RefInv, Balanced
<1>11. SharedMemoryExact'
    BY Zenon, <1>0, SharedMemoryKept
<1> QED
    BY Zenon, <1>5, <1>7, <1>8, <1>9, <1>10, <1>11

\* The replay of a start commits nothing and balances the references.
LEMMA Replay ==
    ASSUME BackendInv, mode = "init", NEW h \in Nat, height < h, h <= At,
           NEW r \in SUBSET Key, NEW i \in BOOLEAN, i \/ r = trie.acceptedRoot,
           AcceptTrie(vdb, Reference(dirty, r, i), h, r)
    PROVE  /\ CommitHeights(h) = {} /\ vdb' = disk
           /\ trie' \in TrieType /\ trie'.committed = trie.committed
           /\ trie'.committedRoot = trie.committedRoot /\ trie'.acceptedRoot = r
           /\ Counts(dirty') /\ Balanced(dirty', disk.nodes, verifiedRoots, r)
<1> DEFINE c == nearestCommitHeight(At)
           d == Reference(dirty, r, i)
<1>0. /\ TypeOK /\ vdb = disk /\ disk \in Store /\ trie \in TrieType /\ Counts(dirty)
      /\ IsFiniteSet(DOMAIN verifiedRoots)
      /\ Balanced(dirty, disk.nodes, verifiedRoots, trie.acceptedRoot)
    BY Zenon DEF BackendInv, TypeOK, StoreInv, RefInv, TrieType, Counts
<1>1. trie.committed = c /\ height \in c..At
    BY DEF BackendInv, TrieInv
<1>2. /\ At \in Height /\ At \in Nat /\ c \in Nat /\ MaxNumber \in Nat
      /\ \A n \in Nat : n % commitInterval = 0 /\ n > c => n > At
    BY Zenon, <1>0, AtType, HeightType
<1> HIDE DEF c
<1>3. h \in Height /\ h > c /\ h <= At + 1
    BY SMTT(30), <1>1, <1>2 DEF Height
<1>4. Skipped(h) = {}
    BY ZenonT(30), <1>0, <1>1, <1>3, NothingSkipped DEF c
<1>5. h % commitInterval # 0
    BY <1>2, <1>3
<1>6. CommitHeights(h) = {}
    BY Zenon, <1>4, <1>5 DEF CommitHeights, Reached
<1>7. r \in SUBSET Key /\ (i \/ r \in disk.nodes \/ r \in DOMAIN dirty)
    BY Zenon, <1>0, HeldIsStored
<1>8. Counts(d) /\ BalancedWith(d, disk.nodes, verifiedRoots, trie.acceptedRoot, r)
    BY Zenon, <1>0, <1>7, ReferenceBalanced
<1> HIDE DEF d
<1>9. AcceptTrie(disk, d, h, r)
    BY Zenon, <1>0 DEF d
<1>10. /\ vdb' = disk /\ trie' \in TrieType /\ trie'.committed = trie.committed
       /\ trie'.committedRoot = trie.committedRoot /\ trie'.acceptedRoot = r
    <2>1. Committed(disk, d, h, r)
        BY ZenonT(30), <1>0, <1>3, <1>9, AcceptTrieStore
    <2> QED
        BY Zenon, <1>6, <2>1 DEF Committed
<1>11. Counts(dirty') /\ Balanced(dirty', vdb'.nodes, verifiedRoots, r)
    BY SMTT(30), <1>0, <1>3, <1>8, <1>9, AcceptTrieRefs
<1> QED
    BY Zenon, <1>6, <1>10, <1>11

\* A step of the replay: the blocks with operations between two heights of it are indexed.
LEMMA IndexedAbove ==
    ASSUME BackendInv, mode = "init", NEW c \in Canonical, opsOn[c] # {},
           number[c] > height, number[c] <= At
    PROVE  c \in ToReplay
<1>1. /\ TypeOK /\ vdb = disk /\ height \in nearestCommitHeight(At)..At
      /\ \A b \in ancestors[disk.accepted] :
            opsOn[b] # {} /\ number[b] > nearestCommitHeight(At) => b \in disk.index
    BY DEF BackendInv, StoreInv, TrieInv
<1>2. /\ At \in Nat /\ nearestCommitHeight(At) \in Nat
      /\ ancestors[disk.accepted] = {a \in Canonical : number[a] <= At}
    BY Zenon, <1>1, AtType
<1>3. number[c] \in Nat
    BY Zenon, HeightType
<1>4. number[c] > nearestCommitHeight(At)
    BY SMTT(30), <1>1, <1>2, <1>3
<1> QED
    BY ZenonT(30), <1>1, <1>2, <1>4 DEF ToReplay

\* What a step of the start leaves alone.
LEMMA StartKeeps ==
    ASSUME BackendInv, mode = "init", mode' \in {"init", "boot"},
           UNCHANGED <<disk, vdb, sharedMemory, lastAcceptedHash, verifiedRoots, syncer, crashes>>,
           height' \in Height, height' \in nearestCommitHeight(At)..At,
           trie' \in TrieType, trie'.committed = trie.committed,
           trie'.committedRoot = trie.committedRoot,
           trie'.acceptedRoot = CanonTo(IF mode' = "init" THEN height' ELSE At),
           Counts(dirty'), Balanced(dirty', disk.nodes, verifiedRoots, trie'.acceptedRoot)
    PROVE  BackendInv'
<1> USE DEF BackendInv
<1>0. /\ TypeOK /\ StoreInv /\ TrieInv /\ RefInv /\ SharedMemoryExact
      /\ disk' = disk /\ vdb' = vdb /\ skipped' = skipped /\ target' = target
      /\ syncTrie' = syncTrie /\ crashes' = crashes /\ sharedMemory' = sharedMemory
      /\ lastAcceptedHash' = lastAcceptedHash /\ verifiedRoots' = verifiedRoots
    BY Zenon DEF syncer
<1>1. At' = At /\ nearestCommitHeight(At)' = nearestCommitHeight(At)
    BY Zenon, <1>0 DEF At, nearestCommitHeight
<1>2. TypeOK'
    <2>1. mode' \in {"down", "apply", "init", "boot", "run", "sync", "mark", "finish", "failed"}
        OBVIOUS
    <2> QED
        BY ZenonT(30), <1>0, <2>1 DEF TypeOK, TrieType, Counts
<1>3. StoreInv'
    <2>1. disk.cursor = NoCursor
        BY SMTT(30), <1>0 DEF StoreInv
    <2> QED
        BY ZenonT(30), <1>0, <1>1, <2>1 DEF StoreInv, Right
<1>4. TrieInv'
    <2>1. DOMAIN verifiedRoots = {}
        BY SMTT(30), <1>0 DEF TrieInv
    <2>2. /\ trie.committedRoot \in disk.nodes /\ lastAcceptedHash = disk.accepted
          /\ trie.committed = nearestCommitHeight(At)
          /\ trie.committedRoot = CanonTo(trie.committed)
        BY <1>0 DEF TrieInv
    <2>3. /\ DOMAIN verifiedRoots' = {} /\ disk'.nodes = disk.nodes
          /\ lastAcceptedHash' = disk'.accepted
        BY ZenonT(30), <1>0, <2>1, <2>2
    <2> QED
        BY SMTT(30), <1>1, <2>2, <2>3 DEF TrieInv
<1>5. SyncInv'
    BY DEF SyncInv
<1>6. RefInv'
    BY Zenon, <1>0 DEF RefInv
<1>7. SharedMemoryExact'
    BY Zenon, <1>0, SharedMemoryKept
<1> QED
    BY ZenonT(30), <1>2, <1>3, <1>4, <1>5, <1>6, <1>7

\* initialize replays the next indexed block.
LEMMA InitializeInv ==
    ASSUME BackendInv, Initialize
    PROVE  BackendInv'
<1>0. mode = "init" /\ mode' = mode
    BY Zenon DEF Initialize
<1>1. PICK b \in ToReplay :
          /\ \A c \in ToReplay : number[b] <= number[c]
          /\ LET r == trie.acceptedRoot \cup AtomicOps(b)
             IN /\ AcceptTrie(vdb, Reference(dirty, r, TRUE), number[b], r)
                /\ IF CommitHeights(number[b]) # {} THEN Flush ELSE UNCHANGED disk
          /\ height' = number[b]
    BY ZenonT(30) DEF Initialize
<1>2. /\ TypeOK /\ vdb = disk /\ disk.index \subseteq ancestors[disk.accepted]
      /\ height \in nearestCommitHeight(At)..At /\ trie.acceptedRoot = CanonTo(height)
    BY <1>0 DEF BackendInv, StoreInv, TrieInv
<1>3. /\ At \in Nat /\ nearestCommitHeight(At) \in Nat
      /\ ancestors[disk.accepted] = {a \in Canonical : number[a] <= At}
    BY Zenon, <1>2, AtType
<1>4. b \in Canonical /\ number[b] <= At /\ number[b] > height
    BY ZenonT(30), <1>1, <1>2, <1>3 DEF ToReplay
<1>5. number[b] \in Nat /\ number[b] \in Height /\ height \in Nat
    BY SMTT(30), <1>2, <1>3, <1>4, HeightType
<1>6. ASSUME NEW c \in Canonical, opsOn[c] # {}, number[c] > height, number[c] <= number[b]
      PROVE  c = b
    <2>1. number[c] \in Nat
        BY Zenon, HeightType
    <2>2. number[c] <= At
        BY SMTT(30), <1>3, <1>4, <1>5, <1>6, <2>1
    <2>3. c \in ToReplay
        BY ZenonT(30), <1>0, <1>6, <2>2, IndexedAbove
    <2>4. number[c] = number[b]
        BY SMTT(30), <1>1, <1>5, <1>6, <2>1, <2>3
    <2> QED
        BY ZenonT(30), <1>4, <2>4, OneAtHeight
<1>7. CanonTo(number[b]) = CanonTo(height) \cup AtomicOps(b)
    BY Zenon, <1>4, <1>5, <1>6, CanonNext
<1> DEFINE r == trie.acceptedRoot \cup AtomicOps(b)
<1>8. r = CanonTo(number[b]) /\ r \in SUBSET Key
    BY Zenon, <1>2, <1>7, CanonContent
<1>9. AcceptTrie(vdb, Reference(dirty, r, TRUE), number[b], r)
    BY Zenon, <1>1
<1> HIDE DEF r
<1>10. height < number[b]
    BY SMTT(30), <1>4, <1>5
<1>11. /\ CommitHeights(number[b]) = {} /\ vdb' = disk
       /\ trie' \in TrieType /\ trie'.committed = trie.committed
       /\ trie'.committedRoot = trie.committedRoot /\ trie'.acceptedRoot = r
       /\ Counts(dirty') /\ Balanced(dirty', disk.nodes, verifiedRoots, r)
    BY ZenonT(30), <1>0, <1>4, <1>5, <1>8, <1>9, <1>10, Replay
<1>12. disk' = disk /\ vdb' = vdb
    BY ZenonT(30), <1>1, <1>2, <1>11
<1>13. height' \in Height /\ height' \in nearestCommitHeight(At)..At
    BY SMTT(30), <1>1, <1>2, <1>3, <1>4, <1>5
<1>14. /\ UNCHANGED <<disk, vdb, sharedMemory, lastAcceptedHash, verifiedRoots, syncer, crashes>>
       /\ mode' = "init"
    BY Zenon, <1>0, <1>12 DEF Initialize
<1>15. trie'.acceptedRoot = CanonTo(IF mode' = "init" THEN height' ELSE At)
    BY Zenon, <1>1, <1>8, <1>11, <1>14
<1>16. mode' \in {"init", "boot"} /\ Balanced(dirty', disk.nodes, verifiedRoots, trie'.acceptedRoot)
    BY Zenon, <1>11, <1>14
<1> QED
    BY ZenonT(30), <1>0, <1>11, <1>13, <1>14, <1>15, <1>16, StartKeeps

\* initialize ends: the trie is that of the last accepted block.
LEMMA InitializedInv ==
    ASSUME BackendInv, Initialized
    PROVE  BackendInv'
<1> DEFINE r == trie.acceptedRoot
<1>0. /\ mode = "init" /\ mode' = "boot" /\ ToReplay = {} /\ height' = height
      /\ UNCHANGED <<disk, sharedMemory, lastAcceptedHash, verifiedRoots, syncer, crashes>>
    BY ZenonT(30) DEF Initialized
<1>1. /\ TypeOK /\ vdb = disk /\ trie \in TrieType /\ Counts(dirty)
      /\ height \in nearestCommitHeight(At)..At /\ r = CanonTo(height)
      /\ Balanced(dirty, disk.nodes, verifiedRoots, r)
    BY <1>0 DEF BackendInv, StoreInv, TrieInv, TypeOK, TrieType, Counts, RefInv
<1>2. disk.accepted \in Canonical /\ At \in Nat /\ nearestCommitHeight(At) \in Nat
      /\ At = number[vdb.accepted] /\ At = number[disk.accepted] /\ height \in Height
    BY ZenonT(30), <1>1, AtType DEF At, TypeOK
<1>3. height \in Nat /\ r \in SUBSET Key /\ height <= At
    BY SMTT(30), <1>1, <1>2, CanonContent
<1>4. /\ vdb' = disk
      /\ trie' \in TrieType /\ trie'.committed = trie.committed
      /\ trie'.committedRoot = trie.committedRoot /\ trie'.acceptedRoot = r
      /\ Counts(dirty') /\ Balanced(dirty', disk.nodes, verifiedRoots, r)
    <2>1. CASE At > height
        <3>1. AcceptTrie(vdb, Reference(dirty, r, FALSE), At, r)
            BY Zenon, <1>2, <2>1 DEF Initialized
        <3>2. height < At /\ At <= At /\ FALSE \in BOOLEAN
            BY <1>2, <1>3, <2>1
        <3> HIDE DEF r
        <3>3. FALSE \/ r = trie.acceptedRoot
            BY Zenon DEF r
        <3> QED
            BY ZenonT(30), <1>0, <1>2, <1>3, <3>1, <3>2, <3>3, Replay
    <2>2. CASE ~(At > height)
        <3>1. UNCHANGED <<vdb, trie, dirty>>
            BY Zenon, <1>2, <2>2 DEF Initialized
        <3> QED
            BY Zenon, <1>1, <3>1 DEF Counts
    <2> QED
        BY Zenon, <2>1, <2>2
<1>5. CanonTo(At) = CanonTo(height)
    <2>1. CASE At > height
        <3>1. ASSUME NEW c \in Canonical, opsOn[c] # {}, number[c] > height, number[c] <= At
              PROVE  FALSE
            BY Zenon, <1>0, <3>1, IndexedAbove
        <3>2. At <= At
            BY <1>2
        <3>3. opsOn[disk.accepted] = {}
            BY Zenon, <1>2, <2>1, <3>1, <3>2
        <3>4. AtomicOps(disk.accepted) = {}
            BY <3>3 DEF AtomicOps
        <3>5. CanonTo(At) = CanonTo(height) \cup AtomicOps(disk.accepted)
            <4> DEFINE b == disk.accepted
            <4>1. /\ b \in Canonical /\ number[b] > height
                  /\ \A c \in Canonical : opsOn[c] # {} /\ number[c] > height
                                          /\ number[c] <= number[b] => c = b
                BY Zenon, <2>1, <3>1, <1>2
            <4> HIDE DEF b
            <4>2. CanonTo(number[b]) = CanonTo(height) \cup AtomicOps(b)
                BY Zenon, <1>3, <4>1, CanonNext
            <4> QED
                BY Zenon, <4>2 DEF b, At
        <3> QED
            BY Zenon, <3>4, <3>5
    <2>2. CASE ~(At > height)
        <3>1. At = height
            BY SMTT(30), <1>2, <1>3, <2>2
        <3> QED
            BY Zenon, <3>1
    <2> QED
        BY ZenonT(30), <2>1, <2>2
<1>6. /\ mode' \in {"init", "boot"} /\ trie'.acceptedRoot = CanonTo(IF mode' = "init" THEN height' ELSE At)
      /\ Balanced(dirty', disk.nodes, verifiedRoots, trie'.acceptedRoot)
    <2>1. mode' \in {"init", "boot"} /\ mode' # "init"
        BY <1>0
    <2> QED
        BY Zenon, <1>1, <1>4, <1>5, <2>1
<1>7. /\ UNCHANGED <<disk, vdb, sharedMemory, lastAcceptedHash, verifiedRoots, syncer, crashes>>
      /\ height' \in Height /\ height' \in nearestCommitHeight(At)..At
    BY Zenon, <1>0, <1>1, <1>2, <1>4
<1> QED
    BY ZenonT(30), <1>0, <1>4, <1>6, <1>7, StartKeeps

\* While a cursor is set, the last accepted block is at a commit height, and the entries
\* still to be applied are those past the cursor in the chain of that block.
LEMMA ApplyState ==
    ASSUME BackendInv, mode \in {"apply", "finish"}
    PROVE  /\ disk.cursor # NoCursor /\ At % commitInterval = 0
           /\ ToApply = {k \in Content(disk.accepted) : Past(disk.cursor, k) /\ k[1] \notin bonusBlocks}
           /\ \A k \in Key : number[k[1]] \in Height /\ number[k[1]] \in Nat
                             /\ k[2] \in Chain /\ k[2] \in Nat /\ k[2] # 0
           /\ ToApply \subseteq Key
<1>1. /\ TypeOK /\ vdb = disk /\ disk.cursor # NoCursor /\ At % commitInterval = 0
      /\ trie.committed = nearestCommitHeight(At) /\ trie.committedRoot = CanonTo(trie.committed)
    BY DEF BackendInv, StoreInv, TrieInv
<1>2. disk.accepted \in Canonical /\ nearestCommitHeight(At) = At /\ number[disk.accepted] = At
    BY Zenon, <1>1, AtType DEF At
<1>3. trie.committedRoot = Content(disk.accepted) /\ trie.committedRoot = CanonTo(At)
    BY Zenon, <1>1, <1>2, CanonContent
<1>4. \A k \in CanonTo(At) : number[k[1]] <= At /\ k \in Key
    BY Zenon, CanonMember, OpsMember, HeightType
<1>5. ASSUME NEW k \in Key
      PROVE  /\ number[k[1]] \in Height /\ number[k[1]] \in Nat
             /\ k[2] \in Chain /\ k[2] \in Nat /\ k[2] # 0
    <2>1. PICK b \in Block : k \in AtomicOps(b)
        BY Zenon DEF Key
    <2>2. k[1] = b /\ k[2] \in Chain
        BY Zenon, <2>1, OpsMember
    <2>3. number[b] \in Height /\ number[b] \in Nat
        BY Zenon, HeightType
    <2>4. Chain \subseteq Nat \ {0}
        BY Zenon, Tree
    <2> QED
        BY Zenon, <2>2, <2>3, <2>4
<1>6. ToApply = {k \in Content(disk.accepted) : Past(disk.cursor, k) /\ k[1] \notin bonusBlocks}
    <2>1. \A k \in Content(disk.accepted) : number[k[1]] <= number[vdb.accepted]
        BY ZenonT(30), <1>1, <1>2, <1>3, <1>4
    <2>2. trie.committedRoot = Content(disk.accepted) /\ vdb.cursor = disk.cursor
        BY Zenon, <1>1, <1>3
    <2> QED
        BY Zenon, <2>1, <2>2 DEF ToApply
<1>7. ToApply \subseteq Key
    BY Zenon, <1>3, <1>4 DEF ToApply
<1> QED
    BY ZenonT(30), <1>1, <1>5, <1>6, <1>7

\* The cursor moves: nothing but shared memory depends on where it is.
LEMMA CursorMoves ==
    ASSUME BackendInv, mode \in {"apply", "finish"},
           NEW c \in (0..MaxNumber + 1) \X ({0} \cup Chain),
           vdb' = [vdb EXCEPT !.cursor = c], disk' = vdb', sharedMemory' \in [Key -> Nat],
           UNCHANGED <<backend, height, syncer, crashes>>,
           \/ c # NoCursor /\ mode' = mode
           \/ c = NoCursor /\ mode' = IF mode = "apply" THEN "init" ELSE "run"
    PROVE  /\ TypeOK' /\ StoreInv' /\ TrieInv' /\ SyncInv' /\ RefInv'
           /\ disk'.accepted = disk.accepted /\ disk'.cursor = c
<1> USE DEF BackendInv
<1>0. /\ TypeOK /\ StoreInv /\ TrieInv /\ RefInv /\ vdb = disk /\ disk \in Store
      /\ At % commitInterval = 0
      /\ skipped' = skipped /\ target' = target /\ syncTrie' = syncTrie
      /\ crashes' = crashes /\ height' = height /\ trie' = trie /\ dirty' = dirty
      /\ lastAcceptedHash' = lastAcceptedHash /\ verifiedRoots' = verifiedRoots
    BY Zenon, ApplyState DEF StoreInv, TypeOK, backend, syncer
<1>1. /\ vdb' = disk' /\ disk' \in Store /\ disk'.accepted = disk.accepted /\ disk'.cursor = c
      /\ disk'.committed = disk.committed /\ disk'.roots = disk.roots
      /\ disk'.nodes = disk.nodes /\ disk'.index = disk.index
    BY <1>0 DEF Store
<1>2. At' = At /\ nearestCommitHeight(At)' = nearestCommitHeight(At)
    BY Zenon, <1>1 DEF At, nearestCommitHeight
<1>3. /\ mode' \in {"apply", "init", "run", "finish"}
      /\ c # NoCursor => mode' \in {"down", "apply", "finish"}
      /\ mode' \in {"apply", "finish"} => c # NoCursor
      /\ mode' \in {"apply", "init"} => mode = "apply"
      /\ mode' \in {"run", "finish"} => mode = "finish"
    OBVIOUS
<1>4. TypeOK'
    <2>1. mode' \in {"down", "apply", "init", "boot", "run", "sync", "mark", "finish", "failed"}
        BY SMTT(30), <1>3
    <2> QED
        BY ZenonT(30), <1>0, <1>1, <2>1 DEF TypeOK
<1>5. StoreInv'
    BY ZenonT(30), <1>0, <1>1, <1>2, <1>3 DEF StoreInv, Right
<1>6. TrieInv'
    <2>1. /\ trie.committedRoot \in disk.nodes /\ lastAcceptedHash = disk.accepted
          /\ trie.committed = nearestCommitHeight(At)
          /\ trie.committedRoot = CanonTo(trie.committed) /\ DOMAIN verifiedRoots = {}
          /\ mode = "apply" => height \in nearestCommitHeight(At)..At /\ trie.acceptedRoot = CanonTo(height)
          /\ mode = "finish" => trie.acceptedRoot = CanonTo(At)
        BY <1>0 DEF TrieInv
    <2>2. /\ trie'.committedRoot = trie.committedRoot /\ trie'.committed = trie.committed
          /\ trie'.acceptedRoot = trie.acceptedRoot /\ DOMAIN verifiedRoots' = {}
        BY Zenon, <1>0, <2>1
    <2> QED
        BY SMTT(30), <1>0, <1>1, <1>2, <1>3, <2>1, <2>2 DEF TrieInv
<1>7. SyncInv'
    BY <1>3 DEF SyncInv
<1>8. RefInv'
    BY Zenon, <1>0, <1>1 DEF RefInv
<1> QED
    BY ZenonT(30), <1>1, <1>4, <1>5, <1>6, <1>7, <1>8

\* Entries up to a cursor are up to every later one.
LEMMA PastMonotone ==
    ASSUME NEW c \in Nat \X Nat, NEW k, NEW l, number[k[1]] \in Nat, k[2] \in Nat,
           number[l[1]] \in Nat, l[2] \in Nat, Past(c, k), ~Past(c, l)
    PROVE  ~Past(Cursor(k), l)
BY DEF Past, Cursor

\* ApplyToSharedMemory writes a batch with the cursor past it.
LEMMA ApplyBatchInv ==
    ASSUME BackendInv, ApplyBatch
    PROVE  BackendInv'
<1>0. /\ mode \in {"apply", "finish"} /\ mode' = mode /\ disk' = vdb'
      /\ UNCHANGED <<backend, height, syncer, crashes>>
    BY Zenon DEF ApplyBatch, Flush
<1>1. PICK k \in ToApply : /\ Apply({l \in ToApply : ~Past(Cursor(k), l)})
                           /\ vdb' = [vdb EXCEPT !.cursor = Cursor(k)]
    BY Zenon DEF ApplyBatch
<1>2. /\ disk.cursor # NoCursor
      /\ ToApply = {l \in Content(disk.accepted) : Past(disk.cursor, l) /\ l[1] \notin bonusBlocks}
      /\ \A l \in Key : number[l[1]] \in Height /\ number[l[1]] \in Nat
                        /\ l[2] \in Chain /\ l[2] \in Nat /\ l[2] # 0
      /\ ToApply \subseteq Key
    BY Zenon, <1>0, ApplyState
<1>3. /\ SharedMemoryExact /\ sharedMemory \in [Key -> Nat] /\ disk \in Store
      /\ MaxNumber \in Nat /\ Chain \subseteq Nat
    BY Zenon, HeightType, Tree DEF BackendInv, TypeOK
<1>4. disk.cursor \in Nat \X Nat
    <2>1. disk.cursor \in (0..MaxNumber + 1) \X ({0} \cup Chain)
        BY Zenon, <1>3 DEF Store
    <2>2. 0..MaxNumber + 1 \subseteq Nat /\ {0} \cup Chain \subseteq Nat
        BY <1>3
    <2> QED
        BY SMTT(30), <2>1, <2>2
<1>5. Cursor(k) \in (0..MaxNumber + 1) \X ({0} \cup Chain) /\ Cursor(k) # NoCursor
    BY SMTT(30), <1>1, <1>2, <1>3 DEF Cursor, NoCursor, Height
<1>6. sharedMemory' \in [Key -> Nat]
      /\ \A l \in Key : sharedMemory'[l] = sharedMemory[l]
                            + IF l \in ToApply /\ ~Past(Cursor(k), l) THEN 1 ELSE 0
    BY SMTT(30), <1>1, <1>3 DEF Apply
<1>7. /\ TypeOK' /\ StoreInv' /\ TrieInv' /\ SyncInv' /\ RefInv'
      /\ disk'.accepted = disk.accepted /\ disk'.cursor = Cursor(k)
    BY ZenonT(30), <1>0, <1>1, <1>5, <1>6, CursorMoves
<1>8. SharedMemoryExact'
    <2>1. ASSUME NEW l \in Key
          PROVE  sharedMemory'[l] = IF /\ l \in Content(disk.accepted) /\ l[1] \notin bonusBlocks
                                       /\ ~Past(Cursor(k), l)
                                    THEN 1 ELSE 0
        <3>1. ~Past(disk.cursor, l) => ~Past(Cursor(k), l)
            BY ZenonT(30), <1>1, <1>2, <1>4, PastMonotone
        <3>2. sharedMemory[l] = IF /\ l \in Content(disk.accepted) /\ l[1] \notin bonusBlocks
                                   /\ ~Past(disk.cursor, l)
                                THEN 1 ELSE 0
            BY Zenon, <1>2, <1>3 DEF SharedMemoryExact
        <3>3. l \in ToApply <=> /\ l \in Content(disk.accepted) /\ Past(disk.cursor, l)
                                /\ l[1] \notin bonusBlocks
            BY Zenon, <1>2
        <3>4. sharedMemory'[l] = sharedMemory[l]
                                 + IF l \in ToApply /\ ~Past(Cursor(k), l) THEN 1 ELSE 0
            BY Zenon, <1>6
        <3> QED
            BY SMTT(30), <3>1, <3>2, <3>3, <3>4
    <2>2. \A l : Past(disk'.cursor, l) <=> Past(Cursor(k), l)
        BY Zenon, <1>7
    <2> QED
        BY ZenonT(30), <1>5, <1>7, <2>1, <2>2 DEF SharedMemoryExact, Past
<1> QED
    BY Zenon, <1>7, <1>8 DEF BackendInv

\* ApplyToSharedMemory writes what is left and removes the cursor.
LEMMA ApplyRestInv ==
    ASSUME BackendInv, ApplyRest
    PROVE  BackendInv'
<1>0. /\ mode \in {"apply", "finish"} /\ mode' = IF mode = "apply" THEN "init" ELSE "run"
      /\ disk' = vdb' /\ vdb' = [vdb EXCEPT !.cursor = NoCursor] /\ Apply(ToApply)
      /\ UNCHANGED <<backend, height, syncer, crashes>>
    BY Zenon DEF ApplyRest, Flush
<1>2. /\ disk.cursor # NoCursor
      /\ ToApply = {l \in Content(disk.accepted) : Past(disk.cursor, l) /\ l[1] \notin bonusBlocks}
    BY Zenon, <1>0, ApplyState
<1>3. SharedMemoryExact /\ sharedMemory \in [Key -> Nat] /\ MaxNumber \in Nat
    BY Zenon, HeightType DEF BackendInv, TypeOK
<1>5. NoCursor \in (0..MaxNumber + 1) \X ({0} \cup Chain)
    BY <1>3 DEF NoCursor
<1>6. sharedMemory' \in [Key -> Nat]
      /\ \A l \in Key : sharedMemory'[l] = sharedMemory[l] + IF l \in ToApply THEN 1 ELSE 0
    BY <1>0, <1>3 DEF Apply
<1>7. /\ TypeOK' /\ StoreInv' /\ TrieInv' /\ SyncInv' /\ RefInv'
      /\ disk'.accepted = disk.accepted /\ disk'.cursor = NoCursor
    BY ZenonT(30), <1>0, <1>5, <1>6, CursorMoves
<1>8. SharedMemoryExact'
    <2>1. ASSUME NEW l \in Key
          PROVE  sharedMemory'[l] = IF l \in Content(disk.accepted) /\ l[1] \notin bonusBlocks
                                    THEN 1 ELSE 0
        <3>2. sharedMemory[l] = IF /\ l \in Content(disk.accepted) /\ l[1] \notin bonusBlocks
                                   /\ ~Past(disk.cursor, l)
                                THEN 1 ELSE 0
            BY Zenon, <1>2, <1>3 DEF SharedMemoryExact
        <3>3. l \in ToApply <=> /\ l \in Content(disk.accepted) /\ Past(disk.cursor, l)
                                /\ l[1] \notin bonusBlocks
            BY Zenon, <1>2
        <3>4. sharedMemory'[l] = sharedMemory[l] + IF l \in ToApply THEN 1 ELSE 0
            BY Zenon, <1>6
        <3> QED
            BY SMTT(30), <3>2, <3>3, <3>4
    <2> QED
        BY Zenon, <1>7, <2>1 DEF SharedMemoryExact
<1> QED
    BY Zenon, <1>7, <1>8 DEF BackendInv

\* Without a block under verification and with nothing in memory, references balance.
LEMMA EmptyBalanced ==
    ASSUME NEW stored, {} \in stored
    PROVE  /\ IsFiniteSet(DOMAIN None) /\ DOMAIN None = {}
           /\ Counts(NoRefs) /\ DOMAIN NoRefs = {}
           /\ Balanced(NoRefs, stored, None, {})
<1>1. DOMAIN None = {} /\ IsFiniteSet(DOMAIN None)
    BY Zenon, FS_EmptySet DEF None
<1>2. DOMAIN NoRefs = {} /\ Counts(NoRefs)
    BY Zenon DEF NoRefs, Counts
<1>3. ASSUME NEW x \in SUBSET Key
      PROVE  /\ Copies(NoRefs, x) <= Holders(None, x) + One(x, {})
             /\ x \in stored \/ Copies(NoRefs, x) = Holders(None, x) + One(x, {})
    <2>1. Copies(NoRefs, x) = 0 /\ Holders(None, x) = 0
        BY ZenonT(30), <1>1, <1>2, HoldersType DEF Copies
    <2> QED
        BY <2>1 DEF One
<1> QED
    BY Zenon, <1>1, <1>2, <1>3 DEF Balanced

\* A crash loses what is in memory, and nothing else.
LEMMA CrashInv ==
    ASSUME BackendInv, Crash
    PROVE  BackendInv'
<1> USE DEF BackendInv
<1>0. /\ TypeOK /\ StoreInv /\ SharedMemoryExact /\ vdb = disk
      /\ mode' = "down" /\ crashes < MaxCrashes /\ crashes' = crashes + 1
      /\ vdb' = disk /\ disk' = disk /\ sharedMemory' = sharedMemory /\ skipped' = skipped
      /\ trie' = [committed |-> 0, committedRoot |-> {}, acceptedRoot |-> {}]
      /\ dirty' = NoRefs /\ lastAcceptedHash' = Genesis /\ verifiedRoots' = None
      /\ height' = 0 /\ target' = Genesis /\ syncTrie' = {}
    BY Zenon DEF Crash, StoreInv
<1>1. /\ {} \in disk.nodes /\ IsFiniteSet(DOMAIN None) /\ DOMAIN None = {}
      /\ Counts(NoRefs) /\ DOMAIN NoRefs = {} /\ Balanced(NoRefs, disk.nodes, None, {})
    BY ZenonT(30), <1>0, EmptyBalanced DEF StoreInv
<1>2. 0 \in Height /\ Genesis \in Canonical /\ Genesis \in Block
    BY HeightType DEF Height
<1>3. At' = At /\ nearestCommitHeight(At)' = nearestCommitHeight(At)
    BY Zenon, <1>0 DEF At, nearestCommitHeight
<1>4. /\ trie'.committed = 0 /\ trie'.committedRoot = {} /\ trie'.acceptedRoot = {}
      /\ trie' \in [committed : Height, committedRoot : SUBSET Key, acceptedRoot : SUBSET Key]
    BY SMTT(30), <1>0, <1>2
<1>5. TypeOK'
    <2>1. crashes' \in 0..MaxCrashes
        BY SMTT(30), <1>0, Intervals DEF TypeOK
    <2>2. mode' \in {"down", "apply", "init", "boot", "run", "sync", "mark", "finish", "failed"}
        BY <1>0
    <2> QED
        BY ZenonT(30), <1>0, <1>1, <1>2, <1>4, <2>1, <2>2 DEF TypeOK, Counts
<1>6. StoreInv'
    <2>1. mode' \in {"down", "apply", "finish"}
        BY Zenon, <1>0
    <2> QED
        BY ZenonT(30), <1>0, <1>3, <2>1 DEF StoreInv, Right
<1>7. TrieInv'
    <2>1. trie'.committedRoot \in disk'.nodes /\ DOMAIN verifiedRoots' = {} /\ DOMAIN dirty' = {}
        BY ZenonT(30), <1>0, <1>1, <1>4
    <2> QED
        BY SMTT(30), <1>0, <2>1 DEF TrieInv
<1>8. SyncInv'
    BY <1>0 DEF SyncInv
<1>9. RefInv'
    BY Zenon, <1>0, <1>1, <1>4 DEF RefInv
<1>10. SharedMemoryExact'
    BY Zenon, <1>0, SharedMemoryKept
<1> QED
    BY Zenon, <1>5, <1>6, <1>7, <1>8, <1>9, <1>10

\* At first.
LEMMA InitInv == Init => BackendInv
<1> SUFFICES ASSUME Init PROVE BackendInv
    OBVIOUS
<1>0. /\ disk = [accepted |-> Genesis, cursor |-> NoCursor, committed |-> 0,
                 roots |-> [h \in Height |-> {}], nodes |-> {{}}, index |-> {}]
      /\ vdb = disk /\ sharedMemory = [k \in Key |-> 0] /\ mode = "down"
      /\ trie = [committed |-> 0, committedRoot |-> {}, acceptedRoot |-> {}]
      /\ dirty = NoRefs /\ lastAcceptedHash = Genesis /\ verifiedRoots = None
      /\ height = 0 /\ target = Genesis /\ syncTrie = {} /\ crashes = 0 /\ skipped = {}
    BY Zenon DEF Init
<1>1. /\ disk.accepted = Genesis /\ disk.cursor = NoCursor /\ disk.committed = 0
      /\ disk.nodes = {{}} /\ disk.index = {} /\ trie.committed = 0
      /\ trie.committedRoot = {} /\ trie.acceptedRoot = {}
    BY SMTT(30), <1>0
<1>2. /\ 0 \in Height /\ Genesis \in Canonical /\ Genesis \in Block /\ number[Genesis] = 0
      /\ MaxNumber \in Nat /\ MaxCrashes \in Nat
    BY SMTT(30), HeightType, Tree, Intervals DEF Height
<1>3. At = 0 /\ nearestCommitHeight(At) = 0 /\ 0 % commitInterval = 0
    <2>1. At = 0 /\ 0 \in Nat
        BY Zenon, <1>1, <1>2 DEF At
    <2>2. nearestCommitHeight(0) \in 0..0 /\ nearestCommitHeight(0) % commitInterval = 0
        BY ZenonT(30), <2>1, Nearest
    <2>3. nearestCommitHeight(0) = 0
        BY SMTT(30), <2>2
    <2> QED
        BY Zenon, <2>1, <2>2, <2>3
<1>4. /\ IsFiniteSet(DOMAIN None) /\ DOMAIN None = {}
      /\ Counts(NoRefs) /\ DOMAIN NoRefs = {} /\ Balanced(NoRefs, {{}}, None, {})
    BY Zenon, EmptyBalanced
<1>5. TypeOK
    <2>1. NoCursor \in (0..MaxNumber + 1) \X ({0} \cup Chain) /\ 0 \in 0..MaxCrashes
        BY SMTT(30), <1>2 DEF NoCursor
    <2>2. disk \in Store
        BY SMTT(30), <1>0, <1>2, <2>1 DEF Store
    <2>3. /\ trie \in [committed : Height, committedRoot : SUBSET Key, acceptedRoot : SUBSET Key]
          /\ sharedMemory \in [Key -> Nat]
        BY SMTT(30), <1>0, <1>2
    <2> QED
        BY ZenonT(30), <1>0, <1>2, <1>4, <2>1, <2>2, <2>3 DEF TypeOK, Counts
<1>6. StoreInv
    <2>1. /\ \A b \in ancestors[Genesis] : opsOn[b] = {}
        BY Zenon, Tree
    <2>2. \A h \in CommitHeight : ~(h <= 0)
        BY SMTT(30) DEF CommitHeight
    <2> QED
        BY ZenonT(30), <1>0, <1>1, <1>3, <2>1, <2>2 DEF StoreInv
<1>7. TrieInv
    BY SMTT(30), <1>0, <1>1, <1>4 DEF TrieInv
<1>8. SyncInv
    BY <1>0 DEF SyncInv
<1>9. RefInv
    BY Zenon, <1>0, <1>1, <1>4 DEF RefInv
<1>10. SharedMemoryExact
    <2>1. ASSUME NEW k \in Key PROVE k \notin Content(disk.accepted)
        BY Zenon, <1>1, <1>2, CanonContent
    <2>2. \A k \in Key : sharedMemory[k] = 0
        BY Zenon, <1>0
    <2> QED
        BY Zenon, <2>1, <2>2 DEF SharedMemoryExact
<1> QED
    BY ZenonT(30), <1>5, <1>6, <1>7, <1>8, <1>9, <1>10 DEF BackendInv

\* Every step.
LEMMA NextInv == BackendInv /\ [Next]_vars => BackendInv'
<1> SUFFICES ASSUME BackendInv, [Next]_vars PROVE BackendInv'
    OBVIOUS
<1>1. CASE Next
    BY ZenonT(30), <1>1, NewAtomicBackendInv, InitializeInv, InitializedInv, ApplyBatchInv,
       ApplyRestInv, BootstrapInv, InsertTxsInv, AcceptInv, RejectInv, BeginSyncInv,
       OnLeafsInv, OnFinishInv, MarkInv, CrashInv DEF Next
<1>2. CASE UNCHANGED vars
    <2>1. TypeOK' /\ StoreInv'
        BY ZenonT(30), <1>2 DEF vars, BackendInv, TypeOK, StoreInv, Right, At, nearestCommitHeight
    <2>2. TrieInv' /\ SyncInv'
        BY ZenonT(30), <1>2 DEF vars, BackendInv, TrieInv, SyncInv, Right, At, nearestCommitHeight
    <2>3. RefInv' /\ SharedMemoryExact'
        BY Zenon, <1>2 DEF vars, BackendInv, RefInv, Balanced, SharedMemoryExact
    <2> QED
        BY ZenonT(30), <2>1, <2>2, <2>3 DEF BackendInv
<1> QED
    BY Zenon, <1>1, <1>2

-----------------------------------------------------------------------------
(* The properties follow from the invariant.                               *)

\* The durable roots are those of the accepted chain.
LEMMA RootsFollow ==
    ASSUME BackendInv
    PROVE  CommittedRootsRight
<1>1. /\ TypeOK /\ \A h \in CommitHeight \ skipped : h <= At => Right(disk, h)
    BY Zenon DEF BackendInv, StoreInv
<1>2. /\ disk.accepted \in Canonical /\ At \in Nat
      /\ ancestors[disk.accepted] = {a \in Canonical : number[a] <= At}
    BY Zenon, <1>1, AtType
<1>3. ASSUME NEW h \in CommitHeight \ skipped, h <= number[disk.accepted] PROVE RootRight(h)
    <2>1. h \in Nat /\ h <= At
        BY ZenonT(30), <1>3, HeightType DEF At
    <2>2. h \in 0..number[disk.accepted]
        BY SMTT(30), <1>2, <2>1 DEF At
    <2>3. PICK b \in Canonical : number[b] = h
        BY Zenon, <1>2, <2>2, Tree
    <2>4. b \in ancestors[disk.accepted]
        BY Zenon, <1>2, <2>1, <2>3
    <2>5. Content(b) = CanonTo(h)
        BY Zenon, <2>3, CanonContent
    <2>6. Right(disk, h)
        BY Zenon, <1>1, <2>1
    <2> QED
        BY Zenon, <2>3, <2>4, <2>5, <2>6 DEF RootRight, Right
<1> QED
    BY Zenon, <1>3 DEF CommittedRootsRight

\* The tries a block needs can be opened, and no other stays in memory.
LEMMA TriesFollow ==
    ASSUME BackendInv
    PROVE  TriesMatchChain /\ NeededTriesReadable /\ NoTrieLeaks
<1>1. /\ TypeOK /\ TrieInv /\ vdb = disk /\ Counts(dirty) /\ IsFiniteSet(DOMAIN verifiedRoots)
      /\ Balanced(dirty, disk.nodes, verifiedRoots, trie.acceptedRoot)
      /\ trie.acceptedRoot \in SUBSET Key
      /\ \A b \in DOMAIN verifiedRoots : verifiedRoots[b] \in SUBSET Key
    BY Zenon DEF BackendInv, StoreInv, RefInv, TypeOK, Counts
<1>2. TriesMatchChain
    <2>1. ASSUME mode \in {"boot", "run", "finish"}
          PROVE  /\ lastAcceptedHash = disk.accepted /\ trie.acceptedRoot = CanonTo(At)
                 /\ \A b \in DOMAIN verifiedRoots : verifiedRoots[b] = Content(b)
        BY SMTT(30), <1>1, <2>1 DEF TrieInv
    <2>2. Content(disk.accepted) = CanonTo(At)
        BY Zenon, <1>1, AtType, CanonContent DEF At
    <2> QED
        BY ZenonT(30), <1>1, <2>1, <2>2 DEF TriesMatchChain
<1>3. NeededTriesReadable
    <2>1. ASSUME NEW x \in SUBSET Key,
                 x = trie.acceptedRoot \/ \E b \in DOMAIN verifiedRoots : verifiedRoots[b] = x
          PROVE  Readable(x)
        <3>1. x \in disk.nodes \/ x \in DOMAIN dirty
            BY ZenonT(30), <1>1, <2>1, HeldIsStored
        <3> QED
            BY Zenon, <1>1, <3>1 DEF Readable
    <2>2. Readable(trie.committedRoot)
        BY Zenon, <1>1 DEF Readable, TrieInv
    <2> QED
        BY ZenonT(30), <1>1, <2>1, <2>2 DEF NeededTriesReadable
<1>4. NoTrieLeaks
    <2>1. ASSUME NEW r \in DOMAIN dirty
          PROVE  dirty[r] <= Holders(verifiedRoots, r) + IF r = trie.acceptedRoot THEN 1 ELSE 0
        <3>1. r \in SUBSET Key /\ Copies(dirty, r) = dirty[r]
            BY Zenon, <1>1 DEF Counts, Copies
        <3> QED
            BY Zenon, <1>1, <3>1 DEF Balanced, One
    <2> QED
        BY Zenon, <2>1 DEF NoTrieLeaks, Holders
<1> QED
    BY ZenonT(30), <1>2, <1>3, <1>4

\* For every block tree, commit interval and number of crashes: shared memory is told of the
\* operations of each accepted block exactly once, the tries follow the chain, can be opened
\* and are released, and a sync reaches the root of its summary (plugin/evm/atomic/state and
\* sync/atomic).
THEOREM AtomicIsSafe == Spec => []AtomicSafety
<1>1. BackendInv => AtomicSafety
    <2> SUFFICES ASSUME BackendInv PROVE AtomicSafety
        OBVIOUS
    <2>1. SyncReachesTarget
        BY Zenon, SyncEnds DEF SyncReachesTarget
    <2>2. TypeOK /\ SharedMemoryExact
        BY Zenon DEF BackendInv
    <2> QED
        BY ZenonT(30), <2>1, <2>2, RootsFollow, TriesFollow DEF AtomicSafety
<1> QED
    BY <1>1, InitInv, NextInv, PTL DEF Spec
==============================================================================
