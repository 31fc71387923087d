----------------------- MODULE AtomicBackendRunProofs -----------------------
(***************************************************************************)
(* The inductive invariant of the atomic backend, the lemmas about commit  *)
(* heights, the accepted chain and references its proof rests on, and the  *)
(* calls of a running node: a block verified, accepted or rejected, and    *)
(* the beginning of a state sync.                                          *)
(***************************************************************************)
EXTENDS AtomicBackend, FiniteSetTheorems, WellFoundedInduction, TLAPS

-----------------------------------------------------------------------------
(* Invariants.                                                             *)

\* The operations of the accepted chain up to a height.
CanonTo(h) == UNION {AtomicOps(a) : a \in {c \in Canonical : number[c] <= h}}

\* The root stored for a commit height is that of the accepted chain.
Right(s, n) == s.roots[n] = CanonTo(n) /\ s.roots[n] \in s.nodes

At == number[disk.accepted]

\* Nothing is left pending in the versiondb.  The index covers what a start replays: the
\* blocks above the commit height below the last accepted block, whose root is right even
\* when a sync has skipped it, and from which a start resumes, also when an unfinished
\* sync has committed above it.
StoreInv ==
    /\ vdb = disk
    /\ {} \in disk.nodes
    /\ disk.index \subseteq ancestors[disk.accepted]
    /\ \A b \in ancestors[disk.accepted] :
          opsOn[b] # {} /\ number[b] > nearestCommitHeight(At) => b \in disk.index
    /\ disk.committed = nearestCommitHeight(At) \/ disk.committed > At
    /\ disk.committed % commitInterval = 0
    /\ nearestCommitHeight(At) # 0 => Right(disk, nearestCommitHeight(At))
    /\ \A h \in CommitHeight \ skipped : h <= At => Right(disk, h)
    /\ disk.cursor # NoCursor =>
          mode \in {"down", "apply", "finish"} /\ At % commitInterval = 0

\* Which part of the chain the trie in memory holds.
TrieInv ==
    /\ mode # "failed"
    /\ trie.committedRoot \in disk.nodes
    /\ mode \in {"apply", "init", "boot", "run", "finish"} =>
          /\ lastAcceptedHash = disk.accepted
          /\ trie.committed = nearestCommitHeight(At)
          /\ trie.committedRoot = CanonTo(trie.committed)
    /\ mode \in {"apply", "finish"} => disk.cursor # NoCursor
    /\ mode \in {"apply", "init"} =>
          /\ height \in nearestCommitHeight(At)..At
          /\ trie.acceptedRoot = CanonTo(height)
    /\ mode \in {"boot", "run", "finish"} => trie.acceptedRoot = CanonTo(At)
    /\ mode # "run" => DOMAIN verifiedRoots = {}
    /\ \A b \in DOMAIN verifiedRoots : b # Genesis /\ verifiedRoots[b] = Content(b)
    /\ mode = "down" => DOMAIN dirty = {}

\* A sync goes up the target's chain; the roots it has committed are right, and those it
\* will fill in behind the leaf it is at are the one accepted last.
SyncInv ==
    /\ mode \in {"sync", "mark"} =>
          /\ number[target] > At /\ number[target] % commitInterval = 0
          /\ \A h \in CommitHeight \ skipped : h <= trie.committed => Right(disk, h)
    /\ mode = "sync" =>
          /\ trie.committed % commitInterval = 0 /\ trie.committed >= nearestCommitHeight(At)
          /\ height \in trie.committed..number[target]
          /\ syncTrie = CanonTo(height)
          /\ \A n \in CommitHeight : n > trie.committed /\ n < height => CanonTo(n) = trie.acceptedRoot
    /\ mode = "mark" =>
          /\ trie.committed = number[target] /\ disk.committed = number[target]
          /\ trie.committedRoot = CanonTo(number[target])
          /\ trie.acceptedRoot = CanonTo(number[target])
          /\ Right(disk, number[target])

\* References to a root in memory, and the blocks that hold one: those under verification
\* and the last accepted one.
Holders(f, x) == Cardinality({b \in DOMAIN f : f[b] = x})
One(x, r) == IF x = r THEN 1 ELSE 0

\* A root has a reference for each holder, unless it is on disk, where it may have fewer.
Balanced(d, stored, f, r) ==
    \A x \in SUBSET Key :
        /\ Copies(d, x) <= Holders(f, x) + One(x, r)
        /\ x \in stored \/ Copies(d, x) = Holders(f, x) + One(x, r)

RefInv ==
    /\ IsFiniteSet(DOMAIN verifiedRoots)
    /\ Balanced(dirty, disk.nodes, verifiedRoots, trie.acceptedRoot)

BackendInv == TypeOK /\ StoreInv /\ TrieInv /\ SyncInv /\ RefInv /\ SharedMemoryExact

-----------------------------------------------------------------------------
(* Commit heights.                                                         *)

\* Division.
LEMMA Division ==
    ASSUME NEW m \in Nat \ {0}, NEW n \in Nat
    PROVE  /\ n \div m \in Nat /\ n % m \in 0..(m - 1)
           /\ n = m * (n \div m) + (n % m)
OBVIOUS

\* The multiples of the commit interval.
LEMMA Multiple ==
    ASSUME NEW n \in Nat
    PROVE  n % commitInterval = 0 <=> \E q \in Nat : n = commitInterval * q
<1> DEFINE m == commitInterval
<1>0. m \in Nat \ {0}
    BY Intervals
<1>1. ASSUME n % m = 0 PROVE \E q \in Nat : n = m * q
    <2>1. n \div m \in Nat /\ n = m * (n \div m)
        BY <1>0, <1>1, Division
    <2> QED
        BY Zenon, <2>1
<1>2. ASSUME NEW q \in Nat, n = m * q PROVE n % m = 0
    <2> DEFINE p == n \div m
               r == n % m
    <2>1. p \in Nat /\ r \in 0..(m - 1) /\ n = m * p + r
        BY Zenon, <1>0, Division
    <2> HIDE DEF p, r, m
    <2>2. CASE q > p
        <3>1. m * q >= m * (p + 1) /\ m * (p + 1) = m * p + m
            BY <1>0, <2>1, <2>2
        <3> QED
            BY <1>0, <1>2, <2>1, <3>1
    <2>3. CASE q < p
        <3>1. m * q <= m * (p - 1) /\ m * (p - 1) = m * p - m
            BY <1>0, <2>1, <2>3
        <3> QED
            BY <1>0, <1>2, <2>1, <3>1
    <2>4. CASE q = p
        <3>1. r = 0
            BY <1>0, <1>2, <2>1, <2>4
        <3> QED
            BY Zenon, <3>1 DEF r
    <2> QED
        BY <2>1, <2>2, <2>3, <2>4
<1> QED
    BY Zenon, <1>1, <1>2

\* Heights that differ by whole intervals.
LEMMA Shift ==
    ASSUME NEW c \in Nat, NEW n \in Nat, c <= n, c % commitInterval = 0
    PROVE  (n - c) % commitInterval = 0 <=> n % commitInterval = 0
<1> DEFINE m == commitInterval
<1>0. m \in Nat \ {0} /\ n - c \in Nat
    BY Intervals
<1>1. PICK p \in Nat : c = m * p
    BY Zenon, Multiple
<1>2. ASSUME (n - c) % m = 0 PROVE n % m = 0
    <2>1. PICK q \in Nat : n - c = m * q
        BY Zenon, <1>0, <1>2, Multiple
    <2>2. q + p \in Nat /\ n = m * (q + p)
        BY <1>0, <1>1, <2>1
    <2> QED
        BY Zenon, <2>2, Multiple
<1>3. ASSUME n % m = 0 PROVE (n - c) % m = 0
    <2>1. PICK q \in Nat : n = m * q
        BY Zenon, <1>3, Multiple
    <2>2. q >= p
        BY <1>0, <1>1, <2>1
    <2>3. q - p \in Nat /\ n - c = m * (q - p)
        BY <1>0, <1>1, <2>1, <2>2
    <2> QED
        BY Zenon, <1>0, <2>3, Multiple
<1> QED
    BY Zenon, <1>2, <1>3

\* The commit height at or below a height.
LEMMA Nearest ==
    ASSUME NEW h \in Nat
    PROVE  /\ nearestCommitHeight(h) \in 0..h /\ nearestCommitHeight(h) % commitInterval = 0
           /\ \A n \in Nat : n % commitInterval = 0 /\ n > nearestCommitHeight(h) => n > h
           /\ h % commitInterval = 0 => nearestCommitHeight(h) = h
<1> DEFINE m == commitInterval
           p == h \div m
           r == h % m
<1>0. m \in Nat \ {0} /\ p \in Nat /\ r \in 0..(m - 1) /\ h = m * p + r
    BY Zenon, Intervals, Division
<1>1. nearestCommitHeight(h) = m * p /\ nearestCommitHeight(h) = h - r
    BY <1>0 DEF nearestCommitHeight
<1> HIDE DEF m, p, r
<1>2. m * p \in Nat
    BY <1>0
<1>3. (m * p) % m = 0
    BY Zenon, <1>0, <1>2, Multiple DEF m
<1>4. ASSUME NEW n \in Nat, n % m = 0, n > m * p PROVE n > h
    <2>1. PICK q \in Nat : n = m * q
        BY Zenon, <1>4, Multiple DEF m
    <2>2. q >= p + 1
        BY <1>0, <1>4, <2>1
    <2>3. m * q >= m * (p + 1) /\ m * (p + 1) = m * p + m
        BY <1>0, <2>1, <2>2
    <2> QED
        BY <1>0, <1>2, <2>1, <2>3
<1>5. r = 0 => nearestCommitHeight(h) = h
    BY <1>1
<1>6. nearestCommitHeight(h) \in 0..h
    BY <1>0, <1>1, <1>2
<1> QED
    BY Zenon, <1>1, <1>3, <1>4, <1>5, <1>6 DEF m, r

\* The next height is a commit height or has the same one below it.
LEMMA NearestNext ==
    ASSUME NEW h \in Nat, (h + 1) % commitInterval # 0
    PROVE  nearestCommitHeight(h + 1) = nearestCommitHeight(h)
<1> DEFINE a == nearestCommitHeight(h)
           b == nearestCommitHeight(h + 1)
<1>1. /\ a \in 0..h /\ a % commitInterval = 0 /\ h + 1 \in Nat
      /\ b \in 0..(h + 1) /\ b % commitInterval = 0
      /\ \A n \in Nat : n % commitInterval = 0 /\ n > a => n > h
      /\ \A n \in Nat : n % commitInterval = 0 /\ n > b => n > h + 1
    <2>1. h + 1 \in Nat
        OBVIOUS
    <2> QED
        BY Zenon, <2>1, Nearest
<1> HIDE DEF a, b
<1>2. a \in Nat /\ b \in Nat /\ b # h + 1
    BY <1>1
<1>3. ~(b > a)
    BY <1>1, <1>2
<1>4. ~(a > b)
    BY <1>1, <1>2
<1> QED
    BY <1>2, <1>3, <1>4 DEF a, b

\* Summaries are at commit heights.
LEMMA Syncable ==
    ASSUME NEW n \in Nat, n % syncableInterval = 0
    PROVE  n % commitInterval = 0
<1>1. PICK k \in 1..MaxNumber : syncableInterval = k * commitInterval
    BY Zenon, Intervals
<1> DEFINE s == k * commitInterval
           q == n \div s
<1>2. commitInterval \in Nat \ {0} /\ k \in Nat \ {0}
    BY <1>1, Intervals, Tree
<1>3. s \in Nat \ {0}
    BY <1>2
<1>4. q \in Nat /\ n = s * q + (n % s)
    BY Zenon, <1>3, Division
<1>5. n = (k * commitInterval) * q
    BY <1>1, <1>3, <1>4
<1> HIDE DEF q
<1>6. k * q \in Nat /\ n = commitInterval * (k * q)
    BY <1>2, <1>4, <1>5
<1> QED
    BY Zenon, <1>6, Multiple

\* A set of heights that is not empty has a greatest one.
LEMMA Greatest ==
    ASSUME NEW S \in SUBSET Height, S # {}
    PROVE  Max(S) \in S /\ \A n \in S : n <= Max(S)
<1> DEFINE T == {MaxNumber - n : n \in S}
<1>0. MaxNumber \in Nat /\ S \subseteq Nat /\ \A n \in S : n <= MaxNumber
    BY Tree DEF Height
<1>1. T \subseteq Nat /\ T # {}
    <2>1. \A n \in S : MaxNumber - n \in Nat
        BY <1>0
    <2> QED
        BY Zenon, <2>1
<1>2. PICK x \in T : \A y \in T : ~(<<y, x>> \in OpToRel(<, Nat))
    BY Zenon, <1>1, NatLessThanWellFounded, WFMin
<1>3. \A y \in T : ~(y < x)
    BY Zenon, <1>1, <1>2 DEF OpToRel
<1>4. PICK n \in S : x = MaxNumber - n
    BY Zenon, <1>2
<1>5. \A l \in S : n >= l
    <2> TAKE l \in S
    <2>1. MaxNumber - l \in T
        BY Zenon
    <2>2. ~(MaxNumber - l < MaxNumber - n)
        BY Zenon, <1>3, <1>4, <2>1
    <2>3. MaxNumber \in Nat /\ l \in Nat /\ n \in Nat
        BY Zenon, <1>0
    <2> QED
        BY <2>2, <2>3
<1>6. \E i \in S : \A j \in S : i >= j
    BY Zenon, <1>5
<1>7. Max(S) \in S /\ \A l \in S : Max(S) >= l
    BY Zenon, <1>6 DEF Max
<1> QED
    BY <1>0, <1>7

-----------------------------------------------------------------------------
(* The accepted chain.                                                     *)

\* Heights and blocks.
LEMMA HeightType ==
    /\ MaxNumber \in Nat /\ Height \subseteq Nat /\ CommitHeight \subseteq Height
    /\ \A b \in Block : number[b] \in Height /\ number[b] \in Nat /\ number[b] <= MaxNumber
    /\ Canonical \subseteq Block /\ Genesis \in Canonical
<1>1. MaxNumber \in Nat /\ number \in [Block -> Height] /\ Canonical \subseteq Block
      /\ Genesis \in Canonical
    BY Zenon, Tree
<1> QED
    BY <1>1 DEF Height, CommitHeight

\* The accepted chain has one block at a height.
LEMMA OneAtHeight ==
    ASSUME NEW a \in Canonical, NEW b \in Canonical, number[a] = number[b]
    PROVE  a = b
<1>0. a \in Block /\ b \in Block /\ number[a] \in Nat /\ number[b] \in Nat
    BY Zenon, HeightType
<1>1. a \in ancestors[b]
    <2>1. number[a] <= number[b]
        BY <1>0
    <2>2. ancestors[b] = {c \in Canonical : number[c] <= number[b]}
        BY Zenon, Tree
    <2> QED
        BY Zenon, <2>1, <2>2
<1>2. CASE b = Genesis
    BY Zenon, <1>1, <1>2, Tree
<1>3. CASE b # Genesis
    <2>1. /\ parent[b] \in Block /\ number[b] = number[parent[b]] + 1
          /\ ancestors[b] = {b} \cup ancestors[parent[b]]
        BY Zenon, <1>0, <1>3, Tree
    <2>2. a \in ancestors[parent[b]] => number[a] <= number[parent[b]]
        BY Zenon, <2>1, Tree
    <2>3. number[parent[b]] \in Nat
        BY Zenon, <2>1, HeightType
    <2>4. a \notin ancestors[parent[b]]
        BY <1>0, <2>1, <2>2, <2>3
    <2> QED
        BY Zenon, <1>1, <2>1, <2>4
<1> QED
    BY Zenon, <1>2, <1>3

\* What the chain holds up to a height.
LEMMA CanonMember ==
    ASSUME NEW h, NEW k
    PROVE  k \in CanonTo(h) <=> \E a \in Canonical : number[a] <= h /\ k \in AtomicOps(a)
BY Zenon DEF CanonTo

\* The operations of an entry's block.
LEMMA OpsMember ==
    ASSUME NEW b \in Block, NEW k
    PROVE  /\ k \in AtomicOps(b) <=> \E c \in opsOn[b] : k = <<b, c>>
           /\ k \in AtomicOps(b) => k \in Key /\ k[1] = b /\ k[2] \in Chain
<1>1. k \in AtomicOps(b) <=> \E c \in opsOn[b] : k = <<b, c>>
    BY DEF AtomicOps
<1>2. ASSUME k \in AtomicOps(b) PROVE k \in Key /\ k[1] = b /\ k[2] \in Chain
    <2>1. PICK c \in opsOn[b] : k = <<b, c>>
        BY Zenon, <1>1, <1>2
    <2>2. c \in Chain
        BY Zenon, Tree
    <2> QED
        BY Zenon, <1>2, <2>1, <2>2 DEF Key
<1> QED
    BY Zenon, <1>1, <1>2

\* An entry is in the chain when its block is.
LEMMA CanonEntry ==
    ASSUME NEW b \in Block, NEW k, k \in AtomicOps(b), NEW h
    PROVE  k \in CanonTo(h) <=> b \in Canonical /\ number[b] <= h
<1>1. ASSUME k \in CanonTo(h) PROVE b \in Canonical /\ number[b] <= h
    <2>1. PICK a \in Canonical : number[a] <= h /\ k \in AtomicOps(a)
        BY Zenon, <1>1, CanonMember
    <2>2. a = k[1] /\ b = k[1]
        BY Zenon, <2>1, OpsMember, HeightType
    <2> QED
        BY Zenon, <2>1, <2>2
<1> QED
    BY Zenon, <1>1, CanonMember

\* The content of an accepted block is the chain's up to its height.
LEMMA CanonContent ==
    /\ \A b \in Canonical : Content(b) = CanonTo(number[b])
    /\ \A h : CanonTo(h) \subseteq Key
    /\ \A b \in Block : Content(b) \subseteq Key
    /\ CanonTo(0) = {}
<1>1. ASSUME NEW b \in Canonical PROVE Content(b) = CanonTo(number[b])
    <2>1. ancestors[b] = {c \in Canonical : number[c] <= number[b]}
        BY Zenon, Tree
    <2> QED
        BY Zenon, <2>1 DEF Content, CanonTo
<1>2. ASSUME NEW h, NEW k \in CanonTo(h) PROVE k \in Key
    BY Zenon, CanonMember, OpsMember, HeightType
<1>3. ASSUME NEW b \in Block, NEW k \in Content(b) PROVE k \in Key
    <2>1. ancestors[b] \subseteq Block
        BY Zenon, Tree
    <2>2. PICK a \in ancestors[b] : k \in AtomicOps(a)
        BY Zenon, <1>3 DEF Content
    <2> QED
        BY Zenon, <2>1, <2>2, OpsMember
<1>4. ASSUME NEW k \in CanonTo(0) PROVE FALSE
    <2>1. PICK a \in Canonical : number[a] <= 0 /\ k \in AtomicOps(a)
        BY Zenon, CanonMember
    <2>2. number[a] = number[Genesis]
        BY <2>1, HeightType, Tree
    <2>3. a = Genesis
        BY Zenon, <2>2, OneAtHeight, HeightType
    <2> QED
        BY Zenon, <2>1, <2>3, OpsMember, HeightType, Tree
<1> QED
    BY Zenon, <1>1, <1>2, <1>3, <1>4

\* The content of a block is its parent's and its own operations.
LEMMA ChildContent ==
    ASSUME NEW b \in Block \ {Genesis}
    PROVE  Content(b) = Content(parent[b]) \cup AtomicOps(b)
<1>1. ancestors[b] = {b} \cup ancestors[parent[b]]
    BY Zenon, Tree
<1> QED
    BY Zenon, <1>1 DEF Content

\* The next block with operations above a height adds its own and nothing in between.
LEMMA CanonNext ==
    ASSUME NEW h \in Nat, NEW b \in Canonical, number[b] > h,
           \A c \in Canonical : opsOn[c] # {} /\ number[c] > h /\ number[c] <= number[b]
                                => c = b
    PROVE  /\ CanonTo(number[b]) = CanonTo(h) \cup AtomicOps(b)
           /\ \A n \in Nat : h <= n /\ n < number[b] => CanonTo(n) = CanonTo(h)
<1>0. \A c \in Canonical : number[c] \in Nat /\ c \in Block
    BY Zenon, HeightType
<1>1. ASSUME NEW k, k \in CanonTo(number[b]) PROVE k \in CanonTo(h) \cup AtomicOps(b)
    <2>1. PICK a \in Canonical : number[a] <= number[b] /\ k \in AtomicOps(a)
        BY Zenon, <1>1, CanonMember
    <2>2. opsOn[a] # {}
        BY Zenon, <1>0, <2>1, OpsMember
    <2>3. number[a] <= h \/ a = b
        BY <1>0, <2>1, <2>2
    <2> QED
        BY Zenon, <2>1, <2>3, CanonMember
<1>2. ASSUME NEW n \in Nat, h <= n, NEW k \in CanonTo(h) PROVE k \in CanonTo(n)
    <2>1. PICK a \in Canonical : number[a] <= h /\ k \in AtomicOps(a)
        BY Zenon, <1>2, CanonMember
    <2>2. number[a] <= n
        BY <1>0, <1>2, <2>1
    <2> QED
        BY Zenon, <2>1, <2>2, CanonMember
<1>3. h <= number[b] /\ number[b] \in Nat /\ number[b] <= number[b]
    BY <1>0
<1>4. AtomicOps(b) \subseteq CanonTo(number[b])
    BY Zenon, <1>3, CanonMember
<1>5. ASSUME NEW n \in Nat, h <= n, n < number[b], NEW k \in CanonTo(n) PROVE k \in CanonTo(h)
    <2>1. PICK a \in Canonical : number[a] <= n /\ k \in AtomicOps(a)
        BY Zenon, <1>5, CanonMember
    <2>2. opsOn[a] # {}
        BY Zenon, <1>0, <2>1, OpsMember
    <2>3. number[a] <= h
        BY <1>0, <1>5, <2>1, <2>2
    <2> QED
        BY Zenon, <2>1, <2>3, CanonMember
<1> QED
    BY ZenonT(30), <1>1, <1>2, <1>3, <1>4, <1>5

-----------------------------------------------------------------------------
(* References and AcceptTrie.                                              *)

\* Referencing a root.
LEMMA ReferenceCopies ==
    ASSUME NEW d, Counts(d), NEW r \in SUBSET Key, NEW i \in BOOLEAN
    PROVE  /\ Counts(Reference(d, r, i))
           /\ \A x : Copies(Reference(d, r, i), x) =
                  Copies(d, x) + IF x = r /\ (i \/ r \in DOMAIN d) THEN 1 ELSE 0
<1>0. \A x \in DOMAIN d : d[x] \in Nat /\ d[x] > 0
    BY DEF Counts
<1>1. CASE i \/ r \in DOMAIN d
    <2> DEFINE e == Reference(d, r, i)
    <2>1. e = [x \in DOMAIN d \cup {r} |-> Copies(d, x) + IF x = r THEN 1 ELSE 0]
        BY Zenon, <1>1 DEF Reference
    <2> HIDE DEF e
    <2>2. \A x \in DOMAIN d \cup {r} : e[x] \in {n \in Nat : n > 0}
        BY <1>0, <2>1 DEF Copies
    <2>3. Counts(e)
        BY Zenon, <2>1, <2>2 DEF Counts
    <2>4. \A x : Copies(e, x) = Copies(d, x) + IF x = r THEN 1 ELSE 0
        BY <1>0, <2>1 DEF Copies
    <2> QED
        BY Zenon, <1>1, <2>3, <2>4 DEF e
<1>2. CASE ~(i \/ r \in DOMAIN d)
    <2>1. Reference(d, r, i) = d
        BY Zenon, <1>2 DEF Reference
    <2>2. \A x : Copies(d, x) + 0 = Copies(d, x)
        BY <1>0 DEF Copies
    <2> QED
        BY Zenon, <1>2, <2>1, <2>2
<1> QED
    BY Zenon, <1>1, <1>2

\* Dereferencing a root.
LEMMA DereferenceCopies ==
    ASSUME NEW d, Counts(d), NEW r
    PROVE  /\ Counts(Dereference(d, r)) /\ DOMAIN Dereference(d, r) \subseteq DOMAIN d
           /\ \A x : Copies(Dereference(d, r), x) =
                  IF x = r /\ x \in DOMAIN d THEN Copies(d, x) - 1 ELSE Copies(d, x)
<1>0. \A x \in DOMAIN d : d[x] \in Nat /\ d[x] > 0
    BY DEF Counts
<1> DEFINE f == [x \in DOMAIN d |-> IF x \in {r} THEN d[x] - 1 ELSE d[x]]
           e == Dereference(d, r)
<1>1. e = [x \in {y \in DOMAIN d : f[y] > 0} |-> f[x]]
    BY <1>0 DEF Dereference
<1> HIDE DEF e
<1>2. DOMAIN e = {y \in DOMAIN d : f[y] > 0} /\ \A x \in DOMAIN e : e[x] = f[x]
    BY Zenon, <1>1
<1>3. \A x \in DOMAIN d : f[x] \in Nat /\ f[x] = IF x = r THEN d[x] - 1 ELSE d[x]
    BY <1>0
<1> HIDE DEF f
<1>4. Counts(e)
    <2>1. \A x \in DOMAIN e : e[x] \in {n \in Nat : n > 0}
        BY <1>2, <1>3
    <2>2. e = [x \in DOMAIN e |-> e[x]]
        BY Zenon, <1>1, <1>2
    <2> QED
        BY Zenon, <1>2, <2>1, <2>2 DEF Counts
<1>5. ASSUME NEW x PROVE Copies(e, x) = IF x = r /\ x \in DOMAIN d THEN Copies(d, x) - 1
                                        ELSE Copies(d, x)
    BY <1>0, <1>2, <1>3 DEF Copies
<1> QED
    BY Zenon, <1>2, <1>4, <1>5 DEF e

\* The root AcceptTrie gives a commit height, and the roots it writes.
RootAt(h, r, n) == IF n \in Reached(h) THEN r ELSE trie.acceptedRoot
Saved(h, r) == {RootAt(h, r, n) : n \in CommitHeights(h)}

TrieType == [committed : Height, committedRoot : SUBSET Key, acceptedRoot : SUBSET Key]

\* The heights AcceptTrie commits.
LEMMA CommitHeightsType ==
    ASSUME NEW h \in Height
    PROVE  /\ CommitHeights(h) \subseteq Height
           /\ CommitHeights(h) # {} => /\ Max(CommitHeights(h)) \in CommitHeights(h)
                                       /\ \A n \in CommitHeights(h) : n <= Max(CommitHeights(h))
<1>1. CommitHeights(h) \subseteq Height
    BY Zenon DEF CommitHeights, Skipped, Reached
<1> QED
    BY Zenon, <1>1, Greatest

\* What AcceptTrie does to the store and to the trie.
Committed(v, d, h, r) ==
    /\ vdb' \in Store /\ vdb'.accepted = v.accepted /\ vdb'.cursor = v.cursor
    /\ vdb'.index = v.index
    /\ \A n \in Height :
          vdb'.roots[n] = IF n \in CommitHeights(h) THEN RootAt(h, r, n) ELSE v.roots[n]
    /\ vdb'.nodes = v.nodes \cup {s \in Saved(h, r) : s \in DOMAIN d}
    /\ trie' \in TrieType /\ trie'.acceptedRoot = r
    /\ CommitHeights(h) = {} =>
          /\ vdb' = v /\ trie'.committed = trie.committed
          /\ trie'.committedRoot = trie.committedRoot
    /\ CommitHeights(h) # {} =>
          LET m == Max(CommitHeights(h))
          IN /\ vdb'.committed = m /\ trie'.committed = m
             /\ trie'.committedRoot = RootAt(h, r, m)

\* AcceptTrie does that.
LEMMA AcceptTrieStore ==
    ASSUME NEW v \in Store, NEW d, NEW h \in Height, NEW r \in SUBSET Key,
           trie \in TrieType, AcceptTrie(v, d, h, r)
    PROVE  Committed(v, d, h, r)
<1> DEFINE H == CommitHeights(h)
           m == Max(H)
           R == [n \in Height |-> IF n \in H THEN RootAt(h, r, n) ELSE v.roots[n]]
           N == v.nodes \cup {s \in Saved(h, r) : s \in DOMAIN d}
           C == IF H = {} THEN v.committed ELSE m
<1>1. H \subseteq Height /\ (H # {} => m \in H)
    BY Zenon, CommitHeightsType
<1>2. \A n : RootAt(h, r, n) \in SUBSET Key
    BY Zenon DEF RootAt, TrieType
<1>3. /\ vdb' = [v EXCEPT !.committed = C, !.roots = R, !.nodes = N]
      /\ trie' = [committed |-> IF H = {} THEN trie.committed ELSE m,
                  committedRoot |-> IF H = {} THEN trie.committedRoot ELSE RootAt(h, r, m),
                  acceptedRoot |-> r]
    BY DEF AcceptTrie, RootAt, Saved
<1>4. R \in [Height -> SUBSET Key] /\ N \in SUBSET SUBSET Key
    <2>1. v.roots \in [Height -> SUBSET Key] /\ v.nodes \in SUBSET SUBSET Key
        BY DEF Store
    <2>2. \A n \in Height : (IF n \in H THEN RootAt(h, r, n) ELSE v.roots[n]) \in SUBSET Key
        BY Zenon, <1>2, <2>1
    <2>3. Saved(h, r) \subseteq SUBSET Key
        BY Zenon, <1>2 DEF Saved
    <2>4. N \in SUBSET SUBSET Key
        BY Zenon, <2>1, <2>3
    <2> QED
        BY Zenon, <2>2, <2>4
<1>5. H = {} => R = v.roots /\ N = v.nodes
    <2>1. v.roots \in [Height -> SUBSET Key]
        BY DEF Store
    <2> QED
        BY Zenon, <2>1 DEF Saved
<1>6. C \in Height
    BY Zenon, <1>1 DEF Store
<1> HIDE DEF H, m, R, N, C
<1>7. /\ vdb' \in Store /\ vdb'.accepted = v.accepted /\ vdb'.cursor = v.cursor
      /\ vdb'.index = v.index /\ vdb'.roots = R /\ vdb'.nodes = N /\ vdb'.committed = C
    BY Zenon, <1>3, <1>4, <1>6 DEF Store
<1>8. C = v.committed /\ R = v.roots /\ N = v.nodes => vdb' = v
    BY Zenon, <1>3 DEF Store
<1>9. trie' \in TrieType
    BY <1>1, <1>2, <1>3 DEF TrieType
<1> QED
    BY ZenonT(30), <1>3, <1>5, <1>7, <1>8, <1>9 DEF Committed, H, m, R, N, C

\* What AcceptTrie does to the references.
LEMMA AcceptTrieDirty ==
    ASSUME NEW v, NEW d, Counts(d), NEW h, NEW r, AcceptTrie(v, d, h, r)
    PROVE  /\ Counts(dirty')
           /\ \A x : Copies(dirty', x) =
                 IF x \in Saved(h, r) THEN 0
                 ELSE IF x = trie.acceptedRoot /\ x \in DOMAIN d THEN Copies(d, x) - 1
                 ELSE Copies(d, x)
<1> DEFINE S == Saved(h, r)
           e == [s \in DOMAIN d \ S |-> d[s]]
<1>1. dirty' = Dereference(e, trie.acceptedRoot)
    BY Zenon DEF AcceptTrie, RootAt, Saved
<1>2. DOMAIN e = DOMAIN d \ S /\ \A x \in DOMAIN d \ S : e[x] = d[x]
    OBVIOUS
<1>3. Counts(e)
    BY Zenon, <1>2 DEF Counts
<1>4. \A x : Copies(e, x) = IF x \in S THEN 0 ELSE Copies(d, x)
    BY Zenon, <1>2 DEF Copies
<1> HIDE DEF e, S
<1>5. /\ Counts(dirty')
      /\ \A x : Copies(dirty', x) = IF x = trie.acceptedRoot /\ x \in DOMAIN e
                                    THEN Copies(e, x) - 1 ELSE Copies(e, x)
    BY Zenon, <1>1, <1>3, DereferenceCopies
<1> QED
    BY Zenon, <1>2, <1>4, <1>5 DEF S

\* The blocks that hold a root.
LEMMA HoldersType ==
    ASSUME NEW f, IsFiniteSet(DOMAIN f), NEW x
    PROVE  /\ Holders(f, x) \in Nat
           /\ \A b \in DOMAIN f : f[b] = x => Holders(f, x) >= 1
           /\ DOMAIN f = {} => Holders(f, x) = 0
<1> DEFINE S == {b \in DOMAIN f : f[b] = x}
<1>1. IsFiniteSet(S)
    BY Zenon, FS_Subset
<1>2. Cardinality(S) \in Nat /\ (Cardinality(S) = 0 <=> S = {})
    BY Zenon, <1>1, FS_CardinalityType, FS_EmptySet
<1>3. (\E b \in DOMAIN f : f[b] = x) => S # {}
    BY Zenon
<1>4. DOMAIN f = {} => S = {}
    BY Zenon
<1> HIDE DEF S
<1>5. S # {} => Cardinality(S) >= 1
    BY <1>2
<1> QED
    BY Zenon, <1>2, <1>3, <1>4, <1>5 DEF Holders, S

\* One block more holds a root.
LEMMA HoldersStep ==
    ASSUME NEW f, NEW g, NEW b, IsFiniteSet(DOMAIN g), b \notin DOMAIN g,
           DOMAIN f = DOMAIN g \cup {b}, \A c \in DOMAIN g : f[c] = g[c]
    PROVE  /\ IsFiniteSet(DOMAIN f)
           /\ \A x : Holders(f, x) = Holders(g, x) + One(x, f[b])
<1>1. IsFiniteSet(DOMAIN f)
    BY Zenon, FS_AddElement
<1>2. ASSUME NEW x PROVE Holders(f, x) = Holders(g, x) + One(x, f[b])
    <2> DEFINE S == {c \in DOMAIN g : g[c] = x}
               T == {c \in DOMAIN f : f[c] = x}
    <2>1. IsFiniteSet(S) /\ b \notin S
        BY Zenon, FS_Subset
    <2>2. Cardinality(S \cup {b}) = Cardinality(S) + 1 /\ Cardinality(S) \in Nat
        BY Zenon, <2>1, FS_AddElement, FS_CardinalityType
    <2>3. T = IF f[b] = x THEN S \cup {b} ELSE S
        BY Zenon
    <2> HIDE DEF S, T
    <2>4. Cardinality(T) = Cardinality(S) + One(x, f[b])
        BY <2>2, <2>3 DEF One
    <2> QED
        BY Zenon, <2>4 DEF Holders, S, T
<1> QED
    BY Zenon, <1>1, <1>2

\* The balance while a root that is about to be accepted is referenced as well.
BalancedWith(d, stored, f, a, r) ==
    \A x \in SUBSET Key :
        /\ Copies(d, x) <= Holders(f, x) + One(x, a) + One(x, r)
        /\ x \in stored \/ Copies(d, x) = Holders(f, x) + One(x, a) + One(x, r)

\* References are numbers.
LEMMA CopiesType ==
    ASSUME NEW d, Counts(d), NEW x
    PROVE  Copies(d, x) \in Nat /\ (x \in DOMAIN d <=> Copies(d, x) # 0)
<1>1. \A y \in DOMAIN d : d[y] \in Nat /\ d[y] > 0
    BY DEF Counts
<1> QED
    BY <1>1 DEF Copies

\* A root that is held is in memory or on disk.
LEMMA HeldIsStored ==
    ASSUME NEW d, Counts(d), NEW stored, NEW f, IsFiniteSet(DOMAIN f), NEW a,
           Balanced(d, stored, f, a), NEW x \in SUBSET Key,
           x = a \/ \E b \in DOMAIN f : f[b] = x
    PROVE  x \in stored \/ x \in DOMAIN d
<1>1. Holders(f, x) \in Nat /\ (x = a \/ Holders(f, x) >= 1)
    BY Zenon, HoldersType
<1>2. Copies(d, x) \in Nat /\ (x \in DOMAIN d <=> Copies(d, x) # 0)
    BY Zenon, CopiesType
<1>3. x \in stored \/ Copies(d, x) = Holders(f, x) + One(x, a)
    BY Zenon DEF Balanced
<1> QED
    BY <1>1, <1>2, <1>3 DEF One

\* Referencing a root that is new, on disk or in memory.
LEMMA ReferenceBalanced ==
    ASSUME NEW d, Counts(d), NEW stored, NEW f, IsFiniteSet(DOMAIN f), NEW a,
           Balanced(d, stored, f, a), NEW r \in SUBSET Key, NEW i \in BOOLEAN,
           i \/ r \in stored \/ r \in DOMAIN d
    PROVE  /\ Counts(Reference(d, r, i))
           /\ BalancedWith(Reference(d, r, i), stored, f, a, r)
<1> DEFINE e == Reference(d, r, i)
<1>1. /\ Counts(e)
      /\ \A x : Copies(e, x) = Copies(d, x) + IF x = r /\ (i \/ r \in DOMAIN d) THEN 1 ELSE 0
    BY Zenon, ReferenceCopies
<1> HIDE DEF e
<1>2. ASSUME NEW x \in SUBSET Key
      PROVE  /\ Copies(e, x) <= Holders(f, x) + One(x, a) + One(x, r)
             /\ x \in stored \/ Copies(e, x) = Holders(f, x) + One(x, a) + One(x, r)
    <2>1. Holders(f, x) \in Nat /\ Copies(d, x) \in Nat
        BY Zenon, HoldersType, CopiesType
    <2>2. /\ Copies(d, x) <= Holders(f, x) + One(x, a)
          /\ x \in stored \/ Copies(d, x) = Holders(f, x) + One(x, a)
        BY Zenon DEF Balanced
    <2>3. Copies(e, x) = Copies(d, x) + IF x = r /\ (i \/ r \in DOMAIN d) THEN 1 ELSE 0
        BY Zenon, <1>1
    <2> QED
        BY <2>1, <2>2, <2>3 DEF One
<1> QED
    BY Zenon, <1>1, <1>2 DEF BalancedWith, e

\* AcceptTrie writes the roots it commits and releases the one accepted before.
LEMMA AcceptTrieRefs ==
    ASSUME NEW v \in Store, NEW d, Counts(d), NEW h \in Height, NEW r \in SUBSET Key,
           trie \in TrieType, AcceptTrie(v, d, h, r), NEW f, IsFiniteSet(DOMAIN f),
           BalancedWith(d, v.nodes, f, trie.acceptedRoot, r)
    PROVE  /\ Counts(dirty') /\ Balanced(dirty', vdb'.nodes, f, r)
           /\ v.nodes \subseteq vdb'.nodes
           /\ \A n \in CommitHeights(h) : RootAt(h, r, n) \in vdb'.nodes
<1> DEFINE a == trie.acceptedRoot
           S == Saved(h, r)
<1>1. vdb'.nodes = v.nodes \cup {s \in S : s \in DOMAIN d}
    <2>1. Committed(v, d, h, r)
        BY Zenon, AcceptTrieStore
    <2> QED
        BY Zenon, <2>1 DEF Committed
<1>2. /\ Counts(dirty')
      /\ \A x : Copies(dirty', x) = IF x \in S THEN 0
                                    ELSE IF x = a /\ x \in DOMAIN d THEN Copies(d, x) - 1
                                    ELSE Copies(d, x)
    BY AcceptTrieDirty
<1>3. \A s \in S : (s = r \/ s = a) /\ s \in SUBSET Key
    BY DEF Saved, RootAt, TrieType
<1>4. \A n \in CommitHeights(h) : RootAt(h, r, n) \in S
    BY Zenon DEF Saved
<1> HIDE DEF S, a
<1>5. ASSUME NEW x \in SUBSET Key
      PROVE  /\ x \in S => x \in vdb'.nodes
             /\ Copies(dirty', x) <= Holders(f, x) + One(x, r)
             /\ x \in vdb'.nodes \/ Copies(dirty', x) = Holders(f, x) + One(x, r)
    <2>1. /\ Holders(f, x) \in Nat /\ Copies(d, x) \in Nat
          /\ (x \in DOMAIN d <=> Copies(d, x) # 0)
        BY Zenon, HoldersType, CopiesType
    <2>2. /\ Copies(d, x) <= Holders(f, x) + One(x, a) + One(x, r)
          /\ x \in v.nodes \/ Copies(d, x) = Holders(f, x) + One(x, a) + One(x, r)
        BY Zenon DEF BalancedWith, a
    <2>3. Copies(dirty', x) = IF x \in S THEN 0
                              ELSE IF x = a /\ x \in DOMAIN d THEN Copies(d, x) - 1
                              ELSE Copies(d, x)
        BY Zenon, <1>2
    <2>4. x \in S => x = r \/ x = a
        BY Zenon, <1>3
    <2>5. x \in vdb'.nodes <=> x \in v.nodes \/ (x \in S /\ x \in DOMAIN d)
        BY Zenon, <1>1
    <2> QED
        BY SMTT(30), <2>1, <2>2, <2>3, <2>4, <2>5 DEF One
<1> QED
    BY ZenonT(30), <1>1, <1>2, <1>3, <1>4, <1>5 DEF Balanced

-----------------------------------------------------------------------------
(* The last accepted block and the commit height below it.                 *)

\* The height of the last accepted block and the commit height below it.
LEMMA AtType ==
    ASSUME TypeOK
    PROVE  /\ disk.accepted \in Canonical /\ At \in Height /\ At \in Nat
           /\ ancestors[disk.accepted] = {a \in Canonical : number[a] <= At}
           /\ nearestCommitHeight(At) \in Height /\ nearestCommitHeight(At) \in Nat
           /\ nearestCommitHeight(At) <= At /\ nearestCommitHeight(At) % commitInterval = 0
           /\ \A n \in Nat : n % commitInterval = 0 /\ n > nearestCommitHeight(At) => n > At
           /\ At % commitInterval = 0 => nearestCommitHeight(At) = At
<1>1. disk.accepted \in Canonical
    BY DEF TypeOK, Store
<1>2. At \in Height /\ At \in Nat /\ At <= MaxNumber /\ MaxNumber \in Nat
    BY Zenon, <1>1, HeightType DEF At
<1>3. ancestors[disk.accepted] = {a \in Canonical : number[a] <= At}
    BY Zenon, <1>1, Tree DEF At
<1>4. /\ nearestCommitHeight(At) \in 0..At /\ nearestCommitHeight(At) % commitInterval = 0
      /\ \A n \in Nat : n % commitInterval = 0 /\ n > nearestCommitHeight(At) => n > At
      /\ At % commitInterval = 0 => nearestCommitHeight(At) = At
    BY Zenon, <1>2, Nearest
<1>5. /\ nearestCommitHeight(At) \in Nat /\ nearestCommitHeight(At) <= At
      /\ nearestCommitHeight(At) \in Height
    BY <1>2, <1>4 DEF Height
<1> QED
    BY ZenonT(30), <1>1, <1>2, <1>3, <1>4, <1>5

\* What shared memory was told depends on the accepted block and the cursor alone.
LEMMA SharedMemoryKept ==
    ASSUME SharedMemoryExact, UNCHANGED sharedMemory,
           disk'.accepted = disk.accepted, disk'.cursor = disk.cursor
    PROVE  SharedMemoryExact'
BY Zenon DEF SharedMemoryExact, Past

\* No commit height is passed over up to the block after the last accepted one.
LEMMA NothingSkipped ==
    ASSUME TypeOK, trie.committed = nearestCommitHeight(At), NEW h \in Height, h <= At + 1
    PROVE  Skipped(h) = {}
<1> DEFINE c == nearestCommitHeight(At)
<1>1. /\ At \in Nat /\ c \in Nat /\ c % commitInterval = 0
      /\ \A n \in Nat : n % commitInterval = 0 /\ n > c => n > At
    BY Zenon, AtType
<1> HIDE DEF c
<1>2. ASSUME NEW n \in Height, n > c, n < h, (n - c) % commitInterval = 0 PROVE FALSE
    <2>1. n \in Nat /\ h \in Nat
        BY Zenon, HeightType
    <2>2. c <= n
        BY <1>1, <1>2, <2>1
    <2>3. n % commitInterval = 0
        BY Zenon, <1>1, <1>2, <2>1, <2>2, Shift
    <2>4. n > At
        BY Zenon, <1>1, <1>2, <2>1, <2>3
    <2> QED
        BY SMTT(30), <1>1, <1>2, <2>1, <2>4
<1> QED
    BY Zenon, <1>2 DEF Skipped, c

-----------------------------------------------------------------------------
(* The calls of a running node.                                            *)

\* Verification changes the roots held in memory and nothing else.
LEMMA RunKeeps ==
    ASSUME BackendInv, mode \in {"boot", "run"}, mode' = "run",
           UNCHANGED <<db, sharedMemory, trie, lastAcceptedHash, height, syncer, crashes>>,
           DOMAIN verifiedRoots' \subseteq Block,
           \A b \in DOMAIN verifiedRoots' : b # Genesis /\ verifiedRoots'[b] = Content(b),
           Counts(dirty'), IsFiniteSet(DOMAIN verifiedRoots'),
           Balanced(dirty', disk.nodes, verifiedRoots', trie.acceptedRoot)
    PROVE  BackendInv'
<1> USE DEF BackendInv
<1>0. /\ TypeOK /\ StoreInv /\ TrieInv /\ SharedMemoryExact
      /\ disk' = disk /\ vdb' = vdb /\ skipped' = skipped /\ target' = target
      /\ syncTrie' = syncTrie /\ crashes' = crashes /\ sharedMemory' = sharedMemory
      /\ lastAcceptedHash' = lastAcceptedHash /\ trie' = trie /\ height' = height
    BY Zenon DEF db, syncer
<1>1. At' = At /\ nearestCommitHeight(At)' = nearestCommitHeight(At)
    BY Zenon, <1>0 DEF At, nearestCommitHeight
<1>2. TypeOK'
    <2>1. mode' \in {"down", "apply", "init", "boot", "run", "sync", "mark", "finish", "failed"}
        OBVIOUS
    <2>2. \A b \in DOMAIN verifiedRoots' : verifiedRoots'[b] \subseteq Key
        BY Zenon, CanonContent
    <2> QED
        BY Zenon, <1>0, <2>1, <2>2 DEF TypeOK, Counts
<1>3. StoreInv'
    <2>1. disk.cursor = NoCursor
        BY SMTT(30), <1>0 DEF StoreInv
    <2> QED
        BY Zenon, <1>0, <1>1, <2>1 DEF StoreInv, Right
<1>4. TrieInv'
    <2>1. /\ trie.committedRoot \in disk.nodes /\ lastAcceptedHash = disk.accepted
          /\ trie.committed = nearestCommitHeight(At)
          /\ trie.committedRoot = CanonTo(trie.committed) /\ trie.acceptedRoot = CanonTo(At)
        BY <1>0 DEF TrieInv
    <2>2. /\ trie'.committedRoot = trie.committedRoot /\ trie'.committed = trie.committed
          /\ trie'.acceptedRoot = trie.acceptedRoot /\ lastAcceptedHash' = disk'.accepted
          /\ disk'.nodes = disk.nodes
        BY ZenonT(30), <1>0, <2>1
    <2> QED
        BY SMTT(30), <1>1, <2>1, <2>2 DEF TrieInv
<1>5. SyncInv'
    BY DEF SyncInv
<1>6. RefInv'
    BY Zenon, <1>0 DEF RefInv
<1>7. SharedMemoryExact'
    BY Zenon, <1>0, SharedMemoryKept
<1> QED
    BY ZenonT(30), <1>2, <1>3, <1>4, <1>5, <1>6, <1>7

\* The engine bootstraps.
LEMMA BootstrapInv ==
    ASSUME BackendInv, Bootstrap
    PROVE  BackendInv'
<1>1. /\ mode = "boot" /\ mode' = "run" /\ dirty' = dirty /\ verifiedRoots' = verifiedRoots
      /\ UNCHANGED <<db, sharedMemory, trie, lastAcceptedHash, height, syncer, crashes>>
    BY Zenon DEF Bootstrap, backend
<1>2. /\ Counts(dirty) /\ DOMAIN verifiedRoots \subseteq Block /\ IsFiniteSet(DOMAIN verifiedRoots)
      /\ \A b \in DOMAIN verifiedRoots : b # Genesis /\ verifiedRoots[b] = Content(b)
      /\ Balanced(dirty, disk.nodes, verifiedRoots, trie.acceptedRoot)
    BY Zenon DEF BackendInv, TypeOK, TrieInv, RefInv, Counts
<1>3. /\ Counts(dirty') /\ DOMAIN verifiedRoots' \subseteq Block /\ IsFiniteSet(DOMAIN verifiedRoots')
      /\ \A b \in DOMAIN verifiedRoots' : b # Genesis /\ verifiedRoots'[b] = Content(b)
      /\ Balanced(dirty', disk.nodes, verifiedRoots', trie.acceptedRoot)
    BY Zenon, <1>1, <1>2 DEF Counts
<1>4. mode \in {"boot", "run"}
    BY Zenon, <1>1
<1> QED
    BY Zenon, <1>1, <1>3, <1>4, RunKeeps

\* What holds while blocks are verified.
LEMMA RunState ==
    ASSUME BackendInv, mode = "run"
    PROVE  /\ Counts(dirty) /\ DOMAIN verifiedRoots \subseteq Block /\ IsFiniteSet(DOMAIN verifiedRoots)
           /\ \A b \in DOMAIN verifiedRoots :
                 b # Genesis /\ verifiedRoots[b] = Content(b) /\ verifiedRoots[b] \in SUBSET Key
           /\ Balanced(dirty, disk.nodes, verifiedRoots, trie.acceptedRoot)
           /\ lastAcceptedHash = disk.accepted /\ disk.accepted \in Canonical
           /\ trie.acceptedRoot = Content(lastAcceptedHash) /\ trie.acceptedRoot \in SUBSET Key
           /\ trie.committed = nearestCommitHeight(At) /\ vdb = disk /\ disk.cursor = NoCursor
<1>1. /\ TypeOK /\ lastAcceptedHash = disk.accepted /\ trie.acceptedRoot = CanonTo(At)
      /\ trie.committed = nearestCommitHeight(At) /\ vdb = disk /\ disk.cursor = NoCursor
    BY DEF BackendInv, TrieInv, StoreInv
<1>2. /\ Counts(dirty) /\ DOMAIN verifiedRoots \subseteq Block /\ IsFiniteSet(DOMAIN verifiedRoots)
      /\ \A b \in DOMAIN verifiedRoots : b # Genesis /\ verifiedRoots[b] = Content(b)
      /\ Balanced(dirty, disk.nodes, verifiedRoots, trie.acceptedRoot)
    BY Zenon DEF BackendInv, TypeOK, TrieInv, RefInv, Counts
<1>3. disk.accepted \in Canonical
    BY Zenon, <1>1, AtType
<1>4. \A b \in DOMAIN verifiedRoots : verifiedRoots[b] \in SUBSET Key
    BY Zenon, <1>2, CanonContent
<1>5. Content(lastAcceptedHash) = CanonTo(At) /\ CanonTo(At) \in SUBSET Key
    BY Zenon, <1>1, <1>3, CanonContent DEF At
<1> QED
    BY Zenon, <1>1, <1>2, <1>3, <1>4, <1>5

\* Verification pins the block's root.
LEMMA InsertTxsInv ==
    ASSUME BackendInv, NEW b \in Block, InsertTxs(b)
    PROVE  BackendInv'
<1> DEFINE p == getAtomicRootAt(parent[b])
           r == p \cup AtomicOps(b)
           i == opsOn[b] # {}
<1>0. /\ mode = "run" /\ mode' = "run" /\ b \notin DOMAIN verifiedRoots
      /\ b \notin ancestors[lastAcceptedHash]
      /\ parent[b] = lastAcceptedHash \/ parent[b] \in DOMAIN verifiedRoots
      /\ dirty' = Reference(dirty, r, i)
      /\ verifiedRoots' = [c \in DOMAIN verifiedRoots \cup {b} |->
                              IF c = b THEN r ELSE verifiedRoots[c]]
      /\ UNCHANGED <<db, sharedMemory, trie, lastAcceptedHash, height, syncer, crashes>>
    BY Zenon DEF InsertTxs, HasRoot
<1>1. /\ Counts(dirty) /\ DOMAIN verifiedRoots \subseteq Block /\ IsFiniteSet(DOMAIN verifiedRoots)
      /\ \A c \in DOMAIN verifiedRoots :
            c # Genesis /\ verifiedRoots[c] = Content(c) /\ verifiedRoots[c] \in SUBSET Key
      /\ Balanced(dirty, disk.nodes, verifiedRoots, trie.acceptedRoot)
      /\ lastAcceptedHash \in Canonical /\ trie.acceptedRoot = Content(lastAcceptedHash)
      /\ trie.acceptedRoot \in SUBSET Key
    BY Zenon, <1>0, RunState
<1>2. b # Genesis
    <2>1. ancestors[lastAcceptedHash] = {a \in Canonical : number[a] <= number[lastAcceptedHash]}
          /\ Genesis \in Canonical /\ number[Genesis] = 0
        BY Zenon, <1>1, Tree
    <2>2. 0 <= number[lastAcceptedHash]
        BY <1>1, HeightType
    <2> QED
        BY Zenon, <1>0, <2>1, <2>2
<1>3. /\ p = Content(parent[b]) /\ p \in SUBSET Key
      /\ p = trie.acceptedRoot \/ \E c \in DOMAIN verifiedRoots : verifiedRoots[c] = p
    BY Zenon, <1>0, <1>1 DEF getAtomicRootAt
<1>4. r = Content(b) /\ r \in SUBSET Key
    BY Zenon, <1>2, <1>3, ChildContent, CanonContent
<1>5. i \in BOOLEAN /\ (i \/ r \in disk.nodes \/ r \in DOMAIN dirty)
    <2>1. p \in disk.nodes \/ p \in DOMAIN dirty
        BY ZenonT(30), <1>1, <1>3, HeldIsStored
    <2>2. ~i => AtomicOps(b) = {}
        BY DEF AtomicOps
    <2>3. ~i => r = p
        BY Zenon, <2>2
    <2> QED
        BY Zenon, <2>1, <2>3
<1> HIDE DEF i, r, p
<1>6. Counts(dirty') /\ BalancedWith(dirty', disk.nodes, verifiedRoots, trie.acceptedRoot, r)
    BY Zenon, <1>0, <1>1, <1>4, <1>5, ReferenceBalanced
<1>7. /\ DOMAIN verifiedRoots' = DOMAIN verifiedRoots \cup {b} /\ verifiedRoots'[b] = r
      /\ \A c \in DOMAIN verifiedRoots : verifiedRoots'[c] = verifiedRoots[c]
    BY Zenon, <1>0
<1>8. /\ IsFiniteSet(DOMAIN verifiedRoots')
      /\ \A x : Holders(verifiedRoots', x) = Holders(verifiedRoots, x) + One(x, r)
    <2>1. IsFiniteSet(DOMAIN verifiedRoots) /\ b \notin DOMAIN verifiedRoots
        BY Zenon, <1>0, <1>1
    <2>2. /\ IsFiniteSet(DOMAIN verifiedRoots')
          /\ \A x : Holders(verifiedRoots', x) = Holders(verifiedRoots, x) + One(x, verifiedRoots'[b])
        BY <1>7, <2>1, HoldersStep
    <2> QED
        BY Zenon, <1>7, <2>2
<1>9. Balanced(dirty', disk.nodes, verifiedRoots', trie.acceptedRoot)
    <2>1. ASSUME NEW x \in SUBSET Key
          PROVE  Holders(verifiedRoots, x) + One(x, trie.acceptedRoot) + One(x, r) =
                 Holders(verifiedRoots', x) + One(x, trie.acceptedRoot)
        <3>1. Holders(verifiedRoots, x) \in Nat
            BY Zenon, <1>1, HoldersType
        <3>2. Holders(verifiedRoots', x) = Holders(verifiedRoots, x) + One(x, r)
            BY Zenon, <1>8
        <3> QED
            BY <3>1, <3>2 DEF One
    <2> QED
        BY Zenon, <1>6, <2>1 DEF Balanced, BalancedWith
<1>10. /\ DOMAIN verifiedRoots' \subseteq Block /\ mode \in {"boot", "run"}
       /\ \A c \in DOMAIN verifiedRoots' : c # Genesis /\ verifiedRoots'[c] = Content(c)
    BY Zenon, <1>0, <1>1, <1>2, <1>4, <1>7
<1> QED
    BY Zenon, <1>0, <1>6, <1>8, <1>9, <1>10, RunKeeps

\* A block that leaves the blocks under verification no longer holds its root.
LEMMA UnverifyHolders ==
    ASSUME IsFiniteSet(DOMAIN verifiedRoots), NEW b \in DOMAIN verifiedRoots, Unverify(b)
    PROVE  /\ DOMAIN verifiedRoots' = DOMAIN verifiedRoots \ {b}
           /\ IsFiniteSet(DOMAIN verifiedRoots')
           /\ \A c \in DOMAIN verifiedRoots' : verifiedRoots'[c] = verifiedRoots[c]
           /\ \A x : Holders(verifiedRoots, x) = Holders(verifiedRoots', x) + One(x, verifiedRoots[b])
<1>1. /\ DOMAIN verifiedRoots' = DOMAIN verifiedRoots \ {b}
      /\ \A c \in DOMAIN verifiedRoots' : verifiedRoots'[c] = verifiedRoots[c]
    BY Zenon DEF Unverify
<1>2. IsFiniteSet(DOMAIN verifiedRoots')
    BY Zenon, <1>1, FS_Subset
<1>3. b \notin DOMAIN verifiedRoots' /\ DOMAIN verifiedRoots = DOMAIN verifiedRoots' \cup {b}
    BY Zenon, <1>1
<1>4. \A x : Holders(verifiedRoots, x) = Holders(verifiedRoots', x) + One(x, verifiedRoots[b])
    BY Zenon, <1>1, <1>2, <1>3, HoldersStep
<1> QED
    BY Zenon, <1>1, <1>2, <1>4

\* Rejection releases the block's root.
LEMMA RejectInv ==
    ASSUME BackendInv, NEW b \in Block, Reject(b)
    PROVE  BackendInv'
<1> DEFINE r == verifiedRoots[b]
           a == trie.acceptedRoot
<1>0. /\ mode = "run" /\ mode' = "run" /\ b \in DOMAIN verifiedRoots
      /\ dirty' = Dereference(dirty, r) /\ Unverify(b)
      /\ UNCHANGED <<db, sharedMemory, trie, lastAcceptedHash, height, syncer, crashes>>
    BY Zenon DEF Reject
<1>1. /\ Counts(dirty) /\ DOMAIN verifiedRoots \subseteq Block /\ IsFiniteSet(DOMAIN verifiedRoots)
      /\ \A c \in DOMAIN verifiedRoots : c # Genesis /\ verifiedRoots[c] = Content(c)
      /\ Balanced(dirty, disk.nodes, verifiedRoots, a)
    BY Zenon, <1>0, RunState
<1>2. /\ DOMAIN verifiedRoots' = DOMAIN verifiedRoots \ {b}
      /\ IsFiniteSet(DOMAIN verifiedRoots')
      /\ \A c \in DOMAIN verifiedRoots' : verifiedRoots'[c] = verifiedRoots[c]
      /\ \A x : Holders(verifiedRoots, x) = Holders(verifiedRoots', x) + One(x, r)
    BY Zenon, <1>0, <1>1, UnverifyHolders
<1> HIDE DEF r, a
<1>3. /\ Counts(dirty')
      /\ \A x : Copies(dirty', x) =
             IF x = r /\ x \in DOMAIN dirty THEN Copies(dirty, x) - 1 ELSE Copies(dirty, x)
    BY Zenon, <1>0, <1>1, DereferenceCopies
<1>4. ASSUME NEW x \in SUBSET Key
      PROVE  /\ Copies(dirty', x) <= Holders(verifiedRoots', x) + One(x, a)
             /\ x \in disk.nodes \/ Copies(dirty', x) = Holders(verifiedRoots', x) + One(x, a)
    <2>1. /\ Holders(verifiedRoots', x) \in Nat /\ Copies(dirty, x) \in Nat
          /\ (x \in DOMAIN dirty <=> Copies(dirty, x) # 0)
        BY Zenon, <1>1, <1>2, HoldersType, CopiesType
    <2>2. /\ Copies(dirty, x) <= Holders(verifiedRoots, x) + One(x, a)
          /\ x \in disk.nodes \/ Copies(dirty, x) = Holders(verifiedRoots, x) + One(x, a)
        BY Zenon, <1>1 DEF Balanced
    <2>3. Holders(verifiedRoots, x) = Holders(verifiedRoots', x) + One(x, r)
        BY Zenon, <1>2
    <2>4. Copies(dirty', x) =
             IF x = r /\ x \in DOMAIN dirty THEN Copies(dirty, x) - 1 ELSE Copies(dirty, x)
        BY Zenon, <1>3
    <2> QED
        BY SMTT(30), <2>1, <2>2, <2>3, <2>4 DEF One
<1>5. Balanced(dirty', disk.nodes, verifiedRoots', trie.acceptedRoot)
    BY Zenon, <1>4 DEF Balanced, a
<1>6. /\ DOMAIN verifiedRoots' \subseteq Block /\ mode \in {"boot", "run"}
      /\ \A c \in DOMAIN verifiedRoots' : c # Genesis /\ verifiedRoots'[c] = Content(c)
    BY Zenon, <1>0, <1>1, <1>2
<1> QED
    BY Zenon, <1>0, <1>2, <1>3, <1>5, <1>6, RunKeeps

\* Acceptance moves the store to the next block, and commits at a commit height.
LEMMA AcceptStore ==
    ASSUME BackendInv, NEW b \in Block, Accept(b)
    PROVE  /\ b \in Canonical /\ number[b] = At + 1 /\ number[b] \in Height
           /\ b # Genesis /\ parent[b] = disk.accepted
           /\ disk' = vdb' /\ disk' \in Store /\ disk'.accepted = b /\ disk'.cursor = NoCursor
           /\ disk'.index = IF opsOn[b] = {} THEN disk.index ELSE disk.index \cup {b}
           /\ disk.nodes \subseteq disk'.nodes
           /\ trie' \in TrieType /\ trie'.acceptedRoot = CanonTo(number[b])
           /\ Counts(dirty') /\ IsFiniteSet(DOMAIN verifiedRoots')
           /\ DOMAIN verifiedRoots' \subseteq DOMAIN verifiedRoots
           /\ \A c \in DOMAIN verifiedRoots' : verifiedRoots'[c] = verifiedRoots[c]
           /\ Balanced(dirty', disk'.nodes, verifiedRoots', trie'.acceptedRoot)
           /\ number[b] % commitInterval # 0 =>
                 /\ disk'.committed = disk.committed /\ disk'.roots = disk.roots
                 /\ trie'.committed = trie.committed /\ trie'.committedRoot = trie.committedRoot
           /\ number[b] % commitInterval = 0 =>
                 /\ disk'.committed = number[b] /\ Right(disk', number[b])
                 /\ \A n \in Height \ {number[b]} : disk'.roots[n] = disk.roots[n]
                 /\ trie'.committed = number[b] /\ trie'.committedRoot = CanonTo(number[b])
<1> DEFINE h == number[b]
           r == verifiedRoots[b]
           v == [vdb EXCEPT !.accepted = b,
                            !.index = IF opsOn[b] = {} THEN @ ELSE @ \cup {b}]
<1>0. /\ mode = "run" /\ b \in DOMAIN verifiedRoots /\ b \in Canonical
      /\ parent[b] = lastAcceptedHash /\ AcceptTrie(v, dirty, h, r)
      /\ Unverify(b) /\ disk' = vdb'
    BY Zenon DEF Accept, Flush
<1>1. /\ Counts(dirty) /\ IsFiniteSet(DOMAIN verifiedRoots) /\ b # Genesis
      /\ r = Content(b) /\ r \in SUBSET Key
      /\ Balanced(dirty, disk.nodes, verifiedRoots, trie.acceptedRoot)
      /\ lastAcceptedHash = disk.accepted
      /\ trie.committed = nearestCommitHeight(At) /\ vdb = disk /\ disk.cursor = NoCursor
    BY Zenon, <1>0, RunState
<1>2. TypeOK /\ disk \in Store /\ trie \in TrieType
    BY Zenon DEF BackendInv, TypeOK, TrieType
<1>3. h = At + 1 /\ h \in Height /\ r = CanonTo(h) /\ h <= At + 1
    <2>1. number[b] = number[parent[b]] + 1
        BY Zenon, <1>1, Tree
    <2>2. h = At + 1
        BY Zenon, <1>0, <1>1, <2>1 DEF At
    <2>4. h \in Height /\ At \in Nat
        BY Zenon, <1>2, HeightType, AtType
    <2>3. r = CanonTo(h)
        BY Zenon, <1>0, <1>1, CanonContent
    <2> QED
        BY <2>2, <2>3, <2>4
<1>4. /\ v \in Store /\ v.accepted = b /\ v.cursor = NoCursor /\ v.nodes = disk.nodes
      /\ v.index = (IF opsOn[b] = {} THEN disk.index ELSE disk.index \cup {b})
      /\ v.committed = disk.committed /\ v.roots = disk.roots
    BY Zenon, <1>0, <1>1, <1>2 DEF Store
<1> HIDE DEF v, h, r
<1>5. CommitHeights(h) = Reached(h)
    <2>1. Skipped(h) = {}
        BY Zenon, <1>1, <1>2, <1>3, NothingSkipped
    <2> QED
        BY Zenon, <2>1 DEF CommitHeights
<1>6. /\ DOMAIN verifiedRoots' = DOMAIN verifiedRoots \ {b}
      /\ IsFiniteSet(DOMAIN verifiedRoots')
      /\ \A c \in DOMAIN verifiedRoots' : verifiedRoots'[c] = verifiedRoots[c]
      /\ \A x : Holders(verifiedRoots, x) = Holders(verifiedRoots', x) + One(x, r)
    BY Zenon, <1>0, <1>1, UnverifyHolders DEF r
<1>7. BalancedWith(dirty, v.nodes, verifiedRoots', trie.acceptedRoot, r)
    <2>1. ASSUME NEW x \in SUBSET Key
          PROVE  Holders(verifiedRoots, x) + One(x, trie.acceptedRoot) =
                 Holders(verifiedRoots', x) + One(x, trie.acceptedRoot) + One(x, r)
        <3>1. Holders(verifiedRoots', x) \in Nat
            BY ZenonT(30), <1>6, HoldersType
        <3>2. Holders(verifiedRoots, x) = Holders(verifiedRoots', x) + One(x, r)
            BY Zenon, <1>6
        <3> QED
            BY <3>1, <3>2 DEF One
    <2> QED
        BY Zenon, <1>1, <1>4, <2>1 DEF Balanced, BalancedWith
<1>8. /\ Counts(dirty') /\ Balanced(dirty', vdb'.nodes, verifiedRoots', r)
      /\ v.nodes \subseteq vdb'.nodes
      /\ \A n \in CommitHeights(h) : RootAt(h, r, n) \in vdb'.nodes
    BY SMTT(30), <1>0, <1>1, <1>2, <1>3, <1>4, <1>6, <1>7, AcceptTrieRefs
<1>9. Committed(v, dirty, h, r)
    BY Zenon, <1>0, <1>1, <1>2, <1>3, <1>4, AcceptTrieStore
<1>10. ASSUME h % commitInterval # 0
       PROVE  /\ disk'.committed = disk.committed /\ disk'.roots = disk.roots
              /\ trie'.committed = trie.committed /\ trie'.committedRoot = trie.committedRoot
    <2>1. CommitHeights(h) = {}
        BY Zenon, <1>5, <1>10 DEF Reached
    <2> QED
        BY Zenon, <1>0, <1>4, <1>9, <2>1 DEF Committed
<1>11. ASSUME h % commitInterval = 0
       PROVE  /\ disk'.committed = h /\ Right(disk', h)
              /\ \A n \in Height \ {h} : disk'.roots[n] = disk.roots[n]
              /\ trie'.committed = h /\ trie'.committedRoot = CanonTo(h)
    <2>1. CommitHeights(h) = {h} /\ h \in Reached(h)
        BY Zenon, <1>5, <1>11 DEF Reached
    <2>2. Max(CommitHeights(h)) = h
        BY Zenon, <1>3, <2>1, CommitHeightsType
    <2>3. RootAt(h, r, h) = CanonTo(h)
        BY Zenon, <1>3, <2>1 DEF RootAt
    <2>4. \A n \in Height \ {h} : vdb'.roots[n] = v.roots[n]
        BY Zenon, <1>9, <2>1 DEF Committed
    <2>5. vdb'.roots[h] = CanonTo(h)
        BY Zenon, <1>3, <1>9, <2>1, <2>3 DEF Committed
    <2>6. CanonTo(h) \in vdb'.nodes
        BY Zenon, <1>8, <2>1, <2>3
    <2>7. /\ vdb'.committed = h /\ trie'.committed = h /\ trie'.committedRoot = CanonTo(h)
        BY Zenon, <1>9, <2>1, <2>2, <2>3 DEF Committed
    <2> QED
        BY ZenonT(30), <1>0, <1>4, <2>4, <2>5, <2>6, <2>7 DEF Right
<1>12. Balanced(dirty', disk'.nodes, verifiedRoots', trie'.acceptedRoot)
    BY Zenon, <1>0, <1>8, <1>9 DEF Committed
<1>13. /\ disk' \in Store /\ disk'.accepted = b /\ disk'.cursor = NoCursor
       /\ disk'.index = (IF opsOn[b] = {} THEN disk.index ELSE disk.index \cup {b})
       /\ disk.nodes \subseteq disk'.nodes /\ DOMAIN verifiedRoots' \subseteq DOMAIN verifiedRoots
       /\ trie'.acceptedRoot = CanonTo(h) /\ parent[b] = disk.accepted
    BY ZenonT(30), <1>0, <1>1, <1>3, <1>4, <1>6, <1>8, <1>9 DEF Committed
<1>14. trie' \in TrieType
    BY Zenon, <1>9 DEF Committed
<1> QED
    BY ZenonT(30), <1>0, <1>1, <1>3, <1>6, <1>8, <1>10, <1>11, <1>12, <1>13, <1>14 DEF h

\* The operations of the block accepted are told exactly once.
LEMMA AcceptShared ==
    ASSUME BackendInv, NEW b \in Block, Accept(b)
    PROVE  SharedMemoryExact' /\ sharedMemory' \in [Key -> Nat]
<1>1. /\ b \in Canonical /\ number[b] = At + 1 /\ b # Genesis /\ parent[b] = disk.accepted
      /\ disk'.accepted = b /\ disk'.cursor = NoCursor
    BY Zenon, AcceptStore
<1>2. mode = "run" /\ Apply(Sent(b))
    BY Zenon DEF Accept
<1>3. /\ disk.cursor = NoCursor /\ disk.accepted \in Canonical
      /\ SharedMemoryExact /\ TypeOK /\ sharedMemory \in [Key -> Nat]
    BY Zenon, <1>2, RunState DEF BackendInv, TypeOK
<1>4. At \in Nat
    BY Zenon, <1>3, AtType
<1>5. /\ sharedMemory' \in [Key -> Nat]
      /\ \A k \in Key : sharedMemory'[k] = sharedMemory[k] + IF k \in Sent(b) THEN 1 ELSE 0
    BY <1>2, <1>3 DEF Apply
<1>6. Content(b) = Content(disk.accepted) \cup AtomicOps(b)
    BY Zenon, <1>1, ChildContent
<1>7. ASSUME NEW k, k \in AtomicOps(b) PROVE k \notin Content(disk.accepted) /\ k[1] = b
    <2>1. k[1] = b
        BY Zenon, <1>7, OpsMember
    <2>2. ASSUME k \in Content(disk.accepted) PROVE FALSE
        <3>1. k \in CanonTo(At)
            BY Zenon, <1>3, <2>2, CanonContent DEF At
        <3>2. number[b] <= At
            BY ZenonT(30), <1>7, <3>1, CanonEntry
        <3> QED
            BY SMTT(30), <1>1, <1>4, <3>2
    <2> QED
        BY Zenon, <2>1, <2>2
<1>8. ASSUME NEW k \in Key
      PROVE  sharedMemory'[k] = IF k \in Content(b) /\ k[1] \notin bonusBlocks THEN 1 ELSE 0
    <2>1. sharedMemory[k] = IF k \in Content(disk.accepted) /\ k[1] \notin bonusBlocks THEN 1 ELSE 0
        BY Zenon, <1>3 DEF SharedMemoryExact
    <2>2. sharedMemory'[k] = sharedMemory[k] + IF k \in Sent(b) THEN 1 ELSE 0
        BY Zenon, <1>5
    <2>3. k \in Sent(b) <=> k \in AtomicOps(b) /\ b \notin bonusBlocks
        BY Zenon DEF Sent
    <2>4. /\ k \in Content(b) <=> k \in Content(disk.accepted) \/ k \in AtomicOps(b)
          /\ k \in AtomicOps(b) => k \notin Content(disk.accepted) /\ k[1] = b
        BY Zenon, <1>6, <1>7
    <2> QED
        BY SMTT(30), <2>1, <2>2, <2>3, <2>4
<1>9. SharedMemoryExact'
    BY Zenon, <1>1, <1>8 DEF SharedMemoryExact
<1> QED
    BY Zenon, <1>5, <1>9

\* Acceptance.
LEMMA AcceptInv ==
    ASSUME BackendInv, NEW b \in Block, Accept(b)
    PROVE  BackendInv'
<1> DEFINE h == number[b]
           m == nearestCommitHeight(h)
           n == nearestCommitHeight(At)
<1>0. /\ mode = "run" /\ mode' = "run" /\ lastAcceptedHash' = b
      /\ height' = height /\ target' = target /\ syncTrie' = syncTrie /\ skipped' = skipped
      /\ crashes' = crashes
    BY Zenon DEF Accept, syncer
<1>1. /\ TypeOK /\ StoreInv /\ TrieInv
    BY Zenon DEF BackendInv
<1>2. /\ b \in Canonical /\ h = At + 1 /\ h \in Height
      /\ b # Genesis /\ parent[b] = disk.accepted
      /\ disk' = vdb' /\ disk' \in Store /\ disk'.accepted = b /\ disk'.cursor = NoCursor
      /\ disk'.index = (IF opsOn[b] = {} THEN disk.index ELSE disk.index \cup {b})
      /\ disk.nodes \subseteq disk'.nodes
      /\ trie' \in TrieType /\ trie'.acceptedRoot = CanonTo(h)
      /\ Counts(dirty') /\ IsFiniteSet(DOMAIN verifiedRoots')
      /\ DOMAIN verifiedRoots' \subseteq DOMAIN verifiedRoots
      /\ \A c \in DOMAIN verifiedRoots' : verifiedRoots'[c] = verifiedRoots[c]
      /\ Balanced(dirty', disk'.nodes, verifiedRoots', trie'.acceptedRoot)
    BY Zenon, AcceptStore
<1>3. /\ h % commitInterval # 0 =>
            /\ disk'.committed = disk.committed /\ disk'.roots = disk.roots
            /\ trie'.committed = trie.committed /\ trie'.committedRoot = trie.committedRoot
      /\ h % commitInterval = 0 =>
            /\ disk'.committed = h /\ Right(disk', h)
            /\ \A i \in Height \ {h} : disk'.roots[i] = disk.roots[i]
            /\ trie'.committed = h /\ trie'.committedRoot = CanonTo(h)
    BY Zenon, AcceptStore
<1>4. /\ At \in Nat /\ n \in Nat /\ n <= At /\ n \in Height /\ At' = h
      /\ ancestors[disk.accepted] = {a \in Canonical : number[a] <= At}
    BY ZenonT(30), <1>1, <1>2, AtType DEF At
<1>5. /\ h \in Nat /\ h > At /\ m \in Nat /\ m <= h
      /\ h % commitInterval = 0 => m = h
      /\ h % commitInterval # 0 => m = n
      /\ m >= n
    <2>1. h \in Nat
        BY SMTT(30), <1>2, <1>4
    <2>2. m \in 0..h /\ (h % commitInterval = 0 => m = h)
        BY Zenon, <2>1, Nearest
    <2>3. h % commitInterval # 0 => m = n
        BY Zenon, <1>2, <1>4, NearestNext
    <2> QED
        BY SMTT(30), <1>2, <1>4, <2>1, <2>2, <2>3
<1>6. ASSUME NEW i \in Height, i <= At, Right(disk, i) PROVE Right(disk', i)
    <2>1. i # h
        BY SMTT(30), <1>4, <1>5, <1>6
    <2>2. disk'.roots[i] = disk.roots[i]
        BY Zenon, <1>3, <2>1
    <2> QED
        BY ZenonT(30), <1>2, <1>6, <2>2 DEF Right
<1> HIDE DEF h, m, n
<1>7. TypeOK'
    <2>1. /\ DOMAIN verifiedRoots' \subseteq Block
          /\ \A c \in DOMAIN verifiedRoots' : verifiedRoots'[c] \subseteq Key
        BY Zenon, <1>1, <1>2 DEF TypeOK
    <2>2. sharedMemory' \in [Key -> Nat]
        BY Zenon, AcceptShared
    <2>3. mode' \in {"down", "apply", "init", "boot", "run", "sync", "mark", "finish", "failed"}
        BY <1>0
    <2> QED
        BY ZenonT(30), <1>0, <1>1, <1>2, <2>1, <2>2, <2>3 DEF TypeOK, TrieType, Counts
<1>8. StoreInv'
    <2>1. vdb' = disk' /\ {} \in disk'.nodes
        BY Zenon, <1>1, <1>2 DEF StoreInv
    <2>2. ancestors[b] = {b} \cup ancestors[disk.accepted]
        BY ZenonT(30), <1>2, Tree
    <2>3. disk'.index \subseteq ancestors[disk'.accepted]
        BY Zenon, <1>1, <1>2, <2>2 DEF StoreInv
    <2>4. ASSUME NEW c \in ancestors[b], opsOn[c] # {}, number[c] > m PROVE c \in disk'.index
        <3>1. CASE c = b
            BY Zenon, <1>2, <2>4, <3>1
        <3>2. CASE c # b
            <4>1. c \in ancestors[disk.accepted] /\ c \in Canonical /\ number[c] <= At
                BY Zenon, <1>4, <2>2, <2>4, <3>2
            <4>2. number[c] \in Nat
                BY Zenon, <4>1, HeightType
            <4>3. number[c] > n
                BY SMTT(30), <1>4, <1>5, <2>4, <4>2
            <4>4. c \in disk.index
                BY Zenon, <1>1, <2>4, <4>1, <4>3 DEF StoreInv, n
            <4> QED
                BY Zenon, <1>2, <4>4
        <3> QED
            BY Zenon, <3>1, <3>2
    <2>5. disk'.committed % commitInterval = 0 /\ (disk'.committed = m \/ disk'.committed > h)
        <3>1. /\ disk.committed \in Height /\ disk.committed % commitInterval = 0
              /\ disk.committed = n \/ disk.committed > At
            BY Zenon, <1>1 DEF StoreInv, TypeOK, Store, n
        <3>2. disk.committed \in Nat
            BY Zenon, <3>1, HeightType
        <3>3. CASE h % commitInterval = 0
            BY Zenon, <1>3, <1>5, <3>3
        <3>4. CASE h % commitInterval # 0
            <4>1. disk.committed # h
                BY ZenonT(30), <3>1, <3>4
            <4>2. disk.committed = n \/ disk.committed > h
                BY SMTT(30), <1>2, <1>4, <3>1, <3>2, <4>1 DEF h
            <4> QED
                BY Zenon, <1>3, <1>5, <3>1, <3>4, <4>2
        <3> QED
            BY Zenon, <3>3, <3>4
    <2>6. m # 0 => Right(disk', m)
        <3>1. CASE h % commitInterval = 0
            BY Zenon, <1>3, <1>5, <3>1
        <3>2. CASE h % commitInterval # 0
            <4>1. m # 0 => Right(disk, n)
                BY Zenon, <1>1, <1>5, <3>2 DEF StoreInv, n
            <4> QED
                BY ZenonT(30), <1>4, <1>5, <1>6, <3>2, <4>1
        <3> QED
            BY Zenon, <3>1, <3>2
    <2>7. ASSUME NEW i \in CommitHeight \ skipped, i <= h PROVE Right(disk', i)
        <3>1. i \in Height /\ i \in Nat /\ i % commitInterval = 0
            BY Zenon, HeightType DEF CommitHeight
        <3>2. CASE i = h
            BY Zenon, <1>3, <3>1, <3>2
        <3>3. CASE i # h
            <4>1. i <= At
                BY SMTT(30), <1>2, <1>4, <2>7, <3>1, <3>3 DEF h
            <4> QED
                BY ZenonT(30), <1>1, <1>6, <3>1, <4>1 DEF StoreInv
        <3> QED
            BY Zenon, <3>2, <3>3
    <2>8. m = nearestCommitHeight(At)'
        BY ZenonT(30), <1>4 DEF m, nearestCommitHeight
    <2> QED
        BY ZenonT(30), <1>0, <1>2, <1>4, <2>1, <2>3, <2>4, <2>5, <2>6, <2>7, <2>8 DEF StoreInv, Right
<1>9. TrieInv'
    <2>1. /\ trie.committedRoot \in disk.nodes
          /\ trie.committed = n /\ trie.committedRoot = CanonTo(trie.committed)
          /\ \A c \in DOMAIN verifiedRoots : c # Genesis /\ verifiedRoots[c] = Content(c)
        BY <1>0, <1>1 DEF TrieInv, n
    <2>2. /\ trie'.committedRoot \in disk'.nodes /\ trie'.committed = m
          /\ trie'.committedRoot = CanonTo(trie'.committed)
        BY Zenon, <1>2, <1>3, <1>5, <2>1 DEF Right
    <2>3. \A c \in DOMAIN verifiedRoots' : c # Genesis /\ verifiedRoots'[c] = Content(c)
        BY ZenonT(30), <1>2, <2>1
    <2>4. m = nearestCommitHeight(At)'
        BY Zenon, <1>4 DEF m, nearestCommitHeight
    <2> QED
        BY SMTT(30), <1>0, <1>2, <1>4, <2>2, <2>3, <2>4 DEF TrieInv
<1>10. SyncInv'
    BY <1>0 DEF SyncInv
<1>11. RefInv'
    BY Zenon, <1>2 DEF RefInv
<1> QED
    BY ZenonT(30), <1>7, <1>8, <1>9, <1>10, <1>11, AcceptShared DEF BackendInv

\* The heights AcceptTrie commits, from a commit height.
LEMMA SyncHeights ==
    ASSUME trie.committed \in Nat, trie.committed % commitInterval = 0, NEW h \in Height
    PROVE  \A n \in Height :
               n \in CommitHeights(h) <=>
                   n % commitInterval = 0 /\ (n = h \/ (n > trie.committed /\ n < h))
<1> DEFINE c == trie.committed
<1>1. ASSUME NEW n \in Height, n > c
      PROVE  (n - c) % commitInterval = 0 <=> n % commitInterval = 0
    <2>1. n \in Nat /\ c <= n
        BY <1>1, HeightType
    <2> QED
        BY Zenon, <2>1, Shift
<1> HIDE DEF c
<1>2. \A n \in Height : n \in Skipped(h) <=> n % commitInterval = 0 /\ n > c /\ n < h
    BY Zenon, <1>1 DEF Skipped, c
<1>3. \A n \in Height : n \in Reached(h) <=> n % commitInterval = 0 /\ n = h
    BY Zenon DEF Reached
<1> QED
    BY Zenon, <1>2, <1>3 DEF CommitHeights, c

\* What a sync commits: the roots of the heights up to the one it accepts, right at that
\* height and below the leaf it is at.
SyncAccepted(h) ==
    /\ vdb' \in Store /\ vdb'.accepted = disk.accepted /\ vdb'.cursor = disk.cursor
    /\ vdb'.index = disk.index /\ disk.nodes \subseteq vdb'.nodes
    /\ trie' \in TrieType /\ trie'.acceptedRoot = syncTrie
    /\ Counts(dirty') /\ Balanced(dirty', vdb'.nodes, verifiedRoots, syncTrie)
    /\ trie'.committedRoot \in vdb'.nodes
    /\ trie'.committed % commitInterval = 0
    /\ trie'.committed >= trie.committed /\ trie'.committed <= h
    /\ \A n \in CommitHeight : n > trie'.committed => n > h
    /\ vdb' = disk \/ vdb'.committed = trie'.committed
    /\ h % commitInterval = 0 =>
          trie'.committed = h /\ vdb'.committed = h /\ trie'.committedRoot = syncTrie
    /\ \A n \in Height : n \in CommitHeights(h) /\ (n = h \/ n < height) => Right(vdb', n)
    /\ \A n \in Height : n \notin CommitHeights(h) /\ Right(disk, n) => Right(vdb', n)

\* The syncer's AcceptTrie does that.
LEMMA SyncAccepts ==
    ASSUME BackendInv, mode = "sync", NEW h \in Height, height <= h, syncTrie = CanonTo(h),
           AcceptTrie(vdb, Reference(dirty, syncTrie, syncTrie # trie.committedRoot), h, syncTrie)
    PROVE  SyncAccepted(h)
<1> DEFINE c == trie.committed
           i == syncTrie # trie.committedRoot
           d == Reference(dirty, syncTrie, i)
           H == CommitHeights(h)
           r == syncTrie
<1>0. /\ TypeOK /\ vdb = disk /\ disk \in Store /\ trie \in TrieType /\ Counts(dirty)
      /\ IsFiniteSet(DOMAIN verifiedRoots) /\ r \in SUBSET Key /\ height \in Height
      /\ Balanced(dirty, disk.nodes, verifiedRoots, trie.acceptedRoot)
      /\ trie.committedRoot \in disk.nodes
    BY Zenon DEF BackendInv, TypeOK, StoreInv, RefInv, TrieInv, TrieType, Counts
<1>1. /\ c % commitInterval = 0 /\ height \in c..number[target]
      /\ \A n \in CommitHeight : n > c /\ n < height => CanonTo(n) = trie.acceptedRoot
    BY SMTT(30) DEF BackendInv, SyncInv
<1>2. c \in Height /\ c \in Nat /\ h \in Nat /\ height \in Nat /\ c <= height
    <2>1. c \in Height
        BY Zenon, <1>0 DEF TrieType
    <2>2. c \in Nat /\ h \in Nat /\ height \in Nat
        BY Zenon, <1>0, <2>1, HeightType
    <2> QED
        BY SMTT(30), <1>1, <2>1, <2>2
<1>3. i \in BOOLEAN /\ (i \/ r \in disk.nodes \/ r \in DOMAIN dirty)
    BY Zenon, <1>0
<1>4. Counts(d) /\ BalancedWith(d, disk.nodes, verifiedRoots, trie.acceptedRoot, r)
    BY Zenon, <1>0, <1>3, ReferenceBalanced
<1>5. AcceptTrie(disk, d, h, r)
    BY Zenon, <1>0
<1> HIDE DEF i, d, r
<1>6. Committed(disk, d, h, r)
    BY Zenon, <1>0, <1>5, AcceptTrieStore
<1>7. /\ Counts(dirty') /\ Balanced(dirty', vdb'.nodes, verifiedRoots, r)
      /\ disk.nodes \subseteq vdb'.nodes
      /\ \A n \in H : RootAt(h, r, n) \in vdb'.nodes
    BY Zenon, <1>0, <1>4, <1>5, AcceptTrieRefs
<1>8. \A n \in Height : n \in H <=> n % commitInterval = 0 /\ (n = h \/ (n > c /\ n < h))
    BY Zenon, <1>1, <1>2, SyncHeights
<1>9. H \subseteq Height /\ (H # {} => Max(H) \in H /\ \A n \in H : n <= Max(H))
    BY Zenon, CommitHeightsType
<1>10. /\ H = {} => /\ vdb' = disk /\ trie'.committed = c
                    /\ trie'.committedRoot = trie.committedRoot
       /\ H # {} => /\ vdb'.committed = Max(H) /\ trie'.committed = Max(H)
                    /\ trie'.committedRoot = RootAt(h, r, Max(H))
    BY Zenon, <1>6 DEF Committed
<1> DEFINE m == trie'.committed
           M == Max(H)
<1> HIDE DEF H, c, m, M
<1>11. /\ m \in Nat /\ m % commitInterval = 0 /\ m >= c /\ m <= h
       /\ \A n \in CommitHeight : n > m => n > h
    <2>0. \A n \in CommitHeight : n \in Height /\ n \in Nat /\ n % commitInterval = 0
        BY Zenon, HeightType DEF CommitHeight
    <2>1. CASE H = {}
        <3>1. m = c
            BY Zenon, <1>10, <2>1 DEF m
        <3>2. ASSUME NEW n \in CommitHeight, n > c, ~(n > h) PROVE FALSE
            <4>1. n \in Height /\ n \in Nat /\ n % commitInterval = 0
                BY Zenon, <2>0
            <4>2. n = h \/ (n > c /\ n < h)
                BY SMTT(30), <1>2, <3>2, <4>1
            <4> QED
                BY Zenon, <1>8, <2>1, <4>1, <4>2
        <3>3. c >= c /\ c <= h
            BY <1>2
        <3> QED
            BY ZenonT(30), <1>1, <1>2, <3>1, <3>2, <3>3 DEF c
    <2>2. CASE H # {}
        <3>1. m = M /\ M \in H /\ M \in Height /\ M \in Nat /\ \A n \in H : n <= M
            BY Zenon, <1>9, <1>10, <2>2, HeightType DEF m, M
        <3>2. M % commitInterval = 0 /\ (M = h \/ (M > c /\ M < h))
            BY ZenonT(30), <1>8, <3>1
        <3>3. M >= c /\ M <= h
            BY SMTT(30), <1>2, <3>1, <3>2
        <3>4. ASSUME NEW n \in CommitHeight, n > M, ~(n > h) PROVE FALSE
            <4>1. n \in Height /\ n \in Nat /\ n % commitInterval = 0
                BY Zenon, <2>0
            <4>2. n = h \/ (n > c /\ n < h)
                BY SMTT(30), <1>2, <3>1, <3>3, <3>4, <4>1
            <4>3. n <= M
                BY Zenon, <1>8, <3>1, <4>1, <4>2
            <4> QED
                BY SMTT(30), <3>1, <3>4, <4>1, <4>3
        <3> QED
            BY Zenon, <3>1, <3>2, <3>3, <3>4
    <2> QED
        BY Zenon, <2>1, <2>2
<1>12. h % commitInterval = 0 => m = h /\ vdb'.committed = h /\ trie'.committedRoot = r
    <2>1. ASSUME h % commitInterval = 0 PROVE H # {} /\ h \in H /\ h \in Reached(h)
        BY Zenon, <1>8, <2>1 DEF Reached
    <2>2. ASSUME h % commitInterval = 0 PROVE M = h
        <3>1. M \in H /\ h <= M /\ M \in Nat
            BY Zenon, <1>9, <2>1, <2>2, HeightType DEF M
        <3>2. M = h \/ M < h
            BY Zenon, <1>8, <1>9, <3>1
        <3> QED
            BY SMTT(30), <1>2, <3>1, <3>2
    <2> QED
        BY Zenon, <1>10, <2>1, <2>2 DEF M, m, RootAt
<1>13. ASSUME NEW n \in Height, n \in H, n = h \/ n < height PROVE Right(vdb', n)
    <2>1. vdb'.roots[n] = RootAt(h, r, n) /\ RootAt(h, r, n) \in vdb'.nodes
        BY Zenon, <1>6, <1>7, <1>13 DEF Committed, H
    <2>2. n % commitInterval = 0 /\ (n = h \/ (n > c /\ n < h))
        BY Zenon, <1>8, <1>13
    <2>3. RootAt(h, r, n) = CanonTo(n)
        <3>1. CASE n = h
            BY Zenon, <2>2, <3>1 DEF RootAt, Reached, r
        <3>2. CASE n # h
            <4>1. n \notin Reached(h)
                BY Zenon, <3>2 DEF Reached
            <4>2. n \in CommitHeight /\ n > c /\ n < height
                BY SMTT(30), <1>2, <1>13, <2>2, <3>2, HeightType DEF CommitHeight, Height
            <4> QED
                BY Zenon, <1>1, <4>1, <4>2 DEF RootAt, c
        <3> QED
            BY Zenon, <3>1, <3>2
    <2> QED
        BY Zenon, <2>1, <2>3 DEF Right
<1>14. ASSUME NEW n \in Height, n \notin H, Right(disk, n) PROVE Right(vdb', n)
    <2>1. vdb'.roots[n] = disk.roots[n]
        BY Zenon, <1>6, <1>14 DEF Committed, H
    <2> QED
        BY Zenon, <1>7, <1>14, <2>1 DEF Right
<1>15. trie'.committedRoot \in vdb'.nodes
    BY Zenon, <1>0, <1>7, <1>9, <1>10
<1>16. /\ vdb' \in Store /\ vdb'.accepted = disk.accepted /\ vdb'.cursor = disk.cursor
       /\ vdb'.index = disk.index /\ trie' \in TrieType /\ trie'.acceptedRoot = syncTrie
    BY Zenon, <1>6 DEF Committed, r
<1>17. vdb' = disk \/ vdb'.committed = m
    BY Zenon, <1>10 DEF m
<1> QED
    BY ZenonT(30), <1>7, <1>11, <1>12, <1>13, <1>14, <1>15, <1>16, <1>17 DEF SyncAccepted, H, m, c, r

\* A commit of the syncer leaves what a start needs as it is.
LEMMA SyncStore ==
    ASSUME BackendInv, mode = "sync", NEW h \in Height, SyncAccepted(h), disk' = vdb',
           skipped \subseteq skipped', verifiedRoots' = verifiedRoots, mode' \in {"sync", "mark"},
           \A n \in CommitHeights(h) :
               n = h \/ n < height \/ (n \in skipped' /\ n > nearestCommitHeight(At))
    PROVE  /\ StoreInv' /\ RefInv' /\ At' = At
           /\ \A n \in CommitHeight \ skipped' : n <= trie'.committed => Right(disk', n)
<1> DEFINE c == nearestCommitHeight(At)
<1>0. /\ TypeOK /\ StoreInv /\ RefInv /\ disk.cursor = NoCursor
      /\ trie.committed >= c
      /\ \A n \in CommitHeight \ skipped : n <= trie.committed => Right(disk, n)
    BY DEF BackendInv, StoreInv, SyncInv
<1>1. /\ At \in Nat /\ c \in Nat /\ c \in Height /\ c <= At
      /\ \A n \in Nat : n % commitInterval = 0 /\ n > c => n > At
    BY Zenon, <1>0, AtType
<1>2. At' = At /\ nearestCommitHeight(At)' = c
    <2>1. disk'.accepted = disk.accepted
        BY Zenon DEF SyncAccepted
    <2> QED
        BY Zenon, <2>1 DEF At, nearestCommitHeight
<1> HIDE DEF c
<1>3. /\ vdb' = disk' /\ {} \in disk'.nodes /\ disk'.cursor = NoCursor
      /\ disk'.index = disk.index /\ disk'.accepted = disk.accepted
    BY Zenon, <1>0 DEF SyncAccepted, StoreInv
<1>4. ASSUME NEW n \in CommitHeight \ skipped', n <= trie.committed \/ n <= At \/ n <= trie'.committed
      PROVE  Right(disk', n)
    <2>1. n \in Height /\ n \in Nat /\ n % commitInterval = 0
        BY Zenon, HeightType DEF CommitHeight
    <2>2. CASE n \in CommitHeights(h)
        BY Zenon, <2>1, <2>2 DEF SyncAccepted
    <2>3. CASE n \notin CommitHeights(h)
        <3>1. n <= trie.committed \/ n <= At
            <4>1. trie.committed \in Nat /\ trie'.committed \in Nat /\ h \in Nat
                  /\ trie.committed % commitInterval = 0
                BY Zenon, HeightType DEF BackendInv, TypeOK, SyncInv, SyncAccepted, TrieType
            <4>2. n # h /\ ~(n > trie.committed /\ n < h)
                BY Zenon, <2>1, <2>3, <4>1, SyncHeights
            <4>3. trie'.committed <= h
                BY Zenon DEF SyncAccepted
            <4> QED
                BY SMTT(30), <1>1, <1>4, <2>1, <4>1, <4>2, <4>3
        <3>2. Right(disk, n)
            BY Zenon, <1>0, <3>1 DEF StoreInv
        <3> QED
            BY Zenon, <2>1, <2>3, <3>2 DEF SyncAccepted
    <2> QED
        BY Zenon, <2>2, <2>3
<1>5. c # 0 => Right(disk', c)
    <2>1. ASSUME c # 0 PROVE Right(disk, c)
        BY Zenon, <1>0, <2>1 DEF StoreInv, c
    <2>2. c \in CommitHeights(h) => c = h \/ c < height
        <3>1. ~(c > c)
            BY <1>1
        <3> QED
            BY Zenon, <3>1 DEF c
    <2> QED
        BY Zenon, <1>1, <2>1, <2>2 DEF SyncAccepted
<1>6. /\ disk'.committed % commitInterval = 0
      /\ disk'.committed = c \/ disk'.committed > At
    <2>1. CASE vdb' = disk
        BY Zenon, <1>0, <2>1 DEF StoreInv, c
    <2>2. CASE vdb'.committed = trie'.committed
        <3>1. /\ trie'.committed % commitInterval = 0 /\ trie'.committed >= trie.committed
              /\ trie.committed \in Nat /\ trie'.committed \in Nat
            BY Zenon, HeightType DEF SyncAccepted, TrieType, BackendInv, TypeOK
        <3>2. trie'.committed = c \/ trie'.committed > c
            BY <1>0, <1>1, <3>1
        <3> QED
            BY Zenon, <1>1, <2>2, <3>1, <3>2
    <2> QED
        BY Zenon, <2>1, <2>2 DEF SyncAccepted
<1>7. StoreInv'
    <2>1. /\ disk'.index \subseteq ancestors[disk'.accepted]
          /\ \A b \in ancestors[disk'.accepted] :
                opsOn[b] # {} /\ number[b] > c => b \in disk'.index
        BY Zenon, <1>0, <1>3 DEF StoreInv, c
    <2>2. \A n \in CommitHeight \ skipped' : n <= At => Right(disk', n)
        BY Zenon, <1>4
    <2> QED
        BY ZenonT(30), <1>2, <1>3, <1>5, <1>6, <2>1, <2>2 DEF StoreInv, Right
<1>8. RefInv'
    BY Zenon, <1>0 DEF RefInv, SyncAccepted
<1> QED
    BY ZenonT(30), <1>2, <1>4, <1>7, <1>8

\* A sync begins at the last commit.
LEMMA BeginSyncInv ==
    ASSUME BackendInv, NEW t \in Block, BeginSync(t)
    PROVE  BackendInv'
<1> USE DEF BackendInv
<1>0. /\ TypeOK /\ StoreInv /\ TrieInv /\ RefInv /\ SharedMemoryExact /\ vdb = disk
      /\ mode = "boot" /\ mode' = "sync" /\ t \in Canonical /\ number[t] > number[vdb.accepted]
      /\ number[t] % syncableInterval = 0 /\ target' = t
      /\ height' = trie.committed /\ syncTrie' = trie.committedRoot
      /\ disk' = disk /\ vdb' = vdb /\ sharedMemory' = sharedMemory /\ trie' = trie
      /\ dirty' = dirty /\ lastAcceptedHash' = lastAcceptedHash
      /\ verifiedRoots' = verifiedRoots /\ crashes' = crashes /\ skipped' = skipped
    BY Zenon DEF BeginSync, StoreInv, db, backend
<1>1. /\ At \in Nat /\ nearestCommitHeight(At) \in Nat /\ nearestCommitHeight(At) <= At
      /\ nearestCommitHeight(At) % commitInterval = 0 /\ nearestCommitHeight(At) \in Height
    BY Zenon, <1>0, AtType
<1>2. At' = At /\ nearestCommitHeight(At)' = nearestCommitHeight(At)
    BY ZenonT(30), <1>0 DEF At, nearestCommitHeight
<1>3. /\ trie.committedRoot \in disk.nodes /\ DOMAIN verifiedRoots = {}
      /\ trie.committed = nearestCommitHeight(At)
      /\ trie.committedRoot = CanonTo(trie.committed) /\ disk.cursor = NoCursor
    BY <1>0 DEF TrieInv, StoreInv
<1>4. TypeOK'
    <2>1. mode' \in {"down", "apply", "init", "boot", "run", "sync", "mark", "finish", "failed"}
        BY <1>0
    <2>2. height' \in Height /\ syncTrie' \subseteq Key
        BY Zenon, <1>0, <1>1, <1>3, CanonContent
    <2> QED
        BY ZenonT(30), <1>0, <2>1, <2>2 DEF TypeOK
<1>5. StoreInv'
    BY ZenonT(30), <1>0, <1>2, <1>3 DEF StoreInv, Right
<1>6. TrieInv'
    <2>1. trie'.committedRoot \in disk'.nodes /\ DOMAIN verifiedRoots' = {}
        BY Zenon, <1>0, <1>3
    <2> QED
        BY <1>0, <2>1 DEF TrieInv
<1>7. SyncInv'
    <2>1. number[t] \in Nat /\ number[t] > At
        BY Zenon, <1>0, HeightType DEF At
    <2>2. number[t] % commitInterval = 0
        BY Zenon, <1>0, <2>1, Syncable
    <2>3. \A n \in CommitHeight \ skipped : n <= trie.committed => Right(disk, n)
        <3>1. ASSUME NEW n \in CommitHeight, n <= trie.committed PROVE n <= At
            <4>1. trie.committed \in Nat /\ trie.committed <= At
                BY Zenon, <1>1, <1>3
            <4>2. n \in Nat
                BY Zenon, HeightType
            <4> QED
                BY SMTT(30), <1>1, <3>1, <4>1, <4>2
        <3> QED
            BY Zenon, <1>0, <3>1 DEF StoreInv
    <2>4. /\ trie.committed \in trie.committed..number[t]
          /\ trie.committed >= nearestCommitHeight(At)
          /\ \A n \in CommitHeight : ~(n > trie.committed /\ n < trie.committed)
        <3>1. CommitHeight \subseteq Nat /\ trie.committed \in Nat /\ trie.committed <= At
            BY Zenon, <1>1, <1>3, HeightType
        <3>2. \A n \in CommitHeight : ~(n > trie.committed /\ n < trie.committed)
            BY SMTT(30), <3>1
        <3>3. trie.committed \in trie.committed..number[t]
            BY SMTT(30), <1>1, <2>1, <3>1
        <3>4. trie.committed >= nearestCommitHeight(At)
            BY <1>1, <1>3
        <3> QED
            BY Zenon, <3>2, <3>3, <3>4
    <2>5. \A n \in CommitHeight \ skipped' : n <= trie'.committed => Right(disk, n)'
        BY ZenonT(30), <1>0, <2>3 DEF Right
    <2>6. /\ trie'.committed = trie.committed /\ height' = trie.committed /\ target' = t
          /\ syncTrie' = CanonTo(height') /\ trie.committed % commitInterval = 0
          /\ mode' = "sync" /\ mode' # "mark"
        BY SMTT(30), <1>0, <1>1, <1>3
    <2> QED
        BY ZenonT(30), <1>2, <2>1, <2>2, <2>4, <2>5, <2>6 DEF SyncInv
<1>8. RefInv'
    BY Zenon, <1>0 DEF RefInv
<1>9. SharedMemoryExact'
    BY Zenon, <1>0, SharedMemoryKept
<1> QED
    BY ZenonT(30), <1>4, <1>5, <1>6, <1>7, <1>8, <1>9
=============================================================================
