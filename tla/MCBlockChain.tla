------------------------------ MODULE MCBlockChain ------------------------------
(* A block tree for TLC: a chain a1-a2-a3 and a fork b1-b2 from genesis.  *)
(* a1 and b1 have the same state root, as sibling blocks may.              *)
EXTENDS BlockChain

CONSTANTS g, a1, a2, a3, b1, b2

Tree(S) == [b \in S |-> CASE b = a1 -> g [] b = a2 -> a1 [] b = a3 -> a2
                          [] b = b1 -> g [] b = b2 -> b1 [] OTHER -> NoBlock]
MCParent == Tree(Block)
MCNumber == [b \in Block |-> CASE b = g -> 0 [] b \in {a1, b1} -> 1
                               [] b \in {a2, b2} -> 2 [] OTHER -> 3]
MCAncestors == [b \in Block |-> CASE b = g -> {g} [] b = a1 -> {g, a1}
                                  [] b = a2 -> {g, a1, a2}
                                  [] b = a3 -> {g, a1, a2, a3}
                                  [] b = b1 -> {g, b1} [] OTHER -> {g, b1, b2}]
MCRoot == [b \in Block |-> IF b = b1 THEN a1 ELSE b]
=============================================================================
